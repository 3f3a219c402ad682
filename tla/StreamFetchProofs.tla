-------------------------- MODULE StreamFetchProofs --------------------------
(***************************************************************************)
(* Proofs about StreamFetch for every plan, every retry count and every    *)
(* error limit.                                                            *)
(***************************************************************************)
EXTENDS StreamFetch, FiniteSetTheorems, TLAPS

(* The control state agrees with the data: what makes TypeOK inductive.    *)
Control ==
  /\ pc = "try" => pos \in Wanted
  /\ pc = "err" <=> fault # "none"
  /\ pc # "idle" => calls > 0
  /\ AbortIffOverBudget

(* The initial states are typed and their control state fits the data.      *)
LEMMA TypeInit == Init => TypeOK /\ Control
<1> SUFFICES ASSUME Init PROVE TypeOK /\ Control
  OBVIOUS
<1> USE StreamFetchAssumption DEF Init
<1>1. IsFiniteSet(lost)
  BY FS_EmptySet
<1>2. plan = << >> /\ file = << >>
  OBVIOUS
<1>3. have \in BOOLEAN
  BY Zenon
<1>4. TypeOK
  BY <1>1, <1>2, <1>3 DEF TypeOK, Running
<1>5. Control
  BY DEF Control, AbortIffOverBudget
<1>6. QED
  BY <1>4, <1>5

(* Every action keeps the type invariant, given the control facts.          *)
LEMMA TypeStep == TypeOK /\ Control /\ [Next]_vars => TypeOK' /\ Control'
<1> SUFFICES ASSUME TypeOK, Control, [Next]_vars PROVE TypeOK' /\ Control'
  OBVIOUS
<1> USE StreamFetchAssumption
<1>1. ASSUME NEW p \in Plans, NEW per \in Periods, Call(p, per)
      PROVE  TypeOK' /\ Control'
  <2>1. p \in Seq(Fragment) /\ Len(p) \in Nat
    OBVIOUS
  <2>2. file' \in Seq(1..Len(plan'))
    BY <1>1 DEF Call
  <2>3. have' \in BOOLEAN
    BY <1>1, Zenon DEF Call
  <2>4. TypeOK'
    BY <1>1, <2>1, <2>2, <2>3 DEF TypeOK, Call, Running, dsVars
  <2>5. Control'
    BY <1>1 DEF Control, AbortIffOverBudget, Call, dsVars, TypeOK
  <2>6. QED
    BY <2>4, <2>5
<1>2. CASE NextFragment
  <2>1. pos' \in 1..Len(plan) /\ pos' \in Wanted'
    BY <1>2 DEF TypeOK, NextFragment, Wanted, callVars
  <2>2. TypeOK'
    BY <1>2, <2>1 DEF TypeOK, NextFragment, Running, callVars
  <2>3. Control'
    BY <1>2, <2>1 DEF Control, AbortIffOverBudget, NextFragment, callVars
  <2>4. QED
    BY <2>2, <2>3
<1>3. ASSUME pc = "try" PROVE pos \in 1..Len(plan)
  BY <1>3 DEF TypeOK, Control, Wanted
<1>4. ASSUME pc = "try", Append1 PROVE TypeOK' /\ Control'
  <2>1. file' \in Seq(1..Len(plan'))
    BY <1>3, <1>4 DEF Append1, TypeOK, callVars
  <2>2. TypeOK'
    BY <1>3, <1>4, <2>1 DEF Append1, TypeOK, Running, callVars, dsVars
  <2>3. Control'
    BY <1>4 DEF Append1, Control, AbortIffOverBudget, dsVars, callVars
  <2>4. QED
    BY <2>2, <2>3
<1>5. CASE Embedded \/ FetchOk
  BY <1>4, <1>5 DEF Embedded, FetchOk, Attempting
<1>6. CASE BadEmbedded
  <2>1. TypeOK'
    BY <1>6 DEF BadEmbedded, TypeOK, Running, callVars, dsVars
  <2>2. Control'
    BY <1>6 DEF BadEmbedded, Control, AbortIffOverBudget, dsVars, callVars
  <2>3. QED
    BY <2>1, <2>2
<1>7. CASE FetchRejected
  <2>1. TypeOK'
    BY <1>3, <1>7 DEF FetchRejected, Attempting, TypeOK, Running, callVars, dsVars
  <2>2. Control'
    BY <1>7 DEF FetchRejected, Attempting, Control, AbortIffOverBudget, dsVars, callVars
  <2>3. QED
    BY <2>1, <2>2
<1>8. CASE FetchFails
  <2>1. pc = "try" /\ download_errors <= MaxErrorCount
    BY <1>8 DEF FetchFails, Attempting, Control, AbortIffOverBudget, TypeOK, callVars
  <2>2. TypeOK'
    BY <1>8, <2>1 DEF FetchFails, Attempting, TypeOK, Running, callVars
  <2>3. Control'
    BY <1>8, <2>1 DEF FetchFails, Attempting, Control, AbortIffOverBudget, Wanted, callVars, TypeOK
  <2>4. QED
    BY <2>2, <2>3
<1>9. CASE GiveUp
  <2>1. IsFiniteSet(lost')
    BY <1>9, FS_AddElement DEF GiveUp, TypeOK
  <2>2. calls \in 1..MaxCalls
    BY <1>9 DEF GiveUp, TypeOK, Control
  <2>3. TypeOK'
    BY <1>3, <1>9, <2>1, <2>2 DEF GiveUp, TypeOK, Running, callVars, dsVars
  <2>4. Control'
    BY <1>9 DEF GiveUp, Control, AbortIffOverBudget, dsVars, callVars
  <2>5. QED
    BY <2>3, <2>4
<1>10. CASE Finish
  <2>1. TypeOK'
    BY <1>10 DEF Finish, TypeOK, Running, callVars, dsVars
  <2>2. Control'
    BY <1>10 DEF Finish, Control, AbortIffOverBudget, dsVars, callVars
  <2>3. QED
    BY <2>1, <2>2
<1>11. CASE IoError
  <2>1. TypeOK'
    BY <1>11 DEF IoError, TypeOK, Running, callVars, dsVars
  <2>2. Control'
    BY <1>11 DEF IoError, Control, AbortIffOverBudget, dsVars, Running, callVars
  <2>3. QED
    BY <2>1, <2>2
<1>12. CASE UNCHANGED vars
  <2>1. TypeOK'
    BY <1>12 DEF TypeOK, vars, callVars, dsVars
  <2>2. Control'
    BY <1>12 DEF vars, Control, AbortIffOverBudget, dsVars, callVars, Wanted
  <2>3. QED
    BY <2>1, <2>2
<1>13. QED
  BY <1>1, <1>2, <1>5, <1>6, <1>7, <1>8, <1>9, <1>10, <1>11, <1>12 DEF Next, Step, Work

(* The type invariant of the retry loop, among it that the attempts never   *)
(* exceed fragment_retry_count and the errors the limit by more than one.   *)
THEOREM TypeCorrect == Spec => []TypeOK
<1>1. Spec => [](TypeOK /\ Control)
  BY TypeInit, TypeStep, PTL DEF Spec
<1>2. QED
  BY <1>1, PTL

-----------------------------------------------------------------------------

(* The attempts already spent on the fragment in hand count as well.       *)
Spent == IF pc = "try" THEN attempt ELSE 0

LossInv == Cardinality(lost) * FragmentRetryCount + Spent <= download_errors

(* No loss and no error at the start.                                       *)
LEMMA LossInit == Init => LossInv
  BY FS_EmptySet, StreamFetchAssumption DEF Init, LossInv, Spent

(* Losses stay paid for: GiveUp turns paid attempts into one more loss.     *)
LEMMA LossStep == TypeOK /\ LossInv /\ [Next]_vars => LossInv'
<1> SUFFICES ASSUME TypeOK, LossInv, [Next]_vars PROVE LossInv'
  OBVIOUS
<1> USE StreamFetchAssumption
<1>1. /\ Cardinality(lost) \in Nat /\ attempt \in Nat
      /\ download_errors \in Nat /\ FragmentRetryCount \in Nat
      /\ Cardinality(lost) * FragmentRetryCount \in Nat
  BY FS_CardinalityType DEF TypeOK
<1>2. ASSUME UNCHANGED <<lost, download_errors>>, Spent' <= Spent, Spent' \in Nat
      PROVE  LossInv'
  BY <1>1, <1>2 DEF LossInv, Spent
<1>3. ASSUME NEW p \in Plans, NEW per \in Periods, Call(p, per) PROVE LossInv'
  BY <1>1, <1>2, <1>3 DEF Call, dsVars, Spent
<1>4. CASE FetchFails
  <2>1. lost' = lost /\ download_errors' = download_errors + 1
        /\ Spent' <= Spent + 1 /\ Spent' \in Nat
    BY <1>1, <1>4 DEF FetchFails, Attempting, Spent
  <2>2. QED
    BY <1>1, <2>1 DEF LossInv, Spent
<1>5. CASE GiveUp
  <2>1. IsFiniteSet(lost)
    BY DEF TypeOK
  <2>2. Cardinality(lost') \in Nat /\ Cardinality(lost') <= Cardinality(lost) + 1
    <3>1. lost' = lost \cup {<<calls, pos>>}
      BY <1>5 DEF GiveUp
    <3>2. Cardinality(lost \cup {<<calls, pos>>})
            = IF <<calls, pos>> \in lost THEN Cardinality(lost) ELSE Cardinality(lost) + 1
      BY <2>1, FS_AddElement
    <3>3. QED
      BY <1>1, <3>1, <3>2
  <2>3. Cardinality(lost') * FragmentRetryCount
          <= (Cardinality(lost) + 1) * FragmentRetryCount
    BY <1>1, <2>2
  <2>4. (Cardinality(lost) + 1) * FragmentRetryCount
          = Cardinality(lost) * FragmentRetryCount + Spent
    BY <1>1, <1>5 DEF GiveUp, Spent
  <2>5. Spent' = 0 /\ download_errors' = download_errors
    BY <1>5 DEF GiveUp, Spent, dsVars
  <2>6. Cardinality(lost') * FragmentRetryCount \in Nat
    BY <1>1, <2>2
  <2>7. QED
    BY <1>1, <2>3, <2>4, <2>5, <2>6 DEF LossInv
<1>6. CASE NextFragment \/ Embedded \/ FetchOk \/ FetchRejected \/ BadEmbedded
           \/ Finish \/ IoError \/ UNCHANGED vars
  BY <1>1, <1>2, <1>6
     DEF NextFragment, Embedded, FetchOk, FetchRejected, BadEmbedded, Finish, IoError,
         Append1, Attempting, Spent, dsVars, vars
<1>7. QED
  BY <1>3, <1>4, <1>5, <1>6 DEF Next, Step, Work

(* No more than MaxErrorCount / FragmentRetryCount fragments are missing   *)
(* from the streams of a download that goes on, for every plan and limit.  *)
THEOREM LossIsBounded == Spec => []LossBudget
<1> USE StreamFetchAssumption
<1>1. TypeOK /\ Control /\ LossInv => LossBudget
  <2> SUFFICES ASSUME TypeOK, Control, LossInv PROVE LossBudget
    OBVIOUS
  <2>1. Cardinality(lost) \in Nat /\ Spent \in Nat
    BY FS_CardinalityType DEF TypeOK, Spent
  <2>2. Cardinality(lost) * FragmentRetryCount \in Nat
    BY <2>1
  <2>3. Cardinality(lost) * FragmentRetryCount <= download_errors
    BY <2>1, <2>2 DEF LossInv, TypeOK
  <2>4. pc # "err" => download_errors <= MaxErrorCount
    BY DEF Control, AbortIffOverBudget, TypeOK
  <2>5. QED
    BY <2>2, <2>3, <2>4 DEF LossBudget, TypeOK
<1>2. Spec => [](TypeOK /\ Control /\ LossInv)
  BY TypeInit, TypeStep, LossInit, LossStep, PTL DEF Spec
<1>3. QED
  BY <1>1, <1>2, PTL

(* A download stops for network errors exactly when its limit is exceeded. *)
THEOREM AbortIsExact == Spec => []AbortIffOverBudget
<1>1. Control => AbortIffOverBudget
  BY DEF Control
<1>2. Spec => [](TypeOK /\ Control)
  BY TypeInit, TypeStep, PTL DEF Spec
<1>3. QED
  BY <1>1, <1>2, PTL

-----------------------------------------------------------------------------

(* Every fragment the loop is past was delivered, lost or rejected.        *)
AccountInv ==
  /\ Settled = Delivered \cup LostHere \cup rejected
  /\ Delivered \cap LostHere = {}
  /\ rejected \cap (Delivered \cup LostHere) = {}
  /\ \A l \in lost : l[1] <= calls

Increasing == \A i, j \in DOMAIN file : i < j => file[i] < file[j]

OrderInv == AccountInv /\ Increasing

(* The empty file is in order.                                              *)
LEMMA OrderInit == Init => OrderInv
  BY DEF Init, OrderInv, AccountInv, Increasing, Settled, Wanted, Delivered, LostHere

(* Every action keeps the file in order and its fragments accounted for.    *)
LEMMA OrderStep == TypeOK /\ Control /\ OrderInv /\ [Next]_vars => OrderInv'
<1> SUFFICES ASSUME TypeOK, Control, OrderInv, [Next]_vars PROVE OrderInv'
  OBVIOUS
<1> USE StreamFetchAssumption
<1>1. pos \in Nat /\ calls \in Nat /\ Len(plan) \in Nat /\ DOMAIN plan = 1..Len(plan)
  BY DEF TypeOK
<1>2. ASSUME pc = "try" PROVE pos \in Wanted /\ pos \notin Settled
  BY <1>1, <1>2 DEF Control, Settled
<1>3. ASSUME UNCHANGED callVars, pos' = pos + 1, pos \in Wanted
      PROVE  Settled' = Settled \cup {pos} /\ Wanted' = Wanted
  BY <1>1, <1>3 DEF Settled, Wanted, callVars
<1>4. ASSUME NEW p \in Plans, NEW per \in Periods, Call(p, per) PROVE OrderInv'
  <2>1. p \in Seq(Fragment)
    OBVIOUS
  <2>2. Wanted' \subseteq 1..Len(p) /\ Settled' = {}
    BY <1>4, <2>1 DEF Call, Wanted, Settled
  <2>3. LostHere' = {}
    BY <1>1, <1>4 DEF Call, LostHere, OrderInv, AccountInv
  <2>4. Delivered' = {} /\ rejected' = {} /\ Increasing'
    BY <1>4 DEF Call, Delivered, Increasing
  <2>5. \A l \in lost' : l[1] <= calls'
    <3>1. \A l \in lost : l[1] \in Nat
      BY DEF TypeOK
    <3>2. QED
      BY <1>1, <1>4, <3>1 DEF Call, OrderInv, AccountInv
  <2>6. QED
    BY <2>2, <2>3, <2>4, <2>5 DEF OrderInv, AccountInv
<1>5. CASE NextFragment
  <2>1. Settled' = Settled
    BY <1>1, <1>5 DEF NextFragment, Settled, Wanted, callVars
  <2>2. QED
    BY <1>5, <2>1
       DEF NextFragment, OrderInv, AccountInv, Increasing, Delivered, LostHere, callVars
<1>6. ASSUME pc = "try", Append1 PROVE OrderInv'
  <2>1. pos \in Wanted /\ pos \notin Settled
    BY <1>2, <1>6
  <2>2. Settled' = Settled \cup {pos}
    BY <1>3, <1>6, <2>1 DEF Append1
  <2>3. pos \in 1..Len(plan)
    BY <1>1, <2>1 DEF Wanted
  <2>4. Delivered' = Delivered \cup {pos}
    <3>1. file \in Seq(1..Len(plan)) /\ file' = Append(file, pos)
      BY <1>6 DEF Append1, TypeOK
    <3>2. /\ Len(file) \in Nat /\ DOMAIN file = 1..Len(file)
          /\ DOMAIN file' = 1..(Len(file) + 1)
          /\ file'[Len(file) + 1] = pos
          /\ \A i \in 1..Len(file) : file'[i] = file[i]
      BY <2>3, <3>1
    <3>3. \A p \in Delivered' : p \in Delivered \cup {pos}
      BY <3>2 DEF Delivered
    <3>4. \A p \in Delivered \cup {pos} : p \in Delivered'
      BY <3>2 DEF Delivered
    <3>5. QED
      BY <3>3, <3>4
  <2>5. LostHere' = LostHere /\ rejected' = rejected /\ lost' = lost /\ calls' = calls
    BY <1>6 DEF Append1, LostHere, callVars
  <2>6. AccountInv'
    BY <2>1, <2>2, <2>4, <2>5 DEF OrderInv, AccountInv
  <2>7. \A i \in DOMAIN file : file[i] \in Settled
    BY DEF OrderInv, AccountInv, Delivered
  <2>8. \A i \in DOMAIN file : file[i] < pos
    BY <2>7 DEF Settled
  <2>9. Increasing'
    BY <1>6, <2>3, <2>8 DEF Append1, Increasing, OrderInv, TypeOK
  <2>10. QED
    BY <2>6, <2>9 DEF OrderInv
<1>7. CASE Embedded \/ FetchOk
  BY <1>6, <1>7 DEF Embedded, FetchOk, Attempting
<1>8. CASE FetchRejected
  <2>1. pos \in Wanted /\ pos \notin Settled
    BY <1>2, <1>8 DEF FetchRejected, Attempting
  <2>2. Settled' = Settled \cup {pos}
    BY <1>3, <1>8, <2>1 DEF FetchRejected
  <2>3. Delivered' = Delivered /\ LostHere' = LostHere /\ rejected' = rejected \cup {pos}
        /\ lost' = lost /\ calls' = calls /\ file' = file
    BY <1>8 DEF FetchRejected, Delivered, LostHere, callVars
  <2>4. QED
    BY <2>1, <2>2, <2>3 DEF OrderInv, AccountInv, Increasing
<1>9. CASE GiveUp
  <2>1. pos \in Wanted /\ pos \notin Settled
    BY <1>2, <1>9 DEF GiveUp
  <2>2. Settled' = Settled \cup {pos}
    BY <1>3, <1>9, <2>1 DEF GiveUp
  <2>3. LostHere' = LostHere \cup {pos}
    <3>1. lost' = lost \cup {<<calls, pos>>} /\ calls' = calls /\ plan' = plan
      BY <1>9 DEF GiveUp, callVars
    <3>2. \A p \in DOMAIN plan : <<calls, p>> \in lost' <=> <<calls, p>> \in lost \/ p = pos
      BY <3>1
    <3>3. QED
      BY <2>1, <3>1, <3>2 DEF LostHere, Wanted
  <2>4. Delivered' = Delivered /\ rejected' = rejected /\ file' = file
    BY <1>9 DEF GiveUp, Delivered
  <2>5. \A l \in lost' : l[1] <= calls'
    BY <1>1, <1>9 DEF GiveUp, OrderInv, AccountInv, callVars
  <2>6. QED
    BY <2>1, <2>2, <2>3, <2>4, <2>5 DEF OrderInv, AccountInv, Increasing
<1>10. CASE BadEmbedded \/ FetchFails \/ Finish \/ IoError \/ UNCHANGED vars
  BY <1>10
     DEF BadEmbedded, FetchFails, Finish, IoError, vars, callVars, dsVars, OrderInv,
         AccountInv, Increasing, Settled, Wanted, Delivered, LostHere
<1>11. QED
  BY <1>4, <1>5, <1>7, <1>8, <1>9, <1>10 DEF Next, Step, Work

(* Everything that is inductive, as one invariant.                         *)
IInv == TypeOK /\ Control /\ LossInv /\ OrderInv

(* The three parts of the inductive invariant together.                     *)
LEMMA Inductive == Spec => []IInv
  BY TypeInit, TypeStep, LossInit, LossStep, OrderInit, OrderStep, PTL DEF Spec, IInv

(* The output file holds the fragments of the period in manifest order,    *)
(* each at most once, whatever fails and however often it is retried.      *)
THEOREM FileIsOrdered == Spec => []InOrderOnce
<1>1. IInv => InOrderOnce
  BY DEF IInv, OrderInv, AccountInv, Increasing, InOrderOnce, Settled
<1>2. QED
  BY <1>1, Inductive, PTL

(* A stream that completes has dealt with every fragment of its period.    *)
THEOREM NothingUnnoticed == Spec => []Accounted
<1> DEFINE Past == pc = "ok" => \A p \in Wanted : p < pos
<1>1. Init => Past
  BY DEF Init
<1>2. Past /\ [Next]_vars => Past'
  BY DEF Next, Step, Work, Call, NextFragment, Embedded, BadEmbedded, FetchOk, FetchRejected,
         FetchFails, GiveUp, Finish, IoError, Append1, Attempting, vars, callVars, Wanted,
         Running
<1>3. IInv /\ Past => Accounted
  BY DEF IInv, OrderInv, AccountInv, Accounted, Settled
<1>4. Spec => []Past
  BY <1>1, <1>2, PTL DEF Spec
<1>5. QED
  BY <1>3, <1>4, Inductive, PTL

(* The error count of the download never goes down and grows by one.       *)
THEOREM ErrorsAccumulate == Spec => ErrorsOnlyGrow
<1>1. TypeOK /\ [Next]_vars => [download_errors' \in download_errors..(download_errors + 1)]_vars
  BY DEF TypeOK, Next, Step, Work, Call, NextFragment, Embedded, BadEmbedded, FetchOk,
         FetchRejected, FetchFails, GiveUp, Finish, IoError, Append1, Attempting, vars, dsVars
<1>2. QED
  BY <1>1, TypeCorrect, PTL DEF Spec, ErrorsOnlyGrow

-----------------------------------------------------------------------------

(* Initial states map to initial states of OrderedDelivery.                 *)
LEMMA PromiseInit == Init => Delivery!Init
<1> SUFFICES ASSUME Init PROVE Delivery!Init
  OBVIOUS
<1>1. Cardinality(lost) = 0
  BY FS_EmptySet DEF Init
<1>2. Wanted = {} /\ Settled = {}
  BY DEF Init, Wanted, Settled
<1>3. file = << >> /\ Status = "idle"
  BY DEF Init, Status, Running
<1>4. QED
  BY <1>1, <1>2, <1>3 DEF Delivery!Init

(* Every step of the loop maps to a step of OrderedDelivery or a stutter.   *)
LEMMA PromiseStep == IInv /\ [Next]_vars => [Delivery!Next]_(Delivery!vars)
<1> SUFFICES ASSUME IInv, [Next]_vars PROVE [Delivery!Next]_(Delivery!vars)
  OBVIOUS
<1> USE StreamFetchAssumption DEF IInv
<1>1. /\ pos \in Nat /\ Len(plan) \in Nat /\ DOMAIN plan = 1..Len(plan)
      /\ Wanted \subseteq Nat \ {0}
  BY DEF TypeOK, Wanted
<1>2. ASSUME NEW p \in Plans, NEW per \in Periods, Call(p, per) PROVE Delivery!Begin
  <2>1. p \in Seq(Fragment)
    OBVIOUS
  <2>2. Wanted' \subseteq Nat \ {0} /\ Settled' = {}
    BY <1>2, <2>1 DEF Call, Wanted, Settled
  <2>3. Status \in {"idle", "complete"} /\ Status' = "running"
    BY <1>2 DEF Call, Status, Running
  <2>4. QED
    BY <1>2, <2>2, <2>3 DEF Call, Delivery!Begin
<1>3. CASE NextFragment
  <2>1. Settled' = Settled /\ Wanted' = Wanted
    BY <1>1, <1>3 DEF NextFragment, Settled, Wanted, callVars
  <2>2. Status' = Status
    BY <1>3 DEF NextFragment, Status, Running
  <2>3. QED
    BY <1>3, <2>1, <2>2 DEF NextFragment, Delivery!vars
<1>4. ASSUME pc = "try", pc' = "next", UNCHANGED callVars, pos' = pos + 1
      PROVE  Delivery!Settle(pos) /\ pos \in Wanted
  <2>1. pos \in Wanted \ Settled
    BY <1>1, <1>4 DEF Control, Settled
  <2>2. Wanted' = Wanted /\ Settled' = Settled \cup {pos}
    BY <1>1, <1>4, <2>1 DEF Settled, Wanted, callVars
  <2>3. \A q \in Wanted \ Settled : pos <= q
    BY <1>1 DEF Settled
  <2>4. Status = "running" /\ Status' = "running"
    BY <1>4 DEF Status, Running
  <2>5. QED
    BY <2>1, <2>2, <2>3, <2>4 DEF Delivery!Settle
<1>5. CASE Embedded \/ FetchOk
  <2>1. pc = "try" /\ Append1
    BY <1>5 DEF Embedded, FetchOk, Attempting
  <2>2. Delivery!Settle(pos) /\ pos \in Wanted
    BY <1>4, <2>1 DEF Append1
  <2>3. file' = Append(file, pos) /\ lost' = lost
    BY <2>1 DEF Append1
  <2>4. Delivery!Deliver
    BY <2>2, <2>3 DEF Delivery!Deliver
  <2>5. QED
    BY <2>4 DEF Delivery!Next
<1>6. CASE FetchRejected
  <2>1. Delivery!Settle(pos) /\ pos \in Wanted
    BY <1>4, <1>6 DEF FetchRejected, Attempting
  <2>2. Delivery!Discard
    BY <1>6, <2>1 DEF FetchRejected, Delivery!Discard
  <2>3. QED
    BY <2>2 DEF Delivery!Next
<1>7. CASE GiveUp
  <2>1. Delivery!Settle(pos) /\ pos \in Wanted
    BY <1>4, <1>7 DEF GiveUp
  <2>2. Cardinality(lost') = Cardinality(lost) + 1
    <3>1. pos \in Wanted /\ pos \notin LostHere
      BY <1>1, <1>7, <2>1 DEF GiveUp, OrderInv, AccountInv, Settled
    <3>2. <<calls, pos>> \notin lost
      BY <3>1 DEF LostHere, Wanted
    <3>3. lost' = lost \cup {<<calls, pos>>} /\ IsFiniteSet(lost)
      BY <1>7 DEF GiveUp, TypeOK
    <3>4. QED
      BY <3>2, <3>3, FS_AddElement
  <2>3. Cardinality(lost') * FragmentRetryCount <= MaxErrorCount
    <3>1. LossInv' /\ TypeOK' /\ Control'
      BY LossStep, TypeStep
    <3>2. pc' = "next" /\ download_errors' <= MaxErrorCount
      BY <1>7, <3>1 DEF GiveUp, Control, AbortIffOverBudget, TypeOK
    <3>3. Cardinality(lost') * FragmentRetryCount \in Nat /\ Spent' = 0
      BY <3>1, <3>2, FS_CardinalityType DEF TypeOK, Spent
    <3>4. QED
      BY <3>1, <3>2, <3>3, SMTT(60) DEF LossInv, TypeOK
  <2>4. Delivery!Lose
    BY <1>7, <2>1, <2>2, <2>3 DEF GiveUp, Delivery!Lose
  <2>5. QED
    BY <2>4 DEF Delivery!Next
<1>8. CASE Finish
  <2>1. Settled = Wanted /\ Wanted' = Wanted /\ Settled' = Settled
    BY <1>8 DEF Finish, Settled, Wanted, callVars
  <2>2. Status = "running" /\ Status' = "complete"
    BY <1>8 DEF Finish, Status, Running
  <2>3. QED
    BY <1>8, <2>1, <2>2 DEF Finish, Delivery!Complete, Delivery!Next
<1>9. CASE BadEmbedded \/ FetchFails \/ IoError
  <2>1. Settled' = Settled /\ Wanted' = Wanted /\ file' = file /\ lost' = lost
    BY <1>9 DEF BadEmbedded, FetchFails, IoError, Settled, Wanted, callVars
  <2>2. Status = "running" /\ Status' \in {"running", "failed"}
    BY <1>9 DEF BadEmbedded, FetchFails, IoError, Attempting, Status, Running
  <2>3. QED
    BY <2>1, <2>2 DEF Delivery!Fail, Delivery!Next, Delivery!vars
<1>10. CASE UNCHANGED vars
  BY <1>10 DEF vars, callVars, Delivery!vars, Wanted, Settled, Status
<1>11. QED
  BY <1>2, <1>3, <1>5, <1>6, <1>7, <1>8, <1>9, <1>10 DEF Next, Step, Work, Delivery!Next

(* Every behaviour of the loop is a behaviour of its specification.        *)
THEOREM ImplementsPromise == Spec => KeepsPromise
<1>1. Spec => Delivery!Init /\ [][Delivery!Next]_(Delivery!vars)
  BY PromiseInit, PromiseStep, Inductive, PTL DEF Spec
<1>2. QED
  BY <1>1 DEF KeepsPromise, Delivery!Spec
=============================================================================
