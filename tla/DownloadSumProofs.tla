-------------------------- MODULE DownloadSumProofs --------------------------
(***************************************************************************)
(* Proofs about Download that sum over the periods or join their outputs:  *)
(* the count of the fragments, the progress computed from it, the types,   *)
(* and what the joined file holds.                                         *)
(***************************************************************************)
EXTENDS DownloadProofs, RecursionLemmas

(* The fragments of a planned period, and of the first k of them.           *)
Size(k) == pds[k].audio + pds[k].video + pds[k].subs
Sizes == [k \in 1..Len(pds) |-> Size(k)]
Upto == CHOOSE upto :
          upto = [k \in 0..Len(pds) |->
                    IF k = 0 THEN 0 ELSE upto[k - 1] + pds[k].audio + pds[k].video + pds[k].subs]

(* A planned period has some number of fragments of each kind.              *)
LEMMA SizeType ==
  ASSUME PlanInv, NEW k \in 1..Len(pds)
  PROVE  /\ pds[k].audio \in Nat /\ pds[k].video \in Nat /\ pds[k].subs \in Nat
         /\ Size(k) \in Nat
<1>1. pds[k] \in Planned
  BY DEF PlanInv
<1> QED
  BY <1>1 DEF Planned, Size

(* segment_count is the sum over all planned periods.                       *)
LEMMA CountIsSum ==
  ASSUME PlanInv
  PROVE  /\ segment_count = Upto[Len(pds)]
         /\ IsSums(Upto, Sizes, Len(pds))
<1> DEFINE Adds(s) == s = [k \in 0..Len(pds) |->
                             IF k = 0 THEN 0
                             ELSE s[k - 1] + pds[k].audio + pds[k].video + pds[k].subs]
           n == Len(pds)
<1>0. n \in Nat /\ \A k \in 1..n : Sizes[k] = Size(k) /\ Sizes[k] \in Nat
  BY SizeType DEF PlanInv, Sizes
<1>1. segment_count = Upto[Len(pds)]
  BY DEF segment_count, Upto
<1>2. ASSUME NEW x \in Nat, NEW k \in 1..n
      PROVE  x + Sizes[k] = x + pds[k].audio + pds[k].video + pds[k].subs
  BY <1>0, SizeType, SMTT(60) DEF Size
<1>3. PICK s : IsSums(s, Sizes, n)
  BY <1>0, SumsExist
<1>4. \A k \in 0..n : s[k] \in Nat
  BY <1>0, <1>3, SumsGrow
<1>5. Adds(s)
  <2>1. \A k \in 0..n : s[k] = IF k = 0 THEN 0 ELSE s[k - 1] + Sizes[k]
    BY <1>3 DEF IsSums
  <2>2. ASSUME NEW k \in 0..n
        PROVE  s[k] = IF k = 0 THEN 0
                      ELSE s[k - 1] + pds[k].audio + pds[k].video + pds[k].subs
    <3>1. CASE k = 0
      BY <2>1, <3>1
    <3>2. CASE k # 0
      <4>1. k \in 1..n /\ k - 1 \in 0..n
        BY <1>0, <3>2
      <4>2. s[k] = s[k - 1] + Sizes[k] /\ s[k - 1] \in Nat
        BY <1>4, <2>1, <3>2, <4>1
      <4> QED
        BY <1>2, <3>2, <4>1, <4>2
    <3> QED
      BY <3>1, <3>2
  <2>3. s = [k \in 0..n |-> s[k]]
    BY <1>3 DEF IsSums
  <2>4. [k \in 0..n |-> s[k]]
          = [k \in 0..n |-> IF k = 0 THEN 0
                            ELSE s[k - 1] + pds[k].audio + pds[k].video + pds[k].subs]
    BY <2>2
  <2> QED
    BY <2>3, <2>4, Zenon
<1>6. Adds(Upto)
  BY <1>5 DEF Upto
<1>7. \A k \in 0..n : Upto[k] = s[k]
  <2>1. \A k \in 0..n : /\ Upto[k] = IF k = 0 THEN 0
                             ELSE Upto[k - 1] + pds[k].audio + pds[k].video + pds[k].subs
                        /\ s[k] = IF k = 0 THEN 0
                             ELSE s[k - 1] + pds[k].audio + pds[k].video + pds[k].subs
    BY <1>5, <1>6
  <2> DEFINE T == {k \in Nat : k <= n => Upto[k] = s[k]}
  <2>2. 0 \in T
    BY <2>1
  <2>3. ASSUME NEW k \in Nat, k \in T PROVE k + 1 \in T
    BY <2>1, <2>3
  <2> HIDE DEF T
  <2>4. Nat \subseteq T
    BY <2>2, <2>3, EveryNumber
  <2> QED
    BY <2>4 DEF T
<1>8. Upto = s
  <2>1. Upto = [k \in 0..n |-> Upto[k]] /\ s = [k \in 0..n |-> s[k]]
    BY <1>5, <1>6
  <2>2. [k \in 0..n |-> Upto[k]] = [k \in 0..n |-> s[k]]
    BY <1>7
  <2> QED
    BY <2>1, <2>2, Zenon
<1> QED
  BY <1>1, <1>3, <1>8

(* The running sums, as the counter uses them.                              *)
SumFacts ==
  /\ Upto[0] = 0
  /\ segment_count \in Nat
  /\ \A k \in 0..Len(pds) : Upto[k] \in Nat /\ Upto[k] <= segment_count
  /\ Upto[Len(pds)] = segment_count
  /\ \A k \in 1..Len(pds) : Upto[k] = Upto[k - 1] + Size(k)

(* They hold of every plan.                                                 *)
LEMMA SumsHold == PlanInv => SumFacts
<1> SUFFICES ASSUME PlanInv PROVE SumFacts
  OBVIOUS
<1> DEFINE n == Len(pds)
<1>0. n \in Nat /\ \A k \in 1..n : Sizes[k] = Size(k) /\ Sizes[k] \in Nat
  BY SizeType DEF PlanInv, Sizes
<1>1. segment_count = Upto[n] /\ IsSums(Upto, Sizes, n)
  BY CountIsSum
<1>2. /\ \A k \in 0..n : Upto[k] \in Nat
      /\ \A j, k \in 0..n : j <= k => Upto[j] <= Upto[k]
  BY <1>0, <1>1, SumsGrow
<1>3. \A k \in 0..n : Upto[k] = IF k = 0 THEN 0 ELSE Upto[k - 1] + Sizes[k]
  BY <1>1 DEF IsSums
<1>4. \A k \in 1..n : Upto[k] = Upto[k - 1] + Size(k)
  BY <1>0, <1>3
<1>5. Upto[0] = 0
  BY <1>0, <1>3
<1> QED
  BY <1>0, <1>1, <1>2, <1>4, <1>5 DEF SumFacts

-----------------------------------------------------------------------------

(* What the streams of the period in hand that are done with had.           *)
PastFragments ==
  (IF "audio" \in Past THEN pds[d].audio ELSE 0)
    + (IF "video" \in Past THEN pds[d].video ELSE 0)
    + (IF "subs" \in Past THEN pds[d].subs ELSE 0)

(* The counter is at the fragments of the periods and the streams that are  *)
(* done with, and those of the stream in hand that are settled: always the  *)
(* first ones of it.                                                        *)
CountInv ==
  /\ segment_counter \in Nat /\ segment_counter <= segment_count
  /\ pc \notin {"failed", "panic"} =>
       /\ pc \in {"done", "joined", "unjoined"} => d = Len(pds)
       /\ pc \notin InPeriod => segment_counter = Upto[d]
       /\ pc \in InPeriod /\ status # "running" => segment_counter = Upto[d - 1] + PastFragments
       /\ status = "running" =>
            \E m \in 0..pds[d][pc] :
              /\ wanted = 1..pds[d][pc] /\ settled = 1..m
              /\ segment_counter = Upto[d - 1] + PastFragments + m

(* The streams of a period come one after the other and make it up.         *)
LEMMA PastType ==
  ASSUME PlanInv, pc \in InPeriod
  PROVE  /\ d \in 1..Len(pds) /\ PastFragments \in Nat /\ Upto[d - 1] \in Nat
         /\ pc \in Kinds => /\ pds[d][pc] \in Nat
                            /\ PastFragments + pds[d][pc] <= Size(d)
         /\ pc \notin Kinds => PastFragments = Size(d)
         /\ Upto[d - 1] + Size(d) = Upto[d] /\ Upto[d] <= segment_count
<1>1. d \in 1..Len(pds)
  BY DEF PlanInv
<1>2. /\ pds[d].audio \in Nat /\ pds[d].video \in Nat /\ pds[d].subs \in Nat
      /\ Size(d) = pds[d].audio + pds[d].video + pds[d].subs
  BY <1>1, SizeType DEF Size
<1>3. SumFacts
  BY SumsHold
<1>4. Upto[d - 1] \in Nat /\ Upto[d] = Upto[d - 1] + Size(d) /\ Upto[d] <= segment_count
  BY <1>1, <1>3 DEF SumFacts, PlanInv
<1>5. /\ PastFragments \in Nat
      /\ pc \in Kinds => pds[d][pc] \in Nat /\ PastFragments + pds[d][pc] <= Size(d)
      /\ pc \notin Kinds => PastFragments = Size(d)
  <2>1. CASE pc = "audio"
    BY <1>2, <2>1 DEF PastFragments, Past, Kinds
  <2>2. CASE pc = "video"
    BY <1>2, <2>2 DEF PastFragments, Past, Kinds
  <2>3. CASE pc = "subs"
    BY <1>2, <2>3 DEF PastFragments, Past, Kinds
  <2>4. CASE pc \notin Kinds
    BY <1>2, <2>4 DEF PastFragments, Past, Kinds
  <2> QED
    BY <2>1, <2>2, <2>3, <2>4 DEF Kinds
<1> QED
  BY <1>1, <1>4, <1>5

(* A stream that is done with is one of the past.                           *)
LEMMA PastGrows ==
  ASSUME PlanInv, NEW kind \in Kinds, pc = kind, pc' = After(kind), UNCHANGED <<d, pds>>
  PROVE  PastFragments' = PastFragments + pds[d][kind]
<1>1. pc \in InPeriod
  BY DEF InPeriod
<1>2. d \in 1..Len(pds)
  BY <1>1, PastType
<1>3. pds[d].audio \in Nat /\ pds[d].video \in Nat /\ pds[d].subs \in Nat
  BY <1>2, SizeType
<1>4. CASE kind = "audio"
  BY <1>3, <1>4 DEF PastFragments, Past, After, Kinds
<1>5. CASE kind = "video"
  BY <1>3, <1>5 DEF PastFragments, Past, After, Kinds
<1>6. CASE kind = "subs"
  BY <1>3, <1>6 DEF PastFragments, Past, After, Kinds
<1> QED
  BY <1>4, <1>5, <1>6 DEF Kinds

(* The sums are those of the plan.                                          *)
LEMMA SamePlan ==
  ASSUME pds' = pds
  PROVE  Upto' = Upto /\ segment_count' = segment_count /\ \A k : Size(k)' = Size(k)
  BY DEF Upto, segment_count, Size

(* One more fragment of the stream in hand is settled: the next one.        *)
LEMMA NextSettled ==
  ASSUME NEW n \in Nat, NEW m \in 0..n, wanted = 1..n, settled = 1..m,
         \E p \in wanted : Delivery!Settle(p)
  PROVE  m + 1 \in 0..n /\ settled' = 1..(m + 1) /\ wanted' = wanted
<1>1. PICK p \in wanted : Delivery!Settle(p)
  OBVIOUS
<1>2. p \in 1..n /\ p \notin 1..m /\ \A q \in (1..n) \ (1..m) : p <= q
  BY <1>1 DEF Delivery!Settle
<1>3. p = m + 1
  <2>1. p >= m + 1 /\ m + 1 \in (1..n) \ (1..m)
    BY <1>2
  <2> QED
    BY <1>2, <2>1
<1>4. settled' = (1..m) \cup {m + 1} /\ wanted' = wanted
  BY <1>1, <1>3 DEF Delivery!Settle
<1>5. (1..m) \cup {m + 1} = 1..(m + 1)
  OBVIOUS
<1> QED
  BY <1>2, <1>3, <1>4, <1>5

(* A fragment of the stream in hand is dealt with.                          *)
FragmentSettled(kind) ==
  FragmentDelivered(kind) \/ FragmentDiscarded(kind) \/ FragmentLost(kind)

(* Each way to deal with a fragment settles the next one and counts it.     *)
LEMMA FragmentCounts ==
  ASSUME NEW kind \in Kinds, FragmentSettled(kind)
  PROVE  /\ pc = kind /\ pc' = pc /\ status = "running" /\ status' = status
         /\ UNCHANGED planVars /\ d' = d
         /\ segment_counter' = segment_counter + 1
         /\ \E p \in wanted : Delivery!Settle(p)
         /\ \E e : Settled(kind, e)
<1>1. \E e : Settled(kind, e)
  BY DEF FragmentSettled, FragmentDelivered, FragmentDiscarded, FragmentLost
<1>2. \E p \in wanted : Delivery!Settle(p)
  BY DEF FragmentSettled, FragmentDelivered, FragmentDiscarded, FragmentLost, Delivery!Deliver,
         Delivery!Discard, Delivery!Lose
<1> QED
  BY <1>1, <1>2 DEF Settled, Fetching, Delivery!Settle

(* What a stream does to the count.                                         *)
LEMMA CountStream ==
  ASSUME PlanInv, CountInv, NEW kind \in Kinds,
         SkipStream(kind) \/ StartStream(kind) \/ FragmentSettled(kind) \/ StreamDone(kind)
  PROVE  CountInv'
<1>1. /\ pc = kind /\ pds' = pds /\ d' = d /\ pc \in InPeriod
      /\ pc' \in Kinds \cup {"mux"}
  BY FragmentCounts
     DEF SkipStream, StartStream, StreamDone, Fetching, planVars, After, InPeriod, Kinds
<1>2. Upto' = Upto /\ segment_count' = segment_count
  BY <1>1, SamePlan
<1>3. /\ d \in 1..Len(pds) /\ PastFragments \in Nat /\ Upto[d - 1] \in Nat
      /\ pds[d][kind] \in Nat /\ PastFragments + pds[d][kind] <= Size(d)
      /\ Upto[d - 1] + Size(d) = Upto[d] /\ Upto[d] <= segment_count
  BY <1>1, PastType
<1>4. /\ segment_counter \in Nat /\ segment_counter <= segment_count /\ segment_count \in Nat
      /\ Upto[d] \in Nat /\ Size(d) \in Nat
  BY <1>3, SumsHold, SizeType DEF CountInv, SumFacts, PlanInv
<1>5. pc' \notin {"failed", "panic", "done", "joined", "unjoined"} /\ pc' \in InPeriod
      /\ pc \notin {"failed", "panic"}
  BY <1>1 DEF InPeriod, Kinds
<1>6. CASE SkipStream(kind)
  <2>1. /\ pc' = After(kind) /\ status # "running" /\ status' = status
        /\ pds[d][kind] = 0 /\ segment_counter' = segment_counter
    BY <1>6 DEF SkipStream, streamVars, dsVars
  <2>2. PastFragments' = PastFragments
    BY <1>1, <1>3, <2>1, PastGrows
  <2> QED
    BY <1>1, <1>2, <1>4, <1>5, <2>1, <2>2 DEF CountInv
<1>7. CASE StartStream(kind)
  <2>1. /\ pc' = pc /\ status # "running" /\ status' = "running"
        /\ wanted' = 1..pds[d][kind] /\ settled' = {} /\ segment_counter' = segment_counter
    BY <1>7 DEF StartStream, Delivery!Begin, dsVars
  <2>2. PastFragments' = PastFragments
    BY <1>1, <2>1 DEF PastFragments, Past
  <2>3. {} = 1..0 /\ 0 \in 0..pds[d][kind]
    BY <1>3
  <2>4. segment_counter = Upto[d - 1] + PastFragments + 0
    BY <1>1, <1>3, <1>5, <2>1 DEF CountInv
  <2>5. \E m \in 0..pds'[d'][pc'] :
              /\ wanted' = 1..pds'[d'][pc'] /\ settled' = 1..m
              /\ segment_counter' = Upto'[d' - 1] + PastFragments' + m
    BY <1>1, <1>2, <2>1, <2>2, <2>3, <2>4
  <2> QED
    BY <1>2, <1>4, <1>5, <2>1, <2>5 DEF CountInv
<1>8. CASE FragmentSettled(kind)
  <2>1. /\ pc' = pc /\ status = "running" /\ status' = status
        /\ segment_counter' = segment_counter + 1
        /\ \E p \in wanted : Delivery!Settle(p)
    BY <1>8, FragmentCounts
  <2>2. PICK m \in 0..pds[d][pc] :
              /\ wanted = 1..pds[d][pc] /\ settled = 1..m
              /\ segment_counter = Upto[d - 1] + PastFragments + m
    BY <1>5, <2>1 DEF CountInv
  <2>3. m + 1 \in 0..pds[d][pc] /\ settled' = 1..(m + 1) /\ wanted' = wanted
    BY <1>1, <1>3, <2>1, <2>2, NextSettled
  <2>4. PastFragments' = PastFragments
    BY <1>1, <2>1 DEF PastFragments, Past
  <2>n. pds[d][pc] \in Nat /\ PastFragments + pds[d][pc] <= Size(d)
    BY <1>1, <1>3
  <2>m. m \in Nat /\ m + 1 <= pds[d][pc]
    BY <2>2, <2>3, <2>n
  <2>5. segment_counter' = Upto[d - 1] + PastFragments + (m + 1)
    <3>1. segment_counter' = (Upto[d - 1] + PastFragments + m) + 1
      BY <2>1, <2>2
    <3>2. Upto[d - 1] \in Nat /\ PastFragments \in Nat /\ m \in Nat
      BY <1>3, <2>m
    <3>3. \A x, y, z \in Nat : (x + y + z) + 1 = x + y + (z + 1)
      OBVIOUS
    <3> QED
      BY <3>1, <3>2, <3>3, Zenon
  <2>6. segment_counter' \in Nat /\ segment_counter' <= segment_count
    <3>1. \A x, y, z, n, u, c \in Nat :
            y + n <= u /\ z <= n /\ x + u <= c => x + y + z \in Nat /\ x + y + z <= c
      OBVIOUS
    <3>2. m + 1 \in Nat /\ Upto[d - 1] + Size(d) <= segment_count
      BY <1>3, <2>m
    <3> QED
      BY <1>3, <1>4, <2>n, <2>m, <2>5, <3>1, <3>2
  <2>7. \E k \in 0..pds'[d'][pc'] :
              /\ wanted' = 1..pds'[d'][pc'] /\ settled' = 1..k
              /\ segment_counter' = Upto'[d' - 1] + PastFragments' + k
    BY <1>1, <1>2, <2>1, <2>2, <2>3, <2>4, <2>5
  <2> QED
    BY <1>2, <1>5, <2>1, <2>6, <2>7 DEF CountInv
<1>9. CASE StreamDone(kind)
  <2>1. /\ pc' = After(kind) /\ status = "running" /\ status' = "complete"
        /\ settled = wanted /\ segment_counter' = segment_counter
    BY <1>9 DEF StreamDone, Fetching, Delivery!Complete, dsVars
  <2>2. PICK m \in 0..pds[d][pc] :
              /\ wanted = 1..pds[d][pc] /\ settled = 1..m
              /\ segment_counter = Upto[d - 1] + PastFragments + m
    BY <1>5, <2>1 DEF CountInv
  <2>3. m = pds[d][kind]
    <3>1. m \in Nat /\ m <= pds[d][kind]
      BY <1>1, <1>3, <2>2
    <3>2. m + 1 \in 1..pds[d][kind] => m + 1 \in 1..m
      BY <1>1, <2>1, <2>2
    <3> QED
      BY <1>3, <3>1, <3>2
  <2>4. PastFragments' = PastFragments + pds[d][kind]
    BY <1>1, <2>1, PastGrows
  <2> QED
    BY <1>1, <1>2, <1>3, <1>4, <1>5, <2>1, <2>2, <2>3, <2>4 DEF CountInv
<1> QED
  BY <1>6, <1>7, <1>8, <1>9

(* No step loses count.                                                     *)
LEMMA CountStep == PlanInv /\ PlanInv' /\ CountInv /\ [Next]_vars => CountInv'
<1> SUFFICES ASSUME PlanInv, PlanInv', CountInv, [Next]_vars PROVE CountInv'
  OBVIOUS
<1>0. /\ segment_counter \in Nat /\ segment_counter <= segment_count /\ d \in Nat
      /\ pc \in Kinds \/ status # "running"
      /\ pc' \in Kinds \/ status' # "running"
  BY DEF CountInv, PlanInv
<1>1. CASE SkipPeriod \/ PlanPeriod
  <2>1. /\ pc = "plan" /\ pc' = "plan" /\ d = 0 /\ d' = 0
        /\ segment_counter' = segment_counter
    BY <1>1 DEF SkipPeriod, PlanPeriod, Planning, PlanInv, dsVars
  <2>2. segment_counter = Upto[0] /\ Upto[0] = 0
    BY <2>1, SumsHold DEF CountInv, SumFacts, InPeriod, Kinds
  <2>3. Upto'[0] = 0 /\ segment_count' \in Nat
    <3>1. SumFacts'
      BY SumsHold, PTL
    <3> QED
      BY <3>1 DEF SumFacts
  <2>4. segment_counter' = Upto'[d'] /\ segment_counter' <= segment_count'
    BY <2>1, <2>2, <2>3
  <2> QED
    BY <1>0, <2>1, <2>4 DEF CountInv, InPeriod, Kinds
<1>2. ASSUME UNCHANGED <<pds, segment_counter>>, pc' \in {"failed", "panic"}
      PROVE  CountInv'
  BY <1>0, <1>2, SamePlan DEF CountInv
<1>3. CASE PlanError \/ CounterPanics \/ PathPanics \/ StartFails \/ MuxFails \/ MergeFails
           \/ \E kind \in Kinds : StreamFails(kind)
  <2>1. UNCHANGED <<pds, segment_counter>> /\ pc' \in {"failed", "panic"}
    BY <1>3 DEF PlanError, Planning, CounterPanics, PathPanics, StartFails, MuxFails, MergeFails,
                StreamFails, planVars, dsVars
  <2> QED
    BY <1>2, <2>1
<1>4. CASE StartPeriod
  <2>1. /\ pc \in {"plan", "period"} /\ pc' = "audio" /\ d' = d + 1 /\ pds' = pds
        /\ status' = status /\ segment_counter' = segment_counter
    BY <1>4 DEF StartPeriod, MorePeriods, Iterating, planVars, streamVars, dsVars
  <2>2. segment_counter = Upto[d] /\ status # "running"
    BY <1>0, <2>1 DEF CountInv, InPeriod, Kinds
  <2>3. Upto[d] \in Nat
    BY SumsHold DEF SumFacts, PlanInv
  <2>4. PastFragments' = 0 /\ d' - 1 = d
    BY <1>0, <2>1 DEF PastFragments, Past, Kinds
  <2>5. Upto' = Upto /\ segment_count' = segment_count
    BY <2>1, SamePlan
  <2>6. segment_counter' = Upto'[d' - 1] + PastFragments'
    BY <2>1, <2>2, <2>3, <2>4, <2>5
  <2> QED
    BY <1>0, <2>1, <2>2, <2>5, <2>6 DEF CountInv, InPeriod, Kinds
<1>5. CASE Mux \/ NothingToMux \/ MergeSubtitles \/ CleanUp
  <2>1. /\ pc \in {"mux", "merge", "clean"} /\ pc' \in {"merge", "clean", "period"}
        /\ pc' = "period" <=> CleanUp
        /\ pds' = pds /\ d' = d /\ segment_counter' = segment_counter
    BY <1>5 DEF Mux, NothingToMux, MergeSubtitles, CleanUp, planVars, dsVars
  <2>2. PastFragments = Size(d) /\ Upto[d - 1] + Size(d) = Upto[d]
    BY <2>1, PastType DEF InPeriod, Kinds
  <2>3. segment_counter = Upto[d] /\ status # "running" /\ status' # "running"
    BY <1>0, <2>1, <2>2 DEF CountInv, InPeriod, Kinds
  <2>4. Upto' = Upto /\ segment_count' = segment_count /\ PastFragments' = PastFragments
    BY <2>1, SamePlan DEF PastFragments, Past
  <2> QED
    BY <1>0, <2>1, <2>2, <2>3, <2>4 DEF CountInv, InPeriod, Kinds
<1>6. CASE LeaveSeparate \/ Concatenate \/ ConcatenateFails
  <2>1. /\ pc \in {"plan", "period"} /\ pc' \in {"done", "joined", "unjoined"}
        /\ d = Len(pds) /\ pds' = pds /\ d' = d /\ segment_counter' = segment_counter
    BY <1>6 DEF LeaveSeparate, Concatenate, ConcatenateFails, Finished, Iterating, planVars, dsVars
  <2> QED
    BY <1>0, <2>1, SamePlan DEF CountInv, InPeriod, Kinds
<1>7. CASE UNCHANGED vars
  <2>1. UNCHANGED <<pds, d, segment_counter, pc, status, wanted, settled>>
    BY <1>7 DEF vars, planVars, dsVars, streamVars
  <2>2. Upto' = Upto /\ segment_count' = segment_count /\ PastFragments' = PastFragments
    BY <2>1, SamePlan DEF PastFragments, Past
  <2> QED
    BY <2>1, <2>2 DEF CountInv
<1> QED
  BY <1>1, <1>3, <1>4, <1>5, <1>6, <1>7, CountStream DEF Next, FragmentSettled

(* The count starts at nothing.                                             *)
LEMMA CountInit == Init => CountInv
<1> SUFFICES ASSUME Init PROVE CountInv
  OBVIOUS
<1>1. PlanInv
  BY PlanInit
<1>2. Upto[0] = 0 /\ segment_count \in Nat
  BY <1>1, SumsHold DEF SumFacts
<1>3. d = 0 /\ pc = "plan" /\ segment_counter = 0 /\ status = "idle"
  BY DEF Init, Delivery!Init
<1> QED
  BY <1>2, <1>3 DEF CountInv, InPeriod, Kinds

(* The count is right at all times.                                         *)
LEMMA CountHolds == Spec => []CountInv
  BY CountInit, CountStep, PlanHolds, PTL DEF Spec

(* A download that succeeds has dealt with every fragment of every planned  *)
(* period, and with none of them twice, whatever was lost on the way.       *)
THEOREM EveryFragmentIsTried == Spec => []EveryFragmentTried
<1>1. PlanInv /\ CountInv => EveryFragmentTried
  <2> SUFFICES ASSUME PlanInv, CountInv, pc \in {"done", "joined"}
               PROVE  segment_counter = segment_count
    BY DEF EveryFragmentTried
  <2>1. d = Len(pds) /\ segment_counter = Upto[d]
    BY DEF CountInv, InPeriod, Kinds
  <2> QED
    BY <2>1, SumsHold DEF SumFacts
<1> QED
  BY <1>1, CountHolds, PlanHolds, PTL

-----------------------------------------------------------------------------

(* A quotient rounded up: the least number of shares of b that are enough.  *)
LEMMA CeilDivBounds ==
  ASSUME NEW a \in Nat, NEW b \in Nat \ {0}
  PROVE  /\ CeilDiv(a, b) \in Nat
         /\ b * CeilDiv(a, b) >= a
         /\ b * CeilDiv(a, b) < a + b
<1> DEFINE n == a + b - 1
<1>1. n \in Nat /\ CeilDiv(a, b) = n \div b
  BY DEF CeilDiv
<1> HIDE DEF n
<1>2. n \div b \in Nat /\ b * (n \div b) <= n /\ n < b * (n \div b) + b
  BY <1>1
<1>3. a + b = n + 1 /\ b * (n \div b) \in Nat
  BY <1>2 DEF n
<1> QED
  BY <1>1, <1>2, <1>3

(* Less of a larger share is a smaller quotient.                            *)
LEMMA Cancel ==
  ASSUME NEW p \in Nat, NEW q \in Nat, NEW b \in Nat \ {0}, b * p < b * q
  PROVE  p < q
<1> SUFFICES ASSUME q <= p PROVE FALSE
  OBVIOUS
<1>1. b * q <= b * p
  OBVIOUS
<1> QED
  BY <1>1

(* A part of a whole is at most as much as a larger part of a smaller whole. *)
LEMMA CeilDivGrows ==
  ASSUME NEW a \in Nat, NEW aa \in Nat, NEW b \in Nat \ {0}, NEW bb \in Nat \ {0},
         a <= aa, bb <= b
  PROVE  CeilDiv(a, b) <= CeilDiv(aa, bb)
<1> DEFINE p == CeilDiv(a, b)
           q == CeilDiv(aa, bb)
<1>1. p \in Nat /\ b * p < a + b
  BY CeilDivBounds
<1>2. q \in Nat /\ bb * q >= aa
  BY CeilDivBounds
<1> HIDE DEF p, q
<1>3. bb * q <= b * q
  BY <1>2
<1>4. b * (q + 1) = b * q + b /\ b * q \in Nat /\ bb * q \in Nat /\ b * p \in Nat
  BY <1>1, <1>2
<1>5. b * p < b * (q + 1)
  BY <1>1, <1>2, <1>3, <1>4
<1>6. p < q + 1
  <2>1. q + 1 \in Nat
    BY <1>2
  <2> QED
    BY <1>1, <1>5, <2>1, Cancel
<1> QED
  BY <1>1, <1>2, <1>6 DEF p, q

(* The progress with n of `total' fragments, and the total that the         *)
(* fetchers of a kind of stream reckon with.                                *)
ProgressOf(total, n) == IF CeilDiv(100 * n, total) > 98 THEN 98 ELSE CeilDiv(100 * n, total)
InAll(kind) == IF kind = "audio" THEN 2 + segment_count ELSE segment_count

(* More fragments of a smaller total are more progress.                     *)
LEMMA ProgressGrows ==
  ASSUME NEW n \in Nat, NEW m \in Nat, NEW t \in Nat \ {0}, NEW u \in Nat \ {0}, n <= m, u <= t
  PROVE  /\ ProgressOf(t, n) \in 0..98
         /\ ProgressOf(t, n) <= ProgressOf(u, m)
         /\ n # 0 => 1 <= ProgressOf(t, n)
<1>1. 100 * n \in Nat /\ 100 * m \in Nat /\ 100 * n <= 100 * m
  OBVIOUS
<1>2. CeilDiv(100 * n, t) <= CeilDiv(100 * m, u)
  BY <1>1, CeilDivGrows
<1>3. CeilDiv(100 * n, t) \in Nat /\ CeilDiv(100 * m, u) \in Nat
  BY <1>1, CeilDivBounds
<1>4. n # 0 => CeilDiv(100 * n, t) # 0
  <2>1. t * CeilDiv(100 * n, t) >= 100 * n
    BY <1>1, CeilDivBounds
  <2>2. t * 0 = 0
    OBVIOUS
  <2> QED
    BY <2>1, <2>2
<1> QED
  BY <1>2, <1>3, <1>4 DEF ProgressOf

(* The most that the observers can have been told while the streams of the  *)
(* only period are fetched.                                                 *)
Reached == IF segment_counter = 0 THEN 1 ELSE ProgressOf(InAll(pc), segment_counter)

(* The progress and, with a single period, what it does not exceed.         *)
ProgressInv ==
  /\ percent \in 0..100
  /\ pc \in {"plan", "period"} \cup InPeriod => percent <= 99
  /\ Len(manifest) = 1 =>
       /\ Len(pds) <= i
       /\ pc = "period" => d # 0
       /\ pc \in Kinds \cup {"plan"} => percent <= Reached

(* The progress told while a fragment is fetched.                           *)
LEMMA ProgressStream ==
  ASSUME PlanInv, CountInv, CountInv', ProgressInv, NEW kind \in Kinds, FragmentSettled(kind)
  PROVE  ProgressInv' /\ (Len(manifest) = 1 => percent' >= percent)
<1>1. /\ pc = kind /\ pc' = pc /\ UNCHANGED planVars /\ d' = d
      /\ segment_counter' = segment_counter + 1
  BY FragmentCounts
<1>2. PICK e : Settled(kind, e)
  BY FragmentCounts
<1>3. percent' = percent \/ percent' = ProgressOf(InAll(pc), segment_counter')
  BY <1>1, <1>2 DEF Settled, Progress, ProgressOf, InAll
<1>4. segment_count' = segment_count /\ InAll(pc)' = InAll(pc)
  BY <1>1, SamePlan DEF planVars, InAll
<1>5. /\ segment_counter \in Nat /\ segment_counter + 1 <= segment_count /\ segment_count \in Nat
  <2>1. segment_count \in Nat
    BY SumsHold DEF SumFacts
  <2> QED
    BY <1>1, <1>4, <2>1 DEF CountInv
<1>6. InAll(pc) \in Nat \ {0}
  BY <1>5 DEF InAll
<1>7. /\ ProgressOf(InAll(pc), segment_counter) <= ProgressOf(InAll(pc), segment_counter + 1)
      /\ ProgressOf(InAll(pc), segment_counter) \in 0..98
      /\ ProgressOf(InAll(pc), segment_counter + 1) \in 0..98
      /\ 1 <= ProgressOf(InAll(pc), segment_counter + 1)
  BY <1>5, <1>6, ProgressGrows
<1>8. Reached' = ProgressOf(InAll(pc), segment_counter + 1) /\ Reached <= Reached'
  <2>1. Reached' = ProgressOf(InAll(pc)', segment_counter')
    BY <1>1, <1>5 DEF Reached
  <2>2. Reached <= ProgressOf(InAll(pc), segment_counter + 1)
    BY <1>5, <1>7 DEF Reached
  <2> QED
    BY <1>1, <1>4, <2>1, <2>2
<1>9. percent \in 0..99 /\ percent' \in 0..99
  <2>1. percent \in 0..100 /\ percent <= 99
    BY <1>1 DEF ProgressInv, InPeriod
  <2>2. percent' = percent \/ percent' \in 0..98
    BY <1>1, <1>3, <1>7
  <2> QED
    BY <2>1, <2>2
<1>10. ASSUME Len(manifest) = 1
       PROVE  percent <= Reached /\ percent' <= Reached' /\ percent <= percent'
  <2>1. percent <= Reached /\ Reached \in 0..98 /\ Reached' \in 0..98
    BY <1>1, <1>5, <1>7, <1>8, <1>10 DEF ProgressInv, Reached
  <2>2. percent' = percent \/ percent' = Reached'
    BY <1>1, <1>3, <1>8
  <2> QED
    BY <1>8, <1>9, <2>1, <2>2
<1> QED
  BY <1>1, <1>9, <1>10 DEF ProgressInv, planVars, Kinds

(* No step takes progress back while there is one period only.              *)
LEMMA ProgressStep ==
  PlanInv /\ PlanInv' /\ CountInv /\ CountInv' /\ ProgressInv /\ [Next]_vars
    => ProgressInv' /\ (Len(manifest) = 1 => percent' >= percent)
<1> SUFFICES ASSUME PlanInv, PlanInv', CountInv, CountInv', ProgressInv, [Next]_vars
             PROVE  ProgressInv' /\ (Len(manifest) = 1 => percent' >= percent)
  OBVIOUS
<1>0. /\ percent \in 0..100 /\ i \in Nat /\ d \in Nat /\ Len(pds) \in Nat
      /\ segment_counter \in Nat /\ segment_counter <= segment_count /\ segment_count \in Nat
      /\ manifest' = manifest
  <2>1. segment_count \in Nat
    BY SumsHold DEF SumFacts
  <2>2. manifest' = manifest
    BY DEF Next, SkipPeriod, PlanPeriod, PlanError, Planning, SkipStream, StartStream, StreamDone,
       StreamFails, FragmentDelivered, FragmentDiscarded, FragmentLost, Settled, CounterPanics,
       PathPanics, StartPeriod, StartFails, Mux, MuxFails, NothingToMux, MergeSubtitles, MergeFails,
       CleanUp, LeaveSeparate, Concatenate, ConcatenateFails, vars, planVars
  <2> QED
    BY <2>1, <2>2 DEF PlanInv, ProgressInv, CountInv
<1>1. CASE SkipPeriod \/ PlanPeriod
  <2>1. /\ pc = "plan" /\ pc' = "plan" /\ d = 0 /\ i' = i + 1 /\ percent' = percent
        /\ segment_counter' = segment_counter
        /\ pds' = pds \/ \E new : pds' = Append(pds, new)
    BY <1>1 DEF SkipPeriod, PlanPeriod, Planning, PlanInv, dsVars
  <2>2. segment_counter = 0
    BY <2>1, SumsHold DEF CountInv, SumFacts, InPeriod, Kinds
  <2>3. Len(pds') <= Len(pds) + 1
    BY <2>1 DEF PlanInv
  <2>4. Len(pds') \in Nat
    BY DEF PlanInv
  <2> QED
    BY <1>0, <2>1, <2>2, <2>3, <2>4 DEF ProgressInv, Reached, InPeriod, Kinds
<1>2. ASSUME UNCHANGED <<i, pds, percent>>, pc' \notin {"plan", "period"} \cup InPeriod
      PROVE  ProgressInv' /\ percent' >= percent
  BY <1>0, <1>2 DEF ProgressInv, Kinds, InPeriod
<1>3. CASE PlanError
  <2>1. pds' = pds /\ i' = i + 1 /\ percent' = percent /\ pc' = "failed"
    BY <1>3 DEF PlanError, Planning
  <2> QED
    BY <1>0, <2>1 DEF ProgressInv, Kinds, InPeriod
<1>4. CASE CounterPanics \/ PathPanics \/ StartFails \/ MergeFails \/ ConcatenateFails
           \/ \E kind \in Kinds : StreamFails(kind)
  <2>1. UNCHANGED <<i, pds, percent>> /\ pc' \in {"panic", "failed", "unjoined"}
    BY <1>4 DEF CounterPanics, PathPanics, StartFails, MergeFails, ConcatenateFails, StreamFails,
                planVars
  <2> QED
    BY <1>2, <2>1 DEF InPeriod, Kinds
<1>5. CASE LeaveSeparate \/ Concatenate
  <2>1. UNCHANGED <<i, pds>> /\ percent' = 100 /\ pc' \in {"done", "joined"}
    BY <1>5 DEF LeaveSeparate, Concatenate, planVars
  <2> QED
    BY <1>0, <2>1 DEF ProgressInv, Kinds, InPeriod
<1>6. CASE Mux \/ MuxFails \/ NothingToMux \/ MergeSubtitles \/ CleanUp
  <2>1. /\ UNCHANGED <<i, pds, d>> /\ pc \in {"mux", "merge", "clean"}
        /\ pc' \in {"merge", "clean", "period", "failed"}
        /\ percent' \in {percent, 99}
    BY <1>6 DEF Mux, MuxFails, NothingToMux, MergeSubtitles, CleanUp, planVars
  <2>2. percent <= 99 /\ d # 0
    BY <2>1 DEF ProgressInv, PlanInv, InPeriod
  <2> QED
    BY <1>0, <2>1, <2>2 DEF ProgressInv, InPeriod, Kinds
<1>7. CASE StartPeriod
  <2>1. /\ UNCHANGED <<i, pds, percent, segment_counter>> /\ d < Len(pds)
        /\ pc \in {"plan", "period"} /\ pc' = "audio"
    BY <1>7 DEF StartPeriod, MorePeriods, Iterating, planVars, dsVars
  <2>2. percent <= 99
    BY <2>1 DEF ProgressInv
  <2>3. ASSUME Len(manifest) = 1 PROVE percent <= Reached'
    <3>1. pc = "plan" /\ d = 0
      BY <1>0, <2>1, <2>3 DEF ProgressInv, PlanInv
    <3>2. segment_counter = 0
      BY <3>1, SumsHold DEF CountInv, SumFacts, InPeriod, Kinds
    <3>3. percent <= 1
      BY <2>3, <3>1, <3>2 DEF ProgressInv, Reached
    <3>4. Reached' = 1
      BY <2>1, <3>2 DEF Reached
    <3> QED
      BY <3>3, <3>4
  <2> QED
    BY <1>0, <2>1, <2>2, <2>3 DEF ProgressInv, InPeriod, Kinds
<1>8. ASSUME NEW kind \in Kinds, SkipStream(kind) \/ StartStream(kind) \/ StreamDone(kind)
      PROVE  ProgressInv' /\ percent' >= percent
  <2>1. /\ UNCHANGED <<i, pds, d, percent, segment_counter>> /\ pc = kind
        /\ pc' \in {pc, After(kind)}
    BY <1>8 DEF SkipStream, StartStream, StreamDone, Fetching, planVars, dsVars
  <2>2. percent <= 99 /\ pc' \in Kinds \cup {"mux"}
    BY <2>1 DEF ProgressInv, After, InPeriod, Kinds
  <2>3. segment_count' = segment_count
    BY <2>1, SamePlan
  <2>4. InAll(pc)' \in Nat /\ InAll(pc) \in Nat /\ InAll(pc)' <= InAll(pc)
        /\ (segment_counter # 0 => InAll(pc)' # 0)
    BY <1>0, <2>1, <2>3 DEF InAll, After, Kinds
  <2>5. ASSUME Len(manifest) = 1 PROVE percent <= Reached'
    <3>1. percent <= Reached
      BY <2>1, <2>5 DEF ProgressInv
    <3>2. CASE segment_counter = 0
      BY <2>1, <3>1, <3>2 DEF Reached
    <3>3. CASE segment_counter # 0
      <4>1. PICK t \in Nat \ {0}, u \in Nat \ {0} : t = InAll(pc) /\ u = InAll(pc)' /\ u <= t
        BY <1>0, <2>4, <3>3
      <4>a. segment_counter \in Nat /\ segment_counter <= segment_counter /\ u <= t /\ u <= u
        BY <1>0, <4>1
      <4>b. ProgressOf(t, segment_counter) <= ProgressOf(u, segment_counter)
            /\ ProgressOf(t, segment_counter) \in 0..98
        BY <4>a, ProgressGrows, Zenon
      <4>c. ProgressOf(u, segment_counter) \in 0..98
        BY <4>a, ProgressGrows, Zenon
      <4>2. \A x \in 0..100, y \in 0..98, z \in 0..98 : x <= y /\ y <= z => x <= z
        OBVIOUS
      <4>3. Reached = ProgressOf(t, segment_counter) /\ Reached' = ProgressOf(u, segment_counter)
        BY <2>1, <3>3, <4>1 DEF Reached
      <4> QED
        BY <1>0, <3>1, <4>b, <4>c, <4>2, <4>3, Zenon
    <3> QED
      BY <3>2, <3>3
  <2> QED
    BY <1>0, <2>1, <2>2, <2>5 DEF ProgressInv, InPeriod, Kinds
<1>9. CASE UNCHANGED vars
  <2>1. UNCHANGED <<i, pds, d, percent, segment_counter, pc>>
    BY <1>9 DEF vars, planVars, dsVars
  <2>2. Reached' = Reached
    BY <2>1, SamePlan DEF Reached, InAll
  <2> QED
    BY <1>0, <2>1, <2>2 DEF ProgressInv
<1> QED
  BY <1>1, <1>3, <1>4, <1>5, <1>6, <1>7, <1>8, <1>9, ProgressStream DEF Next, FragmentSettled

(* The progress is as described at all times.                               *)
LEMMA ProgressHolds == Spec => []ProgressInv
<1>1. Init => ProgressInv
  <2> SUFFICES ASSUME Init PROVE ProgressInv
    OBVIOUS
  <2>1. /\ i = 0 /\ pds = << >> /\ pc = "plan" /\ segment_counter = 0 /\ percent \in {0, 1}
        /\ Len(<< >>) = 0
    BY DEF Init
  <2> QED
    BY <2>1 DEF ProgressInv, Reached, InPeriod, Kinds
<1> QED
  BY <1>1, ProgressStep, PlanHolds, CountHolds, PTL DEF Spec

(* The observers of a download of one period never see the progress go back, *)
(* also where the total it is computed from changes from one kind of stream *)
(* to the next.                                                             *)
THEOREM ProgressIsMonotone == Spec => OnePeriodMonotone
<1>1. /\ PlanInv /\ PlanInv' /\ CountInv /\ CountInv' /\ ProgressInv /\ [Next]_vars
      => [Len(manifest) = 1 => percent' >= percent]_vars
  BY ProgressStep
<1> QED
  BY <1>1, PlanHolds, CountHolds, ProgressHolds, PTL DEF Spec, OnePeriodMonotone

-----------------------------------------------------------------------------
(* The files, and all that is in them.                                     *)

(* A fragment as it is found in a file: of which stream, of which period,   *)
(* at which position.                                                       *)
Piece == Kinds \X Nat \X Nat

(* What the contract of a stream keeps between its steps.                   *)
DeliveryInv == wanted \subseteq Nat \ {0} /\ settled \subseteq wanted /\ out \in Seq(wanted)

(* Only fragments of the stream in hand are settled or written.             *)
LEMMA DeliveryStep == PlanInv /\ DeliveryInv /\ [Next]_vars => DeliveryInv'
<1> SUFFICES ASSUME PlanInv, DeliveryInv, [Next]_vars PROVE DeliveryInv'
  OBVIOUS
<1>1. ASSUME NEW kind \in Kinds, StartStream(kind) PROVE DeliveryInv'
  <2>1. pc = kind /\ wanted' = 1..pds[d][kind] /\ settled' = {} /\ out' = << >>
    BY <1>1 DEF StartStream, Delivery!Begin
  <2>2. pds[d][kind] \in Nat
    BY <2>1, PastType DEF InPeriod
  <2> QED
    BY <2>1, <2>2 DEF DeliveryInv
<1>2. ASSUME NEW kind \in Kinds, FragmentSettled(kind) PROVE DeliveryInv'
  <2>1. PICK p \in wanted : Delivery!Settle(p) /\ (out' = out \/ out' = Append(out, p))
    BY <1>2 DEF FragmentSettled, FragmentDelivered, FragmentDiscarded, FragmentLost,
                Delivery!Deliver, Delivery!Discard, Delivery!Lose
  <2>2. settled' = settled \cup {p} /\ wanted' = wanted
    BY <2>1 DEF Delivery!Settle
  <2> QED
    BY <2>1, <2>2 DEF DeliveryInv
<1>3. CASE UNCHANGED <<wanted, settled, out>>
  BY <1>3 DEF DeliveryInv
<1>4. \/ UNCHANGED <<wanted, settled, out>>
      \/ \E kind \in Kinds : StartStream(kind) \/ FragmentSettled(kind)
  BY DEF Next, SkipPeriod, PlanPeriod, PlanError, Planning, SkipStream, StreamDone, StreamFails,
         FragmentSettled, CounterPanics, PathPanics, StartPeriod, StartFails, Mux, MuxFails,
         NothingToMux, MergeSubtitles, MergeFails, CleanUp, LeaveSeparate, Concatenate,
         ConcatenateFails, Delivery!Complete, Delivery!Fail, vars, streamVars
<1> QED
  BY <1>1, <1>2, <1>3, <1>4

(* An output that some period has: one that is recorded, or that of the     *)
(* period in hand.                                                          *)
Known(p) ==
  \/ \E k \in DOMAIN outputs : p = OutOf(outputs[k])
  \/ pc \in {"merge", "clean"} /\ AV # {} /\ p = OutOf(d)

(* The files while the download works.                                      *)
WorkInv ==
  /\ \A p \in DOMAIN files : files[p] \in Seq(Piece)
  /\ got \in [Kinds -> Seq(Piece)]
  /\ media \in Seq(Seq(Piece))
  /\ Len(media) = IF pc \in Kinds \cup {"mux"} THEN d - 1 ELSE d
  /\ \A p \in stuck : p[1] = "tmp" /\ (pc \in InPeriod => p \notin Temporary)
  /\ \A k \in DOMAIN outputs : OutOf(outputs[k]) \in DOMAIN files
  /\ pc \in {"merge", "clean"} /\ AV # {} => OutOf(d) \in DOMAIN files
  /\ pc = "merge" => AV # {}
  /\ \A p \in DOMAIN files : p[1] = "out" => Known(p)

(* The files at all times.                                                  *)
FilesInv ==
  /\ Len(media) \in {d - 1, d}
  /\ outputs \in Seq(Nat) /\ \A k \in DOMAIN outputs : outputs[k] \in 1..d
  /\ stuck \subseteq DOMAIN files
  /\ Working => WorkInv

(* What is read from a file is a sequence of fragments.                     *)
LEMMA ContentsType ==
  ASSUME WorkInv, NEW path
  PROVE  Contents(path) \in Seq(Piece)
<1>1. << >> \in Seq(Piece)
  OBVIOUS
<1> QED
  BY <1>1 DEF WorkInv, Contents

(* A file is written that is a temporary one, or an output of some period.  *)
LEMMA FilesWritten ==
  ASSUME PlanInv, FilesInv, Working, UNCHANGED <<d, outputs, pds, stuck, opt>>,
         NEW path, NEW content \in Seq(Piece),
         files' = files \/ files' = Write(path, content),
         path[1] = "out" => Known(path)',
         \A p : Known(p) => Known(p)',
         pc' \in InPeriod => pc \in InPeriod,
         got' \in [Kinds -> Seq(Piece)],
         media' \in Seq(Seq(Piece)),
         Len(media') = IF pc' \in Kinds \cup {"mux"} THEN d - 1 ELSE d,
         pc' \in {"merge", "clean"} /\ AV' # {} => OutOf(d) \in DOMAIN files',
         pc' = "merge" => AV' # {}
  PROVE  FilesInv'
<1>1. WorkInv
  BY DEF FilesInv
<1>2. /\ DOMAIN files \subseteq DOMAIN files'
      /\ \A p \in DOMAIN files' : p \in DOMAIN files \/ p = path
      /\ \A p \in DOMAIN files' : files'[p] \in Seq(Piece)
  <2>1. CASE files' = files
    BY <1>1, <2>1 DEF WorkInv
  <2>2. CASE files' = Write(path, content)
    <3>1. /\ DOMAIN files' = DOMAIN files \cup {path} /\ files'[path] = content
          /\ \A p \in DOMAIN files : p # path => files'[p] = files[p]
      BY <2>2 DEF Write, WriteAll
    <3>2. \A p \in DOMAIN files : files[p] \in Seq(Piece)
      BY <1>1 DEF WorkInv
    <3> QED
      BY <3>1, <3>2
  <2> QED
    BY <2>1, <2>2
<1>3. \A n : OutOf(n)' = OutOf(n)
  BY DEF OutOf, Out
<1>4. Temporary' = Temporary
  BY DEF Temporary, StreamPath
<1>5. \A p \in DOMAIN files' : p[1] = "out" => Known(p)'
  BY <1>1, <1>2 DEF WorkInv
<1>6. \A k \in DOMAIN outputs' : OutOf(outputs[k])' \in DOMAIN files'
  <2>1. \A k \in DOMAIN outputs : OutOf(outputs[k]) \in DOMAIN files'
    BY <1>1, <1>2 DEF WorkInv
  <2>2. outputs' = outputs /\ pds' = pds
    OBVIOUS
  <2> QED
    BY <2>1, <2>2 DEF OutOf, Out
<1>7. \A p \in stuck' : p[1] = "tmp" /\ (pc' \in InPeriod => p \notin Temporary')
  BY <1>1, <1>4 DEF WorkInv
<1>8. WorkInv'
  BY <1>2, <1>3, <1>5, <1>6, <1>7 DEF WorkInv
<1>9. Len(media') \in {d' - 1, d'} /\ stuck' \subseteq DOMAIN files'
  BY <1>2 DEF FilesInv
<1> QED
  BY <1>8, <1>9 DEF FilesInv

(* An entry of a sequence is replaced.                                      *)
LEMMA Replaced ==
  ASSUME NEW S, NEW s \in Seq(S), NEW k \in DOMAIN s, NEW e \in S
  PROVE  [s EXCEPT ![k] = e] \in Seq(S) /\ Len([s EXCEPT ![k] = e]) = Len(s)
  OBVIOUS

(* The streams write their fragments to their own files.                    *)
LEMMA FilesStream ==
  ASSUME PlanInv, DeliveryInv, FilesInv, NEW kind \in Kinds,
         SkipStream(kind) \/ StartStream(kind) \/ FragmentSettled(kind) \/ StreamDone(kind)
  PROVE  FilesInv'
<1> DEFINE content == [n \in DOMAIN out |-> <<kind, d, out[n]>>]
           empty == << >>
<1>0. content \in Seq(Piece) /\ empty \in Seq(Piece)
  <2>0. d \in Nat
    BY DEF PlanInv
  <2>1. \A n \in DOMAIN out : out[n] \in Nat
    <3>1. wanted \subseteq Nat \ {0}
      BY DEF DeliveryInv
    <3>2. \A n \in DOMAIN out : out[n] \in wanted
      BY DEF DeliveryInv
    <3> QED
      BY <3>1, <3>2
  <2>2. \A n \in DOMAIN out : <<kind, d, out[n]>> \in Piece
    BY <2>0, <2>1 DEF Piece
  <2>3. DOMAIN out = 1..Len(out) /\ Len(out) \in Nat
    BY DEF DeliveryInv
  <2>4. content \in [1..Len(out) -> Piece]
    BY <2>2, <2>3
  <2>5. empty \in Seq(Piece)
    OBVIOUS
  <2> HIDE DEF content, empty
  <2>6. content \in Seq(Piece)
    BY <2>3, <2>4
  <2> QED
    BY <2>5, <2>6
<1>1. /\ pc = kind /\ UNCHANGED <<d, outputs, pds, stuck, opt, media>>
      /\ pc' \in Kinds \cup {"mux"}
      /\ \/ files' = files
         \/ files' = Write(StreamPath(kind), empty)
         \/ files' = Write(StreamPath(kind), content)
      /\ got' = got \/ got' = [got EXCEPT ![kind] = content]
  <2>1. CASE SkipStream(kind) \/ StartStream(kind) \/ StreamDone(kind)
    BY <2>1 DEF SkipStream, StartStream, StreamDone, Fetching, planVars, fileVars, After, Kinds
  <2>2. CASE FragmentSettled(kind)
    <3>1. PICK e : Settled(kind, e)
      BY <2>2, FragmentCounts
    <3> QED
      BY <3>1 DEF Settled, Fetching, planVars, fileVars
  <2> QED
    BY <2>1, <2>2
<1> HIDE DEF content, empty
<1>2. Working /\ pc \in InPeriod
  BY <1>1 DEF Working, Final, InPeriod, Kinds
<1>3. WorkInv
  BY <1>2 DEF FilesInv
<1>4. StreamPath(kind)[1] # "out"
  BY Paths
<1>5. \A p : Known(p) => Known(p)'
  BY <1>1 DEF Known, OutOf, Out, Kinds
<1>6. got' \in [Kinds -> Seq(Piece)]
  BY <1>0, <1>1, <1>3 DEF WorkInv
<1>7. media' \in Seq(Seq(Piece)) /\ Len(media') = d - 1 /\ pc' \notin {"merge", "clean"}
  BY <1>1, <1>3 DEF WorkInv, Kinds
<1>8. \E c \in Seq(Piece) : files' = files \/ files' = Write(StreamPath(kind), c)
  BY <1>0, <1>1
<1>9. PICK c \in Seq(Piece) : files' = files \/ files' = Write(StreamPath(kind), c)
  BY <1>8
<1> QED
  BY <1>1, <1>2, <1>4, <1>5, <1>6, <1>7, <1>9, FilesWritten

(* The muxer makes the output of the period, or there is nothing to mux.    *)
LEMMA FilesMuxed ==
  ASSUME PlanInv, FilesInv, Mux \/ NothingToMux \/ MergeSubtitles
  PROVE  FilesInv'
<1>1. /\ UNCHANGED <<d, outputs, pds, stuck, opt, got, have>> /\ pc' \in {"merge", "clean"}
      /\ pc \in {"mux", "merge"}
  BY DEF Mux, NothingToMux, MergeSubtitles, planVars
<1>2. Working /\ pc \in InPeriod /\ d \in Nat
  BY <1>1 DEF Working, Final, InPeriod, Kinds, PlanInv
<1>3. WorkInv
  BY <1>2 DEF FilesInv
<1>4. AV' = AV /\ (\A n : OutOf(n)' = OutOf(n)) /\ \A p : Known(p) => Known(p)'
  BY <1>1 DEF Known, OutOf, Out, AV
<1>5. got' \in [Kinds -> Seq(Piece)]
  BY <1>1, <1>3 DEF WorkInv
<1>e. << >> \in Seq(Piece)
  OBVIOUS
<1>6. CASE Mux
  <2> DEFINE part(kind) == IF kind \in have THEN Contents(StreamPath(kind)) ELSE << >>
             sent(kind) == IF kind \in have THEN got[kind] ELSE << >>
             new == part("audio") \o part("video")
             entry == sent("audio") \o sent("video")
  <2>1. /\ pc = "mux" /\ AV # {} /\ files' = Write(OutOf(d), new) /\ media' = Append(media, entry)
    BY <1>6 DEF Mux
  <2>2. \A k \in Kinds : part(k) \in Seq(Piece) /\ sent(k) \in Seq(Piece)
    BY <1>3, <1>e, ContentsType DEF WorkInv
  <2> HIDE DEF part, sent
  <2>3. new \in Seq(Piece) /\ entry \in Seq(Piece)
    BY <2>2 DEF Kinds
  <2> HIDE DEF new, entry
  <2>4. media' \in Seq(Seq(Piece)) /\ Len(media') = d
    BY <1>2, <1>3, <2>1, <2>3 DEF WorkInv
  <2>5. PICK path : path = OutOf(d)
    OBVIOUS
  <2>6. Known(path)'
    BY <1>1, <1>4, <2>1, <2>5 DEF Known
  <2>7. files' = Write(path, new) /\ OutOf(d) \in DOMAIN files'
    BY <2>1, <2>3, <2>5 DEF Write, WriteAll
  <2> QED
    BY <1>1, <1>2, <1>4, <1>5, <2>1, <2>3, <2>4, <2>6, <2>7, FilesWritten DEF Kinds
<1>7. CASE NothingToMux
  <2>1. /\ pc = "mux" /\ pc' = "clean" /\ files' = files /\ media' = Append(media, << >>)
        /\ AV = {}
    BY <1>7 DEF NothingToMux
  <2>2. media' \in Seq(Seq(Piece)) /\ Len(media') = d
    BY <1>2, <1>3, <1>e, <2>1 DEF WorkInv
  <2>4. StreamPath("audio")[1] # "out"
    BY Paths DEF Kinds
  <2> QED
    BY <1>1, <1>2, <1>4, <1>5, <1>e, <2>1, <2>2, <2>4, FilesWritten DEF Kinds
<1>8. CASE MergeSubtitles
  <2> DEFINE new == Contents(OutOf(d)) \o Contents(StreamPath("subs"))
  <2>1. /\ pc = "merge"
        /\ \/ files' = Write(OutOf(d), new) /\ media' = [media EXCEPT ![d] = media[d] \o got["subs"]]
           \/ UNCHANGED <<files, media>>
    BY <1>8 DEF MergeSubtitles
  <2>2. new \in Seq(Piece)
    BY <1>3, ContentsType
  <2> HIDE DEF new
  <2>3. media \in Seq(Seq(Piece)) /\ Len(media) = d /\ d \in DOMAIN media
    BY <1>2, <1>3, <2>1 DEF WorkInv, Kinds, PlanInv
  <2>4. media[d] \o got["subs"] \in Seq(Piece)
    BY <1>3, <2>3 DEF WorkInv, Kinds
  <2>5. media' \in Seq(Seq(Piece)) /\ Len(media') = d
    <3> DEFINE entry == media[d] \o got["subs"]
    <3>1. media' = media \/ media' = [media EXCEPT ![d] = entry]
      BY <2>1
    <3>2. entry \in Seq(Piece)
      BY <2>4
    <3> HIDE DEF entry
    <3>3. [media EXCEPT ![d] = entry] \in Seq(Seq(Piece)) /\ Len([media EXCEPT ![d] = entry]) = d
      BY <2>3, <3>2, Replaced
    <3> QED
      BY <2>3, <3>1, <3>3
  <2>6. AV # {} /\ OutOf(d) \in DOMAIN files
    BY <1>3, <2>1 DEF WorkInv
  <2>7. PICK path : path = OutOf(d)
    OBVIOUS
  <2>8. Known(path)'
    BY <1>4, <2>1, <2>6, <2>7 DEF Known
  <2>9. files' = files \/ files' = Write(path, new)
    BY <2>1, <2>7
  <2>10. OutOf(d) \in DOMAIN files'
    BY <2>6, <2>7, <2>9 DEF Write, WriteAll
  <2>11. pc' = "clean"
    BY <1>8 DEF MergeSubtitles
  <2> QED
    BY <1>1, <1>2, <1>4, <1>5, <2>2, <2>5, <2>8, <2>9, <2>10, <2>11, FilesWritten DEF Kinds
<1> QED
  BY <1>6, <1>7, <1>8

(* The temporary files are deleted, or remembered if they cannot be.        *)
LEMMA FilesCleaned ==
  ASSUME PlanInv, FilesInv, CleanUp
  PROVE  FilesInv'
<1>1. /\ pc = "clean" /\ pc' = "period" /\ UNCHANGED <<media, pds, d, have, got>>
      /\ outputs' = IF AV # {} THEN Append(outputs, d) ELSE outputs
  BY Zenon DEF CleanUp, planVars
<1>2. d \in Nat \ {0}
  BY <1>1 DEF PlanInv, InPeriod
<1>3. WorkInv
  BY <1>1 DEF FilesInv, Working, Final
<1>4. \A p \in Temporary : p[1] = "tmp"
  <2>1. \A k \in opt.fetch \ opt.keep : k \in Kinds /\ k \notin opt.keep
    BY OptType
  <2> QED
    BY <2>1, Paths DEF Temporary
<1>5. \A n : OutOf(n)[1] # "tmp"
  BY Paths DEF OutOf
<1>6. \/ UNCHANGED <<files, stuck>>
      \/ \E s \in SUBSET (Temporary \cap DOMAIN files) :
           files' = Delete((Temporary \cap DOMAIN files) \ s) /\ stuck' = stuck \cup s
  BY Zenon DEF CleanUp, Temporary
<1>7. /\ \A p \in DOMAIN files' : p \in DOMAIN files /\ files'[p] = files[p]
      /\ \A p \in DOMAIN files : p[1] # "tmp" => p \in DOMAIN files'
      /\ stuck' \subseteq DOMAIN files' /\ \A p \in stuck' : p[1] = "tmp"
  <2>1. stuck \subseteq DOMAIN files /\ \A p \in stuck : p[1] = "tmp" /\ p \notin Temporary
    BY <1>1, <1>3 DEF FilesInv, WorkInv, InPeriod
  <2>2. CASE UNCHANGED <<files, stuck>>
    BY <2>1, <2>2
  <2>3. ASSUME NEW s \in SUBSET (Temporary \cap DOMAIN files),
               files' = Delete((Temporary \cap DOMAIN files) \ s), stuck' = stuck \cup s
        PROVE  <1>7!:
    <3>1. /\ DOMAIN files' = DOMAIN files \ ((Temporary \cap DOMAIN files) \ s)
          /\ \A p \in DOMAIN files' : files'[p] = files[p]
      BY <2>3, Deleted
    <3> QED
      BY <1>4, <2>1, <2>3, <3>1
  <2> QED
    BY <1>6, <2>2, <2>3
<1>8. \A n : OutOf(n)' = OutOf(n)
  BY <1>1 DEF OutOf, Out
<1>9. outputs \in Seq(Nat) /\ \A k \in DOMAIN outputs : outputs[k] \in 1..d
  BY DEF FilesInv
<1>10. /\ outputs' \in Seq(Nat)
       /\ \A k \in DOMAIN outputs' : \/ k \in DOMAIN outputs /\ outputs'[k] = outputs[k]
                                     \/ outputs'[k] = d /\ AV # {}
       /\ \A k \in DOMAIN outputs : k \in DOMAIN outputs' /\ outputs'[k] = outputs[k]
       /\ AV # {} => \E k \in DOMAIN outputs' : outputs'[k] = d
  <2>1. CASE AV = {}
    BY <1>1, <1>9, <2>1, Zenon
  <2>2. CASE AV # {}
    <3>1. outputs' = Append(outputs, d) /\ d \in Nat /\ outputs \in Seq(Nat)
      BY <1>1, <1>2, <1>9, <2>2
    <3>2. /\ outputs' \in Seq(Nat)
          /\ \A k \in DOMAIN outputs' : \/ k \in DOMAIN outputs /\ outputs'[k] = outputs[k]
                                        \/ outputs'[k] = d
          /\ \A k \in DOMAIN outputs : k \in DOMAIN outputs' /\ outputs'[k] = outputs[k]
          /\ Len(outputs) + 1 \in DOMAIN outputs' /\ outputs'[Len(outputs) + 1] = d
      BY <3>1
    <3> QED
      BY <2>2, <3>2
  <2> QED
    BY <2>1, <2>2
<1>11. \A k \in DOMAIN outputs' : OutOf(outputs'[k]) \in DOMAIN files'
  <2>1. \A k \in DOMAIN outputs' : OutOf(outputs'[k]) \in DOMAIN files
    BY <1>1, <1>3, <1>10 DEF WorkInv
  <2> QED
    BY <1>5, <1>7, <2>1
<1>12. ASSUME NEW p \in DOMAIN files', p[1] = "out" PROVE \E k \in DOMAIN outputs' : p = OutOf(outputs'[k])
  <2>1. Known(p)
    BY <1>3, <1>7, <1>12 DEF WorkInv
  <2> QED
    BY <1>10, <2>1 DEF Known
<1>13. \A p \in DOMAIN files' : p[1] = "out" => Known(p)'
  <2>1. pds' = pds
    BY <1>1
  <2> QED
    BY <1>12, <2>1 DEF Known, OutOf, Out
<1>14. \A k \in DOMAIN outputs' : OutOf(outputs[k])' \in DOMAIN files'
  <2>1. pds' = pds
    BY <1>1
  <2> QED
    BY <1>11, <2>1 DEF OutOf, Out
<1>15. /\ got' \in [Kinds -> Seq(Piece)] /\ media' \in Seq(Seq(Piece)) /\ Len(media') = d'
       /\ \A p \in DOMAIN files' : files'[p] \in Seq(Piece)
  BY <1>1, <1>3, <1>7 DEF WorkInv, Kinds
<1>16. pc' \notin InPeriod /\ pc' \notin Kinds \cup {"mux"} /\ pc' \notin {"merge", "clean"}
  BY <1>1 DEF InPeriod, Kinds
<1>17. WorkInv'
  BY <1>7, <1>13, <1>14, <1>15, <1>16 DEF WorkInv
<1>18. \A k \in DOMAIN outputs' : outputs'[k] \in 1..d'
  BY <1>1, <1>2, <1>9, <1>10
<1> QED
  BY <1>1, <1>7, <1>10, <1>15, <1>17, <1>18 DEF FilesInv

(* A new period starts with empty temporary files of names that no file has *)
(* had.                                                                     *)
LEMMA FilesStarted ==
  ASSUME PlanInv, StreamsInv, FilesInv, StartPeriod
  PROVE  FilesInv'
<1> DEFINE named == {<<"tmp", k, d + 1>> : k \in Kinds \ opt.keep}
           empty == << >>
<1>1. /\ d' = d + 1 /\ d \in Nat /\ pc \in {"plan", "period"} /\ pc' = "audio" /\ have' = {}
      /\ UNCHANGED <<pds, opt, outputs, stuck, media>>
      /\ got' = [k \in Kinds |-> << >>]
      /\ files' = IF opt.persist THEN WriteAll(files, named, empty) ELSE files
  BY DEF StartPeriod, MorePeriods, Iterating, planVars, PlanInv
<1>2. WorkInv
  BY <1>1 DEF FilesInv, Working, Final
<1>3. \A p \in named : p[1] = "tmp" /\ p[3] = d + 1
  OBVIOUS
<1>4. empty \in Seq(Piece)
  OBVIOUS
<1>5. got' \in [Kinds -> Seq(Piece)]
  BY <1>1, <1>4
<1>6. \A p \in Temporary' : p[1] = "tmp" /\ p[3] = d + 1
  <2>1. ASSUME NEW k \in opt.fetch \ opt.keep
        PROVE  StreamPath(k)' = <<"tmp", k, d + 1>>
    BY <1>1, <2>1 DEF StreamPath
  <2>2. Temporary' = {<<"tmp", k, d + 1>> : k \in opt.fetch \ opt.keep}
    BY <1>1, <2>1 DEF Temporary
  <2> QED
    BY <2>2
<1> HIDE DEF named, empty
<1>7. /\ DOMAIN files \subseteq DOMAIN files'
      /\ \A p \in DOMAIN files' : p \in DOMAIN files \/ p[1] = "tmp"
      /\ \A p \in DOMAIN files' : files'[p] \in Seq(Piece)
  <2>0. \A p \in DOMAIN files : files[p] \in Seq(Piece)
    BY <1>2 DEF WorkInv
  <2>1. CASE files' = files
    BY <2>0, <2>1
  <2>2. CASE files' = WriteAll(files, named, empty)
    BY <1>3, <1>4, <2>0, <2>2 DEF WriteAll
  <2> QED
    BY <1>1, <2>1, <2>2
<1>8. \A p \in stuck' : p[1] = "tmp" /\ p \notin Temporary'
  <2> SUFFICES ASSUME NEW p \in stuck PROVE p[1] = "tmp" /\ p \notin Temporary'
    BY <1>1
  <2>1. p[1] = "tmp" /\ p \in DOMAIN files
    BY <1>2 DEF WorkInv, FilesInv
  <2>2. p[3] \in 0..d
    BY <2>1 DEF StreamsInv
  <2>3. p[3] # d + 1
    BY <1>1, <2>2
  <2> QED
    BY <1>6, <2>1, <2>3
<1>9. \A p \in DOMAIN files' : p[1] = "out" => Known(p)'
  <2>1. \A p \in DOMAIN files' : p[1] = "out" => Known(p)
    BY <1>2, <1>7 DEF WorkInv
  <2>2. \A p : Known(p) => Known(p)'
    BY <1>1 DEF Known, OutOf, Out
  <2> QED
    BY <2>1, <2>2
<1>10. \A k \in DOMAIN outputs' : OutOf(outputs[k])' \in DOMAIN files'
  <2>1. \A k \in DOMAIN outputs : OutOf(outputs[k]) \in DOMAIN files'
    BY <1>2, <1>7 DEF WorkInv
  <2> QED
    BY <1>1, <2>1 DEF OutOf, Out
<1>11. media' \in Seq(Seq(Piece)) /\ Len(media') = d' - 1
  BY <1>1, <1>2 DEF WorkInv, Kinds
<1>12. WorkInv'
  BY <1>1, <1>5, <1>7, <1>8, <1>9, <1>10, <1>11 DEF WorkInv, Kinds
<1>13. \A k \in DOMAIN outputs' : outputs'[k] \in 1..d'
  BY <1>1 DEF FilesInv
<1>14. outputs' \in Seq(Nat) /\ stuck' \subseteq DOMAIN files'
  BY <1>1, <1>7 DEF FilesInv
<1> QED
  BY <1>1, <1>11, <1>12, <1>13, <1>14 DEF FilesInv

(* A period is planned, or left out of the plan.                            *)
LEMMA FilesPlanned ==
  ASSUME PlanInv, FilesInv, SkipPeriod \/ PlanPeriod
  PROVE  FilesInv'
<1>1. /\ pc = "plan" /\ pc' = "plan" /\ UNCHANGED <<d, opt, have, got, files, stuck, outputs, media>>
      /\ d = 0
  BY DEF SkipPeriod, PlanPeriod, Planning, planVars, fileVars, PlanInv
<1>2. WorkInv
  BY <1>1 DEF FilesInv, Working, Final
<1>3. DOMAIN outputs = {}
  <2>1. \A k \in DOMAIN outputs : outputs[k] \in 1..0
    BY <1>1 DEF FilesInv
  <2>2. \A n : n \notin 1..0
    OBVIOUS
  <2>3. \A k : k \notin DOMAIN outputs
    BY <2>1, <2>2, Zenon
  <2> QED
    BY <2>3, Zenon
<1>4. \A p \in DOMAIN files : p[1] # "out"
  BY <1>1, <1>2, <1>3 DEF WorkInv, Known
<1>5. /\ \A p \in stuck : p[1] = "tmp"
      /\ \A p \in DOMAIN files : files[p] \in Seq(Piece)
      /\ got \in [Kinds -> Seq(Piece)] /\ media \in Seq(Seq(Piece)) /\ Len(media) = d
  BY <1>1, <1>2 DEF WorkInv, Kinds
<1>6. WorkInv'
  BY <1>1, <1>3, <1>4, <1>5 DEF WorkInv, InPeriod, Kinds
<1> QED
  BY <1>1, <1>6 DEF FilesInv

(* The download ends without any file being lost.                           *)
LEMMA FilesEnd ==
  ASSUME FilesInv, UNCHANGED <<d, outputs>>, pc' \in Final,
         media' = media, stuck' = stuck, DOMAIN files \subseteq DOMAIN files'
  PROVE  FilesInv'
  BY DEF FilesInv, Working

(* The joined file takes the place of the outputs.                          *)
LEMMA FilesJoined ==
  ASSUME PlanInv, FilesInv, Concatenate
  PROVE  FilesInv'
<1> DEFINE first == OutOf(outputs[1])
           others == {OutOf(outputs[k]) : k \in 2..Len(outputs)}
<1>1. /\ pc \in {"plan", "period"} /\ pc' = "joined" /\ UNCHANGED <<d, outputs, media>>
      /\ \E s \in SUBSET others : \E content :
           files' = WriteAll(Delete(others \ s), {first}, content) /\ stuck' = stuck \cup s
  BY DEF Concatenate, Finished, Iterating
<1>2. WorkInv
  BY <1>1 DEF FilesInv, Working, Final
<1>3. \A p \in others : p[1] = "out" /\ p \in DOMAIN files
  <2>1. \A k \in 2..Len(outputs) : k \in DOMAIN outputs
    BY DEF FilesInv
  <2> QED
    BY <1>2, <2>1, Paths DEF WorkInv, OutOf
<1>4. \A p \in stuck : p[1] = "tmp" /\ p \in DOMAIN files
  BY <1>2 DEF WorkInv, FilesInv
<1>5. PICK s \in SUBSET others : \E content :
           files' = WriteAll(Delete(others \ s), {first}, content) /\ stuck' = stuck \cup s
  BY <1>1
<1>6. DOMAIN files' = (DOMAIN files \ (others \ s)) \cup {first}
  BY <1>5, Deleted DEF WriteAll
<1>7. stuck' \subseteq DOMAIN files'
  BY <1>3, <1>4, <1>5, <1>6
<1> HIDE DEF first, others
<1> QED
  BY <1>1, <1>7 DEF FilesInv, Working, Final

(* At first there is no file.                                               *)
LEMMA FilesInit == Init => FilesInv
<1> SUFFICES ASSUME Init PROVE FilesInv
  OBVIOUS
<1>1. /\ pc = "plan" /\ d = 0 /\ outputs = << >> /\ files = << >> /\ stuck = {} /\ media = << >>
      /\ got = [k \in Kinds |-> << >>]
  BY DEF Init
<1>2. << >> \in Seq(Piece) /\ << >> \in Seq(Seq(Piece)) /\ << >> \in Seq(Nat)
  OBVIOUS
<1>3. got \in [Kinds -> Seq(Piece)]
  BY <1>1, <1>2
<1>4. WorkInv
  BY <1>1, <1>2, <1>3 DEF WorkInv, Kinds
<1> QED
  BY <1>1, <1>2, <1>4 DEF FilesInv

(* Every action keeps the files in order.                                   *)
LEMMA FilesStep ==
  PlanInv /\ StreamsInv /\ DeliveryInv /\ FilesInv /\ [Next]_vars => FilesInv'
<1> SUFFICES ASSUME PlanInv, StreamsInv, DeliveryInv, FilesInv, [Next]_vars PROVE FilesInv'
  OBVIOUS
<1>1. CASE PlanError \/ CounterPanics \/ PathPanics \/ StartFails \/ MuxFails \/ LeaveSeparate
  <2>1. UNCHANGED <<d, outputs, files, stuck, media>> /\ pc' \in Final
    BY <1>1 DEF PlanError, Planning, CounterPanics, PathPanics, StartFails, MuxFails, LeaveSeparate,
                fileVars, Final
  <2> QED
    BY <2>1, FilesEnd
<1>2. ASSUME NEW kind \in Kinds, StreamFails(kind) PROVE FilesInv'
  <2>1. UNCHANGED <<d, outputs, files, stuck, media>> /\ pc' \in Final
    BY <1>2 DEF StreamFails, fileVars, Final
  <2> QED
    BY <2>1, FilesEnd
<1>3. CASE MergeFails \/ ConcatenateFails
  <2>1. UNCHANGED <<d, outputs, stuck, media>> /\ pc' \in Final
    BY <1>3 DEF MergeFails, ConcatenateFails, Final
  <2>2. files' = files \/ \E path, content : files' = Write(path, content)
    BY <1>3 DEF MergeFails, ConcatenateFails
  <2>w. ASSUME NEW path, NEW content, files' = Write(path, content)
        PROVE  DOMAIN files \subseteq DOMAIN files'
    BY <2>w DEF Write, WriteAll
  <2>3. DOMAIN files \subseteq DOMAIN files'
    BY <2>2, <2>w
  <2> QED
    BY <2>1, <2>3, FilesEnd
<1>4. CASE UNCHANGED vars
  <2>1. /\ UNCHANGED <<d, outputs, files, stuck, media, pc, got, have, opt>>
        /\ pds' = pds
    BY <1>4 DEF vars, fileVars, planVars
  <2>2. /\ Temporary' = Temporary /\ Working' = Working /\ AV' = AV
        /\ (\A n : OutOf(n)' = OutOf(n)) /\ \A p : Known(p) => Known(p)'
    BY <2>1 DEF Temporary, StreamPath, Working, Known, OutOf, Out, AV
  <2>3. \A k \in DOMAIN outputs : OutOf(outputs[k])' = OutOf(outputs[k])
    BY <2>1 DEF OutOf, Out
  <2>4. WorkInv => WorkInv'
    BY <2>1, <2>2, <2>3 DEF WorkInv
  <2> QED
    BY <2>1, <2>2, <2>4 DEF FilesInv
<1>5. ASSUME NEW kind \in Kinds,
             SkipStream(kind) \/ StartStream(kind) \/ FragmentSettled(kind) \/ StreamDone(kind)
      PROVE  FilesInv'
  BY <1>5, FilesStream
<1>6. CASE SkipPeriod \/ PlanPeriod
  BY <1>6, FilesPlanned
<1>7. CASE Mux \/ NothingToMux \/ MergeSubtitles
  BY <1>7, FilesMuxed
<1>8. StartPeriod \/ CleanUp \/ Concatenate => FilesInv'
  BY FilesStarted, FilesCleaned, FilesJoined
<1> QED
  BY <1>1, <1>2, <1>3, <1>4, <1>5, <1>6, <1>7, <1>8 DEF Next, FragmentSettled

(* What is in the files of the streams, of the outputs and in the media.    *)
LEMMA FilesHold == Spec => [](DeliveryInv /\ FilesInv)
<1>1. Init => DeliveryInv /\ StreamsInv /\ FilesInv
  <2> SUFFICES ASSUME Init PROVE DeliveryInv /\ StreamsInv
    BY FilesInit
  <2>1. wanted = {} /\ settled = {} /\ out = << >> /\ pc = "plan" /\ files = << >>
    BY DEF Init, Delivery!Init
  <2> QED
    BY <2>1 DEF DeliveryInv, StreamsInv, InPeriod, Kinds
<1>2. PlanInv /\ DeliveryInv /\ StreamsInv /\ FilesInv /\ [Next]_vars
        => DeliveryInv' /\ StreamsInv' /\ FilesInv'
  BY DeliveryStep, StreamsKept, FilesStep
<1> QED
  BY <1>1, <1>2, PlanHolds, PTL DEF Spec

-----------------------------------------------------------------------------
(* Types.                                                                  *)

(* The numbers of the periods are bytes, and the errors stay within one of  *)
(* the limit.                                                               *)
RangeInv ==
  /\ period_counter \in 0..(CounterModulus - 1)
  /\ \A k \in DOMAIN pds : pds[k].counter \in 0..(CounterModulus - 1)
  /\ download_errors \in 0..(MaxErrorCount + 1)
  /\ pc \in Kinds \cup Final \cup {"plan", "period", "mux", "merge", "clean"}

(* A sequence whose entries are in a set is a sequence over that set.       *)
LEMMA Entries ==
  ASSUME NEW S, NEW T, NEW s \in Seq(S), \A k \in DOMAIN s : s[k] \in T
  PROVE  s \in Seq(T)
  OBVIOUS

(* The next number is the remainder of a division by 256.                   *)
LEMMA CountedRange == ASSUME PlanInv PROVE Counted \in 0..(CounterModulus - 1)
<1>1. period_counter + 1 \in Nat /\ CounterModulus \in Nat \ {0}
  BY DownloadAssumption DEF PlanInv
<1>2. \A n \in Nat, m \in Nat \ {0} : n % m \in 0..(m - 1)
  OBVIOUS
<1> QED
  BY <1>1, <1>2 DEF Counted

(* Every action keeps its numbers within their ranges.                      *)
LEMMA RangeStep == PlanInv /\ BudgetInv /\ BudgetInv' /\ RangeInv /\ [Next]_vars => RangeInv'
<1> SUFFICES ASSUME PlanInv, BudgetInv, BudgetInv', RangeInv, [Next]_vars PROVE RangeInv'
  OBVIOUS
<1> USE DownloadAssumption
<1> DEFINE Stages == Kinds \cup Final \cup {"plan", "period", "mux", "merge", "clean"}
<1>1. ASSUME UNCHANGED planVars, pc' \in Stages,
             download_errors' = download_errors \/ pc' # "failed"
      PROVE  RangeInv'
  <2>1. download_errors' \in 0..(MaxErrorCount + 1)
    <3>1. CASE download_errors' = download_errors
      BY <3>1 DEF RangeInv
    <3>2. CASE pc' # "failed"
      <4>1. download_errors' \in Nat /\ download_errors' <= MaxErrorCount
        BY <3>2 DEF BudgetInv, BudgetShared
      <4> QED
        BY <4>1
    <3> QED
      BY <1>1, <3>1, <3>2
  <2> QED
    BY <1>1, <2>1 DEF RangeInv, planVars
<1>2. CASE SkipPeriod \/ PlanError
  <2>1. /\ period_counter' = Counted /\ pds' = pds /\ download_errors' = download_errors
        /\ pc' = pc \/ pc' = "failed"
    BY <1>2 DEF SkipPeriod, PlanError, Planning, dsVars
  <2> QED
    BY <2>1, CountedRange DEF RangeInv, Final
<1>3. CASE PlanPeriod
  <2>1. /\ period_counter' = Counted /\ download_errors' = download_errors /\ pc' = pc
        /\ \E new : pds' = Append(pds, new) /\ new.counter = Counted
    BY <1>3 DEF PlanPeriod, Planning, dsVars
  <2>2. PICK new : pds' = Append(pds, new) /\ new.counter = Counted
    BY <2>1
  <2>3. \A k \in DOMAIN pds' : pds'[k] = new \/ (k \in DOMAIN pds /\ pds'[k] = pds[k])
    BY <2>2 DEF PlanInv
  <2> QED
    BY <2>1, <2>2, <2>3, CountedRange DEF RangeInv
<1>4. ASSUME NEW kind \in Kinds, StreamFails(kind) PROVE RangeInv'
  <2>1. /\ UNCHANGED planVars /\ pc' = "failed"
        /\ download_errors' \in download_errors..(MaxErrorCount + 1)
    BY <1>4 DEF StreamFails
  <2>2. download_errors' \in 0..(MaxErrorCount + 1)
    BY <2>1 DEF RangeInv
  <2> QED
    BY <2>1, <2>2 DEF RangeInv, planVars, Final
<1>5. ASSUME NEW kind \in Kinds,
             \/ SkipStream(kind) \/ StartStream(kind) \/ StreamDone(kind)
             \/ FragmentDelivered(kind) \/ FragmentDiscarded(kind) \/ FragmentLost(kind)
      PROVE  RangeInv'
  <2>1. UNCHANGED planVars /\ pc' \in Kinds \cup {"mux"}
    BY <1>5 DEF SkipStream, StartStream, StreamDone, FragmentDelivered, FragmentDiscarded,
                FragmentLost, Settled, Fetching, After, Kinds
  <2>2. pc' \in Stages /\ pc' # "failed"
    BY <2>1 DEF Kinds
  <2> QED
    BY <1>1, <2>1, <2>2
<1>6. CASE \/ CounterPanics \/ PathPanics \/ StartPeriod \/ StartFails \/ Mux \/ MuxFails
           \/ NothingToMux \/ MergeSubtitles \/ MergeFails \/ CleanUp \/ LeaveSeparate
           \/ Concatenate \/ ConcatenateFails
  <2>1. UNCHANGED planVars /\ download_errors' = download_errors /\ pc' \in Stages
    BY <1>6, Zenon
       DEF CounterPanics, PathPanics, StartPeriod, StartFails, Mux, MuxFails, NothingToMux,
           MergeSubtitles, MergeFails, CleanUp, LeaveSeparate, Concatenate, ConcatenateFails,
           dsVars, Final, Kinds
  <2> QED
    BY <1>1, <2>1
<1>7. CASE UNCHANGED vars
  BY <1>1, <1>7 DEF vars, dsVars, RangeInv
<1> QED
  BY <1>2, <1>3, <1>4, <1>5, <1>6, <1>7 DEF Next

(* Every variable keeps its type: no index leaves its sequence, nothing is  *)
(* remembered as stuck that is not there, no more is counted than was       *)
(* planned, and no progress leaves 0..100.                                  *)
THEOREM DownloadTypes == Spec => []TypeOK
<1>1. Init => RangeInv /\ BudgetInv /\ LeftInv
  BY DownloadAssumption DEF Init, RangeInv, BudgetInv, BudgetShared, LeftInv, Delivery!Init
<1>2. PlanInv /\ BudgetInv /\ CountInv /\ ProgressInv /\ DeliveryInv /\ FilesInv /\ RangeInv
        /\ LeftInv => TypeOK
  <2> SUFFICES ASSUME PlanInv, BudgetInv, CountInv, ProgressInv, DeliveryInv, FilesInv, RangeInv,
                      LeftInv
               PROVE  TypeOK
    OBVIOUS
  <2>1. pds \in Seq([counter : 0..(CounterModulus - 1), audio : Nat, video : Nat,
                     subs : Nat, stpp : BOOLEAN])
    <3>1. ASSUME NEW k \in DOMAIN pds
          PROVE  pds[k] \in [counter : 0..(CounterModulus - 1), audio : Nat, video : Nat,
                             subs : Nat, stpp : BOOLEAN]
      <4>1. pds[k] \in Planned /\ pds[k].counter \in 0..(CounterModulus - 1)
        BY DEF PlanInv, RangeInv
      <4> QED
        BY <4>1 DEF Planned
    <3>2. pds \in Seq(Planned)
      BY DEF PlanInv
    <3> QED
      BY <3>1, <3>2, Entries
  <2>2. outputs \in Seq(1..d)
    BY Entries DEF FilesInv
  <2>3. segment_counter \in 0..segment_count
    BY SumsHold DEF CountInv, SumFacts
  <2> QED
    BY <2>1, <2>2, <2>3 DEF TypeOK, PlanInv, BudgetInv, ProgressInv, DeliveryInv, FilesInv, RangeInv,
                            LeftInv
<1> QED
  BY <1>1, <1>2, BudgetStep, RangeStep, LeftStep, PlanHolds, CountHolds, ProgressHolds, FilesHold, PTL DEF Spec

-----------------------------------------------------------------------------
(* The joined file.                                                        *)

(* What the files of the outputs hold, and their running concatenation.     *)
Parts == [k \in 1..Len(outputs) |-> files[OutOf(outputs[k])]]
JoinOf(from) == CHOOSE upto :
                  upto = [k \in 0..Len(outputs) |->
                            IF k < from THEN << >> ELSE upto[k - 1] \o files[OutOf(outputs[k])]]

(* OutContents concatenates the files from the given one on.                *)
LEMMA ContentsAreJoined ==
  ASSUME Len(outputs) \in Nat, NEW from \in Nat \ {0}
  PROVE  /\ OutContents(from) = JoinOf(from)[Len(outputs)]
         /\ IsJoins(JoinOf(from), Parts, from - 1, Len(outputs))
<1> DEFINE n == Len(outputs)
           Next1(s) == [k \in 0..n |-> IF k <= from - 1 THEN << >> ELSE s[k - 1] \o Parts[k]]
           Next2(s) == [k \in 0..n |->
                          IF k < from THEN << >> ELSE s[k - 1] \o files[OutOf(outputs[k])]]
<1>1. OutContents(from) = JoinOf(from)[n]
  BY DEF OutContents, JoinOf
<1>2. ASSUME NEW s PROVE Next1(s) = Next2(s)
  <2>1. ASSUME NEW k \in 0..n
        PROVE  (IF k <= from - 1 THEN << >> ELSE s[k - 1] \o Parts[k])
                 = (IF k < from THEN << >> ELSE s[k - 1] \o files[OutOf(outputs[k])])
    <3>1. CASE k < from
      BY <3>1
    <3>2. CASE ~(k < from)
      <4>1. k \in 1..n /\ ~(k <= from - 1)
        BY <3>2
      <4>2. Parts[k] = files[OutOf(outputs[k])]
        BY <4>1 DEF Parts
      <4> QED
        BY <3>2, <4>1, <4>2
    <3> QED
      BY <3>1, <3>2
  <2> QED
    BY <2>1
<1>3. PICK s : IsJoins(s, Parts, from - 1, n)
  BY JoinsExist
<1>4. s = Next2(s)
  BY <1>2, <1>3, Zenon DEF IsJoins
<1>5. JoinOf(from) = Next2(JoinOf(from))
  <2> HIDE DEF n
  <2>1. \E u : u = Next2(u)
    BY <1>4, Zenon
  <2> QED
    BY <2>1, Zenon DEF JoinOf, n
<1>6. IsJoins(JoinOf(from), Parts, from - 1, n)
  BY <1>2, <1>5, Zenon DEF IsJoins
<1> QED
  BY <1>1, <1>6

(* Rest concatenates what was fetched for all periods but the first.        *)
LEMMA RestIsJoined ==
  ASSUME Len(outputs) \in Nat \ {0},
         NEW s, IsJoins(s, [k \in 1..Len(outputs) |-> media[outputs[k]]], 1, Len(outputs))
  PROVE  Rest = s[Len(outputs)]
<1> DEFINE n == Len(outputs)
           fetched == [k \in 1..n |-> media[outputs[k]]]
           From2(u) == [k \in 1..n |-> IF k = 1 THEN << >> ELSE u[k - 1] \o media[outputs[k]]]
           R == CHOOSE u : u = From2(u)
           t == [k \in 0..n |-> IF k = 0 THEN << >> ELSE R[k]]
           u == [k \in 1..n |-> s[k]]
<1>1. Rest = R[n]
  BY DEF Rest
<1>2. u = From2(u)
  <2>1. \A k \in 0..n : s[k] = IF k <= 1 THEN << >> ELSE s[k - 1] \o fetched[k]
    BY DEF IsJoins
  <2>2. ASSUME NEW k \in 1..n
        PROVE  s[k] = IF k = 1 THEN << >> ELSE u[k - 1] \o media[outputs[k]]
    <3>1. CASE k = 1
      <4>1. 1 \in 0..n /\ 1 <= 1
        OBVIOUS
      <4>2. s[1] = << >>
        BY <2>1, <4>1, Zenon
      <4> QED
        BY <3>1, <4>2, Zenon
    <3>2. CASE k # 1
      <4>1. k \in 0..n /\ ~(k <= 1) /\ k - 1 \in 1..n
        BY <3>2
      <4> QED
        BY <2>1, <3>2, <4>1
    <3> QED
      BY <3>1, <3>2
  <2> HIDE DEF u
  <2>3. [k \in 1..n |-> s[k]] = From2(u)
    BY <2>2
  <2> QED
    BY <2>3 DEF u
<1>3. R = From2(R)
  <2>1. \E v : v = From2(v)
    BY <1>2, Zenon
  <2> HIDE DEF From2
  <2> QED
    BY <2>1, Zenon
<1> HIDE DEF R, u
<1>4. IsJoins(t, fetched, 1, n)
  <2>1. ASSUME NEW k \in 0..n
        PROVE  (IF k = 0 THEN << >> ELSE R[k]) = IF k <= 1 THEN << >> ELSE t[k - 1] \o fetched[k]
    <3>1. CASE k = 0
      BY <3>1
    <3>2. CASE k = 1
      <4>1. 1 \in 1..n
        BY <2>1, <3>2
      <4>2. R[1] = << >>
        BY <1>3, <4>1
      <4> QED
        BY <3>2, <4>2
    <3>3. CASE k \notin {0, 1}
      <4>1. k \in 1..n /\ ~(k <= 1) /\ k - 1 \in 1..n /\ k - 1 \in 0..n /\ k - 1 # 0
        BY <3>3
      <4>2. R[k] = R[k - 1] \o media[outputs[k]]
        BY <1>3, <3>3, <4>1
      <4>3. t[k - 1] = R[k - 1] /\ fetched[k] = media[outputs[k]]
        BY <4>1
      <4> QED
        BY <3>3, <4>1, <4>2, <4>3
    <3> QED
      BY <3>1, <3>2, <3>3
  <2> DEFINE v == t
  <2>2. \A k \in 0..n : (IF k = 0 THEN << >> ELSE R[k]) = IF k <= 1 THEN << >> ELSE v[k - 1] \o fetched[k]
    BY <2>1
  <2>3. v = [k \in 0..n |-> IF k = 0 THEN << >> ELSE R[k]]
    OBVIOUS
  <2> HIDE DEF v, fetched
  <2>4. v = [k \in 0..n |-> IF k <= 1 THEN << >> ELSE v[k - 1] \o fetched[k]]
    BY <2>2, <2>3
  <2> QED
    BY <2>4 DEF IsJoins, v
<1>5. s = t
  <2> HIDE DEF t, fetched
  <2>1. \A k \in 1..n : k > 1 => fetched[k] = fetched[k]
    OBVIOUS
  <2>2. IsJoins(s, fetched, 1, n)
    BY DEF fetched
  <2> QED
    BY <1>4, <2>1, <2>2, JoinsUnique
<1>6. t[n] = R[n]
  OBVIOUS
<1> QED
  BY <1>1, <1>5, <1>6

(* What is put before a sequence leaves that at the end.                    *)
LEMMA SuffixOfJoin ==
  ASSUME NEW S, NEW a \in Seq(S), NEW b \in Seq(S)
  PROVE  /\ Len(a \o b) >= Len(b)
         /\ SubSeq(a \o b, Len(a \o b) - Len(b) + 1, Len(a \o b)) = b
<1> DEFINE c == a \o b
           m == Len(c) - Len(b) + 1
           e == SubSeq(c, m, Len(c))
<1>1. /\ c \in Seq(S) /\ Len(c) = Len(a) + Len(b) /\ Len(a) \in Nat /\ Len(b) \in Nat
      /\ \A k \in 1..Len(b) : c[Len(a) + k] = b[k]
  OBVIOUS
<1> HIDE DEF c
<1>2. m = Len(a) + 1 /\ Len(c) - m + 1 = Len(b)
  BY <1>1
<1>3. \A k \in 1..Len(b) : m + k - 1 = Len(a) + k /\ m + k - 1 \in 1..Len(c)
  BY <1>1, <1>2
<1>4. e \in Seq(S) /\ Len(e) = Len(b) /\ \A k \in 1..Len(b) : e[k] = c[m + k - 1]
  <2> HIDE DEF m
  <2>1. m \in Nat /\ m >= 1 /\ m <= Len(c) + 1 /\ Len(c) \in Nat
    BY <1>1, <1>2
  <2> QED
    BY <1>1, <1>2, <1>3, <2>1
<1>5. e = b
  <2> HIDE DEF e
  <2> QED
    BY <1>1, <1>3, <1>4
<1> QED
  BY <1>1, <1>5 DEF c

(* Nothing follows a concatenation.                                         *)
LEMMA JoinedIsLast == pc = "joined" => ~Next
  BY Zenon
     DEF Next, SkipPeriod, PlanPeriod, PlanError, Planning, CounterPanics, PathPanics, StartPeriod,
         StartFails, MorePeriods, Iterating, SkipStream, StartStream, FragmentDelivered,
         FragmentDiscarded, FragmentLost, Settled, StreamDone, StreamFails, Fetching, Kinds, Mux,
         MuxFails, NothingToMux, MergeSubtitles, MergeFails, CleanUp, LeaveSeparate, Concatenate,
         ConcatenateFails, Finished

(* The first file ends with what was fetched for the other periods, because *)
(* their outputs were intact, and no other output is left but those that    *)
(* could not be deleted, because every output was in the list.              *)
LEMMA ConcatenateJoins ==
  ASSUME PlanInv, FilesInv, OutputsIntact, Concatenate
  PROVE  JoinedInOrder'
<1> DEFINE n == Len(outputs)
           first == OutOf(outputs[1])
           others == {OutOf(outputs[k]) : k \in 2..Len(outputs)}
           fetched == [k \in 1..n |-> media[outputs[k]]]
<1>1. /\ pc \in {"plan", "period"} /\ pc' = "joined" /\ UNCHANGED <<outputs, media, pds>>
      /\ n > 1
      /\ \E s \in SUBSET others, prefix \in Prefixes(OutContents(1)) :
           /\ files' = WriteAll(Delete(others \ s), {first}, prefix \o OutContents(2))
           /\ stuck' = stuck \cup s
  BY DEF Concatenate, Finished, Iterating, planVars
<1>2. WorkInv
  BY <1>1 DEF FilesInv, Working, Final
<1>3. n \in Nat \ {0} /\ DOMAIN outputs = 1..n
  BY <1>1 DEF FilesInv
<1>4. \A k \in 1..n : /\ files[OutOf(outputs[k])] = media[outputs[k]]
                      /\ Parts[k] = files[OutOf(outputs[k])]
                      /\ Parts[k] \in Seq(Piece)
  BY <1>1, <1>2, <1>3 DEF OutputsIntact, WorkInv, Parts
<1>5. PICK s \in SUBSET others, prefix \in Prefixes(OutContents(1)) :
           /\ files' = WriteAll(Delete(others \ s), {first}, prefix \o OutContents(2))
           /\ stuck' = stuck \cup s
  BY <1>1
<1>6. OutContents(1) \in Seq(Piece) /\ OutContents(2) \in Seq(Piece)
  <2>1. ASSUME NEW from \in {1, 2} PROVE OutContents(from) \in Seq(Piece)
    <3>1. OutContents(from) = JoinOf(from)[n] /\ IsJoins(JoinOf(from), Parts, from - 1, n)
      BY <1>3, ContentsAreJoined
    <3>2. from - 1 \in Nat /\ n \in 0..n
      BY <1>3
    <3> HIDE DEF n
    <3>3. \A k \in 0..n : JoinOf(from)[k] \in Seq(Piece)
      BY <1>3, <1>4, <3>1, <3>2, JoinsType
    <3> QED
      BY <3>1, <3>2, <3>3
  <2> QED
    BY <2>1
<1>7. prefix \in Seq(Piece)
  BY <1>6 DEF Prefixes
<1>8. OutContents(2) = Rest
  <2>1. OutContents(2) = JoinOf(2)[n] /\ IsJoins(JoinOf(2), Parts, 1, n)
    BY <1>3, ContentsAreJoined
  <2>2. PICK t : IsJoins(t, fetched, 1, n)
    BY <1>3, JoinsExist
  <2>3. \A k \in 1..n : k > 1 => Parts[k] = fetched[k]
    BY <1>4
  <2>4. Rest = t[n]
    BY <1>3, <2>2, RestIsJoined
  <2> HIDE DEF n, fetched
  <2>5. JoinOf(2) = t
    BY <1>3, <2>1, <2>2, <2>3, JoinsUnique
  <2> QED
    BY <2>1, <2>4, <2>5
<1> HIDE DEF n, others, fetched
<1>9. /\ DOMAIN files' = (DOMAIN files \ (others \ s)) \cup {first}
      /\ files'[first] = prefix \o Rest
  BY <1>5, <1>8, Deleted DEF WriteAll
<1>10. ASSUME NEW p \in DOMAIN files', p[1] = "out" PROVE p = first \/ p \in stuck'
  <2> SUFFICES ASSUME p # first PROVE p \in stuck'
    OBVIOUS
  <2>1. p \in DOMAIN files /\ (p \in others => p \in s)
    BY <1>9, <1>10
  <2>2. PICK k \in 1..n : p = OutOf(outputs[k])
    BY <1>1, <1>2, <1>3, <1>10, <2>1 DEF WorkInv, Known
  <2>3. k \in 2..n
    <3>1. k # 1
      BY <2>2
    <3> QED
      BY <1>3, <3>1
  <2> QED
    BY <1>5, <2>1, <2>2, <2>3 DEF others, n
<1>11. /\ Len(prefix \o Rest) >= Len(Rest)
       /\ SubSeq(prefix \o Rest, Len(prefix \o Rest) - Len(Rest) + 1, Len(prefix \o Rest)) = Rest
  BY <1>6, <1>7, <1>8, SuffixOfJoin
<1>12. Rest' = Rest /\ OutOf(outputs[1])' = first
  BY <1>1 DEF Rest, OutOf, Out
<1> HIDE DEF first
<1>13. files'[first] = prefix \o Rest
  BY <1>9
<1> QED
  BY <1>10, <1>11, <1>12, <1>13, Zenon DEF JoinedInOrder

(* With a manifest that the period counter can count: whatever the first    *)
(* file holds after the helpers, it ends with all the other periods, whole  *)
(* and in order, and nothing else is left of the outputs.                   *)
THEOREM PeriodsAreJoined == ASSUME Countable PROVE Spec => []JoinedInOrder
<1>1. Init => JoinedInOrder
  BY DEF Init, JoinedInOrder
<1>2. PlanInv /\ FilesInv /\ OutputsIntact /\ JoinedInOrder /\ [Next]_vars => JoinedInOrder'
  <2> SUFFICES ASSUME PlanInv, FilesInv, OutputsIntact, JoinedInOrder, [Next]_vars
               PROVE  JoinedInOrder'
    OBVIOUS
  <2>1. CASE Concatenate
    BY <2>1, ConcatenateJoins
  <2>2. CASE UNCHANGED vars
    <3>1. UNCHANGED <<pc, files, stuck, outputs, media, pds>>
      BY <2>2 DEF vars, planVars, fileVars
    <3>2. Rest' = Rest /\ OutOf(outputs[1])' = OutOf(outputs[1])
      BY <3>1 DEF Rest, OutOf, Out
    <3> QED
      BY <3>1, <3>2 DEF JoinedInOrder
  <2>3. CASE Next /\ ~Concatenate
    <3>1. pc' # "joined"
      BY <2>3, JoinedIsLast, Zenon
         DEF Next, SkipPeriod, PlanPeriod, PlanError, Planning, CounterPanics, PathPanics,
             StartPeriod, StartFails, SkipStream, StartStream, FragmentDelivered,
             FragmentDiscarded, FragmentLost, Settled, StreamDone, StreamFails, Fetching, After,
             Kinds, Mux, MuxFails, NothingToMux, MergeSubtitles, MergeFails, CleanUp,
             LeaveSeparate, ConcatenateFails
    <3> QED
      BY <3>1 DEF JoinedInOrder
  <2> QED
    BY <2>1, <2>2, <2>3
<1> QED
  BY <1>1, <1>2, PlanHolds, FilesHold, OutputsAreIntact, PTL DEF Spec
=============================================================================
