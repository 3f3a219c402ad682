---------------------------- MODULE DownloadProofs ----------------------------
(***************************************************************************)
(* Proofs about Download for every manifest, every setting and every error *)
(* limit: the shared budget of errors, the temporary files, and the output *)
(* of every period.                                                        *)
(***************************************************************************)
EXTENDS Download, FiniteSetTheorems, TLAPS

(* The stages of the work on one period.                                    *)
InPeriod == Kinds \cup {"mux", "merge", "clean"}

(* What is missing has been paid for.                                       *)
BudgetInv ==
  /\ losses \in Nat /\ subs_lost \in Nat /\ download_errors \in Nat
  /\ BudgetShared

(* Paying for one more lost fragment.                                       *)
LEMMA OneMoreLost ==
  ASSUME NEW n \in Nat, NEW c \in Nat
  PROVE  n * c \in Nat /\ (n + 1) * c = n * c + c
  OBVIOUS

(* No step spends without paying or goes on over the limit.                 *)
LEMMA BudgetStep == BudgetInv /\ [Next]_vars => BudgetInv'
<1> SUFFICES ASSUME BudgetInv, [Next]_vars PROVE BudgetInv'
  OBVIOUS
<1> USE DownloadAssumption
<1> DEFINE Paid == losses * FragmentRetryCount
<1>0. /\ losses \in Nat /\ subs_lost \in Nat /\ download_errors \in Nat
      /\ Paid \in Nat /\ (losses + 1) * FragmentRetryCount = Paid + FragmentRetryCount
      /\ Paid + subs_lost <= download_errors
      /\ pc # "failed" => download_errors <= MaxErrorCount
  BY OneMoreLost DEF BudgetInv, BudgetShared
<1>1. ASSUME losses' = losses, subs_lost' = subs_lost, download_errors' = download_errors,
             pc' # "failed" => pc # "failed"
      PROVE  BudgetInv'
  BY <1>0, <1>1 DEF BudgetInv, BudgetShared
<1>2. ASSUME losses' = losses, subs_lost' = subs_lost,
             NEW e \in Nat, download_errors' = download_errors + e,
             pc' # "failed" => download_errors' <= MaxErrorCount
      PROVE  BudgetInv'
  BY <1>0, <1>2 DEF BudgetInv, BudgetShared
<1> HIDE DEF Paid
<1>3. ASSUME NEW kind \in Kinds, FragmentDelivered(kind) PROVE BudgetInv'
  <2>1. PICK e \in Retries(kind) : Settled(kind, e)
    BY <1>3 DEF FragmentDelivered
  <2>2. e \in Nat
    BY <2>1 DEF Retries
  <2>3. /\ download_errors' = download_errors + e /\ download_errors' <= MaxErrorCount
        /\ losses' = losses /\ subs_lost' = subs_lost
    BY <1>3, <2>1 DEF Settled, FragmentDelivered, Delivery!Deliver
  <2> QED
    BY <1>2, <2>2, <2>3
<1>4. ASSUME NEW kind \in Kinds, FragmentDiscarded(kind) PROVE BudgetInv'
  <2>1. PICK e \in Retries(kind) : Settled(kind, e)
    BY <1>4 DEF FragmentDiscarded
  <2>2. e \in Nat
    BY <2>1 DEF Retries
  <2>3. /\ download_errors' = download_errors + e /\ download_errors' <= MaxErrorCount
        /\ losses' = losses /\ subs_lost' = subs_lost
    BY <1>4, <2>1 DEF Settled, FragmentDiscarded, Delivery!Discard
  <2> QED
    BY <1>2, <2>2, <2>3
<1>5. ASSUME NEW kind \in Kinds, FragmentLost(kind) PROVE BudgetInv'
  <2>1. CASE kind = "subs"
    <3>1. /\ download_errors' = download_errors + 1 /\ download_errors' <= MaxErrorCount
          /\ losses' = losses /\ subs_lost' = subs_lost + 1
      BY <1>5, <2>1 DEF Settled, FragmentLost
    <3> QED
      BY <1>0, <3>1 DEF BudgetInv, BudgetShared, Paid
  <2>2. CASE kind # "subs"
    <3>1. /\ download_errors' = download_errors + FragmentRetryCount
          /\ download_errors' <= MaxErrorCount
          /\ losses' = losses + 1 /\ subs_lost' = subs_lost
      BY <1>5, <2>2 DEF Settled, FragmentLost, Delivery!Lose
    <3>2. losses' * FragmentRetryCount = Paid + FragmentRetryCount
      BY <1>0, <3>1
    <3> QED
      BY <1>0, <3>1, <3>2 DEF BudgetInv, BudgetShared
  <2> QED
    BY <2>1, <2>2
<1>6. ASSUME NEW kind \in Kinds, StreamFails(kind) PROVE BudgetInv'
  <2>1. /\ download_errors' \in download_errors..(MaxErrorCount + 1)
        /\ losses' = losses /\ subs_lost' = subs_lost /\ pc' = "failed"
    BY <1>6 DEF StreamFails, Delivery!Fail
  <2>2. download_errors' \in Nat /\ download_errors' >= download_errors
    BY <1>0, <2>1
  <2> QED
    BY <1>0, <2>1, <2>2 DEF BudgetInv, BudgetShared, Paid
<1>7. ASSUME NEW kind \in Kinds, SkipStream(kind) \/ StartStream(kind) \/ StreamDone(kind)
      PROVE  BudgetInv'
  <2>1. pc # "failed" /\ UNCHANGED <<losses, subs_lost, download_errors>>
    BY <1>7 DEF SkipStream, StartStream, StreamDone, Fetching, Kinds, Delivery!Begin,
                Delivery!Complete, streamVars, dsVars
  <2> QED
    BY <1>1, <2>1
<1>8. CASE UNCHANGED vars
  BY <1>1, <1>8 DEF vars, streamVars, dsVars
<1>9. CASE SkipPeriod \/ PlanPeriod \/ PlanError \/ CounterPanics \/ PathPanics \/ StartPeriod
           \/ StartFails \/ Mux \/ MuxFails \/ NothingToMux \/ MergeSubtitles \/ MergeFails
           \/ CleanUp \/ LeaveSeparate \/ Concatenate \/ ConcatenateFails
  <2>1. pc # "failed" /\ UNCHANGED <<losses, subs_lost, download_errors>>
    BY <1>9 DEF SkipPeriod, PlanPeriod, PlanError, Planning, CounterPanics, PathPanics, StartPeriod,
         StartFails, MorePeriods, Iterating, Mux, MuxFails, NothingToMux, MergeSubtitles, MergeFails,
         CleanUp, Finished, LeaveSeparate, Concatenate, ConcatenateFails, streamVars, dsVars
  <2> QED
    BY <1>1, <2>1
<1> QED
  BY <1>3, <1>4, <1>5, <1>6, <1>7, <1>8, <1>9 DEF Next

(* All the streams of all the periods of a download share one budget:       *)
(* whatever is missing from the outputs has been paid for from it.          *)
THEOREM BudgetIsShared == Spec => []BudgetShared
<1>1. Init => BudgetInv
  BY DownloadAssumption DEF Init, BudgetInv, BudgetShared, Delivery!Init
<1>2. BudgetInv => BudgetShared
  BY DEF BudgetInv
<1> QED
  BY <1>1, <1>2, BudgetStep, PTL DEF Spec

-----------------------------------------------------------------------------

(* What writing a file and deleting files do to the file system.            *)
LEMMA Written ==
  ASSUME NEW path, NEW content
  PROVE  /\ DOMAIN Write(path, content) = DOMAIN files \cup {path}
         /\ Write(path, content)[path] = content
         /\ \A p \in DOMAIN files : p # path => Write(path, content)[p] = files[p]
  BY DEF Write, WriteAll

(* A deletion takes away what it is given and leaves all else as it is.    *)
LEMMA Deleted ==
  ASSUME NEW paths
  PROVE  /\ DOMAIN Delete(paths) = DOMAIN files \ paths
         /\ \A p \in DOMAIN files \ paths : Delete(paths)[p] = files[p]
  BY DEF Delete, Restrict

(* No two streams of a period and no two periods share a file, and outputs  *)
(* are no temporary files.                                                  *)
LEMMA Paths ==
  /\ \A n : Out(n)[1] = "out"
  /\ \A m, n : Out(m) = Out(n) => m = n
  /\ \A k \in Kinds : StreamPath(k)[1] # "out" /\ (StreamPath(k)[1] = "tmp" <=> k \notin opt.keep)
  /\ \A n : \A k \in Kinds : StreamPath(k) # Out(n)
  /\ \A k, l \in Kinds : StreamPath(k) = StreamPath(l) => k = l
  BY DEF Out, StreamPath

(* A period as it is planned.                                               *)
Planned == [counter : Nat, audio : Nat, video : Nat, subs : Nat, stpp : BOOLEAN]

(* The plan, and where the download is in it.                               *)
PlanInv ==
  /\ manifest \in Manifests /\ opt \in Options
  /\ i \in 0..Len(manifest) /\ period_counter \in Nat
  /\ pds \in Seq(Planned)
  /\ d \in 0..Len(pds)
  /\ pc = "plan" => d = 0
  /\ pc \in InPeriod => d # 0
  /\ have \subseteq Kinds
  /\ \A k \in DOMAIN pds :
       /\ pds[k].audio > 0 => "audio" \in opt.fetch
       /\ pds[k].video > 0 => "video" \in opt.fetch
       /\ pds[k].subs > 0 => "subs" \in opt.fetch
  /\ status = "running" => pc \in Kinds \cap opt.fetch

(* The number of planned periods is a number.                              *)
LEMMA CountedType == ASSUME PlanInv PROVE Counted \in Nat
  BY DownloadAssumption DEF PlanInv, Counted

(* No period is planned at first.                                          *)
LEMMA PlanInit == Init => PlanInv
  BY DownloadAssumption DEF Init, PlanInv, InPeriod, Kinds, Delivery!Init

(* The plan grows while the manifest is read and stays as it is afterwards. *)
LEMMA PlanStep == PlanInv /\ [Next]_vars => PlanInv'
<1> SUFFICES ASSUME PlanInv, [Next]_vars PROVE PlanInv'
  OBVIOUS
<1> USE DownloadAssumption
<1>0. Len(manifest) \in Nat /\ Len(pds) \in Nat
  BY DEF PlanInv
<1>1. ASSUME UNCHANGED planVars, UNCHANGED d, have' \subseteq Kinds,
             pc' = "plan" => pc = "plan",
             pc' \in InPeriod => pc \in InPeriod,
             status' = "running" => pc' \in Kinds \cap opt.fetch
      PROVE  PlanInv'
  BY <1>1 DEF PlanInv, planVars
<1>2. CASE SkipPeriod
  BY <1>0, <1>2, CountedType DEF SkipPeriod, Planning, PlanInv, Kinds, InPeriod, streamVars
<1>3. CASE PlanPeriod
  <2>1. /\ pc = "plan" /\ i < Len(manifest) /\ i' = i + 1 /\ pc' = pc
        /\ UNCHANGED <<manifest, opt, d, have>>
        /\ period_counter' = Counted /\ status' = status
    BY <1>3 DEF PlanPeriod, Planning, streamVars
  <2>c. Counted \in Nat
    BY CountedType
  <2> DEFINE n(kind) == IF kind \in opt.fetch THEN manifest[i'][kind] ELSE 0
  <2>2. PICK parsed \in BOOLEAN :
          pds' = Append(pds, [counter |-> Counted, audio |-> n("audio"), video |-> n("video"),
                              subs |-> IF parsed THEN n("subs") ELSE 0,
                              stpp |-> parsed /\ manifest[i'].stpp /\ "subs" \in opt.fetch])
    BY <1>3 DEF PlanPeriod
  <2> DEFINE new == [counter |-> Counted, audio |-> n("audio"), video |-> n("video"),
                     subs |-> IF parsed THEN n("subs") ELSE 0,
                     stpp |-> parsed /\ manifest[i'].stpp /\ "subs" \in opt.fetch]
  <2>3. manifest[i'] \in Period
    BY <1>0, <2>1 DEF PlanInv
  <2>4. n("audio") \in Nat /\ n("video") \in Nat /\ n("subs") \in Nat
    BY <2>3 DEF Period
  <2>5. (parsed /\ manifest[i'].stpp /\ "subs" \in opt.fetch) \in BOOLEAN
    BY Zenon
  <2>6. new \in Planned
    BY <2>c, <2>4, <2>5 DEF Planned
  <2>7. /\ new.audio > 0 => "audio" \in opt.fetch
        /\ new.video > 0 => "video" \in opt.fetch
        /\ new.subs > 0 => "subs" \in opt.fetch
    BY <2>4
  <2> HIDE DEF new
  <2>8. pds' = Append(pds, new) /\ pds \in Seq(Planned)
    BY <2>2 DEF new, PlanInv
  <2>9. pds' \in Seq(Planned) /\ Len(pds') = Len(pds) + 1
    BY <2>6, <2>8
  <2>10. \A k \in DOMAIN pds' : pds'[k] = new \/ (k \in DOMAIN pds /\ pds'[k] = pds[k])
    BY <2>6, <2>8
  <2> QED
    BY <1>0, <2>1, <2>c, <2>7, <2>9, <2>10, SMTT(60) DEF PlanInv, InPeriod, Kinds
<1>4. CASE PlanError
  BY <1>0, <1>4, CountedType DEF PlanError, Planning, PlanInv, InPeriod, Kinds, streamVars
<1>5. CASE StartPeriod
  <2>1. /\ d' = d + 1 /\ d < Len(pds) /\ have' = {} /\ pc' = "audio"
        /\ UNCHANGED planVars /\ status' = status
    BY <1>5 DEF StartPeriod, MorePeriods, streamVars
  <2>2. status # "running"
    BY <1>5 DEF StartPeriod, MorePeriods, Iterating, PlanInv, Kinds
  <2> QED
    BY <1>0, <2>1, <2>2 DEF PlanInv, planVars, InPeriod, Kinds
<1>6. ASSUME NEW kind \in Kinds, StartStream(kind) PROVE PlanInv'
  <2>1. /\ UNCHANGED planVars /\ d' = d /\ have' = have /\ pc = kind /\ pc' = kind
        /\ pds[d][kind] > 0
    BY <1>6 DEF StartStream
  <2>2. d \in DOMAIN pds
    BY <1>0, <2>1 DEF PlanInv, InPeriod
  <2>3. kind \in opt.fetch
    BY <2>1, <2>2 DEF PlanInv, Kinds
  <2> QED
    BY <1>1, <2>1, <2>3 DEF PlanInv
<1>7. ASSUME NEW kind \in Kinds, SkipStream(kind) \/ StreamDone(kind) \/ StreamFails(kind)
      PROVE  PlanInv'
  BY <1>1, <1>7 DEF SkipStream, StreamDone, StreamFails, Delivery!Complete, Delivery!Fail, Fetching,
                    streamVars, After, InPeriod, Kinds, PlanInv
<1>8. ASSUME NEW kind \in Kinds,
             FragmentDelivered(kind) \/ FragmentDiscarded(kind) \/ FragmentLost(kind)
      PROVE  PlanInv'
  <2>1. /\ pc = kind /\ pc' = pc /\ status = "running" /\ UNCHANGED planVars /\ d' = d
        /\ have' \subseteq Kinds
    BY <1>8 DEF FragmentDelivered, FragmentDiscarded, FragmentLost, Settled, Fetching, PlanInv
  <2> QED
    BY <1>1, <2>1 DEF PlanInv, InPeriod
<1>9. CASE Mux \/ MuxFails \/ NothingToMux \/ MergeSubtitles \/ MergeFails \/ CleanUp
  BY <1>1, <1>9 DEF Mux, MuxFails, NothingToMux, MergeSubtitles, MergeFails, CleanUp, InPeriod, Kinds,
                    streamVars, PlanInv
<1>10. CASE CounterPanics \/ PathPanics \/ StartFails \/ LeaveSeparate \/ Concatenate
            \/ ConcatenateFails
  BY <1>1, <1>10 DEF CounterPanics, PathPanics, StartFails, LeaveSeparate, Concatenate,
                     ConcatenateFails, Finished, MorePeriods, Iterating, InPeriod, Kinds,
                     streamVars, PlanInv
<1>11. CASE UNCHANGED vars
  BY <1>1, <1>11 DEF vars, streamVars, PlanInv
<1> QED
  BY <1>2, <1>3, <1>4, <1>5, <1>6, <1>7, <1>8, <1>9, <1>10, <1>11 DEF Next

(* The plan is as described at all times.                                   *)
LEMMA PlanHolds == Spec => []PlanInv
  BY PlanInit, PlanStep, PTL DEF Spec

-----------------------------------------------------------------------------

(* What is fetched and kept are kinds of streams.                           *)
LEMMA OptType == ASSUME PlanInv PROVE opt.fetch \subseteq Kinds /\ opt.keep \subseteq Kinds
<1>1. opt \in Option
  BY DownloadAssumption DEF PlanInv
<1> QED
  BY <1>1 DEF Option, Kinds

(* The temporary files of the period in hand that will be deleted with it.  *)
Temporary == {StreamPath(k) : k \in opt.fetch \ opt.keep}

(* The only temporary files are those of the period in hand and those that  *)
(* could not be deleted, as long as nothing has failed.                     *)
TempInv ==
  pc # "failed" /\ ~opt.persist =>
    \A p \in DOMAIN files : p[1] = "tmp" => p \in stuck \/ (pc \in InPeriod /\ p \in Temporary)

(* Every action that makes a temporary file leaves it to CleanUp.           *)
LEMMA TempStep == PlanInv /\ TempInv /\ [Next]_vars => TempInv'
<1> SUFFICES ASSUME PlanInv, TempInv, [Next]_vars, pc' # "failed", ~opt'.persist PROVE TempInv'
  BY DEF TempInv
<1> USE DownloadAssumption
<1>0. opt.fetch \subseteq Kinds /\ opt.keep \subseteq Kinds
  BY OptType
<1>1. ASSUME opt' = opt, d' = d, stuck' = stuck, pc # "failed",
             pc \in InPeriod => pc' \in InPeriod,
             \A p \in DOMAIN files' : p \in DOMAIN files \/ p[1] # "tmp" \/
                                      (pc \in InPeriod /\ p \in Temporary)
      PROVE  TempInv'
  <2>1. Temporary' = Temporary
    BY <1>1 DEF Temporary, StreamPath
  <2> QED
    BY <1>1, <2>1 DEF TempInv
<1>2. ASSUME NEW kind \in Kinds, StartStream(kind) \/ StreamDone(kind) PROVE TempInv'
  <2>1. /\ opt' = opt /\ d' = d /\ stuck' = stuck /\ pc = kind /\ pc' \in InPeriod
        /\ \E c : files' = Write(StreamPath(kind), c)
        /\ kind \in opt.fetch
    <3>1. CASE StartStream(kind)
      <4>1. /\ opt' = opt /\ d' = d /\ stuck' = stuck /\ pc = kind /\ pc' = kind
            /\ files' = Write(StreamPath(kind), << >>)
            /\ status' = "running"
        BY <3>1 DEF StartStream, planVars, Delivery!Begin
      <4>2. kind \in opt.fetch
        BY <4>1, PlanStep DEF PlanInv
      <4> QED
        BY <4>1, <4>2 DEF InPeriod
    <3>2. CASE StreamDone(kind)
      BY <3>2 DEF StreamDone, Fetching, planVars, After, InPeriod, Kinds, PlanInv
    <3> QED
      BY <1>2, <3>1, <3>2
  <2>2. StreamPath(kind)[1] # "tmp" \/ StreamPath(kind) \in Temporary
    BY <1>0, <2>1, Paths DEF Temporary
  <2>3. PICK c : files' = Write(StreamPath(kind), c)
    BY <2>1
  <2>4. DOMAIN files' = DOMAIN files \cup {StreamPath(kind)}
    BY <2>3, Written
  <2> QED
    BY <1>1, <2>1, <2>2, <2>4 DEF InPeriod, Kinds
<1>3. ASSUME NEW kind \in Kinds,
             \/ SkipStream(kind) \/ StreamFails(kind)
             \/ FragmentDelivered(kind) \/ FragmentDiscarded(kind) \/ FragmentLost(kind)
      PROVE  TempInv'
  <2>1. /\ UNCHANGED <<opt, d, stuck, files>> /\ pc = kind /\ pc' \in InPeriod \cup {"failed"}
    BY <1>3 DEF SkipStream, StreamFails, FragmentDelivered, FragmentDiscarded, FragmentLost, Settled,
                Fetching, planVars, fileVars, After, InPeriod, Kinds
  <2> QED
    BY <1>1, <2>1 DEF InPeriod, Kinds
<1>4. CASE Mux \/ MergeSubtitles
  <2>1. /\ UNCHANGED <<opt, d, stuck>> /\ pc \in InPeriod /\ pc' \in InPeriod
        /\ files' = files \/ \E c : files' = Write(OutOf(d), c)
    BY <1>4 DEF Mux, MergeSubtitles, planVars, InPeriod, Kinds
  <2>2. OutOf(d)[1] # "tmp"
    BY Paths DEF OutOf
  <2>3. DOMAIN files' \subseteq DOMAIN files \cup {OutOf(d)}
    <3>1. ASSUME NEW c, files' = Write(OutOf(d), c) PROVE DOMAIN files' = DOMAIN files \cup {OutOf(d)}
      BY <3>1, Written
    <3> QED
      BY <2>1, <3>1
  <2> QED
    BY <1>1, <2>1, <2>2, <2>3 DEF InPeriod, Kinds
<1>5. CASE MuxFails \/ MergeFails \/ StartFails \/ PlanError
  BY <1>5 DEF MuxFails, MergeFails, StartFails, PlanError
<1>6. CASE NothingToMux
  BY <1>1, <1>6 DEF NothingToMux, planVars, InPeriod, Kinds
<1>7. CASE CleanUp
  <2>1. /\ opt' = opt /\ d' = d /\ pc = "clean" /\ pc' = "period"
        /\ \E s \in SUBSET (Temporary \cap DOMAIN files) :
             files' = Delete((Temporary \cap DOMAIN files) \ s) /\ stuck' = stuck \cup s
    BY <1>7, Zenon DEF CleanUp, planVars, Temporary
  <2>2. PICK s \in SUBSET (Temporary \cap DOMAIN files) :
          files' = Delete((Temporary \cap DOMAIN files) \ s) /\ stuck' = stuck \cup s
    BY <2>1
  <2>3. DOMAIN files' = DOMAIN files \ ((Temporary \cap DOMAIN files) \ s)
    BY <2>2, Deleted
  <2> QED
    BY <2>1, <2>2, <2>3 DEF TempInv
<1>8. CASE StartPeriod
  <2>1. /\ opt' = opt /\ UNCHANGED <<files, stuck>> /\ pc \in {"plan", "period"} /\ pc' = "audio"
    BY <1>8 DEF StartPeriod, MorePeriods, Iterating, planVars
  <2> QED
    BY <2>1 DEF TempInv, InPeriod, Kinds
<1>9. CASE SkipPeriod \/ PlanPeriod \/ CounterPanics \/ PathPanics \/ LeaveSeparate
  <2>1. UNCHANGED <<opt, d, stuck, files>> /\ pc \in {"plan", "period"}
    BY <1>9 DEF SkipPeriod, PlanPeriod, Planning, CounterPanics, PathPanics, LeaveSeparate, Finished,
                Iterating, planVars, fileVars
  <2> QED
    BY <1>1, <2>1 DEF InPeriod, Kinds
<1>10. CASE Concatenate
  <2> DEFINE first == OutOf(outputs[1])
             others == {OutOf(outputs[k]) : k \in 2..Len(outputs)}
  <2>1. PICK s \in SUBSET others, prefix \in Prefixes(OutContents(1)) :
          /\ files' = WriteAll(Delete(others \ s), {first}, prefix \o OutContents(2))
          /\ stuck' = stuck \cup s
    BY <1>10 DEF Concatenate
  <2>2. DOMAIN files' = (DOMAIN files \ (others \ s)) \cup {first}
    BY <2>1, Deleted DEF WriteAll
  <2>3. first[1] # "tmp"
    BY Paths DEF OutOf
  <2>4. opt' = opt /\ pc \in {"plan", "period"}
    BY <1>10 DEF Concatenate, Finished, Iterating, planVars
  <2> QED
    BY <2>1, <2>2, <2>3, <2>4 DEF TempInv, InPeriod, Kinds
<1>11. CASE ConcatenateFails
  <2>1. /\ opt' = opt /\ pc \in {"plan", "period"} /\ stuck' = stuck
        /\ \E c : files' = Write(OutOf(outputs[1]), c)
    BY <1>11 DEF ConcatenateFails, Finished, Iterating, planVars
  <2>2. OutOf(outputs[1])[1] # "tmp"
    BY Paths DEF OutOf
  <2>3. PICK c : files' = Write(OutOf(outputs[1]), c)
    BY <2>1
  <2>4. DOMAIN files' = DOMAIN files \cup {OutOf(outputs[1])}
    BY <2>3, Written
  <2> QED
    BY <2>1, <2>2, <2>4 DEF TempInv, InPeriod, Kinds
<1>12. CASE UNCHANGED vars
  <2>1. UNCHANGED <<opt, d, stuck, files, pc>>
    BY <1>12 DEF vars, planVars, fileVars
  <2> QED
    BY <1>1, <2>1
<1> QED
  BY <1>2, <1>3, <1>4, <1>5, <1>6, <1>7, <1>8, <1>9, <1>10, <1>11, <1>12 DEF Next

(* Why a temporary file of a muxer can be there: one that failed was        *)
(* mkvmerge, and files persist only where that was asked for.               *)
LeftInv ==
  /\ left \subseteq {"failed", "undeletable", "persisted"}
  /\ "failed" \in left => opt.mkvmerge
  /\ "persisted" \in left => opt.persist

(* Muxing and merging leave what they may; no other step leaves anything.   *)
LEMMA LeftStep == LeftInv /\ [Next]_vars => LeftInv'
<1> SUFFICES ASSUME LeftInv, [Next]_vars PROVE LeftInv'
  OBVIOUS
<1>1. ASSUME NEW reasons \in SUBSET {"failed", "undeletable", "persisted"}, Leaving(reasons),
             opt' = opt
      PROVE  LeftInv'
  <2>1. PICK why \in SUBSET Lingering(reasons) : left' = left \cup why
    BY <1>1 DEF Leaving
  <2>2. /\ why \subseteq {"failed", "undeletable", "persisted"}
        /\ "failed" \in why => opt.mkvmerge
        /\ "persisted" \in why => opt.persist
    BY <1>1, <2>1 DEF Lingering
  <2> QED
    BY <1>1, <2>1, <2>2 DEF LeftInv
<1>2. ASSUME UNCHANGED <<opt, left>> PROVE LeftInv'
  BY <1>2 DEF LeftInv
<1>3. CASE Mux \/ MuxFails
  <2>1. opt' = opt /\ (UNCHANGED left \/ Leaving({"failed", "undeletable", "persisted"}))
    BY <1>3 DEF Mux, MuxFails, planVars
  <2> QED
    BY <1>1, <1>2, <2>1
<1>4. CASE MergeSubtitles \/ MergeFails
  <2>1. /\ opt' = opt
        /\ UNCHANGED left \/ Leaving({"failed"}) \/ Leaving({"undeletable", "persisted"})
    BY <1>4 DEF MergeSubtitles, MergeFails, planVars
  <2> QED
    BY <1>1, <1>2, <2>1
<1>5. ASSUME NEW kind \in Kinds,
             \/ SkipStream(kind) \/ StartStream(kind) \/ StreamDone(kind) \/ StreamFails(kind)
             \/ FragmentDelivered(kind) \/ FragmentDiscarded(kind) \/ FragmentLost(kind)
      PROVE  LeftInv'
  BY <1>2, <1>5 DEF SkipStream, StartStream, StreamDone, StreamFails, FragmentDelivered,
                    FragmentDiscarded, FragmentLost, Settled, planVars, fileVars
<1>6. CASE SkipPeriod \/ PlanPeriod \/ PlanError \/ CounterPanics \/ PathPanics \/ StartPeriod
           \/ StartFails \/ NothingToMux \/ CleanUp \/ LeaveSeparate \/ Concatenate
           \/ ConcatenateFails
  BY <1>2, <1>6 DEF SkipPeriod, PlanPeriod, PlanError, Planning, CounterPanics, PathPanics,
                    StartPeriod, StartFails, NothingToMux, CleanUp, LeaveSeparate, Concatenate,
                    ConcatenateFails, planVars, fileVars
<1>7. CASE UNCHANGED vars
  BY <1>2, <1>7 DEF vars, planVars, fileVars
<1> QED
  BY <1>3, <1>4, <1>5, <1>6, <1>7 DEF Next

(* A download that succeeds has deleted the temporary files of its streams  *)
(* but those that could not be deleted, however many periods it had and     *)
(* whatever was kept; of the files of the muxers nothing more is left than  *)
(* that, unless mkvmerge was run.                                           *)
THEOREM TempFilesAreRemoved == Spec => []TempFilesRemoved
<1>1. Init => TempInv /\ LeftInv
  BY DEF Init, TempInv, LeftInv
<1>2. TempInv /\ LeftInv => TempFilesRemoved
  BY DEF TempInv, LeftInv, TempFilesRemoved, InPeriod, Kinds
<1> QED
  BY <1>1, <1>2, TempStep, LeftStep, PlanHolds, PTL DEF Spec

-----------------------------------------------------------------------------

(* The streams of the period in hand that are done with.                    *)
Past == CASE pc = "audio" -> {}
          [] pc = "video" -> {"audio"}
          [] pc = "subs"  -> {"audio", "video"}
          [] OTHER        -> Kinds

(* The files of the streams hold what was fetched, and the subtitles are    *)
(* empty until they are fetched, so that STPP subtitles that could not be   *)
(* fetched add nothing.                                                     *)
StreamsInv ==
  /\ \A p \in DOMAIN files : p[1] = "tmp" => p[3] \in 0..d
  /\ pc \in InPeriod =>
       /\ DOMAIN got = Kinds
       /\ \A kind \in have : kind \in Past \/ (pc = kind /\ status = "running")
       /\ \A kind \in Past : kind \in have \/ kind = "subs" => Contents(StreamPath(kind)) = got[kind]
       /\ "subs" \notin Past /\ ~(pc = "subs" /\ status = "running") =>
            Contents(StreamPath("subs")) = << >> /\ got["subs"] = << >>

(* A file that is not written to stays as it is.                            *)
LEMMA Untouched ==
  ASSUME NEW path, NEW content, files' = Write(path, content)
  PROVE  /\ DOMAIN files' = DOMAIN files \cup {path}
         /\ Contents(path)' = content
         /\ \A p : p # path => Contents(p)' = Contents(p)
<1>1. DOMAIN files' = DOMAIN files \cup {path} /\ files'[path] = content
  BY Written
<1>2. ASSUME NEW p, p # path PROVE Contents(p)' = Contents(p)
  <2>1. p \in DOMAIN files' <=> p \in DOMAIN files
    BY <1>1, <1>2
  <2>2. p \in DOMAIN files => files'[p] = files[p]
    BY <1>2 DEF Write, WriteAll
  <2> QED
    BY <2>1, <2>2 DEF Contents
<1> QED
  BY <1>1, <1>2 DEF Contents

(* What the streams of a period do to their files.                          *)
LEMMA StreamsStep ==
  ASSUME PlanInv, StreamsInv, NEW kind \in Kinds,
         \/ SkipStream(kind) \/ StartStream(kind) \/ StreamDone(kind) \/ StreamFails(kind)
         \/ FragmentDelivered(kind) \/ FragmentDiscarded(kind) \/ FragmentLost(kind)
  PROVE  StreamsInv'
<1>0. /\ pc = kind /\ pc \in InPeriod /\ d \in Nat /\ opt' = opt /\ d' = d
      /\ DOMAIN got = Kinds
      /\ "subs" \in Kinds \ opt.keep
  <2>1. opt \in Option
    BY DownloadAssumption DEF PlanInv
  <2>2. "subs" \in Kinds \ opt.keep
    BY <2>1 DEF Option, Kinds
  <2>3. pc = kind /\ opt' = opt /\ d' = d
    BY DEF SkipStream, StartStream, StreamDone, StreamFails, FragmentDelivered, FragmentDiscarded,
           FragmentLost, Fetching, Settled, planVars
  <2> QED
    BY <2>2, <2>3 DEF InPeriod, StreamsInv, PlanInv
<1>1. \A k : StreamPath(k)' = StreamPath(k)
  BY <1>0 DEF StreamPath
<1>2. StreamPath(kind)[1] = "tmp" => StreamPath(kind)[3] \in 0..d
  BY <1>0 DEF StreamPath
<1>3. CASE SkipStream(kind)
  <2>1. /\ UNCHANGED <<files, have, got, status>> /\ status # "running" /\ pc' = After(kind)
    BY <1>3 DEF SkipStream, fileVars, streamVars
  <2>2. \A p : Contents(p)' = Contents(p)
    BY <2>1 DEF Contents
  <2> QED
    BY <1>0, <1>1, <2>1, <2>2 DEF StreamsInv, After, Past, Kinds, InPeriod
<1>4. CASE StartStream(kind)
  <2>1. /\ UNCHANGED <<have, got, pc>> /\ status # "running" /\ status' = "running"
        /\ files' = Write(StreamPath(kind), << >>)
    BY <1>4 DEF StartStream, Delivery!Begin
  <2> DEFINE empty == << >>
  <2>e. files' = Write(StreamPath(kind), empty)
    BY <2>1
  <2> HIDE DEF empty
  <2>2. /\ DOMAIN files' = DOMAIN files \cup {StreamPath(kind)}
        /\ \A k \in Kinds : k # kind => Contents(StreamPath(k))' = Contents(StreamPath(k))
    BY <1>1, <2>e, Untouched, Paths
  <2>3. Past' = Past /\ kind \notin Past /\ kind \notin have
    BY <1>0, <2>1 DEF StreamsInv, Past, Kinds
  <2>4. \A k \in Past : k \in Kinds
    BY DEF Past, Kinds
  <2>5. ASSUME NEW k \in Past', k \in have' \/ k = "subs"
        PROVE  Contents(StreamPath(k))' = got'[k]
    BY <1>0, <2>1, <2>2, <2>3, <2>4, <2>5 DEF StreamsInv
  <2>6. ASSUME "subs" \notin Past', ~(pc' = "subs" /\ status' = "running")
        PROVE  Contents(StreamPath("subs"))' = << >> /\ got'["subs"] = << >>
    BY <1>0, <2>1, <2>2, <2>3, <2>6 DEF StreamsInv
  <2>7. \A p \in DOMAIN files' : p[1] = "tmp" => p[3] \in 0..d
    BY <1>2, <2>2 DEF StreamsInv
  <2> QED
    BY <1>0, <2>1, <2>3, <2>5, <2>6, <2>7 DEF StreamsInv
<1>5. CASE StreamDone(kind)
  <2> DEFINE content == [n \in DOMAIN out |-> <<kind, d, out[n]>>]
  <2>1. /\ have' = have /\ status' = "complete" /\ pc' = After(kind)
        /\ files' = Write(StreamPath(kind), content)
        /\ got' = [got EXCEPT ![kind] = content]
    BY <1>5 DEF StreamDone, Delivery!Complete
  <2> HIDE DEF content
  <2>2. /\ DOMAIN files' = DOMAIN files \cup {StreamPath(kind)}
        /\ Contents(StreamPath(kind))' = content
        /\ \A k \in Kinds : k # kind => Contents(StreamPath(k))' = Contents(StreamPath(k))
    BY <1>1, <2>1, Untouched, Paths
  <2>3. DOMAIN got' = Kinds /\ got'[kind] = content /\ \A k \in Kinds : k # kind => got'[k] = got[k]
    BY <1>0, <2>1
  <2> QED
    BY <1>0, <1>1, <1>2, <2>1, <2>2, <2>3 DEF StreamsInv, After, Past, Kinds, InPeriod
<1>6. CASE StreamFails(kind)
  BY <1>0, <1>6 DEF StreamFails, fileVars, StreamsInv, InPeriod, Kinds
<1>7. CASE FragmentDelivered(kind) \/ FragmentDiscarded(kind) \/ FragmentLost(kind)
  <2>1. /\ UNCHANGED <<files, got, pc, status>> /\ status = "running" /\ have' \subseteq have \cup {kind}
    BY <1>7 DEF FragmentDelivered, FragmentDiscarded, FragmentLost, Settled, Fetching, fileVars,
       Delivery!Deliver, Delivery!Discard, Delivery!Lose, Delivery!Settle
  <2>2. \A p : Contents(p)' = Contents(p)
    BY <2>1 DEF Contents
  <2>3. kind \notin Past /\ Past' = Past
    BY <1>0, <2>1 DEF Past, Kinds
  <2> QED
    BY <1>0, <1>1, <2>1, <2>2, <2>3 DEF StreamsInv, InPeriod, Kinds
<1> QED
  BY <1>3, <1>4, <1>5, <1>6, <1>7

(* A new period starts with none of its files: temporary names are fresh.   *)
LEMMA StartStreams == ASSUME PlanInv, StreamsInv, StartPeriod PROVE StreamsInv'
<1> DEFINE named == {<<"tmp", k, d + 1>> : k \in Kinds \ opt.keep}
<1>1. /\ d' = d + 1 /\ have' = {} /\ got' = [k \in Kinds |-> << >>] /\ pc' = "audio"
      /\ opt' = opt /\ status' = status
      /\ files' = IF opt.persist THEN WriteAll(files, named, << >>) ELSE files
      /\ d \in Nat
  BY DEF StartPeriod, planVars, streamVars, PlanInv
<1>2. "subs" \in Kinds \ opt.keep
  <2>1. opt \in Option
    BY DownloadAssumption DEF PlanInv
  <2> QED
    BY <2>1 DEF Option, Kinds
<1>3. StreamPath("subs")' = <<"tmp", "subs", d + 1>> /\ <<"tmp", "subs", d + 1>> \in named
  BY <1>1, <1>2 DEF StreamPath
<1>4. <<"tmp", "subs", d + 1>> \notin DOMAIN files
  <2> DEFINE t == <<"tmp", "subs", d + 1>>
  <2>1. t[1] = "tmp" /\ t[3] \notin 0..d
    BY <1>1
  <2> HIDE DEF t
  <2>2. t \notin DOMAIN files
    BY <2>1 DEF StreamsInv
  <2> QED
    BY <2>2 DEF t
<1>5. <<"tmp", "subs", d + 1>> \in DOMAIN files' => files'[<<"tmp", "subs", d + 1>>] = << >>
  <2> DEFINE t == <<"tmp", "subs", d + 1>>
  <2>1. t \in named /\ t \notin DOMAIN files
    BY <1>3, <1>4
  <2> HIDE DEF named, t
  <2>2. t \in DOMAIN files' => files'[t] = << >>
    BY <1>1, <2>1 DEF WriteAll
  <2> QED
    BY <2>2 DEF t
<1>6. \A p \in DOMAIN files' : p[1] = "tmp" => p[3] \in 0..d'
  <2>1. \A p \in named : p[3] = d + 1
    OBVIOUS
  <2>2. DOMAIN files' \subseteq DOMAIN files \cup named
    BY <1>1 DEF WriteAll
  <2>3. \A p \in DOMAIN files : p[1] = "tmp" => p[3] \in 0..d
    BY DEF StreamsInv
  <2> HIDE DEF named
  <2>4. ASSUME NEW p \in DOMAIN files', p[1] = "tmp" PROVE p[3] \in 0..d'
    <3>1. CASE p \in named
      BY <1>1, <2>1, <3>1
    <3>2. CASE p \in DOMAIN files
      <4>1. p[3] \in 0..d
        BY <2>3, <2>4, <3>2
      <4> QED
        BY <1>1, <4>1
    <3> QED
      BY <2>2, <2>4, <3>1, <3>2
  <2> QED
    BY <2>4
<1>7. Past' = {} /\ DOMAIN got' = Kinds /\ got'["subs"] = << >>
  BY <1>1 DEF Past, Kinds
<1>8. Contents(StreamPath("subs"))' = << >>
  BY <1>3, <1>5 DEF Contents
<1> HIDE DEF named
<1> QED
  BY <1>1, <1>6, <1>7, <1>8 DEF StreamsInv

(* Writing outputs and deleting files leaves the files of the streams.      *)
LEMMA OutputsApart ==
  ASSUME PlanInv, StreamsInv, d' = d, opt' = opt,
         \A p \in DOMAIN files' : p \in DOMAIN files \/ p[1] = "out",
         \/ pc' \notin InPeriod
         \/ /\ UNCHANGED <<have, got, status>> /\ pc \in InPeriod \ Kinds /\ pc' \in InPeriod \ Kinds
            /\ \A k \in Kinds : Contents(StreamPath(k))' = Contents(StreamPath(k))
  PROVE  StreamsInv'
<1>1. \A p \in DOMAIN files' : p[1] = "tmp" => p[3] \in 0..d'
  BY DEF StreamsInv
<1>2. pc \in InPeriod \ Kinds => Past = Kinds
  BY DEF InPeriod, Kinds, Past
<1>3. pc' \in InPeriod \ Kinds => Past' = Kinds
  BY DEF InPeriod, Kinds, Past
<1>4. CASE pc' \notin InPeriod
  BY <1>1, <1>4 DEF StreamsInv
<1>5. CASE pc' \in InPeriod
  <2>1. /\ UNCHANGED <<have, got>> /\ Past = Kinds /\ Past' = Kinds /\ pc \in InPeriod
        /\ \A k \in Kinds : Contents(StreamPath(k))' = Contents(StreamPath(k))
        /\ pc \notin Kinds
    <3>1. /\ UNCHANGED <<have, got>> /\ pc \in InPeriod \ Kinds /\ pc' \in InPeriod \ Kinds
          /\ \A k \in Kinds : Contents(StreamPath(k))' = Contents(StreamPath(k))
      BY <1>5, Zenon
    <3>2. Past = Kinds /\ Past' = Kinds /\ pc \in InPeriod /\ pc \notin Kinds
      BY <1>2, <1>3, <3>1
    <3> QED
      BY <3>1, <3>2, Zenon
  <2>2. \A k \in have' : k \in Past'
    BY <2>1 DEF PlanInv
  <2>3. "subs" \in Past'
    BY <2>1 DEF Kinds
  <2>4. \A k \in Past' : k \in have' \/ k = "subs" => Contents(StreamPath(k))' = got'[k]
    BY <2>1 DEF StreamsInv
  <2>5. DOMAIN got' = Kinds
    BY <2>1 DEF StreamsInv
  <2> QED
    BY <1>1, <2>2, <2>3, <2>4, <2>5 DEF StreamsInv
<1> QED
  BY <1>4, <1>5

(* Every action keeps the files of the streams.                             *)
LEMMA StreamsKept == PlanInv /\ StreamsInv /\ [Next]_vars => StreamsInv'
<1> SUFFICES ASSUME PlanInv, StreamsInv, [Next]_vars PROVE StreamsInv'
  OBVIOUS
<1>1. CASE Mux \/ MergeSubtitles
  <2>1. /\ UNCHANGED <<d, opt, have, got, status>> /\ pc \in InPeriod \ Kinds /\ pc' \in InPeriod \ Kinds
        /\ files' = files \/ \E c : files' = Write(OutOf(d), c)
    BY <1>1 DEF Mux, MergeSubtitles, planVars, streamVars, InPeriod, Kinds
  <2>2. CASE files' = files
    BY <2>1, <2>2, OutputsApart DEF Contents, StreamPath
  <2>3. ASSUME NEW c, files' = Write(OutOf(d), c) PROVE StreamsInv'
    <3>1. DOMAIN files' = DOMAIN files \cup {OutOf(d)}
      BY <2>3, Written
    <3>2. \A p : p # OutOf(d) => Contents(p)' = Contents(p)
      BY <2>3, Untouched
    <3>3. \A k \in Kinds : StreamPath(k) # OutOf(d) /\ StreamPath(k)' = StreamPath(k)
      BY <2>1, Paths DEF OutOf, StreamPath
    <3>4. \A k \in Kinds : Contents(StreamPath(k))' = Contents(StreamPath(k))
      BY <3>2, <3>3
    <3>5. OutOf(d)[1] = "out"
      BY Paths DEF OutOf
    <3> QED
      BY <2>1, <3>1, <3>4, <3>5, OutputsApart
  <2> QED
    BY <2>1, <2>2, <2>3
<1>2. CASE NothingToMux
  <2>1. /\ UNCHANGED <<d, opt, have, got, status, files>> /\ pc \in InPeriod \ Kinds
        /\ pc' \in InPeriod \ Kinds
    BY <1>2 DEF NothingToMux, planVars, streamVars, InPeriod, Kinds
  <2> QED
    BY <2>1, OutputsApart DEF Contents, StreamPath
<1>3. CASE CleanUp
  <2>1. /\ d' = d /\ opt' = opt /\ pc' = "period"
        /\ files' = files \/ \E t : files' = Delete(t)
    BY <1>3 DEF CleanUp, planVars
  <2>2. DOMAIN files' \subseteq DOMAIN files
    BY <2>1, Deleted
  <2> QED
    BY <2>1, <2>2, OutputsApart DEF InPeriod, Kinds
<1>4. CASE Concatenate \/ ConcatenateFails \/ MergeFails
  <2>1. /\ d' = d /\ opt' = opt /\ pc' \notin InPeriod
    BY <1>4 DEF Concatenate, ConcatenateFails, MergeFails, planVars, InPeriod, Kinds
  <2>2. \E n : DOMAIN files' \subseteq DOMAIN files \cup {OutOf(n)}
    <3>1. CASE Concatenate
      <4>1. \E n, c, t : files' = WriteAll(Delete(t), {OutOf(n)}, c)
        BY <3>1 DEF Concatenate
      <4>2. ASSUME NEW n, NEW c, NEW t, files' = WriteAll(Delete(t), {OutOf(n)}, c)
            PROVE  DOMAIN files' \subseteq DOMAIN files \cup {OutOf(n)}
        BY <4>2, Deleted DEF WriteAll
      <4> QED
        BY <4>1, <4>2
    <3>2. ASSUME NEW n, NEW c, files' = Write(OutOf(n), c)
          PROVE  DOMAIN files' \subseteq DOMAIN files \cup {OutOf(n)}
      BY <3>2, Written
    <3>3. CASE ConcatenateFails
      BY <3>2, <3>3 DEF ConcatenateFails
    <3>4. CASE MergeFails
      BY <3>2, <3>4 DEF MergeFails
    <3> QED
      BY <1>4, <3>1, <3>3, <3>4
  <2>3. \A n : OutOf(n)[1] = "out"
    BY Paths DEF OutOf
  <2>4. \A p \in DOMAIN files' : p \in DOMAIN files \/ p[1] = "out"
    BY <2>2, <2>3
  <2> QED
    BY <2>1, <2>4, OutputsApart
<1>5. CASE SkipPeriod \/ PlanPeriod \/ PlanError \/ CounterPanics \/ PathPanics \/ StartFails
           \/ MuxFails \/ LeaveSeparate
  <2>1. /\ UNCHANGED <<d, opt, files>> /\ pc' \notin InPeriod
    BY <1>5 DEF SkipPeriod, PlanPeriod, PlanError, Planning, CounterPanics, PathPanics, StartFails,
                MuxFails, LeaveSeparate, planVars, fileVars, InPeriod, Kinds
  <2> QED
    BY <2>1, OutputsApart
<1>6. CASE UNCHANGED vars
  <2>1. UNCHANGED <<opt, d, have, got, files, status, pc>>
    BY <1>6 DEF vars, planVars, streamVars, fileVars
  <2> QED
    BY <2>1 DEF StreamsInv, Past, Contents, StreamPath
<1> QED
  BY <1>1, <1>2, <1>3, <1>4, <1>5, <1>6, StreamsStep, StartStreams DEF Next

-----------------------------------------------------------------------------

(* A manifest that the period counter can count.                            *)
Countable == \A m \in Manifests : Len(m) < CounterModulus

(* Every planned period has a number of its own.                            *)
CounterInv ==
  /\ period_counter = i
  /\ \A k \in DOMAIN pds : pds[k].counter \in 1..i
  /\ \A k, l \in DOMAIN pds : k # l => pds[k].counter # pds[l].counter

(* The next period's number is the next number.                             *)
LEMMA NextNumber ==
  ASSUME Countable, PlanInv, CounterInv, i < Len(manifest)
  PROVE  Counted = i + 1
<1>1. i \in Nat /\ i + 1 < CounterModulus /\ CounterModulus \in Nat
  BY DownloadAssumption DEF Countable, PlanInv
<1> QED
  BY <1>1 DEF CounterInv, Counted

(* Numbers are given in turn, also to the periods that are left out.        *)
LEMMA CounterStep == Countable /\ PlanInv /\ CounterInv /\ [Next]_vars => CounterInv'
<1> SUFFICES ASSUME Countable, PlanInv, CounterInv, [Next]_vars PROVE CounterInv'
  OBVIOUS
<1>0. i \in Nat /\ pds \in Seq(Planned)
  BY DEF PlanInv
<1>1. CASE SkipPeriod \/ PlanError
  <2>1. /\ i' = i + 1 /\ period_counter' = i + 1 /\ pds' = pds
    BY <1>1, NextNumber DEF SkipPeriod, PlanError, Planning
  <2> QED
    BY <1>0, <2>1 DEF CounterInv
<1>2. CASE PlanPeriod
  <2>1. /\ i' = i + 1 /\ period_counter' = i + 1
        /\ \E new : new.counter = i + 1 /\ pds' = Append(pds, new)
    BY <1>2, NextNumber DEF PlanPeriod, Planning
  <2>2. PICK new : new.counter = i + 1 /\ pds' = Append(pds, new)
    BY <2>1
  <2>3. /\ DOMAIN pds' = 1..(Len(pds) + 1) /\ DOMAIN pds = 1..Len(pds) /\ Len(pds) \in Nat
        /\ \A k \in DOMAIN pds : pds'[k] = pds[k]
        /\ pds'[Len(pds) + 1] = new
    BY <1>0, <2>2
  <2>4. \A k \in DOMAIN pds' : (k \in DOMAIN pds /\ pds'[k].counter \in 1..i)
                                  \/ (k = Len(pds) + 1 /\ pds'[k].counter = i + 1)
    BY <2>2, <2>3 DEF CounterInv
  <2> QED
    BY <1>0, <2>1, <2>3, <2>4 DEF CounterInv
<1>3. CASE UNCHANGED planVars
  BY <1>3 DEF CounterInv, planVars
<1>4. SkipPeriod \/ PlanError \/ PlanPeriod \/ UNCHANGED planVars
  BY DEF Next, SkipStream, StartStream, StreamDone, StreamFails, FragmentDelivered, FragmentDiscarded,
         FragmentLost, Settled, CounterPanics, PathPanics, StartPeriod, StartFails, Mux, MuxFails,
         NothingToMux, MergeSubtitles, MergeFails, CleanUp, LeaveSeparate, Concatenate,
         ConcatenateFails, vars
<1> QED
  BY <1>1, <1>2, <1>3, <1>4

(* The download, as far as it has got: the outputs are those of the periods *)
(* that are done with, and what was fetched is recorded for each of them.   *)
Working == pc \notin Final
Done == IF pc \in InPeriod THEN d - 1 ELSE d

OutputInv ==
  /\ outputs \in Seq(Nat)
  /\ OutputsIntact
  /\ Working =>
       /\ \A k \in DOMAIN outputs : outputs[k] \in 1..Done
       /\ \E S : media \in Seq(S)
       /\ Len(media) = IF pc \in {"merge", "clean"} THEN d ELSE Done
       /\ pc \in {"merge", "clean"} /\ AV # {} =>
            OutOf(d) \in DOMAIN files /\ files[OutOf(d)] = media[d]

(* Outputs that no step touches stay intact.                                *)
LEMMA KeepOutputs ==
  ASSUME OutputInv, Working, UNCHANGED <<outputs, pds>>,
         \A k \in DOMAIN outputs :
           /\ OutOf(outputs[k]) \in DOMAIN files' /\ files'[OutOf(outputs[k])] = files[OutOf(outputs[k])]
           /\ media'[outputs[k]] = media[outputs[k]]
  PROVE  OutputsIntact' /\ outputs' \in Seq(Nat)
<1>1. \A k \in DOMAIN outputs : OutOf(outputs[k])' = OutOf(outputs[k])
  BY DEF OutOf, Out
<1>2. \A k \in DOMAIN outputs : OutOf(outputs[k]) \in DOMAIN files
                                /\ files[OutOf(outputs[k])] = media[outputs[k]]
  BY DEF OutputInv, OutputsIntact, Working, Final
<1> QED
  BY <1>1, <1>2 DEF OutputsIntact, OutputInv

(* The next record of what was fetched.                                     *)
LEMMA NextRecord ==
  ASSUME NEW s, NEW S, s \in Seq(S), NEW e
  PROVE  /\ \E T : Append(s, e) \in Seq(T)
         /\ Len(Append(s, e)) = Len(s) + 1 /\ Len(s) \in Nat
         /\ \A k \in 1..Len(s) : Append(s, e)[k] = s[k]
         /\ Append(s, e)[Len(s) + 1] = e
<1>1. s \in Seq(S \cup {e}) /\ e \in S \cup {e}
  OBVIOUS
<1>2. Append(s, e) \in Seq(S \cup {e})
  BY <1>1
<1> QED
  BY <1>1, <1>2

(* The output of a period is that of no other.                              *)
LEMMA OwnOutput ==
  ASSUME CounterInv, NEW m \in DOMAIN pds, NEW n \in DOMAIN pds, m # n
  PROVE  OutOf(m) # OutOf(n)
  BY Paths DEF CounterInv, OutOf

(* The plan is made before anything is fetched.                             *)
LEMMA OutputPlan ==
  ASSUME PlanInv, OutputInv, SkipPeriod \/ PlanPeriod
  PROVE  OutputInv'
<1>1. /\ pc = "plan" /\ pc' = pc /\ d' = d /\ UNCHANGED <<outputs, media, files>>
      /\ d = 0
  BY DEF SkipPeriod, PlanPeriod, Planning, fileVars, PlanInv
<1>2. Working /\ Done = 0 /\ Done' = 0
  BY <1>1 DEF Working, Done, Final, InPeriod, Kinds
<1>3. DOMAIN outputs = {}
  <2>1. \A k \in DOMAIN outputs : outputs[k] \in 1..0
    BY <1>2 DEF OutputInv
  <2>2. 1..0 = {}
    OBVIOUS
  <2> QED
    BY <2>1, <2>2, Zenon
<1> QED
  BY <1>1, <1>2, <1>3 DEF OutputInv, OutputsIntact

(* The streams write to their own files.                                    *)
LEMMA OutputStreams ==
  ASSUME PlanInv, OutputInv, NEW kind \in Kinds,
         \/ SkipStream(kind) \/ StartStream(kind) \/ StreamDone(kind) \/ StreamFails(kind)
         \/ FragmentDelivered(kind) \/ FragmentDiscarded(kind) \/ FragmentLost(kind)
  PROVE  OutputInv'
<1>1. pc = kind /\ Working /\ pc \in InPeriod
  BY DEF SkipStream, StartStream, StreamDone, StreamFails, FragmentDelivered, FragmentDiscarded,
         FragmentLost, Settled, Fetching, Working, Final, InPeriod, Kinds
<1>2. /\ UNCHANGED <<outputs, media, pds, d>>
      /\ pc' \in Kinds \cup {"mux", "failed"}
      /\ files' = files \/ \E c : files' = Write(StreamPath(kind), c)
  BY DEF SkipStream, StartStream, StreamDone, StreamFails, FragmentDelivered, FragmentDiscarded,
         FragmentLost, Settled, Fetching, planVars, fileVars, After, Kinds
<1>3. \A n : OutOf(n) # StreamPath(kind)
  BY Paths DEF OutOf
<1>4. \A n : OutOf(n) \in DOMAIN files =>
             OutOf(n) \in DOMAIN files' /\ files'[OutOf(n)] = files[OutOf(n)]
  <2>1. CASE files' = files
    BY <2>1
  <2>2. ASSUME NEW c, files' = Write(StreamPath(kind), c),
               NEW n, OutOf(n) \in DOMAIN files
        PROVE  OutOf(n) \in DOMAIN files' /\ files'[OutOf(n)] = files[OutOf(n)]
    BY <1>3, <2>2 DEF Write, WriteAll
  <2> QED
    BY <1>2, <2>1, <2>2
<1>5. \A k \in DOMAIN outputs : OutOf(outputs[k]) \in DOMAIN files
  BY <1>1 DEF OutputInv, OutputsIntact, Working, Final
<1>6. OutputsIntact' /\ outputs' \in Seq(Nat)
  BY <1>1, <1>2, <1>4, <1>5, KeepOutputs
<1>7. Working' => Done' = Done /\ Done = d - 1 /\ pc' \notin {"merge", "clean"} /\ pc \notin {"merge", "clean"}
  BY <1>1, <1>2 DEF Working, Done, InPeriod, Final, Kinds
<1> QED
  BY <1>1, <1>2, <1>6, <1>7 DEF OutputInv

(* The period in hand, whose output no earlier period has.                  *)
LEMMA OwnPeriod ==
  ASSUME PlanInv, CounterInv, OutputInv, pc \in InPeriod
  PROVE  /\ d \in DOMAIN pds /\ d \in Nat \ {0} /\ Working /\ Done = d - 1
         /\ \A k \in DOMAIN outputs : outputs[k] \in 1..(d - 1) /\ OutOf(outputs[k]) # OutOf(d)
<1>1. d \in DOMAIN pds /\ d \in Nat \ {0}
  BY DEF PlanInv
<1>2. Working /\ Done = d - 1
  BY DEF Working, Done, InPeriod, Final, Kinds
<1>3. \A k \in DOMAIN outputs : outputs[k] \in 1..(d - 1)
  BY <1>2 DEF OutputInv
<1>4. \A k \in DOMAIN outputs : outputs[k] \in DOMAIN pds /\ outputs[k] # d
  BY <1>1, <1>3 DEF PlanInv
<1> QED
  BY <1>1, <1>2, <1>3, <1>4, OwnOutput

(* Writing the output of the period in hand, and recording what it holds.   *)
LEMMA OutputWritten ==
  ASSUME PlanInv, CounterInv, OutputInv, pc \in InPeriod,
         UNCHANGED <<outputs, pds, d>>,
         \A p \in DOMAIN files : p # OutOf(d) => p \in DOMAIN files' /\ files'[p] = files[p],
         \A k \in 1..(d - 1) : media'[k] = media[k]
  PROVE  OutputsIntact' /\ outputs' \in Seq(Nat)
<1>1. /\ Working
      /\ \A k \in DOMAIN outputs : outputs[k] \in 1..(d - 1) /\ OutOf(outputs[k]) # OutOf(d)
  BY OwnPeriod
<1>2. \A k \in DOMAIN outputs : OutOf(outputs[k]) \in DOMAIN files
  BY <1>1 DEF OutputInv, OutputsIntact, Working, Final
<1> QED
  BY <1>1, <1>2, KeepOutputs

(* The muxer turns the streams that were fetched into the output.           *)
LEMMA OutputMux ==
  ASSUME PlanInv, CounterInv, StreamsInv, OutputInv, Mux
  PROVE  OutputInv'
<1> DEFINE part(kind) == IF kind \in have THEN Contents(StreamPath(kind)) ELSE << >>
           sent(kind) == IF kind \in have THEN got[kind] ELSE << >>
           new == sent("audio") \o sent("video")
<1>1. /\ pc = "mux" /\ pc' \in {"merge", "clean"} /\ AV # {}
      /\ files' = Write(OutOf(d), part("audio") \o part("video"))
      /\ media' = Append(media, new)
      /\ UNCHANGED <<outputs, pds, d, have>>
  BY DEF Mux, planVars
<1>2. pc \in InPeriod /\ Past = Kinds
  BY <1>1 DEF InPeriod, Past, Kinds
<1>3. part("audio") = sent("audio") /\ part("video") = sent("video")
  BY <1>2 DEF StreamsInv, Kinds
<1>4. /\ d \in Nat \ {0} /\ Working /\ Done = d - 1
  BY <1>2, OwnPeriod
<1>5. PICK S : media \in Seq(S)
  BY <1>4 DEF OutputInv
<1>6. Len(media) = d - 1
  BY <1>1, <1>4 DEF OutputInv
<1> HIDE DEF new, part, sent
<1>7. /\ \E T : media' \in Seq(T)
      /\ Len(media') = d
      /\ \A k \in 1..(d - 1) : media'[k] = media[k]
      /\ media'[d] = new
  <2>1. /\ \E T : Append(media, new) \in Seq(T)
        /\ Len(Append(media, new)) = Len(media) + 1
        /\ \A k \in 1..Len(media) : Append(media, new)[k] = media[k]
        /\ Append(media, new)[Len(media) + 1] = new
    BY <1>5, NextRecord, ZenonT(60)
  <2>2. (d - 1) + 1 = d
    BY <1>4
  <2> QED
    BY <1>1, <1>6, <2>1, <2>2
<1>8. /\ OutOf(d) \in DOMAIN files' /\ files'[OutOf(d)] = new
      /\ \A p \in DOMAIN files : p # OutOf(d) => p \in DOMAIN files' /\ files'[p] = files[p]
  <2>1. files' = Write(OutOf(d), new)
    BY <1>1, <1>3 DEF new
  <2> QED
    BY <2>1, Written DEF Write, WriteAll
<1>9. OutputsIntact' /\ outputs' \in Seq(Nat)
  BY <1>1, <1>2, <1>7, <1>8, OutputWritten
<1>10. OutOf(d)' = OutOf(d) /\ AV' = AV /\ Done' = d - 1
  BY <1>1 DEF OutOf, Out, AV, Done, InPeriod
<1>11. \A k \in DOMAIN outputs' : outputs'[k] \in 1..Done'
  BY <1>1, <1>4, <1>10 DEF OutputInv
<1> QED
  BY <1>1, <1>7, <1>8, <1>9, <1>10, <1>11 DEF OutputInv

(* STPP subtitles are added to the output, or it is left alone.             *)
LEMMA OutputMerge ==
  ASSUME PlanInv, CounterInv, StreamsInv, OutputInv, MergeSubtitles
  PROVE  OutputInv'
<1>1. /\ pc = "merge" /\ pc' = "clean"
      /\ UNCHANGED <<outputs, pds, d, have>>
      /\ \/ UNCHANGED <<files, media>>
         \/ /\ files' = Write(OutOf(d), Contents(OutOf(d)) \o Contents(StreamPath("subs")))
            /\ media' = [media EXCEPT ![d] = media[d] \o got["subs"]]
  BY DEF MergeSubtitles, planVars
<1>2. pc \in InPeriod /\ "subs" \in Past
  BY <1>1 DEF InPeriod, Past, Kinds
<1>3. /\ d \in Nat \ {0} /\ Working /\ Done = d - 1
  BY <1>2, OwnPeriod
<1>4. /\ OutOf(d)' = OutOf(d) /\ AV' = AV /\ Done' = d - 1
  BY <1>1 DEF OutOf, Out, AV, Done, InPeriod
<1>5. \A k \in DOMAIN outputs' : outputs'[k] \in 1..Done'
  BY <1>1, <1>3, <1>4 DEF OutputInv
<1>6. CASE UNCHANGED <<files, media>>
  <2>1. OutputsIntact' /\ outputs' \in Seq(Nat)
    BY <1>1, <1>2, <1>6, OutputWritten
  <2> QED
    BY <1>1, <1>3, <1>4, <1>5, <1>6, <2>1 DEF OutputInv
<1>7. CASE /\ files' = Write(OutOf(d), Contents(OutOf(d)) \o Contents(StreamPath("subs")))
           /\ media' = [media EXCEPT ![d] = media[d] \o got["subs"]]
  <2>1. PICK S : media \in Seq(S)
    BY <1>3 DEF OutputInv
  <2>2. Len(media) = d
    BY <1>1, <1>3 DEF OutputInv
  <2> DEFINE new == media[d] \o got["subs"]
  <2>3. media' = [media EXCEPT ![d] = new]
    BY <1>7
  <2> HIDE DEF new
  <2>4. /\ \E T : media' \in Seq(T)
        /\ Len(media') = d
        /\ \A k \in 1..(d - 1) : media'[k] = media[k]
        /\ media'[d] = new
    <3>1. d \in 1..Len(media)
      BY <1>3, <2>2
    <3>2. /\ \E T : media' \in Seq(T)
          /\ Len(media') = Len(media)
          /\ \A k \in 1..Len(media) : k # d => media'[k] = media[k]
          /\ media'[d] = new
      <4>1. media \in Seq(S \cup {new}) /\ new \in S \cup {new}
        BY <2>1
      <4>2. media' \in Seq(S \cup {new})
        BY <2>3, <3>1, <4>1
      <4> QED
        BY <2>1, <2>3, <3>1, <4>2
    <3>3. \A k \in 1..(d - 1) : k \in 1..Len(media) /\ k # d
      BY <1>3, <2>2
    <3> QED
      BY <2>2, <2>3, <3>2, <3>3
  <2>5. Contents(StreamPath("subs")) = got["subs"]
    BY <1>2 DEF StreamsInv
  <2>6. AV # {} => Contents(OutOf(d)) = media[d]
    BY <1>1, <1>3 DEF OutputInv, Contents
  <2>7. /\ OutOf(d) \in DOMAIN files' /\ (AV # {} => files'[OutOf(d)] = new)
        /\ \A p \in DOMAIN files : p # OutOf(d) => p \in DOMAIN files' /\ files'[p] = files[p]
    <3>1. AV # {} => Contents(OutOf(d)) \o Contents(StreamPath("subs")) = new
      BY <2>5, <2>6 DEF new
    <3> DEFINE written == Contents(OutOf(d)) \o Contents(StreamPath("subs"))
    <3>2. files' = Write(OutOf(d), written) /\ (AV # {} => written = new)
      BY <1>7, <3>1
    <3> HIDE DEF written
    <3> QED
      BY <3>2 DEF Write, WriteAll
  <2>8. OutputsIntact' /\ outputs' \in Seq(Nat)
    BY <1>1, <1>2, <2>4, <2>7, OutputWritten
  <2> QED
    BY <1>1, <1>3, <1>4, <1>5, <2>4, <2>7, <2>8 DEF OutputInv
<1> QED
  BY <1>1, <1>6, <1>7

(* Nothing was fetched: the period has no output.                           *)
LEMMA OutputNothing ==
  ASSUME PlanInv, CounterInv, OutputInv, NothingToMux
  PROVE  OutputInv'
<1>1. /\ pc = "mux" /\ pc' = "clean" /\ AV = {} /\ media' = Append(media, << >>)
      /\ UNCHANGED <<outputs, pds, d, have, files>>
  BY DEF NothingToMux, planVars
<1>2. pc \in InPeriod
  BY <1>1 DEF InPeriod
<1>3. /\ d \in Nat \ {0} /\ Working /\ Done = d - 1
  BY <1>2, OwnPeriod
<1>4. PICK S : media \in Seq(S)
  BY <1>3 DEF OutputInv
<1>5. Len(media) = d - 1
  BY <1>1, <1>3 DEF OutputInv
<1>6. /\ \E T : Append(media, << >>) \in Seq(T)
      /\ Len(Append(media, << >>)) = Len(media) + 1
      /\ \A k \in 1..Len(media) : Append(media, << >>)[k] = media[k]
  BY <1>4, NextRecord
<1>7. OutputsIntact' /\ outputs' \in Seq(Nat)
  BY <1>1, <1>2, <1>5, <1>6, OutputWritten
<1>8. AV' = AV /\ Done' = d - 1 /\ Len(media') = d
  BY <1>1, <1>3, <1>5, <1>6 DEF AV, Done, InPeriod
<1>9. \A k \in DOMAIN outputs' : outputs'[k] \in 1..Done'
  BY <1>1, <1>3, <1>8 DEF OutputInv
<1> QED
  BY <1>1, <1>6, <1>7, <1>8, <1>9 DEF OutputInv

(* Deleting the temporary files leaves the outputs.                         *)
LEMMA OutputClean ==
  ASSUME PlanInv, CounterInv, OutputInv, CleanUp
  PROVE  OutputInv'
<1>1. /\ pc = "clean" /\ pc' = "period" /\ UNCHANGED <<media, pds, d, have>>
      /\ outputs' = IF AV # {} THEN Append(outputs, d) ELSE outputs
  BY Zenon DEF CleanUp, planVars
<1>2. pc \in InPeriod
  BY <1>1 DEF InPeriod
<1>3. /\ d \in Nat \ {0} /\ Working /\ Done = d - 1
      /\ \A k \in DOMAIN outputs : outputs[k] \in 1..(d - 1)
  BY <1>2, OwnPeriod
<1>4. ASSUME NEW n, OutOf(n) \in DOMAIN files
      PROVE  OutOf(n) \in DOMAIN files' /\ files'[OutOf(n)] = files[OutOf(n)]
  <2>1. CASE files' = files
    BY <1>4, <2>1
  <2>2. opt.fetch \ opt.keep \subseteq Kinds
    BY OptType
  <2>3. \A k \in opt.fetch \ opt.keep : StreamPath(k) # OutOf(n)
    BY <2>2, Paths DEF OutOf
  <2>4. files' = files \/ \E t \in SUBSET Temporary : files' = Delete(t)
    BY Zenon DEF CleanUp, Temporary
  <2>5. ASSUME NEW t \in SUBSET Temporary, files' = Delete(t)
        PROVE  OutOf(n) \in DOMAIN files' /\ files'[OutOf(n)] = files[OutOf(n)]
    <3>1. OutOf(n) \notin t
      BY <2>3 DEF Temporary
    <3> QED
      BY <1>4, <2>5, <3>1, Deleted
  <2> QED
    BY <2>1, <2>4, <2>5
<1>5. AV # {} => OutOf(d) \in DOMAIN files /\ files[OutOf(d)] = media[d]
  BY <1>1, <1>3 DEF OutputInv
<1>6. \A k \in DOMAIN outputs : OutOf(outputs[k]) \in DOMAIN files
                                /\ files[OutOf(outputs[k])] = media[outputs[k]]
  BY <1>3 DEF OutputInv, OutputsIntact, Working, Final
<1>7. \A n : OutOf(n)' = OutOf(n)
  BY <1>1 DEF OutOf, Out
<1>8. outputs \in Seq(Nat)
  BY DEF OutputInv
<1>9. /\ outputs' \in Seq(Nat)
      /\ \A k \in DOMAIN outputs' : \/ k \in DOMAIN outputs /\ outputs'[k] = outputs[k]
                                    \/ outputs'[k] = d /\ AV # {}
  <2>1. CASE AV = {}
    <3>1. outputs' = outputs
      BY <1>1, <2>1, Zenon
    <3> QED
      BY <1>8, <3>1, Zenon
  <2>2. CASE AV # {}
    <3>1. outputs' = Append(outputs, d) /\ d \in Nat
      BY <1>1, <1>3, <2>2
    <3>2. /\ outputs' \in Seq(Nat)
          /\ \A k \in DOMAIN outputs' : \/ k \in DOMAIN outputs /\ outputs'[k] = outputs[k]
                                        \/ outputs'[k] = d
      BY <1>8, <3>1
    <3> QED
      BY <2>2, <3>2
  <2> QED
    BY <2>1, <2>2
<1>10. ASSUME NEW k \in DOMAIN outputs'
       PROVE  /\ OutOf(outputs'[k]) \in DOMAIN files' /\ files'[OutOf(outputs'[k])] = media[outputs'[k]]
              /\ outputs'[k] \in 1..d
  BY <1>3, <1>4, <1>5, <1>6, <1>9
<1>11. OutputsIntact'
  BY <1>1, <1>10 DEF OutputsIntact, OutOf, Out
<1>12. Done' = d /\ pc' \notin {"merge", "clean"} /\ Len(media) = d
  BY <1>1, <1>3 DEF Done, InPeriod, Kinds, OutputInv
<1> QED
  BY <1>1, <1>3, <1>9, <1>10, <1>11, <1>12 DEF OutputInv

(* A new period starts, or the download ends: the outputs are left alone,   *)
(* but for a concatenation.                                                 *)
LEMMA OutputElse ==
  ASSUME PlanInv, CounterInv, OutputInv,
         \/ StartPeriod \/ PlanError \/ CounterPanics \/ PathPanics \/ StartFails \/ MuxFails
         \/ MergeFails \/ LeaveSeparate \/ Concatenate \/ ConcatenateFails \/ UNCHANGED vars
  PROVE  OutputInv'
<1>1. CASE StartPeriod
  <2> DEFINE named == {<<"tmp", k, d + 1>> : k \in Kinds \ opt.keep}
  <2>1. /\ pc \in {"plan", "period"} /\ pc' = "audio" /\ d' = d + 1 /\ d \in Nat
        /\ UNCHANGED <<outputs, media, pds>>
        /\ files' = IF opt.persist THEN WriteAll(files, named, << >>) ELSE files
    BY <1>1 DEF StartPeriod, MorePeriods, Iterating, planVars, PlanInv
  <2>2. \A n : OutOf(n) \notin named
    <3>1. \A p \in named : p[1] = "tmp"
      OBVIOUS
    <3>2. \A n : OutOf(n)[1] # "tmp"
      BY Paths DEF OutOf
    <3> QED
      BY <3>1, <3>2
  <2> HIDE DEF named
  <2>3. \A n : OutOf(n) \in DOMAIN files =>
               OutOf(n) \in DOMAIN files' /\ files'[OutOf(n)] = files[OutOf(n)]
    BY <2>1, <2>2 DEF WriteAll
  <2>4. Working /\ Done = d /\ Done' = d
    BY <2>1 DEF Working, Final, Done, InPeriod, Kinds
  <2>5. \A k \in DOMAIN outputs : OutOf(outputs[k]) \in DOMAIN files
    BY <2>4 DEF OutputInv, OutputsIntact, Working, Final
  <2>6. OutputsIntact' /\ outputs' \in Seq(Nat)
    BY <2>1, <2>3, <2>4, <2>5, KeepOutputs
  <2> QED
    BY <2>1, <2>4, <2>6 DEF OutputInv
<1>2. CASE MergeFails
  <2>1. /\ pc = "merge" /\ pc' = "failed" /\ UNCHANGED <<outputs, media, pds, d>>
        /\ files' \in {files, Write(OutOf(d), << >>)}
    BY <1>2 DEF MergeFails, planVars
  <2>2. \A p \in DOMAIN files : p # OutOf(d) => p \in DOMAIN files' /\ files'[p] = files[p]
    BY <2>1 DEF Write, WriteAll
  <2>3. OutputsIntact' /\ outputs' \in Seq(Nat)
    BY <2>1, <2>2, OutputWritten DEF InPeriod
  <2> QED
    BY <2>1, <2>3 DEF OutputInv, Working, Final
<1>3. CASE PlanError \/ CounterPanics \/ PathPanics \/ StartFails \/ MuxFails \/ LeaveSeparate
  <2>1. /\ Working /\ ~Working' /\ UNCHANGED <<outputs, media, pds, files>>
    BY <1>3 DEF PlanError, Planning, CounterPanics, PathPanics, StartFails, MuxFails, LeaveSeparate,
                MorePeriods, Finished, Iterating, planVars, fileVars, Working, Final
  <2>2. OutputsIntact' /\ outputs' \in Seq(Nat)
    BY <2>1, KeepOutputs DEF OutputInv, OutputsIntact, Working, Final
  <2> QED
    BY <2>1, <2>2 DEF OutputInv
<1>4. CASE Concatenate \/ ConcatenateFails
  <2>1. outputs' = outputs /\ pc' \in {"joined", "unjoined"}
    BY <1>4 DEF Concatenate, ConcatenateFails
  <2> QED
    BY <2>1 DEF OutputInv, OutputsIntact, Working, Final
<1>5. CASE UNCHANGED vars
  <2>1. UNCHANGED <<outputs, media, files, pds, d, pc, have>>
    BY <1>5 DEF vars, planVars, fileVars
  <2> QED
    BY <2>1 DEF OutputInv, OutputsIntact, OutOf, Out, Working, Done, AV
<1> QED
  BY <1>1, <1>2, <1>3, <1>4, <1>5

(* With a manifest that the period counter can count, every output holds    *)
(* what was fetched for its period, whatever fails, is kept or persisted.   *)
THEOREM OutputsAreIntact == ASSUME Countable PROVE Spec => []OutputsIntact
<1>1. Init => CounterInv /\ StreamsInv /\ OutputInv
  <2> SUFFICES ASSUME Init PROVE CounterInv /\ StreamsInv /\ OutputInv
    OBVIOUS
  <2>1. /\ pds = << >> /\ i = 0 /\ period_counter = 0 /\ d = 0 /\ files = << >>
        /\ outputs = << >> /\ media = << >> /\ pc = "plan"
    BY DEF Init
  <2>2. << >> \in Seq(Nat) /\ Len(<< >>) = 0 /\ DOMAIN << >> = {}
    OBVIOUS
  <2>3. CounterInv
    BY <2>1 DEF CounterInv
  <2>4. StreamsInv
    BY <2>1 DEF StreamsInv, InPeriod, Kinds
  <2>5. OutputInv
    BY <2>1, <2>2 DEF OutputInv, OutputsIntact, Done, InPeriod, Kinds
  <2> QED
    BY <2>3, <2>4, <2>5
<1>2. PlanInv /\ CounterInv /\ StreamsInv /\ OutputInv /\ [Next]_vars
        => CounterInv' /\ StreamsInv' /\ OutputInv'
  <2> SUFFICES ASSUME PlanInv, CounterInv, StreamsInv, OutputInv, [Next]_vars
               PROVE  CounterInv' /\ StreamsInv' /\ OutputInv'
    OBVIOUS
  <2>1. CounterInv' /\ StreamsInv'
    BY CounterStep, StreamsKept
  <2>2. OutputInv'
    BY OutputPlan, OutputStreams, OutputMux, OutputMerge, OutputNothing, OutputClean, OutputElse
       DEF Next
  <2> QED
    BY <2>1, <2>2
<1>3. OutputInv => OutputsIntact
  BY DEF OutputInv
<1> QED
  BY <1>1, <1>2, <1>3, PlanHolds, PTL DEF Spec

-----------------------------------------------------------------------------

(* The periods that are long enough, of the first n.                        *)
LongOnes(n) == {k \in 1..n : ~manifest[k].short}

(* Every period that is long enough is planned, and has an output once it   *)
(* is done with.                                                            *)
MissingInv ==
  pc \notin {"failed", "panic"} =>
    /\ Len(pds) = Cardinality(LongOnes(i))
    /\ pc # "plan" => i = Len(manifest)
    /\ pc \in {"done", "joined"} => d = Len(pds)
    /\ opt.fetch \cap {"audio", "video"} # {} =>
         /\ pc \in {"merge", "clean"} => AV # {}
         /\ outputs = [k \in 1..Done |-> k]

(* One period more of the manifest.                                         *)
LEMMA OneMorePeriod ==
  ASSUME PlanInv
  PROVE  Cardinality(LongOnes(i + 1)) =
           Cardinality(LongOnes(i)) + IF manifest[i + 1].short THEN 0 ELSE 1
<1>1. i \in Nat
  BY DEF PlanInv
<1>2. IsFiniteSet(LongOnes(i))
  <2>1. LongOnes(i) \subseteq 1..i
    BY DEF LongOnes
  <2>2. IsFiniteSet(1..i)
    BY <1>1, FS_Interval
  <2> QED
    BY <2>1, <2>2, FS_Subset
<1>3. CASE manifest[i + 1].short
  <2>1. LongOnes(i + 1) = LongOnes(i)
    BY <1>1, <1>3 DEF LongOnes
  <2> QED
    BY <1>2, <1>3, <2>1, FS_CardinalityType
<1>4. CASE ~manifest[i + 1].short
  <2>1. LongOnes(i + 1) = LongOnes(i) \cup {i + 1} /\ i + 1 \notin LongOnes(i)
    BY <1>1, <1>4 DEF LongOnes
  <2> QED
    BY <1>2, <1>4, <2>1, FS_AddElement
<1> QED
  BY <1>3, <1>4

(* No step leaves out a period.                                             *)
LEMMA MissingStep == PlanInv /\ MissingInv /\ [Next]_vars => MissingInv'
<1> SUFFICES ASSUME PlanInv, MissingInv, [Next]_vars, pc' \notin {"failed", "panic"}
             PROVE  MissingInv'
  BY DEF MissingInv
<1>0. /\ i \in Nat /\ d \in Nat /\ Len(pds) \in Nat /\ Len(manifest) \in Nat
      /\ i <= Len(manifest) /\ pds \in Seq(Planned)
  <2>1. manifest \in Seq(Period)
    BY DownloadAssumption DEF PlanInv
  <2> QED
    BY <2>1 DEF PlanInv
<1>1. CASE SkipPeriod \/ PlanPeriod
  <2>1. /\ pc = "plan" /\ pc' = pc /\ i' = i + 1
        /\ UNCHANGED <<manifest, opt, d, outputs>>
        /\ IF manifest[i + 1].short THEN pds' = pds ELSE \E new : pds' = Append(pds, new)
    BY <1>1 DEF SkipPeriod, PlanPeriod, Planning, fileVars
  <2>2. Len(pds') = Len(pds) + IF manifest[i + 1].short THEN 0 ELSE 1
    BY <1>0, <2>1
  <2>3. Len(pds') = Cardinality(LongOnes(i + 1))
    BY <2>1, <2>2, OneMorePeriod DEF MissingInv
  <2>4. LongOnes(i)' = LongOnes(i + 1) /\ Done' = Done
    BY <2>1 DEF LongOnes, Done, InPeriod
  <2> QED
    BY <2>1, <2>3, <2>4 DEF MissingInv
<1>2. ASSUME UNCHANGED planVars, pc \notin {"failed", "panic"},
             pc = "plan" => i = Len(manifest) \/ pc' = "plan",
             pc' = "plan" => pc = "plan",
             pc' \in {"done", "joined"} => d' = Len(pds),
             opt.fetch \cap {"audio", "video"} # {} =>
               /\ pc' \in {"merge", "clean"} => AV' # {}
               /\ outputs' = [k \in 1..Done' |-> k]
      PROVE  MissingInv'
  <2>1. LongOnes(i)' = LongOnes(i)
    BY <1>2 DEF LongOnes, planVars
  <2> QED
    BY <1>2, <2>1 DEF MissingInv, planVars
<1>3. ASSUME NEW kind \in Kinds,
             \/ SkipStream(kind) \/ StartStream(kind) \/ StreamDone(kind) \/ StreamFails(kind)
             \/ FragmentDelivered(kind) \/ FragmentDiscarded(kind) \/ FragmentLost(kind)
      PROVE  MissingInv'
  <2>1. /\ UNCHANGED planVars /\ UNCHANGED <<outputs, d>> /\ pc = kind /\ pc' \in Kinds \cup {"mux", "failed"}
    BY <1>3 DEF SkipStream, StartStream, StreamDone, StreamFails, FragmentDelivered,
       FragmentDiscarded, FragmentLost, Settled, Fetching, fileVars, After, Kinds
  <2>2. Done' = Done
    BY <2>1 DEF Done, InPeriod, Kinds
  <2> QED
    BY <1>2, <2>1, <2>2 DEF MissingInv, Kinds
<1>4. CASE StartPeriod
  <2>1. /\ UNCHANGED planVars /\ outputs' = outputs /\ d' = d + 1 /\ pc' = "audio"
        /\ pc = "period" \/ (pc = "plan" /\ i = Len(manifest))
    BY <1>4 DEF StartPeriod, MorePeriods, Iterating
  <2>2. Done = d /\ Done' = d
    BY <1>0, <2>1 DEF Done, InPeriod, Kinds
  <2> QED
    BY <1>2, <2>1, <2>2 DEF MissingInv
<1>5. CASE Mux \/ NothingToMux \/ MergeSubtitles
  <2>1. /\ UNCHANGED planVars /\ UNCHANGED <<outputs, d, have>>
        /\ pc \in {"mux", "merge"} /\ pc' \in {"merge", "clean"}
        /\ opt.fetch \cap {"audio", "video"} # {} => AV # {}
    BY <1>5 DEF Mux, NothingToMux, MergeSubtitles, MissingInv
  <2>2. Done' = Done /\ AV' = AV
    BY <2>1 DEF Done, InPeriod, Kinds, AV
  <2> QED
    BY <1>2, <2>1, <2>2 DEF MissingInv
<1>6. CASE CleanUp
  <2>1. /\ UNCHANGED planVars /\ d' = d /\ pc = "clean" /\ pc' = "period"
        /\ outputs' = IF AV # {} THEN Append(outputs, d) ELSE outputs
    BY <1>6, Zenon DEF CleanUp
  <2>2. Done = d - 1 /\ Done' = d /\ d \in Nat \ {0}
    BY <1>0, <2>1 DEF Done, InPeriod, Kinds, PlanInv
  <2>3. ASSUME opt.fetch \cap {"audio", "video"} # {} PROVE outputs' = [k \in 1..d |-> k]
    <3>1. outputs = [k \in 1..(d - 1) |-> k] /\ outputs' = Append(outputs, d)
      BY <2>1, <2>2, <2>3 DEF MissingInv
    <3>2. outputs \in Seq(Nat) /\ Len(outputs) = d - 1
      BY <2>2, <3>1
    <3> QED
      BY <2>2, <3>1, <3>2
  <2> QED
    BY <1>2, <2>1, <2>2, <2>3
<1>7. CASE LeaveSeparate \/ Concatenate \/ ConcatenateFails
  <2>1. /\ UNCHANGED planVars /\ UNCHANGED <<outputs, d>> /\ pc' \in {"done", "joined", "unjoined"}
        /\ pc = "period" \/ (pc = "plan" /\ i = Len(manifest))
        /\ d = Len(pds)
    BY <1>7 DEF LeaveSeparate, Concatenate, ConcatenateFails, Finished, Iterating, fileVars
  <2>2. Done' = Done
    BY <2>1 DEF Done, InPeriod, Kinds
  <2> QED
    BY <1>2, <2>1, <2>2 DEF MissingInv
<1>8. CASE UNCHANGED vars
  <2>1. UNCHANGED planVars /\ UNCHANGED <<outputs, d, pc, have, pds>>
    BY <1>8 DEF vars, fileVars, planVars
  <2>2. Done' = Done /\ AV' = AV
    BY <2>1 DEF Done, AV
  <2> QED
    BY <1>2, <2>1, <2>2 DEF MissingInv
<1>9. ASSUME PlanError \/ CounterPanics \/ PathPanics \/ StartFails \/ MuxFails \/ MergeFails
      PROVE  FALSE
  BY <1>9 DEF PlanError, CounterPanics, PathPanics, StartFails, MuxFails, MergeFails
<1> QED
  BY <1>1, <1>3, <1>4, <1>5, <1>6, <1>7, <1>8, <1>9 DEF Next

(* A download that succeeds has an output for every period that is long     *)
(* enough, whatever the number of periods.                                  *)
THEOREM NoPeriodIsMissing == Spec => []NoPeriodMissing
<1>1. Init => MissingInv
  <2> SUFFICES ASSUME Init PROVE MissingInv
    OBVIOUS
  <2>1. pds = << >> /\ i = 0 /\ d = 0 /\ outputs = << >> /\ pc = "plan"
    BY DEF Init
  <2>2. LongOnes(i) = {} /\ Cardinality({}) = 0
    BY <2>1, FS_EmptySet DEF LongOnes
  <2>3. Done = 0 /\ outputs = [k \in 1..0 |-> k]
    BY <2>1 DEF Done, InPeriod, Kinds
  <2> QED
    BY <2>1, <2>2, <2>3 DEF MissingInv
<1>2. PlanInv /\ MissingInv => NoPeriodMissing
  <2> SUFFICES ASSUME PlanInv, MissingInv, pc \in {"done", "joined"},
                      opt.fetch \cap {"audio", "video"} # {}
               PROVE  NoPeriodMissing
    BY DEF NoPeriodMissing
  <2>1. manifest \in Seq(Period)
    BY DownloadAssumption DEF PlanInv
  <2>2. LongOnes(i) = {n \in DOMAIN manifest : ~manifest[n].short}
    BY <2>1 DEF LongOnes, MissingInv
  <2>3. Done = Len(pds)
    BY DEF Done, InPeriod, Kinds, MissingInv
  <2> QED
    BY <2>2, <2>3 DEF MissingInv, NoPeriodMissing
<1> QED
  BY <1>1, <1>2, MissingStep, PlanHolds, PTL DEF Spec
=============================================================================
