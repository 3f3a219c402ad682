---------------------------- MODULE PlanningProofs ----------------------------
(***************************************************************************)
(* Proofs about the procedures of planning, for every manifest and call:   *)
(* the request of the manifest and its base URLs, remote elements, the     *)
(* attributes of templates and the number of segments, SegmentTimelines,   *)
(* and the ranges of an index.  The selection of streams is in             *)
(* SelectionProofs.                                                        *)
(***************************************************************************)
EXTENDS Planning, Integers, Sequences, FiniteSetTheorems, SequenceTheorems, RecursionLemmas, TLAPS

(* The manifest in hand has been received, ... had its links resolved, ... *)
(* and been read.                                                          *)
HasBeenRead == {"manifest"} \cup Request!Planning
HasBeenLinked == {"style"} \cup HasBeenRead
HasBeenReceived == {"parse", "links"} \cup HasBeenLinked

(* What the steps build up: DocumentInForce as it comes about.             *)
InForce ==
  /\ pc \in HasBeenReceived =>
       /\ redirected_url = source
       /\ source.place \in DOMAIN web
       /\ mpd = Request!Without(web[source.place], Request!Applied)
  /\ pc \in HasBeenLinked => linked = Request!LinkURLs(source)
  /\ pc \in HasBeenRead => styled = Len(setting.stylesheets) /\ (mpd.locations # << >> => relocated)
  /\ pc \in Request!Planning => (mpd.dynamic => setting.live)

(* The control state: how far the stylesheets and the one relocation are.  *)
Control ==
  /\ setting \in Settings /\ web \in Webs
  /\ styled \in Nat
  /\ pc = "request" /\ ~relocated => redirected_url = target

IInv == Control /\ InForce

(* Nothing is taken away if no stylesheet was applied.                      *)
LEMMA WithoutNothing ==
  ASSUME NEW d \in Request!Document
  PROVE  Request!Without(d, {}) = d
  BY DEF Request!Without, Request!Document

(* A stylesheet after others takes away what it and they do.                *)
LEMMA WithoutTwice ==
  ASSUME NEW d \in Request!Document, NEW A, NEW B
  PROVE  Request!Without(Request!Without(d, A), B) = Request!Without(d, A \cup B)
  BY DEF Request!Without, Request!Document

(* Stylesheets leave the links alone.                                       *)
LEMMA WithoutKeepsLinks ==
  ASSUME NEW d \in Request!Document, NEW A
  PROVE  Request!Without(d, A) \in Request!Document /\ Request!Without(d, A).links = d.links
<1>1. << >> \in Seq(Request!Reference)
  OBVIOUS
<1> QED
  BY <1>1 DEF Request!Without, Request!Document

(* Every manifest that a web has is a document.                             *)
LEMMA WebHasDocuments ==
  ASSUME Request!ManifestFetchAssumption, Control, NEW place \in DOMAIN web
  PROVE  web[place] \in Request!Document
  BY DEF Request!ManifestFetchAssumption, Control

-----------------------------------------------------------------------------

(* At the start nothing has been received.                                  *)
LEMMA InForceInit == Request!Init => IInv
  BY DEF Request!Init, IInv, Control, InForce, HasBeenRead, HasBeenLinked, HasBeenReceived,
        Request!Planning

(* The control state fits whatever step is taken.                           *)
LEMMA ControlStep ==
  ASSUME Request!ManifestFetchAssumption, IInv, [Request!Next]_(Request!vars)
  PROVE  Control'
<1> USE DEF Control, Request!Goto, Request!Return, Request!request, Request!received, Request!bases
<1>1. CASE UNCHANGED Request!vars
  BY <1>1 DEF IInv, Request!vars
<1>2. CASE Request!Retry
  BY <1>2 DEF IInv, Request!Retry, Request!Requesting
<1>3. CASE Request!RequestFails \/ Request!BodyFails
  BY <1>3 DEF IInv, Request!RequestFails, Request!BodyFails
<1>4. CASE Request!Answer \/ Request!ReadFile
  BY <1>4 DEF IInv, Request!Answer, Request!ReadFile, Request!Receive
<1>5. CASE Request!Parse \/ Request!ResolveLinks
  BY <1>5 DEF IInv, Request!Parse, Request!ResolveLinks
<1>6. CASE Request!ApplyStylesheet \/ Request!StylesheetFails
  BY <1>6 DEF IInv, Request!ApplyStylesheet, Request!StylesheetFails, Request!Styling
<1>7. CASE Request!Read
  BY <1>7 DEF IInv, Request!Read
<1>8. CASE Request!ReadManifest \/ Request!NextPeriod \/ Request!Done
  BY <1>8 DEF IInv, Request!ReadManifest, Request!NextPeriod, Request!Done
<1>9. CASE Request!PlanAudio \/ Request!PlanVideo \/ Request!PlanSubs
  BY <1>9 DEF IInv, Request!PlanAudio, Request!PlanVideo, Request!PlanSubs, Request!PlanStream
<1> QED
  BY <1>1, <1>2, <1>3, <1>4, <1>5, <1>6, <1>7, <1>8, <1>9 DEF Request!Next

(* A manifest just received is where it was found, and unchanged.           *)
LEMMA InForceReceive ==
  ASSUME Request!ManifestFetchAssumption, IInv, Request!Answer \/ Request!ReadFile
  PROVE  InForce'
<1>1. UNCHANGED <<setting, web>>
  BY DEF Request!Answer, Request!ReadFile
<1>2. CASE pc' # "parse"
  <2>1. pc' = "err"
    BY <1>2 DEF Request!Answer, Request!ReadFile, Request!Receive, Request!Goto, Request!Return
  <2> QED
    BY <2>1 DEF InForce, HasBeenRead, HasBeenLinked, HasBeenReceived, Request!Planning
<1>3. CASE pc' = "parse"
  <2>1. /\ redirected_url' = source' /\ source'.place \in DOMAIN web
        /\ mpd' = web[source'.place] /\ styled' = 0
    BY <1>3 DEF Request!Answer, Request!ReadFile, Request!Receive, Request!Goto, Request!Return,
          IInv, Control
  <2>2. Request!Applied' = {}
    <3>1. 1..styled' = {}
      BY <2>1
    <3> QED
      BY <3>1 DEF Request!Applied
  <2>3. web[source'.place] \in Request!Document
    BY <2>1, WebHasDocuments DEF IInv
  <2>4. mpd' = Request!Without(web'[source'.place], Request!Applied')
    BY <1>1, <2>1, <2>2, <2>3, WithoutNothing
  <2> QED
    BY <1>1, <1>3, <2>1, <2>4 DEF InForce, HasBeenRead, HasBeenLinked, HasBeenReceived,
          Request!Planning
<1> QED
  BY <1>2, <1>3

(* What was applied so far, with one stylesheet more.                       *)
LEMMA AppliedStep ==
  ASSUME IInv, styled' = styled + 1, UNCHANGED setting
  PROVE  Request!Applied' = Request!Applied \cup setting.stylesheets[styled + 1]
<1>1. styled \in Nat
  BY DEF IInv, Control
<1>2. 1..styled' = (1..styled) \cup {styled + 1}
  BY <1>1
<1> QED
  BY <1>2 DEF Request!Applied

(* A stylesheet keeps the manifest the one that was found there.            *)
LEMMA InForceStylesheet ==
  ASSUME Request!ManifestFetchAssumption, IInv, Request!ApplyStylesheet
  PROVE  InForce'
<1> DEFINE d == web[source.place]
<1>1. /\ pc = "style" /\ pc' = "style"
      /\ UNCHANGED <<setting, web, redirected_url, source, linked>>
      /\ mpd' = Request!Without(mpd, setting.stylesheets[styled + 1]) /\ styled' = styled + 1
  BY DEF Request!ApplyStylesheet, Request!Styling
<1>2. /\ redirected_url = source /\ source.place \in DOMAIN web
      /\ mpd = Request!Without(d, Request!Applied) /\ linked = Request!LinkURLs(source)
  BY <1>1 DEF IInv, InForce, HasBeenReceived, HasBeenLinked
<1>3. d \in Request!Document
  BY <1>2, WebHasDocuments DEF IInv
<1>4. mpd' = Request!Without(d, Request!Applied')
  BY <1>1, <1>2, <1>3, AppliedStep, WithoutTwice
<1>5. mpd'.links = mpd.links
  BY <1>1, <1>2, <1>3, WithoutKeepsLinks
<1>6. linked' = Request!LinkURLs(source)'
  BY <1>1, <1>2, <1>5 DEF Request!LinkURLs, Request!LinkURL, Request!Directory
<1> QED
  BY <1>1, <1>2, <1>4, <1>6 DEF InForce, HasBeenRead, HasBeenLinked, HasBeenReceived,
        Request!Planning

(* Steps that leave the manifest alone.                                     *)
LEMMA InForceUnchanged ==
  ASSUME IInv, UNCHANGED <<setting, web, redirected_url, source, mpd, styled>>
  PROVE  /\ Request!Applied' = Request!Applied /\ Request!LinkURLs(source)' = Request!LinkURLs(source)
         /\ Request!LinkURLs(redirected_url)' = Request!LinkURLs(redirected_url)
  BY DEF Request!Applied, Request!LinkURLs, Request!LinkURL, Request!Directory

(* Every step keeps what the manifest in hand is known to be.               *)
LEMMA InForceStep ==
  ASSUME Request!ManifestFetchAssumption, IInv, [Request!Next]_(Request!vars)
  PROVE  InForce'
<1> USE DEF InForce, HasBeenRead, HasBeenLinked, HasBeenReceived, Request!Planning
<1> USE DEF Request!Goto, Request!Return, Request!request, Request!received, Request!bases
<1>0. InForce
  BY DEF IInv
<1>1. CASE UNCHANGED Request!vars
  BY <1>0, <1>1, InForceUnchanged DEF Request!vars
<1>2. CASE Request!Retry
  BY <1>2 DEF Request!Retry, Request!Requesting
<1>3. CASE Request!RequestFails \/ Request!BodyFails
  BY <1>3 DEF Request!RequestFails, Request!BodyFails
<1>4. CASE Request!Answer \/ Request!ReadFile
  BY <1>4, InForceReceive
<1>5. CASE Request!Parse
  BY <1>0, <1>5, InForceUnchanged DEF Request!Parse
<1>6. CASE Request!ResolveLinks
  BY <1>0, <1>6, InForceUnchanged DEF Request!ResolveLinks
<1>7. CASE Request!ApplyStylesheet
  BY <1>7, InForceStylesheet
<1>8. CASE Request!StylesheetFails
  BY <1>8 DEF Request!StylesheetFails
<1>9. CASE Request!Read
  BY <1>0, <1>9, InForceUnchanged DEF Request!Read
<1>10. CASE Request!ReadManifest
  BY <1>0, <1>10, InForceUnchanged DEF Request!ReadManifest
<1>11. CASE Request!NextPeriod \/ Request!Done
  BY <1>0, <1>11, InForceUnchanged DEF Request!NextPeriod, Request!Done
<1>12. CASE Request!PlanAudio \/ Request!PlanVideo \/ Request!PlanSubs
  BY <1>0, <1>12, InForceUnchanged DEF Request!PlanAudio, Request!PlanVideo, Request!PlanSubs,
        Request!PlanStream
<1> QED
  BY <1>1, <1>2, <1>3, <1>4, <1>5, <1>6, <1>7, <1>8, <1>9, <1>10, <1>11, <1>12 DEF Request!Next

(* The strengthening says enough: all stylesheets are applied.              *)
LEMMA InForceImplies ==
  ASSUME Request!ManifestFetchAssumption, IInv
  PROVE  Request!DocumentInForce
<1> SUFFICES ASSUME pc \in Request!Planning
             PROVE  /\ redirected_url = source
                    /\ mpd = Request!Without(web[source.place],
                                     UNION {setting.stylesheets[k] : k \in DOMAIN setting.stylesheets})
                    /\ linked = Request!LinkURLs(source)
                    /\ mpd.locations # << >> => relocated
                    /\ mpd.dynamic => setting.live
  BY DEF Request!DocumentInForce
<1>1. setting.stylesheets \in Seq(SUBSET Request!Features)
  BY DEF IInv, Control, Request!ManifestFetchAssumption, Request!Setting
<1>2. styled = Len(setting.stylesheets)
  BY DEF IInv, InForce, HasBeenRead
<1>3. 1..styled = DOMAIN setting.stylesheets
  BY <1>1, <1>2
<1> QED
  BY <1>3 DEF IInv, InForce, Request!Applied, HasBeenRead, HasBeenLinked, HasBeenReceived

(* What is planned from is one manifest: where it was found is what its    *)
(* references start from, at its Location if it has one, its links were    *)
(* looked for there and all stylesheets applied (fetch.rs:4606-4685), for  *)
(* any redirects, any manifests and any stylesheets.                       *)
THEOREM ManifestInForce ==
  ASSUME Request!ManifestFetchAssumption
  PROVE  Spec => []DocumentInForce
<1> DEFINE RequestInv == procedure = "request" => IInv
<1>1. Init => RequestInv
  BY InForceInit DEF Init
<1>2. RequestInv /\ [Next]_vars => RequestInv'
  <2> SUFFICES ASSUME RequestInv, [Next]_vars, procedure' = "request" PROVE IInv'
    OBVIOUS
  <2>1. procedure = "request" /\ IInv
    BY DEF Next, vars
  <2>2. [Request!Next]_(Request!vars)
    BY <2>1 DEF Next, vars, requestVars, Request!vars, Request!request, Request!received,
          Request!bases
  <2> QED
    BY <2>1, <2>2, ControlStep, InForceStep DEF IInv
<1>3. RequestInv => DocumentInForce
  BY InForceImplies DEF DocumentInForce
<1> QED
  BY <1>1, <1>2, <1>3, PTL DEF Spec
-----------------------------------------------------------------------------
(* An indexed file.                                                        *)

(* The subsegments of an index follow one another: pos[k] is where the     *)
(* k-th starts.                                                            *)
LEMMA SubsegmentsFollow ==
  ASSUME NEW sidx \in Index!Sidx, Index!Parses(sidx), NEW start \in Nat
  PROVE  \E pos :
           /\ pos[1] = start
           /\ \A k \in 1..sidx.declared : pos[k + 1] = pos[k] + sidx.sizes[k]
           /\ \A k \in 1..(sidx.declared + 1) : pos[k] \in Nat
           /\ Index!SegmentChunks(sidx, start) =
                [k \in 1..sidx.declared |-> Index!Part(pos[k], pos[k] - 1 + sidx.sizes[k])]
<1> DEFINE n == sidx.declared
           Is(f) == f = [k \in 1..(n + 1) |-> IF k = 1 THEN start ELSE f[k - 1] + sidx.sizes[k - 1]]
           pos == CHOOSE f : Is(f)
<1>1. n \in Nat /\ \A k \in 1..n : sidx.sizes[k] \in Nat
  BY DEF Index!Sidx, Index!Parses
<1>2. \E f : Is(f)
  <2>1. PICK sums : IsSums(sums, sidx.sizes, n)
    BY <1>1, SumsExist
  <2>2. \A k \in 0..n : sums[k] \in Nat
    BY <1>1, <2>1, SumsGrow
  <2> DEFINE f == [k \in 1..(n + 1) |-> start + sums[k - 1]]
  <2>3. ASSUME NEW k \in 1..(n + 1) PROVE f[k] = IF k = 1 THEN start ELSE f[k - 1] + sidx.sizes[k - 1]
    <3> HIDE DEF n
    <3>1. k - 1 \in 0..n
      BY <1>1
    <3>2. CASE k = 1
      <4>1. sums[0] = 0
        BY <2>1, <1>1 DEF IsSums
      <4> QED
        BY <3>2, <4>1
    <3>3. CASE k # 1
      <4>1. k - 1 \in 1..n /\ (k - 1) - 1 \in 0..n /\ k - 1 \in 1..(n + 1) /\ k - 1 # 0
        BY <1>1, <3>3
      <4>2. sums[k - 1] = sums[(k - 1) - 1] + sidx.sizes[k - 1]
        BY <2>1, <3>1, <4>1 DEF IsSums
      <4>3. sums[(k - 1) - 1] \in Nat /\ sidx.sizes[k - 1] \in Nat
        BY <1>1, <2>2, <4>1 DEF n
      <4> QED
        BY <3>3, <4>1, <4>2, <4>3
    <3> QED
      BY <3>2, <3>3
  <2>4. Is(f)
    BY <2>3
  <2> QED
    BY <2>4
<1> HIDE DEF Is
<1>3. Is(pos)
  BY <1>2
<1>4. Index!SegmentChunks(sidx, start) =
        [k \in 1..sidx.declared |-> Index!Part(pos[k], pos[k] - 1 + sidx.sizes[k])]
  BY DEF Index!SegmentChunks, Is
<1> HIDE DEF pos
<1>5. pos[1] = start /\ \A k \in 1..n : pos[k + 1] = pos[k] + sidx.sizes[k]
  <2> HIDE DEF n
  <2>1. \A k \in 1..(n + 1) : pos[k] = IF k = 1 THEN start ELSE pos[k - 1] + sidx.sizes[k - 1]
    BY <1>3 DEF Is
  <2>2. ASSUME NEW k \in 1..n PROVE pos[k + 1] = pos[k] + sidx.sizes[k]
    <3>1. k + 1 \in 1..(n + 1) /\ k + 1 # 1 /\ (k + 1) - 1 = k
      BY <1>1
    <3> QED
      BY <2>1, <3>1
  <2>3. 1 \in 1..(n + 1)
    BY <1>1
  <2> QED
    BY <2>1, <2>2, <2>3
<1>6. \A k \in 1..(n + 1) : pos[k] \in Nat
  <2> HIDE DEF n
  <2> DEFINE T == {k \in Nat : k + 1 <= n + 1 => pos[k + 1] \in Nat}
  <2>1. 0 \in T
    BY <1>5
  <2>2. ASSUME NEW k \in Nat, k \in T PROVE k + 1 \in T
    <3> SUFFICES ASSUME (k + 1) + 1 <= n + 1 PROVE pos[(k + 1) + 1] \in Nat
      OBVIOUS
    <3>1. k + 1 \in 1..n /\ pos[k + 1] \in Nat
      BY <1>1, <2>2
    <3>2. pos[(k + 1) + 1] = pos[k + 1] + sidx.sizes[k + 1] /\ sidx.sizes[k + 1] \in Nat
      BY <1>1, <1>5, <3>1
    <3> QED
      BY <3>1, <3>2
  <2> HIDE DEF T
  <2>3. Nat \subseteq T
    BY <2>1, <2>2, EveryNumber
  <2>4. ASSUME NEW k \in 1..(n + 1) PROVE pos[k] \in Nat
    <3>1. k - 1 \in T /\ (k - 1) + 1 = k
      BY <2>3
    <3> QED
      BY <1>1, <3>1 DEF T
  <2> QED
    BY <2>4
<1> QED
  BY <1>4, <1>5, <1>6 DEF n

(* Where the subsegments end, if as many are there as declared.             *)
LEMMA EndsOfSubsegments ==
  ASSUME case \in Index!Case
  PROVE  /\ Index!Ends[0] = Index!e
         /\ \A k \in 1..Len(case.sidx.sizes) : Index!Ends[k] = Index!Ends[k - 1] + case.sidx.sizes[k]
<1> DEFINE n == Len(case.sidx.sizes)
           Is(f) == f = [k \in 0..n |-> IF k = 0 THEN Index!e ELSE f[k - 1] + case.sidx.sizes[k]]
<1>1. n \in Nat /\ Index!e \in Nat /\ \A k \in 1..n : case.sidx.sizes[k] \in Nat
  BY DEF Index!Case, Index!Sidx, Index!e, Index!OctetRange
<1>2. \E f : Is(f)
  <2>1. PICK sums : IsSums(sums, case.sidx.sizes, n)
    BY <1>1, SumsExist
  <2>2. \A k \in 0..n : sums[k] \in Nat
    <3> HIDE DEF n
    <3> QED
      BY <1>1, <2>1, SumsGrow
  <2> DEFINE f == [k \in 0..n |-> Index!e + sums[k]]
  <2>3. ASSUME NEW k \in 0..n PROVE f[k] = IF k = 0 THEN Index!e ELSE f[k - 1] + case.sidx.sizes[k]
    <3> HIDE DEF n
    <3>1. CASE k = 0
      <4>1. sums[0] = 0
        BY <2>1, <1>1 DEF IsSums
      <4> QED
        BY <1>1, <3>1, <4>1
    <3>2. CASE k # 0
      <4>1. k - 1 \in 0..n /\ k \in 1..n
        BY <1>1, <3>2
      <4>2. sums[k] = sums[k - 1] + case.sidx.sizes[k]
        BY <2>1, <3>2 DEF IsSums
      <4>3. sums[k - 1] \in Nat /\ case.sidx.sizes[k] \in Nat
        BY <1>1, <2>2, <4>1
      <4> QED
        BY <1>1, <3>2, <4>1, <4>2, <4>3
    <3> QED
      BY <3>1, <3>2
  <2>4. Is(f)
    BY <2>3
  <2> QED
    BY <2>4
<1>3. Index!Ends = CHOOSE f : Is(f)
  BY DEF Index!Ends
<1> HIDE DEF Is
<1>4. Is(Index!Ends)
  BY <1>2, <1>3
<1>5. \A k \in 0..n : Index!Ends[k] = IF k = 0 THEN Index!e ELSE Index!Ends[k - 1] + case.sidx.sizes[k]
  BY <1>4 DEF Is
<1> HIDE DEF n
<1>6. ASSUME NEW k \in 1..n PROVE Index!Ends[k] = Index!Ends[k - 1] + case.sidx.sizes[k]
  <2>1. k \in 0..n /\ k # 0
    BY <1>1
  <2> QED
    BY <1>5, <2>1
<1>7. 0 \in 0..n
  BY <1>1
<1> QED
  BY <1>5, <1>6, <1>7 DEF n

(* What an index that can be used leads to: what precedes the subsegments, *)
(* and these.                                                              *)
Indexed == <<Index!Part(0, Index!e)>> \o Index!SegmentChunks(case.sidx, Index!e + 1)

(* Nothing is planned before the index is read; an index that can be used  *)
(* leads to the subsegments and perhaps an Initialization, another one to  *)
(* the whole file.                                                         *)
IndexInv ==
  /\ case \in Cases
  /\ pc \in {"start", "fetch", "read"} => fragments = << >> /\ ~indexable_segments
  /\ pc \in {"plan", "ok"} /\ indexable_segments => Index!Parses(case.sidx)
  /\ pc = "plan" => IF indexable_segments THEN fragments = Indexed
                    ELSE fragments \in {<< >>, <<Index!Part(0, Index!e)>>}
  /\ pc = "ok" => IF indexable_segments
                    THEN \/ fragments = Indexed
                         \/ \E init : init.is_init /\ fragments = Append(Indexed, init)
                    ELSE \E k \in DOMAIN fragments : fragments[k] = Index!Everything

(* Nothing has been planned at the start.                                   *)
LEMMA IndexInit == Index!Init => IndexInv
  BY DEF Index!Init, IndexInv

(* Every step plans what the answer allows for.                             *)
LEMMA IndexStep ==
  ASSUME IndexInv, [Index!Next]_(Index!vars)
  PROVE  IndexInv'
<1> USE DEF Index!Goto, Index!Return
<1>1. CASE UNCHANGED Index!vars
  <2>1. Indexed' = Indexed /\ Index!Parses(case.sidx)' = Index!Parses(case.sidx)
    BY <1>1 DEF Index!vars, Indexed, Index!e, Index!s, Index!Parses
  <2> QED
    BY <1>1, <2>1 DEF IndexInv, Index!vars, Index!e
<1>2. CASE Index!Start
  BY <1>2 DEF IndexInv, Index!Start
<1>3. CASE Index!Fetch
  BY <1>3 DEF IndexInv, Index!Fetch
<1>4. CASE Index!ReadIndex
  <2>1. /\ pc = "read" /\ pc' = "plan" /\ case' = case /\ Indexed' = Indexed
        /\ Index!Parses(case.sidx)' = Index!Parses(case.sidx)
        /\ fragments = << >> /\ ~indexable_segments
    BY <1>4 DEF IndexInv, Index!ReadIndex, Indexed, Index!e, Index!s, Index!Parses
  <2>2. CASE case.answer.type # "mp4"
    BY <1>4, <2>1, <2>2 DEF IndexInv, Index!ReadIndex
  <2>3. CASE case.answer.type = "mp4" /\ Index!Parses(case.sidx)
    BY <1>4, <2>1, <2>3 DEF IndexInv, Index!ReadIndex, Indexed
  <2>4. CASE case.answer.type = "mp4" /\ ~Index!Parses(case.sidx)
    <3>1. fragments' = <<Index!Part(0, Index!e)>> \o << >> /\ ~indexable_segments'
      BY <1>4, <2>4 DEF Index!ReadIndex
    <3>2. fragments' = <<Index!Part(0, Index!e)>>
      BY <3>1
    <3>3. Index!Part(0, Index!e)' = Index!Part(0, Index!e)
      BY <2>1 DEF Index!Part, Index!e
    <3> QED
      BY <2>1, <3>1, <3>2, <3>3 DEF IndexInv
  <2> QED
    BY <2>2, <2>3, <2>4
<1>5. CASE Index!AddInitialization
  <2>1. /\ pc = "plan" /\ indexable_segments /\ indexable_segments' = indexable_segments
        /\ case' = case /\ Indexed' = Indexed /\ fragments = Indexed
    BY <1>5 DEF IndexInv, Index!AddInitialization, Indexed, Index!e
  <2>2. \/ pc' = "err"
        \/ pc' = "ok" /\ fragments' = fragments
        \/ pc' = "ok" /\ \E init : init.is_init /\ fragments' = Append(fragments, init)
    BY <1>5 DEF Index!AddInitialization
  <2>3. Index!Parses(case.sidx)'
    BY <2>1 DEF IndexInv, Index!Parses, Index!s, Index!e
  <2> QED
    BY <2>1, <2>2, <2>3 DEF IndexInv
<1>6. CASE Index!FallBack
  <2>1. /\ pc = "plan" /\ ~indexable_segments /\ ~indexable_segments' /\ pc' = "ok"
        /\ case' = case /\ fragments' = Append(fragments, Index!Everything)
        /\ fragments \in {<< >>, <<Index!Part(0, Index!e)>>}
    BY <1>6 DEF IndexInv, Index!FallBack
  <2>2. fragments'[Len(fragments) + 1] = Index!Everything /\ Len(fragments) + 1 \in DOMAIN fragments'
    BY <2>1
  <2>3. Index!Everything' = Index!Everything
    BY DEF Index!Everything, Index!Part
  <2> QED
    BY <2>1, <2>2, <2>3 DEF IndexInv
<1> QED
  BY <1>1, <1>2, <1>3, <1>4, <1>5, <1>6 DEF Index!Next

(* What is planned from an index that can be used: an octet range for what *)
(* precedes the subsegments and for each of them, one after the other, to  *)
(* the end of the last one.                                                *)
LEMMA IndexedTiles ==
  ASSUME Index!IndexRangeAssumption, IndexInv, pc = "ok", indexable_segments,
         Len(case.sidx.sizes) = case.sidx.declared
  PROVE  LET n == case.sidx.declared
         IN  /\ n \in Nat
             /\ Index!Media = 1..(n + 1)
             /\ fragments[1].start_byte = 0
             /\ \A k \in 1..(n + 1) : fragments[k].end_byte = Index!Ends[k - 1]
             /\ \A k \in 1..n : fragments[k + 1].start_byte = Index!Ends[k - 1] + 1
             /\ \A k \in 0..n : Index!Ends[k] \in Nat
             /\ \A k \in 0..n : Index!Ends[k] <= Index!Ends[n]
             /\ \A k \in DOMAIN fragments \ Index!Media : k = Len(fragments)
<1> DEFINE n == case.sidx.declared
           sizes == case.sidx.sizes
           end == Index!e
<1>1. /\ case \in Index!Case /\ case.sidx \in Index!Sidx /\ Index!Parses(case.sidx)
      /\ n = Len(sizes) /\ n \in Nat /\ end \in Nat /\ \A k \in 1..n : sizes[k] \in Nat
  <2>1. case \in Index!Case
    BY DEF IndexInv, Index!IndexRangeAssumption
  <2> QED
    BY <2>1 DEF IndexInv, Index!Case, Index!Sidx, Index!e, Index!OctetRange
<1>2. PICK pos :
        /\ pos[1] = end + 1
        /\ \A k \in 1..n : pos[k + 1] = pos[k] + sizes[k]
        /\ \A k \in 1..(n + 1) : pos[k] \in Nat
        /\ Index!SegmentChunks(case.sidx, end + 1) =
             [k \in 1..n |-> Index!Part(pos[k], pos[k] - 1 + sizes[k])]
  <2>1. end + 1 \in Nat
    BY <1>1
  <2> QED
    BY <1>1, <2>1, SubsegmentsFollow
<1>3. /\ Index!Ends[0] = end
      /\ \A k \in 1..n : Index!Ends[k] = Index!Ends[k - 1] + sizes[k]
  BY <1>1, EndsOfSubsegments
<1> HIDE DEF n, sizes, end
<1>4. \A k \in 0..n : pos[k + 1] = Index!Ends[k] + 1 /\ Index!Ends[k] \in Nat
  <2> DEFINE T == {k \in Nat : k <= n => pos[k + 1] = Index!Ends[k] + 1 /\ Index!Ends[k] \in Nat}
  <2>1. 0 \in T
    BY <1>1, <1>2, <1>3
  <2>2. ASSUME NEW k \in Nat, k \in T PROVE k + 1 \in T
    <3> SUFFICES ASSUME k + 1 <= n
                 PROVE pos[(k + 1) + 1] = Index!Ends[k + 1] + 1 /\ Index!Ends[k + 1] \in Nat
      OBVIOUS
    <3>1. k + 1 \in 1..n /\ (k + 1) - 1 = k /\ pos[k + 1] = Index!Ends[k] + 1 /\ Index!Ends[k] \in Nat
      BY <1>1, <2>2
    <3>2. /\ pos[(k + 1) + 1] = pos[k + 1] + sizes[k + 1] /\ sizes[k + 1] \in Nat
          /\ Index!Ends[k + 1] = Index!Ends[(k + 1) - 1] + sizes[k + 1]
      BY <1>1, <1>2, <1>3, <3>1
    <3> QED
      BY <3>1, <3>2
  <2> HIDE DEF T
  <2>3. Nat \subseteq T
    BY <2>1, <2>2, EveryNumber
  <2> QED
    BY <1>1, <2>3 DEF T
<1>5. \A k \in 0..n : Index!Ends[k] <= Index!Ends[n]
  <2> DEFINE T == {k \in Nat : k <= n => Index!Ends[n - k] <= Index!Ends[n]}
  <2>1. 0 \in T
    BY <1>1, <1>4
  <2>2. ASSUME NEW k \in Nat, k \in T PROVE k + 1 \in T
    <3> SUFFICES ASSUME k + 1 <= n PROVE Index!Ends[n - (k + 1)] <= Index!Ends[n]
      OBVIOUS
    <3>1. /\ n - k \in 1..n /\ n - k \in 0..n /\ n - (k + 1) \in 0..n /\ n \in 0..n
          /\ (n - k) - 1 = n - (k + 1) /\ Index!Ends[n - k] <= Index!Ends[n]
      BY <1>1, <2>2
    <3>2. Index!Ends[n - k] = Index!Ends[n - (k + 1)] + sizes[n - k] /\ sizes[n - k] \in Nat
      BY <1>1, <1>3, <3>1
    <3>3. /\ Index!Ends[n - k] \in Nat /\ Index!Ends[n - (k + 1)] \in Nat
          /\ Index!Ends[n] \in Nat
      BY <1>4, <3>1
    <3> QED
      BY <3>1, <3>2, <3>3
  <2> HIDE DEF T
  <2>3. Nat \subseteq T
    BY <2>1, <2>2, EveryNumber
  <2> SUFFICES ASSUME NEW k \in 0..n PROVE Index!Ends[k] <= Index!Ends[n]
    OBVIOUS
  <2>4. n - k \in Nat /\ n - k <= n /\ n - (n - k) = k
    BY <1>1
  <2>5. n - k \in T
    BY <2>3, <2>4
  <2> QED
    BY <2>4, <2>5 DEF T
<1> DEFINE part(k) == Index!Part(pos[k], pos[k] - 1 + sizes[k])
           f == <<Index!Part(0, end)>> \o [k \in 1..n |-> part(k)]
<1>6. Indexed = f
  BY <1>2 DEF Indexed, end
<1>7. /\ Len(f) = n + 1 /\ DOMAIN f = 1..(n + 1)
      /\ f[1] = Index!Part(0, end) /\ \A k \in 1..n : f[k + 1] = part(k)
      /\ \E S : f \in Seq(S)
  <2> HIDE DEF part
  <2> DEFINE g == [k \in 1..n |-> part(k)]
  <2>1. Len(g) = n /\ \A k \in 1..n : g[k] = part(k)
    BY <1>1
  <2>2. g \in Seq({part(k) : k \in 1..n})
    BY <1>1
  <2> HIDE DEF g
  <2>3. f = <<Index!Part(0, end)>> \o g
    BY DEF g
  <2> DEFINE h == <<Index!Part(0, end)>> \o g
  <2>4. Len(h) = n + 1 /\ DOMAIN h = 1..(n + 1) /\ h[1] = Index!Part(0, end)
    BY <1>1, <2>1, <2>2
  <2>5. \A k \in 1..n : h[k + 1] = g[k]
    BY <1>1, <2>1, <2>2
  <2>6. \E S : h \in Seq(S)
    <3> DEFINE S == {Index!Part(0, end)} \cup {part(k) : k \in 1..n}
    <3>1. <<Index!Part(0, end)>> \in Seq(S) /\ g \in Seq(S)
      BY <2>2
    <3>2. h \in Seq(S)
      BY <3>1
    <3> QED
      BY <3>2
  <2> QED
    BY <2>1, <2>3, <2>4, <2>5, <2>6, Zenon
<1> HIDE DEF f
<1>8. /\ \A k \in 1..(n + 1) : fragments[k] = f[k]
      /\ \/ DOMAIN fragments = 1..(n + 1)
         \/ DOMAIN fragments = 1..(n + 2) /\ fragments[n + 2].is_init /\ Len(fragments) = n + 2
  <2>1. CASE fragments = f
    BY <1>7, <2>1
  <2>2. ASSUME NEW init, init.is_init, fragments = Append(f, init)
        PROVE  /\ \A k \in 1..(n + 1) : fragments[k] = f[k]
               /\ DOMAIN fragments = 1..(n + 2) /\ fragments[n + 2].is_init
               /\ Len(fragments) = n + 2
    <3>1. PICK S : f \in Seq(S)
      BY <1>7
    <3>2. /\ \A k \in 1..(n + 1) : Append(f, init)[k] = f[k]
          /\ DOMAIN Append(f, init) = 1..(n + 2) /\ Append(f, init)[n + 2] = init
          /\ Len(Append(f, init)) = n + 2
      BY <1>1, <1>7, <3>1
    <3> QED
      BY <2>2, <3>2, Zenon
  <2>3. fragments = f \/ \E init : init.is_init /\ fragments = Append(f, init)
    BY <1>6 DEF IndexInv
  <2> QED
    BY <2>1, <2>2, <2>3
<1>9. \A k \in 1..(n + 1) :
        /\ ~fragments[k].is_init /\ fragments[k].end_byte = Index!Ends[k - 1]
        /\ fragments[k].start_byte = IF k = 1 THEN 0 ELSE Index!Ends[(k - 1) - 1] + 1
  <2> SUFFICES ASSUME NEW k \in 1..(n + 1)
               PROVE  /\ ~f[k].is_init /\ f[k].end_byte = Index!Ends[k - 1]
                      /\ f[k].start_byte = IF k = 1 THEN 0 ELSE Index!Ends[(k - 1) - 1] + 1
    BY <1>8, Zenon
  <2>1. CASE k = 1
    BY <1>3, <1>7, <2>1 DEF Index!Part
  <2>2. CASE k # 1
    <3>1. k - 1 \in 1..n /\ (k - 1) + 1 = k /\ (k - 1) - 1 \in 0..n /\ ((k - 1) - 1) + 1 = k - 1
      BY <1>1, <2>2
    <3>2. f[k] = part(k - 1)
      BY <1>7, <3>1, Zenon
    <3>3. /\ pos[k - 1] = Index!Ends[(k - 1) - 1] + 1 /\ Index!Ends[(k - 1) - 1] \in Nat
          /\ Index!Ends[k - 1] = Index!Ends[(k - 1) - 1] + sizes[k - 1] /\ sizes[k - 1] \in Nat
      BY <1>1, <1>3, <1>4, <3>1
    <3> QED
      BY <2>2, <3>2, <3>3 DEF Index!Part
  <2> QED
    BY <2>1, <2>2
<1> HIDE DEF part
<1>10. Index!Media = 1..(n + 1)
  <2>1. ASSUME NEW k PROVE k \in Index!Media <=> k \in 1..(n + 1)
    BY <1>1, <1>8, <1>9 DEF Index!Media
  <2> QED
    BY <2>1
<1>11. \A k \in 1..n : fragments[k + 1].start_byte = Index!Ends[k - 1] + 1
  <2> SUFFICES ASSUME NEW k \in 1..n PROVE fragments[k + 1].start_byte = Index!Ends[k - 1] + 1
    OBVIOUS
  <2>1. k + 1 \in 1..(n + 1) /\ k + 1 # 1 /\ ((k + 1) - 1) - 1 = k - 1
    BY <1>1
  <2>2. fragments[k + 1].start_byte = Index!Ends[((k + 1) - 1) - 1] + 1
    BY <1>9, <2>1
  <2> QED
    BY <2>1, <2>2
<1>12. fragments[1].start_byte = 0
  BY <1>1, <1>9
<1>13. \A k \in DOMAIN fragments \ Index!Media : k = Len(fragments)
  BY <1>1, <1>8, <1>10
<1> QED
  BY <1>1, <1>4, <1>5, <1>9, <1>10, <1>11, <1>12, <1>13 DEF n

(* An offset is a number.                                                  *)
LEMMA OffsetType ==
  ASSUME Index!IndexRangeAssumption, IndexInv
  PROVE  case.sidx.first_offset \in Nat
<1>1. case \in Index!Case
  BY DEF Index!IndexRangeAssumption, IndexInv
<1> QED
  BY <1>1 DEF Index!Case, Index!Sidx

(* The media fragments of an indexed file follow one another.              *)
LEMMA TilesHolds ==
  ASSUME Index!IndexRangeAssumption, IndexInv
  PROVE  Index!Tiles
<1> SUFFICES ASSUME pc = "ok", indexable_segments, Len(case.sidx.sizes) = case.sidx.declared
             PROVE  /\ Index!Media # {}
                    /\ \A k \in Index!Media :
                         /\ (\A j \in Index!Media : k <= j) => fragments[k].start_byte = 0
                         /\ (\A j \in Index!Media : j <= k) =>
                              fragments[k].end_byte = Index!FileEnd - case.sidx.first_offset
                         /\ \A j \in Index!Media :
                              j < k /\ ~(\E i \in Index!Media : j < i /\ i < k) =>
                                fragments[k].start_byte = fragments[j].end_byte + 1
                    /\ \A k \in DOMAIN fragments \ Index!Media : k = Len(fragments)
  BY DEF Index!Tiles
<1> DEFINE n == case.sidx.declared
<1>1. /\ n \in Nat
      /\ Index!Media = 1..(n + 1)
      /\ fragments[1].start_byte = 0
      /\ \A k \in 1..(n + 1) : fragments[k].end_byte = Index!Ends[k - 1]
      /\ \A k \in 1..n : fragments[k + 1].start_byte = Index!Ends[k - 1] + 1
      /\ n \in 0..n /\ Index!Ends[n] \in Nat
      /\ \A k \in DOMAIN fragments \ Index!Media : k = Len(fragments)
  BY IndexedTiles
<1> DEFINE last == Index!FileEnd - case.sidx.first_offset
<1>2. last = Index!Ends[n]
  BY <1>1, OffsetType DEF Index!FileEnd
<1> HIDE DEF last
<1> HIDE DEF n
<1>3. ASSUME NEW k \in 1..(n + 1)
      PROVE  /\ (\A j \in 1..(n + 1) : k <= j) => fragments[k].start_byte = 0
             /\ (\A j \in 1..(n + 1) : j <= k) => fragments[k].end_byte = last
  <2>1. ASSUME \A j \in 1..(n + 1) : k <= j
        PROVE  fragments[k].start_byte = 0
    <3>1. k = 1
      <4>1. 1 \in 1..(n + 1)
        BY <1>1
      <4>2. k <= 1
        BY <2>1, <4>1
      <4> QED
        BY <4>2
    <3> QED
      BY <1>1, <3>1
  <2>2. ASSUME \A j \in 1..(n + 1) : j <= k
        PROVE  fragments[k].end_byte = last
    <3>1. k - 1 = n
      BY <1>1, <2>2
    <3>2. fragments[k].end_byte = Index!Ends[k - 1]
      BY <1>1
    <3> QED
      BY <1>2, <3>1, <3>2
  <2> QED
    BY <2>1, <2>2
<1>4. ASSUME NEW k \in 1..(n + 1), NEW j \in 1..(n + 1),
             j < k, ~(\E i \in 1..(n + 1) : j < i /\ i < k)
      PROVE  fragments[k].start_byte = fragments[j].end_byte + 1
  <2>1. j + 1 = k
    <3>1. ~(j + 1 < k)
      <4> SUFFICES ASSUME j + 1 < k PROVE FALSE
        OBVIOUS
      <4>1. j + 1 \in 1..(n + 1) /\ j < j + 1
        BY <1>1
      <4> QED
        BY <1>4, <4>1
    <3> QED
      BY <1>1, <1>4, <3>1
  <2>2. j \in 1..n
    BY <1>1, <2>1
  <2>3. fragments[j + 1].start_byte = Index!Ends[j - 1] + 1 /\ fragments[j].end_byte = Index!Ends[j - 1]
    BY <1>1, <2>2
  <2> QED
    BY <2>1, <2>3, Zenon
<1>5. 1 \in 1..(n + 1)
  BY <1>1
<1>6. Index!Media # {}
  BY <1>1, <1>5, Zenon
<1> QED
  BY <1>1, <1>3, <1>4, <1>6, Zenon DEF last

(* Every octet up to where the subsegments would end without an offset is   *)
(* in the fragment of the first one that does not end before it; no other   *)
(* is in any.                                                               *)
LEMMA OnlyOffsetMissedHolds ==
  ASSUME Index!IndexRangeAssumption, IndexInv
  PROVE  Index!OnlyOffsetMissed
<1> DEFINE In(p) == \E k \in Index!Media : fragments[k].start_byte <= p /\ p <= fragments[k].end_byte
           n == case.sidx.declared
           end == Index!FileEnd
           offset == case.sidx.first_offset
<1> SUFFICES ASSUME pc = "ok", Len(case.sidx.sizes) = case.sidx.declared, indexable_segments
             PROVE  {p \in 0..end : ~In(p)} = (end - offset + 1)..end
  BY DEF Index!OnlyOffsetMissed, Index!Missed, IndexInv
<1>1. /\ n \in Nat
      /\ Index!Media = 1..(n + 1)
      /\ fragments[1].start_byte = 0
      /\ \A k \in 1..(n + 1) : fragments[k].end_byte = Index!Ends[k - 1]
      /\ \A k \in 1..n : fragments[k + 1].start_byte = Index!Ends[k - 1] + 1
      /\ \A k \in 0..n : Index!Ends[k] \in Nat
      /\ \A k \in 0..n : Index!Ends[k] <= Index!Ends[n]
  BY IndexedTiles
<1>2. end = Index!Ends[n] + offset /\ offset \in Nat /\ Index!Ends[n] \in Nat
  <2>1. n \in 0..n
    BY <1>1
  <2> QED
    BY <1>1, <2>1, OffsetType DEF Index!FileEnd
<1> HIDE DEF n, end, offset
<1>o. ASSUME NEW p \in Nat, p > Index!Ends[n] PROVE ~In(p)
  <2> SUFFICES ASSUME NEW k \in 1..(n + 1), p <= Index!Ends[k - 1] PROVE FALSE
    BY <1>1
  <2>1. k - 1 \in 0..n
    BY <1>1
  <2>2. Index!Ends[k - 1] <= Index!Ends[n] /\ Index!Ends[k - 1] \in Nat
    BY <1>1, <2>1
  <2> QED
    BY <1>2, <1>o, <2>2
<1>i. ASSUME NEW p \in Nat, p <= Index!Ends[n] PROVE In(p)
  <2> DEFINE Late == {k \in 0..n : p <= Index!Ends[k]}
  <2>3. n \in Late
    BY <1>1, <1>2, <1>i
  <2>4. PICK k \in Late : \A j \in Late : k <= j
    <3>1. Late \subseteq Nat
      BY <1>1
    <3>2. Late # {}
      BY <2>3
    <3> HIDE DEF Late
    <3> QED
      BY <3>1, <3>2, LeastNumber
  <2>5. CASE k = 0
    <3>1. 1 \in 1..(n + 1) /\ 1 - 1 = 0
      BY <1>1
    <3>2. p <= Index!Ends[0] /\ 0 <= p
      BY <1>i, <2>4, <2>5
    <3> QED
      BY <1>1, <3>1, <3>2
  <2>6. CASE k # 0
    <3>1. k - 1 \in 0..n /\ k \in 1..n /\ k + 1 \in 1..(n + 1) /\ (k + 1) - 1 = k
      BY <1>1, <2>4, <2>6
    <3>2. ~(p <= Index!Ends[k - 1])
      <4>1. ~(k <= k - 1)
        BY <3>1
      <4> QED
        BY <2>4, <3>1, <4>1
    <3>3. Index!Ends[k - 1] \in Nat
      BY <1>1, <3>1
    <3>4. Index!Ends[k - 1] + 1 <= p /\ p <= Index!Ends[k]
      BY <1>1, <2>4, <3>1, <3>2, <3>3
    <3> QED
      BY <1>1, <3>1, <3>4
  <2> QED
    BY <2>5, <2>6
<1>3. ASSUME NEW p PROVE p \in {q \in 0..end : ~In(q)} <=> p \in (end - offset + 1)..end
  <2>1. p \in 0..end => p \in Nat /\ (In(p) <=> ~(p > Index!Ends[n]))
    BY <1>2, <1>o, <1>i
  <2>2. end - offset = Index!Ends[n]
    BY <1>2
  <2> HIDE DEF In
  <2> QED
    BY <1>2, <2>1, <2>2
<1> HIDE DEF In
<1>4. {p \in 0..end : ~In(p)} = (end - offset + 1)..end
  BY <1>3
<1> QED
  BY <1>4 DEF In, end, offset

(* However many subsegments an index has, and of whatever sizes, the media *)
(* fragments follow one another without a gap and without a repetition     *)
(* from the file's first octet to the end of the last subsegment but for   *)
(* first_offset octets, and an Initialization comes after all of them      *)
(* (fetch.rs:2353-2407, sidx.rs:109-117).                                  *)
THEOREM FragmentsTile ==
  ASSUME Index!IndexRangeAssumption
  PROVE  Spec => []Tiles
<1> DEFINE Inv == procedure = "index" => IndexInv
<1>1. Init => Inv
  BY IndexInit DEF Init
<1>2. Inv /\ [Next]_vars => Inv'
  BY IndexStep DEF Next, vars, indexVars, Index!vars
<1>3. Inv => Tiles
  BY TilesHolds DEF Tiles
<1> QED
  BY <1>1, <1>2, <1>3, PTL DEF Spec

(* Whatever is wrong with an index, or with the answer that should bring   *)
(* it, of the octets that the manifest and the index refer to the last     *)
(* ones are not planned, exactly as many as its first_offset says, or the  *)
(* whole file is (fetch.rs:2329-2421, sidx.rs:109-117).                    *)
THEOREM OnlyOffsetIsMissed ==
  ASSUME Index!IndexRangeAssumption
  PROVE  Spec => []OnlyOffsetMissed
<1> DEFINE Inv == procedure = "index" => IndexInv
<1>1. Init => Inv
  BY IndexInit DEF Init
<1>2. Inv /\ [Next]_vars => Inv'
  BY IndexStep DEF Next, vars, indexVars, Index!vars
<1>3. Inv => OnlyOffsetMissed
  BY OnlyOffsetMissedHolds DEF OnlyOffsetMissed
<1> QED
  BY <1>1, <1>2, <1>3, PTL DEF Spec

-----------------------------------------------------------------------------
(* Addressing: what is inherited.                                          *)

(* The attributes before anything is read, what audio and video take over  *)
(* (and subtitles read at first), and what is in force in the end.         *)
Bare ==
  [init |-> -1, media |-> -1, duration |-> -1, timescale |-> 1, startNumber |-> 1]
Outer ==
  IF Addresses!subs THEN Addresses!Overlay(Bare, 3)
  ELSE Addresses!Overlay(Addresses!Overlay(Bare, 1), 2)
Final == [Addresses!Overlay(Outer, Addresses!st) EXCEPT !.duration = Outer.duration]

Attributes ==
  [init : {-1, 1, 2, 3}, media : {-1, 1, 2, 3}, duration : Nat \cup {-1}, timescale : Nat,
   startNumber : Nat]

(* What a manifest is made of.                                              *)
LEMMA ManifestTypes ==
  ASSUME Addresses!AddressingAssumption, manifest \in Manifests
  PROVE  /\ manifest.kind \in {"audio", "video", "subs"}
         /\ \A l \in {1, 2, 3} : manifest.template[l] \in Addresses!Template
         /\ \A l \in {2, 3} : manifest.list[l] \in Addresses!SegmentList
         /\ manifest.base[2] \in Nat /\ manifest.base[3] \in Nat
         /\ manifest.period \in Nat \cup {-1} /\ manifest.force \in Nat \cup {-1}
<1>1. manifest \in Addresses!Manifest
  BY DEF Addresses!AddressingAssumption
<1>2. Addresses!Levels = {1, 2, 3} /\ 2..3 = {2, 3}
  BY DEF Addresses!Levels
<1> QED
  BY <1>1, <1>2 DEF Addresses!Manifest, Addresses!Optional, Addresses!Absent

(* What an element adds to what is inherited.                              *)
LEMMA OverlayIs ==
  ASSUME Addresses!AddressingAssumption, manifest \in Manifests, NEW a \in Attributes,
         NEW l \in {1, 2, 3}
  PROVE  LET t == manifest.template[l]
             b == Addresses!Overlay(a, l)
         IN  /\ b \in Attributes
             /\ b.init = IF Addresses!Present(l) /\ t.init THEN l ELSE a.init
             /\ b.media = IF Addresses!Present(l) /\ t.media THEN l ELSE a.media
             /\ b.timescale = IF Addresses!Present(l) /\ t.timescale # -1 THEN t.timescale ELSE a.timescale
             /\ b.startNumber = IF Addresses!Present(l) /\ t.startNumber # -1 THEN t.startNumber ELSE a.startNumber
<1> DEFINE t == manifest.template[l]
<1>1. /\ t.present \in BOOLEAN /\ t.init \in BOOLEAN /\ t.media \in BOOLEAN
      /\ t.duration \in Nat \cup {-1} /\ t.timescale \in Nat \cup {-1} /\ t.startNumber \in Nat \cup {-1}
  BY ManifestTypes DEF Addresses!Template, Addresses!Optional, Addresses!Absent
<1>2. Addresses!Overlay(a, l) =
        IF ~t.present THEN a
        ELSE [init |-> IF t.init THEN l ELSE a.init, media |-> IF t.media THEN l ELSE a.media,
              duration |-> IF t.duration # -1 THEN t.duration ELSE a.duration,
              timescale |-> IF t.timescale # -1 THEN t.timescale ELSE a.timescale,
              startNumber |-> IF t.startNumber # -1 THEN t.startNumber ELSE a.startNumber]
  BY DEF Addresses!Overlay, Addresses!Absent
<1>3. Addresses!Present(l) = t.present
  BY DEF Addresses!Present
<1> HIDE DEF t
<1> QED
  BY <1>1, <1>2, <1>3 DEF Attributes, t

(* What is inherited, and what is in force, are attributes.                *)
LEMMA AttributeTypes ==
  ASSUME Addresses!AddressingAssumption, manifest \in Manifests
  PROVE  /\ Bare \in Attributes /\ Outer \in Attributes /\ Final \in Attributes
         /\ Addresses!st \in {2, 3}
<1>1. Bare \in Attributes
  BY DEF Bare, Attributes
<1>2. Addresses!Overlay(Bare, 1) \in Attributes /\ Addresses!Overlay(Bare, 3) \in Attributes
  BY <1>1, OverlayIs
<1>3. Addresses!Overlay(Addresses!Overlay(Bare, 1), 2) \in Attributes
  BY <1>2, OverlayIs
<1>4. Outer \in Attributes
  BY <1>2, <1>3 DEF Outer
<1>5. Addresses!st \in {2, 3}
  BY DEF Addresses!st
<1>6. Addresses!Overlay(Outer, Addresses!st) \in Attributes
  BY <1>4, <1>5, OverlayIs
<1>7. Final \in Attributes
  BY <1>4, <1>6 DEF Final, Attributes
<1> QED
  BY <1>1, <1>4, <1>5, <1>7

(* Reading the element in force once more changes nothing.                  *)
LEMMA FinalTwice ==
  ASSUME Addresses!AddressingAssumption, manifest \in Manifests
  PROVE  /\ [Addresses!Overlay(Final, Addresses!st) EXCEPT !.duration = Final.duration] = Final
         /\ Final.duration = Outer.duration
<1> DEFINE st == Addresses!st
           o == Addresses!Overlay(Outer, st)
           p == Addresses!Overlay(Final, st)
<1>1. /\ Outer \in Attributes /\ st \in {2, 3} /\ o \in Attributes /\ Final \in Attributes
      /\ Final = [o EXCEPT !.duration = Outer.duration]
  BY AttributeTypes, OverlayIs DEF Final
<1>2. /\ p \in Attributes
      /\ p.init = o.init /\ p.media = o.media /\ p.timescale = o.timescale
      /\ p.startNumber = o.startNumber
  <2> DEFINE t == manifest.template[st]
             here == Addresses!Present(st)
  <2>1. /\ o.init = (IF here /\ t.init THEN st ELSE Outer.init)
        /\ o.media = (IF here /\ t.media THEN st ELSE Outer.media)
        /\ o.timescale = (IF here /\ t.timescale # -1 THEN t.timescale ELSE Outer.timescale)
        /\ o.startNumber = (IF here /\ t.startNumber # -1 THEN t.startNumber ELSE Outer.startNumber)
    BY <1>1, OverlayIs
  <2>2. /\ p \in Attributes
        /\ p.init = (IF here /\ t.init THEN st ELSE Final.init)
        /\ p.media = (IF here /\ t.media THEN st ELSE Final.media)
        /\ p.timescale = (IF here /\ t.timescale # -1 THEN t.timescale ELSE Final.timescale)
        /\ p.startNumber = (IF here /\ t.startNumber # -1 THEN t.startNumber ELSE Final.startNumber)
    <3>1. Final \in Attributes /\ st \in {1, 2, 3}
      BY <1>1
    <3> HIDE DEF st
    <3> QED
      BY <3>1, OverlayIs
  <2>3. /\ Final.init = o.init /\ Final.media = o.media /\ Final.timescale = o.timescale
        /\ Final.startNumber = o.startNumber
    BY <1>1 DEF Attributes
  <2> HIDE DEF t, here, st, o, p
  <2> QED
    BY <2>1, <2>2, <2>3
<1> HIDE DEF p, o
<1>3. Final.duration = Outer.duration
  BY <1>1 DEF Attributes
<1>4. [p EXCEPT !.duration = Final.duration] = Final
  BY <1>1, <1>2, <1>3 DEF Attributes
<1> QED
  BY <1>3, <1>4 DEF p

(* The innermost of some levels.                                            *)
LEMMA Innermost ==
  ASSUME NEW T \in SUBSET {1, 2, 3}
  PROVE  /\ 3 \in T => Addresses!Max(T) = 3
         /\ 3 \notin T /\ 2 \in T => Addresses!Max(T) = 2
         /\ 3 \notin T /\ 2 \notin T /\ 1 \in T => Addresses!Max(T) = 1
<1> DEFINE m == Addresses!Max(T)
<1>1. ASSUME NEW x \in T, \A y \in T : x >= y PROVE m = x
  <2>1. m \in T /\ \A y \in T : m >= y
    BY <1>1 DEF Addresses!Max
  <2> HIDE DEF m
  <2>2. m >= x /\ x >= m /\ m \in Int /\ x \in Int
    BY <1>1, <2>1
  <2> QED
    BY <2>2
<1> HIDE DEF m
<1>2. 3 \in T => m = 3
  BY <1>1
<1>3. 3 \notin T /\ 2 \in T => m = 2
  BY <1>1
<1>4. 3 \notin T /\ 2 \notin T /\ 1 \in T => m = 1
  BY <1>1
<1> QED
  BY <1>2, <1>3, <1>4 DEF m

(* What the elements at some levels lead to, read from the outermost.       *)
LEMMA OuterIs ==
  ASSUME Addresses!AddressingAssumption, manifest \in Manifests
  PROVE  LET P(l) == Addresses!Present(l)
             t(l) == manifest.template[l]
             a(l, old) == IF P(l) /\ t(l).media THEN l ELSE old
             i(l, old) == IF P(l) /\ t(l).init THEN l ELSE old
             n(l, old) == IF P(l) /\ t(l).startNumber # -1 THEN t(l).startNumber ELSE old
             w(l, old) == IF P(l) /\ t(l).timescale # -1 THEN t(l).timescale ELSE old
             st == Addresses!st
         IN  /\ ~Addresses!subs => /\ Final.media = a(st, a(2, a(1, -1)))
                                   /\ Final.init = i(st, i(2, i(1, -1)))
                                   /\ Final.startNumber = n(st, n(2, n(1, 1)))
                                   /\ Final.timescale = w(st, w(2, w(1, 1)))
             /\ Addresses!subs => /\ Final.media = a(st, a(3, -1))
                                  /\ Final.timescale = w(st, w(3, 1))
<1> DEFINE P(l) == Addresses!Present(l)
           t(l) == manifest.template[l]
           a(l, old) == IF P(l) /\ t(l).media THEN l ELSE old
           i(l, old) == IF P(l) /\ t(l).init THEN l ELSE old
           n(l, old) == IF P(l) /\ t(l).startNumber # -1 THEN t(l).startNumber ELSE old
           w(l, old) == IF P(l) /\ t(l).timescale # -1 THEN t(l).timescale ELSE old
           st == Addresses!st
<1>0. /\ Bare \in Attributes /\ Outer \in Attributes /\ Final \in Attributes /\ st \in {1, 2, 3}
      /\ Bare.media = -1 /\ Bare.init = -1 /\ Bare.startNumber = 1 /\ Bare.timescale = 1
  BY AttributeTypes DEF Bare
<1>1. ASSUME NEW b \in Attributes, NEW l \in {1, 2, 3}
      PROVE  /\ Addresses!Overlay(b, l) \in Attributes
             /\ Addresses!Overlay(b, l).media = a(l, b.media)
             /\ Addresses!Overlay(b, l).init = i(l, b.init)
             /\ Addresses!Overlay(b, l).startNumber = n(l, b.startNumber)
             /\ Addresses!Overlay(b, l).timescale = w(l, b.timescale)
  BY OverlayIs
<1> HIDE DEF P, t, a, i, n, w, st
<1> DEFINE one == Addresses!Overlay(Bare, 1)
           two == Addresses!Overlay(one, 2)
           three == Addresses!Overlay(Bare, 3)
           last == Addresses!Overlay(Outer, st)
<1>2. /\ one \in Attributes /\ one.media = a(1, -1) /\ one.init = i(1, -1)
      /\ one.startNumber = n(1, 1) /\ one.timescale = w(1, 1)
  BY <1>0, <1>1
<1>3. three.media = a(3, -1) /\ three.timescale = w(3, 1)
  BY <1>0, <1>1
<1>4. /\ last \in Attributes /\ last.media = a(st, Outer.media) /\ last.init = i(st, Outer.init)
      /\ last.startNumber = n(st, Outer.startNumber) /\ last.timescale = w(st, Outer.timescale)
  BY <1>0, <1>1
<1> HIDE DEF one
<1>5. /\ two.media = a(2, a(1, -1)) /\ two.init = i(2, i(1, -1))
      /\ two.startNumber = n(2, n(1, 1)) /\ two.timescale = w(2, w(1, 1))
  BY <1>1, <1>2
<1>6. Outer = IF Addresses!subs THEN three ELSE two
  BY DEF Outer, one
<1>7. Final = [last EXCEPT !.duration = Outer.duration]
  BY DEF Final, st
<1> HIDE DEF two, three, last
<1>8. /\ Final.media = last.media /\ Final.init = last.init
      /\ Final.startNumber = last.startNumber /\ Final.timescale = last.timescale
  BY <1>4, <1>7 DEF Attributes
<1>9. ~Addresses!subs => /\ Final.media = a(st, a(2, a(1, -1)))
                         /\ Final.init = i(st, i(2, i(1, -1)))
                         /\ Final.startNumber = n(st, n(2, n(1, 1)))
                         /\ Final.timescale = w(st, w(2, w(1, 1)))
  BY <1>4, <1>5, <1>6, <1>8
<1>10. Addresses!subs => /\ Final.media = a(st, a(3, -1))
                         /\ Final.timescale = w(st, w(3, 1))
  BY <1>3, <1>4, <1>6, <1>8
<1> QED
  BY <1>9, <1>10 DEF P, t, a, i, n, w, st

(* The value in force is that of the innermost element that gives one.      *)
LEMMA FinalValues ==
  ASSUME Addresses!AddressingAssumption, manifest \in Manifests, ~Addresses!subs,
         Addresses!Present(2) \/ Addresses!Present(3)
  PROVE  /\ Final.media # -1 => Final.media = Addresses!Max(Addresses!Declared("media"))
         /\ Addresses!Declared("init") # {} =>
              Final.init # -1 /\ Final.init = Addresses!Max(Addresses!Declared("init"))
         /\ Final.startNumber =
              IF Addresses!Given("startNumber") = {} THEN 1
              ELSE manifest.template[Addresses!Max(Addresses!Given("startNumber"))].startNumber
<1>0. /\ \A flag : Addresses!Declared(flag) =
           {l \in {1, 2, 3} : Addresses!Present(l) /\ manifest.template[l][flag]}
      /\ \A field : Addresses!Given(field) =
           {l \in {1, 2, 3} : Addresses!Present(l) /\ manifest.template[l][field] # -1}
  BY DEF Addresses!Declared, Addresses!Given, Addresses!Absent, Addresses!Levels
<1>1. /\ manifest.template[1].media \in BOOLEAN /\ manifest.template[1].init \in BOOLEAN
      /\ manifest.template[2].media \in BOOLEAN /\ manifest.template[2].init \in BOOLEAN
      /\ manifest.template[3].media \in BOOLEAN /\ manifest.template[3].init \in BOOLEAN
  BY ManifestTypes DEF Addresses!Template
<1>2. Addresses!st = IF Addresses!Present(3) THEN 3 ELSE 2
  BY DEF Addresses!st
<1>3. Final.media # -1 => Final.media = Addresses!Max(Addresses!Declared("media"))
  <2> DEFINE T == Addresses!Declared("media")
  <2>1. T \in SUBSET {1, 2, 3}
    BY <1>0
  <2>2. \A l \in {1, 2, 3} : l \in T <=> Addresses!Present(l) /\ manifest.template[l].media
    BY <1>0
  <2> HIDE DEF T
  <2>3. /\ 3 \in T => Addresses!Max(T) = 3
        /\ 3 \notin T /\ 2 \in T => Addresses!Max(T) = 2
        /\ 3 \notin T /\ 2 \notin T /\ 1 \in T => Addresses!Max(T) = 1
    BY <2>1, Innermost
  <2>4. Final.media # -1 => Final.media = Addresses!Max(T)
    BY <1>1, <1>2, <2>2, <2>3, OuterIs
  <2> QED
    BY <2>4 DEF T
<1>4. Addresses!Declared("init") # {} =>
        Final.init # -1 /\ Final.init = Addresses!Max(Addresses!Declared("init"))
  <2> DEFINE T == Addresses!Declared("init")
  <2>1. T \in SUBSET {1, 2, 3}
    BY <1>0
  <2>2. \A l \in {1, 2, 3} : l \in T <=> Addresses!Present(l) /\ manifest.template[l].init
    BY <1>0
  <2> HIDE DEF T
  <2>3. /\ 3 \in T => Addresses!Max(T) = 3
        /\ 3 \notin T /\ 2 \in T => Addresses!Max(T) = 2
        /\ 3 \notin T /\ 2 \notin T /\ 1 \in T => Addresses!Max(T) = 1
    BY <2>1, Innermost
  <2>4. T # {} => 1 \in T \/ 2 \in T \/ 3 \in T
    BY <2>1
  <2>5. T # {} => Final.init # -1 /\ Final.init = Addresses!Max(T)
    BY <1>1, <1>2, <2>2, <2>3, <2>4, OuterIs
  <2> QED
    BY <2>5 DEF T
<1>5. Final.startNumber =
        IF Addresses!Given("startNumber") = {} THEN 1
        ELSE manifest.template[Addresses!Max(Addresses!Given("startNumber"))].startNumber
  <2> DEFINE T == Addresses!Given("startNumber")
  <2>1. T \in SUBSET {1, 2, 3}
    BY <1>0
  <2>2. \A l \in {1, 2, 3} : l \in T <=> Addresses!Present(l) /\ manifest.template[l].startNumber # -1
    BY <1>0
  <2> HIDE DEF T
  <2>3. /\ 3 \in T => Addresses!Max(T) = 3
        /\ 3 \notin T /\ 2 \in T => Addresses!Max(T) = 2
        /\ 3 \notin T /\ 2 \notin T /\ 1 \in T => Addresses!Max(T) = 1
    BY <2>1, Innermost
  <2>4. T # {} <=> 1 \in T \/ 2 \in T \/ 3 \in T
    BY <2>1
  <2>5. Final.startNumber = IF T = {} THEN 1 ELSE manifest.template[Addresses!Max(T)].startNumber
    BY <1>2, <2>2, <2>3, <2>4, OuterIs
  <2> QED
    BY <2>5 DEF T
<1> QED
  BY <1>3, <1>4, <1>5

(* So is the timescale, and there is a media where an element gives one;   *)
(* for subtitles, which read one element, only if these are its own.       *)
LEMMA FinalScale ==
  ASSUME Addresses!AddressingAssumption, manifest \in Manifests,
         Addresses!Present(2) \/ Addresses!Present(3),
         Addresses!subs => Addresses!Given("timescale") \ {Addresses!st} = {}
  PROVE  Final.timescale = Addresses!Innermost("timescale", 1)
<1> DEFINE T == Addresses!Given("timescale")
<1>0. \A field : Addresses!Given(field) =
        {l \in {1, 2, 3} : Addresses!Present(l) /\ manifest.template[l][field] # -1}
  BY DEF Addresses!Given, Addresses!Absent, Addresses!Levels
<1>1. T \in SUBSET {1, 2, 3}
  BY <1>0
<1>2. Addresses!st = IF Addresses!Present(3) THEN 3 ELSE 2
  BY DEF Addresses!st
<1>3. /\ \A l \in {1, 2, 3} :
           l \in T <=> Addresses!Present(l) /\ manifest.template[l].timescale # -1
      /\ Addresses!subs => \A l \in T : l = Addresses!st
  BY <1>0
<1> HIDE DEF T
<1>4. /\ 3 \in T => Addresses!Max(T) = 3
      /\ 3 \notin T /\ 2 \in T => Addresses!Max(T) = 2
      /\ 3 \notin T /\ 2 \notin T /\ 1 \in T => Addresses!Max(T) = 1
  BY <1>1, Innermost
<1>5. T # {} <=> 1 \in T \/ 2 \in T \/ 3 \in T
  BY <1>1
<1>6. Final.timescale = IF T = {} THEN 1 ELSE manifest.template[Addresses!Max(T)].timescale
  BY <1>2, <1>3, <1>4, <1>5, OuterIs
<1> QED
  BY <1>6 DEF T, Addresses!Innermost

(* See FinalScale.                                                         *)
LEMMA FinalMedia ==
  ASSUME Addresses!AddressingAssumption, manifest \in Manifests,
         Addresses!Present(2) \/ Addresses!Present(3), Addresses!Declared("media") # {},
         Addresses!subs => Addresses!Max(Addresses!Declared("media")) = Addresses!st
  PROVE  Final.media # -1
<1> DEFINE T == Addresses!Declared("media")
<1>1. T \in SUBSET {1, 2, 3}
  BY DEF Addresses!Declared, Addresses!Levels
<1>2. Addresses!st = IF Addresses!Present(3) THEN 3 ELSE 2
  BY DEF Addresses!st
<1>3. \A l \in {1, 2, 3} : l \in T <=> Addresses!Present(l) /\ manifest.template[l].media
  BY DEF Addresses!Declared, Addresses!Levels
<1>s. Addresses!subs => Addresses!Max(T) = Addresses!st
  OBVIOUS
<1> HIDE DEF T
<1>4. /\ 3 \in T => Addresses!Max(T) = 3
      /\ 3 \notin T /\ 2 \in T => Addresses!Max(T) = 2
      /\ 3 \notin T /\ 2 \notin T /\ 1 \in T => Addresses!Max(T) = 1
  BY <1>1, Innermost
<1>5. 1 \in T \/ 2 \in T \/ 3 \in T
  BY <1>1 DEF T
<1> QED
  BY <1>2, <1>3, <1>s, <1>4, <1>5, OuterIs

(* An element whose number counts has it.                                  *)
LEMMA InnermostGives ==
  ASSUME NEW field, Addresses!Given(field) # {}
  PROVE  LET m == Addresses!Max(Addresses!Given(field))
         IN  /\ m \in {1, 2, 3} /\ Addresses!Present(m) /\ manifest.template[m][field] # -1
             /\ \A otherwise : Addresses!Innermost(field, otherwise) = manifest.template[m][field]
<1> DEFINE T == Addresses!Given(field)
           m == Addresses!Max(T)
<1>1. T \in SUBSET {1, 2, 3}
  BY DEF Addresses!Given, Addresses!Levels
<1>2. \A l \in T : Addresses!Present(l) /\ manifest.template[l][field] # -1
  BY DEF Addresses!Given, Addresses!Absent
<1>3. \A otherwise : Addresses!Innermost(field, otherwise) = manifest.template[m][field]
  BY DEF Addresses!Innermost
<1>4. T # {}
  OBVIOUS
<1> HIDE DEF T
<1>5. m \in T
  <2>1. /\ 3 \in T => m = 3
        /\ 3 \notin T /\ 2 \in T => m = 2
        /\ 3 \notin T /\ 2 \notin T /\ 1 \in T => m = 1
    BY <1>1, Innermost
  <2>2. 1 \in T \/ 2 \in T \/ 3 \in T
    BY <1>1, <1>4
  <2> QED
    BY <2>1, <2>2
<1> HIDE DEF m
<1> QED
  BY <1>1, <1>2, <1>3, <1>5 DEF m, T

(* A number of segments that rounds a length x in segments of length d, or  *)
(* covers it.                                                               *)
LEMMA Rounded ==
  ASSUME NEW x \in Nat, NEW d \in Nat, d > 0
  PROVE  LET n == (2 * x + d) \div (2 * d)
         IN  n \in Nat /\ 2 * (n * d - x) <= d /\ 2 * (x - n * d) <= d
<1> DEFINE y == 2 * x + d
           e == 2 * d
           n == y \div e
<1>1. y \in Nat /\ e \in Nat /\ e > 0
  OBVIOUS
<1> HIDE DEF y, e
<1>2. n \in Nat /\ n * e <= y /\ y < n * e + e
  BY <1>1
<1> HIDE DEF n
<1>3. n * e = 2 * (n * d)
  BY <1>2 DEF e
<1>4. n * d \in Nat
  BY <1>2
<1> DEFINE m == n * d
<1> HIDE DEF m
<1>5. m \in Nat /\ 2 * m <= y /\ y < 2 * m + e
  BY <1>2, <1>3, <1>4 DEF m
<1>6. 2 * (m - x) <= d /\ 2 * (x - m) <= d
  BY <1>5 DEF y, e
<1> QED
  BY <1>2, <1>6 DEF m, n, y, e

(* See Rounded.                                                             *)
LEMMA RoundedUp ==
  ASSUME NEW x \in Nat, NEW d \in Nat, d > 0
  PROVE  LET n == (x + d - 1) \div d
         IN  n \in Nat /\ n * d >= x /\ (n - 1) * d < x
<1> DEFINE y == x + d - 1
           n == y \div d
<1>1. y \in Nat
  OBVIOUS
<1> HIDE DEF y
<1>2. n \in Nat /\ n * d <= y /\ y < n * d + d
  BY <1>1
<1> HIDE DEF n
<1>3. n * d \in Nat /\ (n - 1) * d = n * d - d
  BY <1>2
<1>4. n * d >= x /\ n * d - d < x
  BY <1>2, <1>3 DEF y
<1> QED
  BY <1>2, <1>3, <1>4 DEF n, y

(* What is planned from a SegmentList.                                      *)
Plain == [what : {"init", "list"}, level : {1, 2, 3}, n : Nat \cup {-1}]

(* A SegmentList gives init and media fragments only.                       *)
LEMMA ListsArePlain ==
  ASSUME Addresses!AddressingAssumption, manifest \in Manifests,
         NEW l \in {2, 3}, NEW b \in {2, 3}, NEW D
  PROVE  /\ Addresses!InitOf(manifest.list[l], l, D) \in Seq(Plain)
         /\ Addresses!UrlsOf(manifest.list[l], l, b) \in Seq(Plain)
<1>0. << >> \in Seq(Plain)
  OBVIOUS
<1>1. \A k \in Nat : Addresses!F("list", l, k) \in Plain
  BY DEF Addresses!F, Plain
<1>2. Addresses!F("init", l, -1) \in Plain
  BY DEF Addresses!F, Plain
<1>3. Addresses!InitOf(manifest.list[l], l, D) \in Seq(Plain)
  <2>1. <<Addresses!F("init", l, -1)>> \in Seq(Plain)
    BY <1>2
  <2> QED
    BY <1>0, <2>1 DEF Addresses!InitOf, Addresses!Absent
<1>4. Addresses!UrlsOf(manifest.list[l], l, b) \in Seq(Plain)
  <2> DEFINE urls == manifest.list[l].urls
             n == Len(urls)
             Named == {k \in DOMAIN urls : urls[k] = "media" \/ manifest.base[b] > 0}
             a == [k \in 1..n |-> IF k \in Named THEN <<Addresses!F("list", l, k)>> ELSE << >>]
             Names == CHOOSE w : w = [k \in 0..n |-> IF k = 0 THEN << >>
                         ELSE w[k - 1] \o (IF k \in Named THEN <<Addresses!F("list", l, k)>> ELSE << >>)]
  <2>1. n \in Nat
    BY ManifestTypes DEF Addresses!SegmentList
  <2>2. Addresses!UrlsOf(manifest.list[l], l, b) = Names[n]
    BY DEF Addresses!UrlsOf
  <2> HIDE DEF n, Named
  <2>3. ASSUME NEW w
        PROVE  IsJoins(w, a, 0, n) <=>
                 w = [k \in 0..n |-> IF k = 0 THEN << >>
                        ELSE w[k - 1] \o (IF k \in Named THEN <<Addresses!F("list", l, k)>> ELSE << >>)]
    <3>1. [k \in 0..n |-> IF k <= 0 THEN << >> ELSE w[k - 1] \o a[k]] =
          [k \in 0..n |-> IF k = 0 THEN << >>
             ELSE w[k - 1] \o (IF k \in Named THEN <<Addresses!F("list", l, k)>> ELSE << >>)]
      BY <2>1
    <3> QED
      BY <3>1, Zenon DEF IsJoins
  <2>4. \A k \in 1..n : a[k] \in Seq(Plain)
    <3> TAKE k \in 1..n
    <3>1. <<Addresses!F("list", l, k)>> \in Seq(Plain)
      BY <1>1, <2>1
    <3> QED
      BY <1>0, <3>1
  <2> HIDE DEF a
  <2>5. PICK w : IsJoins(w, a, 0, n)
    BY <2>1, JoinsExist
  <2>6. IsJoins(Names, a, 0, n)
    <3>1. \E t : t = [k \in 0..n |-> IF k = 0 THEN << >>
             ELSE t[k - 1] \o (IF k \in Named THEN <<Addresses!F("list", l, k)>> ELSE << >>)]
      BY <2>3, <2>5, Zenon
    <3>2. Names = [k \in 0..n |-> IF k = 0 THEN << >>
             ELSE Names[k - 1] \o (IF k \in Named THEN <<Addresses!F("list", l, k)>> ELSE << >>)]
      BY <3>1, Zenon
    <3> HIDE DEF Names
    <3> QED
      BY <2>3, <3>2, Zenon
  <2> HIDE DEF Names
  <2>7. \A k \in 0..n : Names[k] \in Seq(Plain)
    BY <2>1, <2>4, <2>6, JoinsType
  <2>8. Names[n] \in Seq(Plain)
    BY <2>1, <2>7
  <2> QED
    BY <2>2, <2>8
<1> QED
  BY <1>3, <1>4

-----------------------------------------------------------------------------
(* Addressing: what is planned.                                            *)

(* A template that nothing else takes precedence over.                      *)
Templates == ~manifest.list[3].present /\ (Addresses!Present(2) \/ Addresses!Present(3))

(* Nothing is planned from a template.                                      *)
Unexpanded ==
  /\ \A k \in DOMAIN fragments : fragments[k].what \notin {"template", "timeline"}
  /\ \/ ~Templates
     \/ Addresses!subs /\ manifest.base[3] > 0
     \/ Final.media = -1 /\ attrs = Final

(* After lo other fragments come those of a template: one for its           *)
(* timeline, or as many as its @duration makes up, by their numbers.        *)
ExpandedAfter(lo) ==
  /\ Templates /\ attrs = Final /\ Final.media # -1
  /\ \A k \in 1..lo : fragments[k].what \in {"init", "list"}
  /\ ~Addresses!subs /\ ~manifest.list[2].present /\ Final.init # -1 =>
       lo >= 1 /\ fragments[1] = Addresses!F("init", Final.init, -1)
  /\ \/ /\ DOMAIN fragments = 1..(lo + 1)
        /\ fragments[lo + 1] = Addresses!F("timeline", Final.media, -1)
     \/ /\ Addresses!total_number \in Nat
        /\ manifest.template[Addresses!st].duration # -1 => Final.timescale # 0
        /\ DOMAIN fragments = 1..(lo + Addresses!total_number)
        /\ \A k \in 1..Addresses!total_number :
             fragments[lo + k] = Addresses!F("template", Final.media, Addresses!first_number + k - 1)

AddressInv ==
  /\ manifest \in Manifests
  /\ pc = "inherit" => attrs = Bare /\ fragments = << >>
  /\ pc = "list" => attrs = Outer /\ fragments = << >>
  /\ pc = "mode" =>
       /\ attrs = Outer /\ fragments \in Seq(Plain)
       /\ ~Addresses!subs /\ ~manifest.list[2].present => fragments = << >>
  /\ pc = "sidecar" => Addresses!subs /\ manifest.base[3] > 0 /\ fragments = << >>
  /\ pc \in {"settle", "ok"} => Unexpanded \/ \E lo \in Nat : ExpandedAfter(lo)

(* At first nothing is inherited or planned.                                *)
LEMMA AddressInit == Addresses!Init => AddressInv
  BY DEF Addresses!Init, AddressInv, Bare, Addresses!Absent

(* What depends on the manifest alone stays what it is.                     *)
LEMMA SameManifest ==
  ASSUME manifest' = manifest
  PROVE  /\ Outer' = Outer /\ Final' = Final /\ Templates' = Templates
         /\ Addresses!subs' = Addresses!subs /\ Addresses!st' = Addresses!st
<1>1. \A l : Addresses!Present(l)' = Addresses!Present(l)
  BY DEF Addresses!Present
<1>2. Addresses!subs' = Addresses!subs
  BY DEF Addresses!subs
<1>3. Addresses!st' = Addresses!st
  BY DEF Addresses!st, Addresses!Present
<1>4. Outer' = Outer
  BY DEF Outer, Bare, Addresses!Overlay, Addresses!subs, Addresses!Absent
<1>5. Final' = Final
  BY <1>3, <1>4 DEF Final, Addresses!Overlay, Addresses!Absent
<1> QED
  BY <1>2, <1>3, <1>4, <1>5 DEF Templates, Addresses!Present

(* The numbers of a template follow from what is in force.                  *)
LEMMA SameNumbers ==
  ASSUME Addresses!AddressingAssumption, manifest \in Manifests, manifest' = manifest,
         attrs = Outer \/ attrs = Final, attrs' = Final
  PROVE  /\ Addresses!InForce = Final
         /\ Addresses!total_number' = Addresses!total_number
         /\ Addresses!first_number' = Addresses!first_number
<1>1. /\ Outer' = Outer /\ Final' = Final /\ Addresses!st' = Addresses!st
      /\ Addresses!subs' = Addresses!subs
  BY SameManifest
<1>2. /\ [Addresses!Overlay(Final, Addresses!st) EXCEPT !.duration = Final.duration] = Final
      /\ Final.duration = Outer.duration
  BY FinalTwice
<1>3. Addresses!InForce = Final
  <2>1. CASE attrs = Outer
    BY <2>1 DEF Addresses!InForce, Final
  <2>2. CASE attrs = Final
    BY <1>2, <2>2 DEF Addresses!InForce
  <2> QED
    BY <2>1, <2>2
<1>4. attrs'.duration = attrs.duration
  BY <1>2
<1>5. Addresses!InForce' = Final
  <2>1. Addresses!InForce' = [Addresses!Overlay(Final, Addresses!st) EXCEPT !.duration = Final.duration]
    BY <1>1 DEF Addresses!InForce, Addresses!Overlay, Addresses!Absent
  <2> QED
    BY <1>2, <2>1
<1>6. Addresses!ticks' = Addresses!ticks /\ Addresses!scale' = Addresses!scale
  BY <1>1, <1>3, <1>4, <1>5 DEF Addresses!ticks, Addresses!scale, Addresses!Absent
<1>7. Addresses!period_duration_secs' = Addresses!period_duration_secs
  BY <1>1 DEF Addresses!period_duration_secs, Addresses!Absent
<1>8. Addresses!Quotient' = Addresses!Quotient
  BY <1>1, <1>6, <1>7 DEF Addresses!Quotient
<1>9. Addresses!total_number' = Addresses!total_number
  BY <1>1, <1>6, <1>7, <1>8 DEF Addresses!total_number, Addresses!Absent
<1>10. Addresses!first_number' = Addresses!first_number
  BY <1>1, <1>3, <1>5, <1>6 DEF Addresses!first_number, Addresses!Max
<1> QED
  BY <1>3, <1>9, <1>10

(* What a number of segments is computed from.                              *)
LEMMA NumberTypes ==
  ASSUME Addresses!AddressingAssumption, manifest \in Manifests, Addresses!InForce = Final,
         attrs.duration = Outer.duration
  PROVE  /\ Addresses!period_duration_secs \in Nat \cup {-1}
         /\ Addresses!scale \in Nat /\ Addresses!ticks \in Nat \cup {-1}
         /\ manifest.template[Addresses!st].endNumber \in Nat \cup {-1}
         /\ manifest.template[Addresses!st].duration \in Nat \cup {-1}
<1>1. /\ Outer \in Attributes /\ Final \in Attributes /\ Addresses!st \in {2, 3}
  BY AttributeTypes
<1>2. /\ manifest.template[Addresses!st].endNumber \in Nat \cup {-1}
      /\ manifest.template[Addresses!st].duration \in Nat \cup {-1}
  BY <1>1, ManifestTypes DEF Addresses!Template, Addresses!Optional, Addresses!Absent
<1>3. Addresses!scale \in Nat /\ Addresses!ticks \in Nat \cup {-1}
  BY <1>1, <1>2 DEF Addresses!scale, Addresses!ticks, Addresses!Absent, Attributes
<1>4. Addresses!period_duration_secs \in Nat \cup {-1}
  BY ManifestTypes DEF Addresses!period_duration_secs, Addresses!Absent
<1> QED
  BY <1>2, <1>3, <1>4

(* Dividing a length that is known by that of a segment.                    *)
LEMMA QuotientIs ==
  ASSUME Addresses!AddressingAssumption, manifest \in Manifests, Addresses!InForce = Final,
         attrs.duration = Outer.duration,
         Addresses!period_duration_secs >= 0, Addresses!ticks > 0
  PROVE  LET x == Addresses!period_duration_secs * Addresses!scale
             d == Addresses!ticks
             n == Addresses!Quotient
         IN  /\ x \in Nat /\ d \in Nat /\ n \in Nat
             /\ Addresses!subs => n * d >= x /\ (n - 1) * d < x
             /\ ~Addresses!subs => 2 * (n * d - x) <= d /\ 2 * (x - n * d) <= d
<1> DEFINE p == Addresses!period_duration_secs
           w == Addresses!scale
           d == Addresses!ticks
           x == p * w
<1>1. p \in Nat /\ w \in Nat /\ d \in Nat /\ d > 0
  BY NumberTypes
<1>2. Addresses!Quotient = IF Addresses!subs THEN (p * w + d - 1) \div d ELSE (2 * p * w + d) \div (2 * d)
  BY DEF Addresses!Quotient
<1> HIDE DEF p, w, d
<1>3. x \in Nat /\ 2 * p * w = 2 * x
  BY <1>1
<1>4. Addresses!Quotient = IF Addresses!subs THEN (x + d - 1) \div d ELSE (2 * x + d) \div (2 * d)
  BY <1>2, <1>3
<1> HIDE DEF x
<1>5. CASE Addresses!subs
  <2> DEFINE n == (x + d - 1) \div d
  <2>1. n \in Nat /\ n * d >= x /\ (n - 1) * d < x
    BY <1>1, <1>3, RoundedUp
  <2>2. Addresses!Quotient = n
    BY <1>4, <1>5
  <2> HIDE DEF n
  <2> QED
    BY <1>1, <1>3, <1>5, <2>1, <2>2 DEF x, p, w, d
<1>6. CASE ~Addresses!subs
  <2> DEFINE n == (2 * x + d) \div (2 * d)
  <2>1. n \in Nat /\ 2 * (n * d - x) <= d /\ 2 * (x - n * d) <= d
    BY <1>1, <1>3, Rounded
  <2>2. Addresses!Quotient = n
    BY <1>4, <1>6
  <2> HIDE DEF n
  <2> QED
    BY <1>1, <1>3, <1>6, <2>1, <2>2 DEF x, p, w, d
<1> QED
  BY <1>5, <1>6

(* A template with a @duration gives a number of segments.                  *)
LEMMA NumberIsCounted ==
  ASSUME Addresses!AddressingAssumption, manifest \in Manifests, Addresses!InForce = Final,
         attrs.duration = Outer.duration, ~Addresses!Refused
  PROVE  /\ Addresses!total_number \in Nat
         /\ manifest.template[Addresses!st].duration # -1 => Final.timescale # 0
<1>1. /\ Addresses!ticks # -1
      /\ manifest.template[Addresses!st].duration # -1 => Final.timescale # 0
  BY DEF Addresses!Refused, Addresses!Absent
<1>2. CASE manifest.template[Addresses!st].endNumber # -1
  BY <1>1, <1>2, NumberTypes DEF Addresses!total_number, Addresses!Absent
<1>3. CASE manifest.template[Addresses!st].endNumber = -1
  <2>1. CASE Addresses!ticks = 0 \/ Addresses!period_duration_secs < 0
    BY <1>1, <1>3, <2>1 DEF Addresses!total_number, Addresses!Absent
  <2>2. CASE ~(Addresses!ticks = 0 \/ Addresses!period_duration_secs < 0)
    <3>1. Addresses!ticks > 0 /\ Addresses!period_duration_secs >= 0
      BY <1>1, <2>2, NumberTypes
    <3>2. Addresses!Quotient \in Nat
      BY <3>1, QuotientIs
    <3>3. Addresses!total_number = Addresses!Quotient
      BY <1>3, <2>2 DEF Addresses!total_number, Addresses!Absent
    <3> QED
      BY <1>1, <3>2, <3>3
  <2> QED
    BY <2>1, <2>2
<1> QED
  BY <1>2, <1>3

(* What one sequence is made of after another.                              *)
LEMMA AfterHead ==
  ASSUME NEW S, NEW h \in Seq(S), NEW T, NEW t \in Seq(T)
  PROVE  /\ DOMAIN (h \o t) = 1..(Len(h) + Len(t))
         /\ \A k \in 1..Len(h) : (h \o t)[k] = h[k]
         /\ \A k \in 1..Len(t) : (h \o t)[Len(h) + k] = t[k]
<1>1. h \in Seq(S \cup T) /\ t \in Seq(S \cup T)
  OBVIOUS
<1>2. h \o t \in Seq(S \cup T) /\ Len(h \o t) = Len(h) + Len(t)
  BY <1>1
<1> QED
  BY <1>1, <1>2

(* The fragments before those of a template.                                *)
LEMMA HeadIs ==
  ASSUME Addresses!AddressingAssumption, AddressInv, pc = "mode"
  PROVE  LET h == fragments \o Addresses!InitFragment
         IN  /\ Addresses!InForce = Final /\ attrs.duration = Outer.duration
             /\ fragments \in Seq(Plain) /\ h \in Seq(Plain) /\ Len(h) \in Nat
             /\ \A k \in 1..Len(h) : h[k].what \in {"init", "list"}
             /\ ~Addresses!subs /\ ~manifest.list[2].present /\ Final.init # -1 =>
                  Len(h) >= 1 /\ h[1] = Addresses!F("init", Final.init, -1)
<1>1. /\ manifest \in Manifests /\ attrs = Outer /\ fragments \in Seq(Plain)
      /\ ~Addresses!subs /\ ~manifest.list[2].present => fragments = << >>
  BY DEF AddressInv
<1>2. Addresses!InForce = Final
  BY <1>1 DEF Addresses!InForce, Final
<1>3. Addresses!InitFragment =
        IF Final.init # -1 THEN <<Addresses!F("init", Final.init, -1)>> ELSE << >>
  BY <1>2 DEF Addresses!InitFragment, Addresses!Absent
<1>4. Final.init # -1 => Addresses!F("init", Final.init, -1) \in Plain
  BY <1>1, AttributeTypes DEF Attributes, Addresses!F, Plain
<1> DEFINE i == Addresses!InitFragment
           h == fragments \o i
<1>5. i \in Seq(Plain)
  <2>1. << >> \in Seq(Plain)
    OBVIOUS
  <2>2. Final.init # -1 => <<Addresses!F("init", Final.init, -1)>> \in Seq(Plain)
    BY <1>4
  <2> QED
    BY <1>3, <2>1, <2>2
<1> HIDE DEF i
<1>6. h \in Seq(Plain)
  BY <1>1, <1>5
<1>7. fragments = << >> => h = i
  BY <1>5
<1> HIDE DEF h
<1>8. Len(h) \in Nat /\ \A k \in 1..Len(h) : h[k].what \in {"init", "list"}
  <2>1. \A k \in 1..Len(h) : h[k] \in Plain
    BY <1>6
  <2> QED
    BY <1>6, <2>1 DEF Plain
<1>9. ~Addresses!subs /\ ~manifest.list[2].present /\ Final.init # -1 =>
        Len(h) >= 1 /\ h[1] = Addresses!F("init", Final.init, -1)
  <2> SUFFICES ASSUME ~Addresses!subs, ~manifest.list[2].present, Final.init # -1
               PROVE  Len(h) >= 1 /\ h[1] = Addresses!F("init", Final.init, -1)
    OBVIOUS
  <2>1. h = <<Addresses!F("init", Final.init, -1)>>
    BY <1>1, <1>3, <1>7 DEF i
  <2> QED
    BY <2>1
<1> QED
  BY <1>1, <1>2, <1>6, <1>8, <1>9 DEF h, i

(* A template with a timeline is planned as one fragment.                   *)
LEMMA TimelineStep ==
  ASSUME Addresses!AddressingAssumption, AddressInv, Addresses!UseTimeline
  PROVE  AddressInv'
<1> DEFINE h == fragments \o Addresses!InitFragment
           t == Addresses!F("timeline", Final.media, -1)
<1>1. /\ pc = "mode" /\ manifest' = manifest /\ attrs' = Addresses!InForce /\ Templates
      /\ manifest \in Manifests
  BY DEF Addresses!UseTimeline, Addresses!UsesTemplate, Templates, AddressInv
<1>2. /\ Addresses!InForce = Final /\ attrs.duration = Outer.duration
      /\ fragments \in Seq(Plain) /\ h \in Seq(Plain) /\ Len(h) \in Nat
      /\ \A k \in 1..Len(h) : h[k].what \in {"init", "list"}
      /\ ~Addresses!subs /\ ~manifest.list[2].present /\ Final.init # -1 =>
           Len(h) >= 1 /\ h[1] = Addresses!F("init", Final.init, -1)
  BY <1>1, HeadIs
<1>3. /\ Outer' = Outer /\ Final' = Final /\ Templates' = Templates
      /\ Addresses!subs' = Addresses!subs
  BY <1>1, SameManifest
<1>4. CASE Final.media = -1
  BY <1>1, <1>2, <1>3, <1>4 DEF Addresses!UseTimeline, Addresses!Return, Addresses!Absent, AddressInv
<1>5. CASE Final.media # -1
  <2>1. fragments' = h \o <<t>> /\ pc' = "settle"
    BY <1>2, <1>5 DEF Addresses!UseTimeline, Addresses!Goto, Addresses!Absent
  <2>2. Addresses!F("init", Final.init, -1)' = Addresses!F("init", Final.init, -1) /\ t' = t
    BY <1>3 DEF Addresses!F
  <2> HIDE DEF h, t
  <2>3. <<t>> \in Seq({t}) /\ Len(<<t>>) = 1 /\ <<t>>[1] = t /\ 1 \in 1..1
    OBVIOUS
  <2>4. /\ DOMAIN (h \o <<t>>) = 1..(Len(h) + 1)
        /\ \A k \in 1..Len(h) : (h \o <<t>>)[k] = h[k]
        /\ (h \o <<t>>)[Len(h) + 1] = t
    BY <1>2, <2>3, AfterHead
  <2>5. PICK lo \in Nat : lo = Len(h)
    BY <1>2
  <2>6. /\ DOMAIN fragments' = 1..(lo + 1)
        /\ fragments'[lo + 1] = t
        /\ \A k \in 1..lo : fragments'[k] = h[k]
    BY <2>1, <2>4, <2>5
  <2>7. ExpandedAfter(lo)'
    BY <1>1, <1>2, <1>3, <1>5, <2>2, <2>5, <2>6 DEF ExpandedAfter, t
  <2> QED
    BY <1>1, <1>2, <2>1, <2>7 DEF AddressInv
<1> QED
  BY <1>4, <1>5

(* A template with a @duration is planned as its numbers.                   *)
LEMMA DurationStep ==
  ASSUME Addresses!AddressingAssumption, AddressInv, Addresses!UseDuration
  PROVE  AddressInv'
<1> DEFINE h == fragments \o Addresses!InitFragment
           N == Addresses!total_number
           first == Addresses!first_number
           t == [k \in 1..N |-> Addresses!F("template", Final.media, first + k - 1)]
<1>1. /\ pc = "mode" /\ manifest' = manifest /\ attrs' = Addresses!InForce /\ Templates
      /\ manifest \in Manifests /\ attrs = Outer
  BY DEF Addresses!UseDuration, Addresses!UsesTemplate, Templates, AddressInv
<1>2. /\ Addresses!InForce = Final /\ attrs.duration = Outer.duration
      /\ fragments \in Seq(Plain) /\ h \in Seq(Plain) /\ Len(h) \in Nat
      /\ \A k \in 1..Len(h) : h[k].what \in {"init", "list"}
      /\ ~Addresses!subs /\ ~manifest.list[2].present /\ Final.init # -1 =>
           Len(h) >= 1 /\ h[1] = Addresses!F("init", Final.init, -1)
  BY <1>1, HeadIs
<1>3. /\ Outer' = Outer /\ Final' = Final /\ Templates' = Templates
      /\ Addresses!subs' = Addresses!subs /\ Addresses!st' = Addresses!st
  BY <1>1, SameManifest
<1>4. CASE Final.media = -1
  <2>1. fragments' = h /\ pc' = "settle"
    BY <1>2, <1>4 DEF Addresses!UseDuration, Addresses!Goto, Addresses!Absent
  <2> HIDE DEF h
  <2>2. \A k \in DOMAIN h : h[k].what \notin {"template", "timeline"}
    BY <1>2
  <2>3. Unexpanded'
    BY <1>1, <1>2, <1>3, <1>4, <2>1, <2>2 DEF Unexpanded
  <2> QED
    BY <1>1, <2>1, <2>3 DEF AddressInv
<1>5. CASE Final.media # -1 /\ (Addresses!Refused \/ Addresses!Endless)
  BY <1>1, <1>2, <1>5
    DEF Addresses!UseDuration, Addresses!Goto, Addresses!Return, Addresses!Absent, AddressInv
<1>6. CASE Final.media # -1 /\ ~Addresses!Refused /\ ~Addresses!Endless
  <2>1. fragments' = h \o t /\ pc' = "settle"
    BY <1>2, <1>6 DEF Addresses!UseDuration, Addresses!Goto, Addresses!Absent
  <2>2. /\ N \in Nat
        /\ manifest.template[Addresses!st].duration # -1 => Final.timescale # 0
    BY <1>1, <1>2, <1>6, NumberIsCounted
  <2>3. N' = N /\ first' = first
    BY <1>1, <1>2, SameNumbers
  <2> HIDE DEF h, N, first
  <2> DEFINE T == {t[k] : k \in 1..N}
  <2>4. t \in Seq(T) /\ Len(t) = N
    <3>1. t \in [1..N -> T]
      OBVIOUS
    <3> HIDE DEF t, T
    <3> QED
      BY <2>2, <3>1
  <2>5. \A k \in 1..N : t[k] = Addresses!F("template", Final.media, first + k - 1)
    OBVIOUS
  <2> HIDE DEF t, T
  <2>6. /\ DOMAIN (h \o t) = 1..(Len(h) + N)
        /\ \A k \in 1..Len(h) : (h \o t)[k] = h[k]
        /\ \A k \in 1..N : (h \o t)[Len(h) + k] = t[k]
    <3>1. /\ DOMAIN (h \o t) = 1..(Len(h) + Len(t))
          /\ \A k \in 1..Len(h) : (h \o t)[k] = h[k]
          /\ \A k \in 1..Len(t) : (h \o t)[Len(h) + k] = t[k]
      <4>1. h \in Seq(Plain) /\ t \in Seq(T)
        BY <1>2, <2>4
      <4> QED
        BY <4>1, AfterHead
    <3> QED
      BY <2>4, <3>1
  <2>7. PICK lo \in Nat : lo = Len(h)
    BY <1>2
  <2>8. /\ DOMAIN fragments' = 1..(lo + N)
        /\ \A k \in 1..lo : fragments'[k] = h[k]
        /\ \A k \in 1..N : fragments'[lo + k] = Addresses!F("template", Final.media, first + k - 1)
    BY <2>1, <2>5, <2>6, <2>7
  <2>9. ExpandedAfter(lo)'
    <3>1. Templates' /\ attrs' = Final' /\ Final'.media # -1
      BY <1>1, <1>2, <1>3, <1>6
    <3>2. \A k \in 1..lo : fragments'[k].what \in {"init", "list"}
      BY <1>2, <2>7, <2>8
    <3>3. ~Addresses!subs' /\ ~manifest'.list[2].present /\ Final'.init # -1 =>
            lo >= 1 /\ fragments'[1] = Addresses!F("init", Final.init, -1)
      BY <1>1, <1>2, <1>3, <2>7, <2>8
    <3>4. /\ N' \in Nat
          /\ manifest'.template[Addresses!st'].duration # -1 => Final'.timescale # 0
          /\ DOMAIN fragments' = 1..(lo + N')
      BY <1>1, <1>3, <2>2, <2>3, <2>8
    <3>5. \A k \in 1..N' :
            fragments'[lo + k] = Addresses!F("template", Final'.media, first' + k - 1)
      BY <1>3, <2>3, <2>8
    <3> QED
      BY <1>3, <3>1, <3>2, <3>3, <3>4, <3>5 DEF ExpandedAfter, N, first, Addresses!F
  <2> QED
    BY <1>1, <2>1, <2>9 DEF AddressInv
<1> QED
  BY <1>4, <1>5, <1>6

(* A sequence of plain fragments holds none of a template.                  *)
LEMMA PlainOnly ==
  ASSUME NEW f \in Seq(Plain)
  PROVE  \A k \in DOMAIN f : f[k].what \notin {"template", "timeline"}
<1>1. \A k \in DOMAIN f : f[k] \in Plain
  OBVIOUS
<1> QED
  BY <1>1 DEF Plain

(* Every step keeps to what is inherited and planned.                       *)
LEMMA AddressStep ==
  ASSUME Addresses!AddressingAssumption, AddressInv, [Addresses!Next]_(Addresses!vars)
  PROVE  AddressInv'
<1> USE DEF Addresses!Goto, Addresses!Return
<1>0. manifest \in Manifests
  BY DEF AddressInv
<1>1. ASSUME UNCHANGED <<manifest, attrs, fragments>>, pc \in {"settle", "ok"}
      PROVE  Unexpanded' \/ \E lo \in Nat : ExpandedAfter(lo)'
  <2>1. /\ Outer' = Outer /\ Final' = Final /\ Templates' = Templates
        /\ Addresses!subs' = Addresses!subs /\ Addresses!st' = Addresses!st
    BY <1>1, SameManifest
  <2>2. CASE Unexpanded
    <3>1. Unexpanded'
      BY <1>1, <2>1, <2>2 DEF Unexpanded
    <3> QED
      BY <3>1
  <2>3. CASE \E lo \in Nat : ExpandedAfter(lo)
    <3>1. PICK lo \in Nat : ExpandedAfter(lo)
      BY <2>3
    <3>2. attrs = Final /\ attrs' = Final
      BY <1>1, <3>1 DEF ExpandedAfter
    <3>3. /\ Addresses!total_number' = Addresses!total_number
          /\ Addresses!first_number' = Addresses!first_number
      BY <1>0, <1>1, <3>2, SameNumbers
    <3>4. ExpandedAfter(lo)'
      BY <1>1, <2>1, <3>1, <3>3 DEF ExpandedAfter, Addresses!F
    <3> QED
      BY <3>4
  <2> QED
    BY <1>1, <2>2, <2>3 DEF AddressInv
<1>2. CASE UNCHANGED Addresses!vars
  <2>1. UNCHANGED <<manifest, attrs, fragments, pc>>
    BY <1>2 DEF Addresses!vars
  <2>2. Outer' = Outer /\ Addresses!subs' = Addresses!subs /\ Bare' = Bare
    BY <2>1, SameManifest DEF Bare
  <2>3. pc \in {"settle", "ok"} => Unexpanded' \/ \E lo \in Nat : ExpandedAfter(lo)'
    BY <1>1, <2>1
  <2> QED
    BY <2>1, <2>2, <2>3 DEF AddressInv
<1>3. CASE Addresses!Inherit
  <2>1. /\ pc = "inherit" /\ pc' = "list" /\ manifest' = manifest /\ fragments' = fragments
        /\ attrs' = Addresses!Overlay(Addresses!Overlay(attrs, 1), 2) /\ ~Addresses!subs
    BY <1>3 DEF Addresses!Inherit, Addresses!PeriodLevel, Addresses!AdaptationLevel
  <2>2. attrs' = Outer /\ fragments = << >>
    BY <2>1 DEF AddressInv, Outer
  <2>3. Outer' = Outer
    BY <2>1, SameManifest
  <2> QED
    BY <1>0, <2>1, <2>2, <2>3 DEF AddressInv
<1>4. CASE Addresses!ChooseSubtitles
  <2>1. /\ pc = "inherit" /\ manifest' = manifest /\ fragments' = fragments /\ Addresses!subs
        /\ attrs = Bare /\ fragments = << >>
    BY <1>4 DEF Addresses!ChooseSubtitles, AddressInv
  <2>2. /\ Outer' = Outer /\ Addresses!subs' = Addresses!subs /\ Templates' = Templates
    BY <2>1, SameManifest
  <2>3. CASE manifest.base[3] > 0 /\ pc' = "sidecar"
    BY <1>0, <2>1, <2>2, <2>3 DEF AddressInv
  <2>4. CASE attrs' = Addresses!Overlay(attrs, 3) /\ pc' \in {"list", "err"}
    <3>1. attrs' = Outer
      BY <2>1, <2>4 DEF Outer
    <3> QED
      BY <1>0, <2>1, <2>2, <2>4, <3>1 DEF AddressInv
  <2>5. CASE ~Addresses!Present(2) /\ ~Addresses!Present(3) /\ pc' = "ok"
    <3>1. ~Templates /\ DOMAIN fragments' = {}
      BY <2>1, <2>5 DEF Templates
    <3>2. Unexpanded'
      BY <2>2, <3>1 DEF Unexpanded
    <3> QED
      BY <1>0, <2>1, <2>5, <3>2 DEF AddressInv
  <2> QED
    BY <1>4, <2>3, <2>4, <2>5 DEF Addresses!ChooseSubtitles, Addresses!RepresentationLevel
<1>5. CASE Addresses!FetchSidecar
  <2>1. /\ pc = "sidecar" /\ pc' \in {"ok", "err"} /\ UNCHANGED <<manifest, attrs, fragments>>
        /\ Addresses!subs /\ manifest.base[3] > 0 /\ fragments = << >>
    BY <1>5 DEF Addresses!FetchSidecar, AddressInv
  <2>2. Addresses!subs' = Addresses!subs /\ DOMAIN fragments' = {}
    BY <2>1, SameManifest
  <2>3. Unexpanded'
    BY <2>1, <2>2 DEF Unexpanded
  <2> QED
    BY <1>0, <2>1, <2>3 DEF AddressInv
<1>6. CASE Addresses!ReadFirstList
  <2> DEFINE level == IF Addresses!subs THEN 3 ELSE 2
             list == manifest.list[level]
             i == Addresses!InitOf(list, level, Addresses!Declares(manifest.kind))
             u == Addresses!UrlsOf(list, level, 2)
  <2>1. /\ pc = "list" /\ UNCHANGED <<manifest, attrs>> /\ attrs = Outer /\ fragments = << >>
        /\ \/ ~list.present /\ pc' = "mode" /\ fragments' = fragments
           \/ list.present /\ pc' = "err"
           \/ list.present /\ pc' = "mode" /\ fragments' = i \o u
    BY <1>6 DEF Addresses!ReadFirstList, AddressInv
  <2>2. /\ Outer' = Outer /\ Addresses!subs' = Addresses!subs
    BY <2>1, SameManifest
  <2>3. i \in Seq(Plain) /\ u \in Seq(Plain)
    <3>1. level \in {2, 3}
      OBVIOUS
    <3> HIDE DEF level
    <3> QED
      BY <1>0, <3>1, ListsArePlain
  <2>4. << >> \in Seq(Plain)
    OBVIOUS
  <2>5. list.present => Addresses!subs \/ manifest.list[2].present
    OBVIOUS
  <2> HIDE DEF i, u, list
  <2>6. i \o u \in Seq(Plain)
    BY <2>3
  <2> QED
    BY <1>0, <2>1, <2>2, <2>4, <2>5, <2>6 DEF AddressInv
<1>7. CASE Addresses!ReadRepresentationList
  <2> DEFINE i == Addresses!InitOf(manifest.list[3], 3, {"source", "bare"})
             u == Addresses!UrlsOf(manifest.list[3], 3, 3)
  <2>1. /\ pc = "mode" /\ manifest' = manifest /\ manifest.list[3].present
        /\ fragments \in Seq(Plain)
        /\ \/ pc' = "err"
           \/ pc' = "settle" /\ fragments' = fragments \o i \o u
    BY <1>7 DEF Addresses!ReadRepresentationList, AddressInv
  <2>2. i \in Seq(Plain) /\ u \in Seq(Plain)
    BY <1>0, ListsArePlain
  <2> HIDE DEF i, u
  <2>3. fragments \o i \o u \in Seq(Plain)
    BY <2>1, <2>2
  <2>4. ~Templates /\ Templates' = Templates
    BY <2>1, SameManifest DEF Templates
  <2>5. pc' = "settle" => Unexpanded'
    <3> SUFFICES ASSUME pc' = "settle" PROVE Unexpanded'
      OBVIOUS
    <3>1. fragments' \in Seq(Plain)
      BY <2>1, <2>3
    <3>2. \A k \in DOMAIN fragments' : fragments'[k].what \notin {"template", "timeline"}
      BY <3>1, PlainOnly
    <3> QED
      BY <2>4, <3>2 DEF Unexpanded
  <2> QED
    BY <1>0, <2>1, <2>5 DEF AddressInv
<1>8. CASE Addresses!UseTimeline
  BY <1>8, TimelineStep
<1>9. CASE Addresses!UseDuration
  BY <1>9, DurationStep
<1>10. CASE Addresses!UseIndexRange
  <2>1. /\ pc = "mode" /\ manifest' = manifest /\ ~Templates /\ fragments \in Seq(Plain)
        /\ \/ pc' = "settle" /\ fragments' = Append(fragments, Addresses!F("index", 3, -1))
           \/ pc' = "err"
    BY <1>10 DEF Addresses!UseIndexRange, Addresses!OtherMode, Templates, AddressInv, Addresses!Absent
  <2>2. Templates' = Templates
    BY <2>1, SameManifest
  <2>3. pc' = "settle" => Unexpanded'
    <3> SUFFICES ASSUME pc' = "settle" PROVE Unexpanded'
      OBVIOUS
    <3>1. \A k \in DOMAIN fragments : fragments[k].what \notin {"template", "timeline"}
      BY <2>1, PlainOnly
    <3>2. Addresses!F("index", 3, -1).what = "index"
      BY DEF Addresses!F
    <3> DEFINE x == Addresses!F("index", 3, -1)
    <3>3. fragments' = Append(fragments, x)
      BY <2>1
    <3> HIDE DEF x
    <3>4. \A k \in DOMAIN fragments' : (k \in DOMAIN fragments /\ fragments'[k] = fragments[k]) \/ fragments'[k] = x
      BY <2>1, <3>3
    <3>5. \A k \in DOMAIN fragments' : fragments'[k].what \notin {"template", "timeline"}
      BY <3>1, <3>2, <3>4 DEF x
    <3> QED
      BY <2>1, <2>2, <3>5 DEF Unexpanded
  <2> QED
    BY <1>0, <2>1, <2>3 DEF AddressInv
<1>11. CASE Addresses!UseBaseURL
  <2>1. /\ pc = "mode" /\ pc' = "settle" /\ manifest' = manifest /\ ~Templates
        /\ fragments \in Seq(Plain)
        /\ fragments' = <<Addresses!F("base", 3, -1)>> \/ fragments' = fragments
    BY <1>11 DEF Addresses!UseBaseURL, Addresses!OtherMode, Templates, AddressInv, Addresses!Absent
  <2>2. Templates' = Templates
    BY <2>1, SameManifest
  <2>3. \A k \in DOMAIN fragments' : fragments'[k].what \notin {"template", "timeline"}
    BY <2>1, PlainOnly DEF Addresses!F
  <2>4. Unexpanded'
    BY <2>1, <2>2, <2>3 DEF Unexpanded
  <2> QED
    BY <1>0, <2>1, <2>4 DEF AddressInv
<1>12. CASE Addresses!Settle
  <2>1. pc = "settle" /\ UNCHANGED <<manifest, attrs, fragments>> /\ pc' \in {"err", "ok"}
    BY <1>12 DEF Addresses!Settle
  <2>2. Unexpanded' \/ \E lo \in Nat : ExpandedAfter(lo)'
    BY <1>1, <2>1
  <2> QED
    BY <1>0, <2>1, <2>2 DEF AddressInv
<1> QED
  BY <1>2, <1>3, <1>4, <1>5, <1>6, <1>7, <1>8, <1>9, <1>10, <1>11, <1>12 DEF Addresses!Next

(* Which fragments are planned from a template.                             *)
LEMMA ExpandedAre ==
  ASSUME NEW lo \in Nat, ExpandedAfter(lo)
  PROVE  \/ /\ Addresses!Numbered = {} /\ Addresses!Templated = {lo + 1}
            /\ fragments[lo + 1] = Addresses!F("timeline", Final.media, -1)
         \/ /\ Addresses!total_number \in Nat
            /\ Addresses!Numbered = (lo + 1)..(lo + Addresses!total_number)
            /\ Addresses!Templated = (lo + 1)..(lo + Addresses!total_number)
            /\ \A k \in (lo + 1)..(lo + Addresses!total_number) :
                 fragments[k] = Addresses!F("template", Final.media, Addresses!first_number + (k - lo) - 1)
<1> DEFINE N == Addresses!total_number
           first == Addresses!first_number
<1>1. \A k \in 1..lo : fragments[k].what \in {"init", "list"}
  BY DEF ExpandedAfter
<1>2. CASE /\ DOMAIN fragments = 1..(lo + 1)
           /\ fragments[lo + 1] = Addresses!F("timeline", Final.media, -1)
  <2>1. fragments[lo + 1].what = "timeline"
    BY <1>2 DEF Addresses!F
  <2>2. \A k \in 1..(lo + 1) : k = lo + 1 \/ k \in 1..lo
    OBVIOUS
  <2>3. Addresses!Numbered = {} /\ Addresses!Templated = {lo + 1}
    BY <1>1, <1>2, <2>1, <2>2 DEF Addresses!Numbered, Addresses!Templated
  <2> QED
    BY <1>2, <2>3
<1>3. CASE /\ N \in Nat /\ DOMAIN fragments = 1..(lo + N)
           /\ \A k \in 1..N : fragments[lo + k] = Addresses!F("template", Final.media, first + k - 1)
  <2> HIDE DEF N, first
  <2>1. ASSUME NEW k \in (lo + 1)..(lo + N)
        PROVE  fragments[k] = Addresses!F("template", Final.media, first + (k - lo) - 1)
    <3>1. k - lo \in 1..N /\ lo + (k - lo) = k
      BY <1>3, <2>1
    <3> QED
      BY <1>3, <3>1, Zenon
  <2>2. \A k \in (lo + 1)..(lo + N) : fragments[k].what = "template"
    <3>1. \A n : Addresses!F("template", Final.media, n).what = "template"
      BY DEF Addresses!F
    <3> QED
      BY <2>1, <3>1
  <2>3. \A k \in 1..(lo + N) : k \in (lo + 1)..(lo + N) \/ k \in 1..lo
    BY <1>3
  <2>4. (lo + 1)..(lo + N) \subseteq 1..(lo + N)
    BY <1>3
  <2>5. /\ Addresses!Numbered = (lo + 1)..(lo + N)
        /\ Addresses!Templated = (lo + 1)..(lo + N)
    BY <1>1, <1>3, <2>2, <2>3, <2>4 DEF Addresses!Numbered, Addresses!Templated
  <2> QED
    BY <1>3, <2>1, <2>5 DEF N, first
<1> QED
  BY <1>2, <1>3 DEF ExpandedAfter

(* The invariant implies the property.                                      *)
LEMMA MostSpecificHolds ==
  ASSUME Addresses!AddressingAssumption, AddressInv
  PROVE  Addresses!MostSpecific
<1> SUFFICES ASSUME pc = "ok", ~Addresses!subs
             PROVE  /\ \A k \in Addresses!Templated :
                         fragments[k].level = Addresses!Max(Addresses!Declared("media"))
                    /\ Addresses!Templated # {} /\ Addresses!Declared("init") # {}
                         /\ ~manifest.list[2].present =>
                         fragments[1] = Addresses!F("init", Addresses!Max(Addresses!Declared("init")), -1)
                    /\ ~manifest.dynamic => \A k \in Addresses!Numbered :
                         /\ k - 1 \notin Addresses!Numbered => fragments[k].n =
                              IF Addresses!Given("startNumber") = {} THEN 1
                              ELSE manifest.template[Addresses!Max(Addresses!Given("startNumber"))].startNumber
                         /\ k - 1 \in Addresses!Numbered => fragments[k].n = fragments[k - 1].n + 1
  BY DEF Addresses!MostSpecific, Addresses!Absent
<1>1. CASE Unexpanded
  <2>1. Addresses!Templated = {} /\ Addresses!Numbered = {}
    BY <1>1 DEF Unexpanded, Addresses!Templated, Addresses!Numbered
  <2> QED
    BY <2>1
<1>2. ASSUME NEW lo \in Nat, ExpandedAfter(lo)
      PROVE  /\ \A k \in Addresses!Templated :
                  fragments[k].level = Addresses!Max(Addresses!Declared("media"))
             /\ Addresses!Templated # {} /\ Addresses!Declared("init") # {}
                  /\ ~manifest.list[2].present =>
                  fragments[1] = Addresses!F("init", Addresses!Max(Addresses!Declared("init")), -1)
             /\ ~manifest.dynamic => \A k \in Addresses!Numbered :
                  /\ k - 1 \notin Addresses!Numbered => fragments[k].n =
                       IF Addresses!Given("startNumber") = {} THEN 1
                       ELSE manifest.template[Addresses!Max(Addresses!Given("startNumber"))].startNumber
                  /\ k - 1 \in Addresses!Numbered => fragments[k].n = fragments[k - 1].n + 1
  <2>1. /\ manifest \in Manifests /\ Templates /\ attrs = Final /\ Final.media # -1
        /\ ~manifest.list[2].present /\ Final.init # -1 =>
             fragments[1] = Addresses!F("init", Final.init, -1)
    BY <1>2 DEF ExpandedAfter, AddressInv
  <2>2. /\ Final.media = Addresses!Max(Addresses!Declared("media"))
        /\ Addresses!Declared("init") # {} =>
             Final.init # -1 /\ Final.init = Addresses!Max(Addresses!Declared("init"))
        /\ Final.startNumber =
             IF Addresses!Given("startNumber") = {} THEN 1
             ELSE manifest.template[Addresses!Max(Addresses!Given("startNumber"))].startNumber
    BY <2>1, FinalValues DEF Templates
  <2>3. ~manifest.dynamic => Addresses!first_number = Final.startNumber
    <3>1. Addresses!InForce = Final
      BY <2>1, FinalTwice DEF Addresses!InForce
    <3> QED
      BY <3>1 DEF Addresses!first_number
  <2>4. Final.startNumber \in Nat
    BY <2>1, AttributeTypes DEF Attributes
  <2>5. CASE /\ Addresses!Numbered = {} /\ Addresses!Templated = {lo + 1}
             /\ fragments[lo + 1] = Addresses!F("timeline", Final.media, -1)
    <3>1. fragments[lo + 1].level = Final.media
      BY <2>5 DEF Addresses!F
    <3> QED
      BY <2>1, <2>2, <2>5, <3>1
  <2>6. CASE /\ Addresses!total_number \in Nat
             /\ Addresses!Numbered = (lo + 1)..(lo + Addresses!total_number)
             /\ Addresses!Templated = (lo + 1)..(lo + Addresses!total_number)
             /\ \A k \in (lo + 1)..(lo + Addresses!total_number) :
                  fragments[k] = Addresses!F("template", Final.media, Addresses!first_number + (k - lo) - 1)
    <3> DEFINE N == Addresses!total_number
               first == Addresses!first_number
               S == (lo + 1)..(lo + N)
    <3>0. \A n : /\ Addresses!F("template", Final.media, n).level = Final.media
                 /\ Addresses!F("template", Final.media, n).n = n
      BY DEF Addresses!F
    <3>f. \A k \in S : fragments[k] = Addresses!F("template", Final.media, first + (k - lo) - 1)
      BY <2>6
    <3> HIDE DEF N, first, S
    <3>1. \A k \in S : fragments[k].level = Final.media /\ fragments[k].n = first + (k - lo) - 1
      BY <3>0, <3>f
    <3> USE DEF S
    <3>2. N \in Nat /\ Addresses!Numbered = S /\ Addresses!Templated = S
      BY <2>6 DEF N
    <3>3. ~manifest.dynamic => \A k \in S :
            /\ k - 1 \notin S => fragments[k].n = Final.startNumber
            /\ k - 1 \in S => fragments[k].n = fragments[k - 1].n + 1
      <4> SUFFICES ASSUME ~manifest.dynamic, NEW k \in S
                   PROVE  /\ k - 1 \notin S => fragments[k].n = Final.startNumber
                          /\ k - 1 \in S => fragments[k].n = fragments[k - 1].n + 1
        OBVIOUS
      <4>1. first \in Nat /\ first = Final.startNumber
        BY <2>3, <2>4 DEF first
      <4>2. k \in Nat /\ k >= lo + 1 /\ (k - 1 \notin S => k = lo + 1)
        BY <3>2
      <4>3. fragments[k].n = first + (k - lo) - 1
        BY <3>1
      <4>4. k - 1 \in S => fragments[k - 1].n = first + ((k - 1) - lo) - 1
        BY <3>1
      <4> HIDE DEF S
      <4>5. k - 1 \notin S => fragments[k].n = Final.startNumber
        BY <4>1, <4>2, <4>3
      <4>6. k - 1 \in S => fragments[k].n = fragments[k - 1].n + 1
        BY <4>1, <4>2, <4>3, <4>4
      <4> QED
        BY <4>5, <4>6
    <3> HIDE DEF S
    <3> QED
      BY <2>1, <2>2, <3>1, <3>2, <3>3
  <2> QED
    BY <1>2, <2>5, <2>6, ExpandedAre
<1> QED
  BY <1>1, <1>2 DEF AddressInv

(* The model counts as the library does.                                    *)
LEMMA CountingIs ==
  \A S : Addresses!Cardinality(S) = Cardinality(S)
BY Zenon DEF Addresses!Cardinality, Cardinality

(* The length of one segment less.                                         *)
LEMMA OneLess ==
  ASSUME NEW n \in Nat, NEW d \in Nat
  PROVE  (n - 1) * d = n * d - d
OBVIOUS

(* See MostSpecificHolds.                                                   *)
LEMMA CoversPeriodHolds ==
  ASSUME Addresses!AddressingAssumption, AddressInv
  PROVE  Addresses!CoversPeriod
<1> DEFINE n == Addresses!Cardinality(Addresses!Numbered)
           d == manifest.template[Addresses!st].duration
           length == Addresses!Length
<1> SUFFICES ASSUME Addresses!PlannedByNumber,
                    Addresses!Max(Addresses!Given("duration")) = Addresses!st,
                    Addresses!subs => /\ Addresses!Max(Addresses!Declared("media")) = Addresses!st
                                      /\ Addresses!Given("timescale") \ {Addresses!st} = {}
             PROVE  IF Addresses!subs
                      THEN /\ Addresses!PlannedLength >= length
                           /\ Addresses!PlannedLength - Addresses!Innermost("duration", 0) < length
                      ELSE /\ 2 * (Addresses!PlannedLength - length) <= Addresses!Innermost("duration", 0)
                           /\ 2 * (length - Addresses!PlannedLength) <= Addresses!Innermost("duration", 0)
  BY DEF Addresses!CoversPeriod
<1>p. /\ pc = "ok" /\ Addresses!Templated = Addresses!Numbered /\ Addresses!Declared("media") # {}
      /\ Addresses!Present(2) \/ Addresses!Present(3)
      /\ ~manifest.list[3].present /\ manifest.base[3] = 0
      /\ Addresses!Given("endNumber") = {} /\ Addresses!Innermost("duration", 0) > 0
      /\ Addresses!period_duration_secs >= 0
  BY DEF Addresses!PlannedByNumber
<1>d. Addresses!Innermost("duration", 0) = d
  <2>1. Addresses!Given("duration") # {}
    BY <1>p DEF Addresses!Innermost
  <2> QED
    BY <2>1, InnermostGives
<1>e. manifest.template[Addresses!st].endNumber = -1
  BY <1>p DEF Addresses!Given, Addresses!Levels, Addresses!st, Addresses!Present, Addresses!Absent
<1>1. manifest \in Manifests /\ Templates
  BY <1>p DEF AddressInv, Templates
<1>2. attrs = Final => Addresses!InForce = Final /\ attrs.duration = Outer.duration
  BY <1>1, FinalTwice DEF Addresses!InForce
<1>3. PICK lo \in Nat : ExpandedAfter(lo)
  <2>1. ~Unexpanded
    <3>1. Final.media # -1
      BY <1>1, <1>p, FinalMedia
    <3> QED
      BY <1>1, <1>p, <3>1 DEF Unexpanded
  <2> QED
    BY <1>p, <2>1 DEF AddressInv
<1>4. /\ attrs = Final
      /\ Addresses!InForce = Final /\ attrs.duration = Outer.duration
  BY <1>2, <1>3 DEF ExpandedAfter
<1>5. /\ Addresses!total_number \in Nat
      /\ Addresses!Numbered = (lo + 1)..(lo + Addresses!total_number)
  BY <1>p, <1>3, ExpandedAre
<1>6. n = Addresses!total_number
  <2> DEFINE N == Addresses!total_number
  <2> HIDE DEF N
  <2>1. N \in Nat /\ Addresses!Numbered = (lo + 1)..(lo + N)
    BY <1>5 DEF N
  <2>2. Cardinality((lo + 1)..(lo + N)) = N
    <3>1. lo + 1 \in Int /\ lo + N \in Int
      BY <2>1
    <3>2. Cardinality((lo + 1)..(lo + N)) =
            IF lo + 1 > lo + N THEN 0 ELSE (lo + N) - (lo + 1) + 1
      BY <3>1, FS_Interval
    <3> QED
      BY <2>1, <3>2
  <2>3. n = N
    BY <2>1, <2>2, CountingIs, Zenon
  <2> QED
    BY <2>3 DEF N
<1>7. Final.timescale = Addresses!Innermost("timescale", 1)
  BY <1>1, <1>p, FinalScale
<1>8. /\ Addresses!ticks = d /\ Addresses!scale = Final.timescale /\ Final.timescale > 0
      /\ d \in Nat
  <2>1. d \in Nat /\ d # -1 /\ d > 0
    BY <1>1, <1>4, <1>p, <1>d, NumberTypes
  <2>2. Final.timescale # 0
    <3>1. ~(/\ DOMAIN fragments = 1..(lo + 1)
            /\ fragments[lo + 1] = Addresses!F("timeline", Final.media, -1))
      <4> SUFFICES ASSUME DOMAIN fragments = 1..(lo + 1),
                          fragments[lo + 1] = Addresses!F("timeline", Final.media, -1)
                   PROVE  FALSE
        OBVIOUS
      <4>1. fragments[lo + 1].what = "timeline" /\ lo + 1 \in DOMAIN fragments
        BY DEF Addresses!F
      <4>2. lo + 1 \in Addresses!Templated /\ lo + 1 \notin Addresses!Numbered
        BY <4>1 DEF Addresses!Templated, Addresses!Numbered
      <4> QED
        BY <1>p, <4>2
    <3> QED
      BY <1>3, <2>1, <3>1 DEF ExpandedAfter
  <2>3. Final.timescale \in Nat
    BY <1>1, AttributeTypes DEF Attributes
  <2> QED
    BY <1>4, <2>1, <2>2, <2>3 DEF Addresses!ticks, Addresses!scale, Addresses!Absent
<1>9. length = Addresses!period_duration_secs * Addresses!scale
  BY <1>7, <1>8 DEF Addresses!Length
<1>10. Addresses!period_duration_secs \in Nat
  <2>1. Addresses!period_duration_secs \in Nat \cup {-1}
    BY <1>1, <1>4, NumberTypes
  <2> QED
    BY <1>p, <2>1
<1>11. Addresses!total_number = Addresses!Quotient
  BY <1>8, <1>10, <1>e, <1>p, <1>d DEF Addresses!total_number, Addresses!Absent
<1> HIDE DEF length, d
<1>12. LET q == Addresses!Quotient
       IN  /\ q \in Nat /\ d \in Nat
           /\ Addresses!subs => q * d >= length /\ (q - 1) * d < length
           /\ ~Addresses!subs => 2 * (q * d - length) <= d /\ 2 * (length - q * d) <= d
  BY <1>1, <1>4, <1>8, <1>9, <1>10, <1>p, <1>d, QuotientIs
<1>13. Addresses!PlannedLength = n * d /\ n = Addresses!Quotient
  BY <1>6, <1>11, <1>d DEF Addresses!PlannedLength
<1> HIDE DEF n
<1>14. (n - 1) * d = n * d - d
  BY <1>12, <1>13, OneLess
<1> QED
  BY <1>12, <1>13, <1>14, <1>d

(* Wherever in a manifest the attributes of templates are given, audio and  *)
(* video are planned from those of the innermost elements that have them,   *)
(* in order, from the init segment on (fetch.rs:2452-2454).                 *)
THEOREM InnermostAttributesCount ==
  ASSUME Addresses!AddressingAssumption
  PROVE  Spec => []MostSpecific
<1> DEFINE Inv == procedure = "address" => AddressInv
<1>1. Init => Inv
  BY AddressInit DEF Init
<1>2. Inv /\ [Next]_vars => Inv'
  BY AddressStep DEF Next, vars, addressVars, Addresses!vars
<1>3. Inv => MostSpecific
  BY MostSpecificHolds DEF MostSpecific
<1> QED
  BY <1>1, <1>2, <1>3, PTL DEF Spec

(* However long a period and its segments are, in whatever timescale, as    *)
(* many segments are planned from a template's @duration as make up the     *)
(* period, to half a segment, or cover it for subtitles (fetch.rs:2825,     *)
(* 3815), the timescale being that of the innermost element that has one,   *)
(* which for subtitles has to be the template's own.                        *)
THEOREM PeriodIsCovered ==
  ASSUME Addresses!AddressingAssumption
  PROVE  Spec => []CoversPeriod
<1> DEFINE Inv == procedure = "address" => AddressInv
<1>1. Init => Inv
  BY AddressInit DEF Init
<1>2. Inv /\ [Next]_vars => Inv'
  BY AddressStep DEF Next, vars, addressVars, Addresses!vars
<1>3. Inv => CoversPeriod
  BY CoversPeriodHolds DEF CoversPeriod
<1> QED
  BY <1>1, <1>2, <1>3, PTL DEF Spec

-----------------------------------------------------------------------------
(* Base URLs: what a chain of references leads to.                         *)

(* A set of numbers up to n has a largest member.                           *)
LEMMA LargestIs ==
  ASSUME NEW n \in Nat, NEW S, S \subseteq 1..n, S # {}
  PROVE  Request!Largest(S) \in S /\ \A x \in S : x <= Request!Largest(S)
<1> DEFINE T == {m \in Nat : n - m \in S}
<1>1. T # {}
  <2>1. PICK x \in S : TRUE
    OBVIOUS
  <2>2. n - x \in Nat /\ n - (n - x) = x
    BY <2>1
  <2> QED
    BY <2>2
<1>2. PICK m \in T : \A k \in T : m <= k
  <2>1. T \subseteq Nat
    OBVIOUS
  <2> HIDE DEF T
  <2> QED
    BY <1>1, <2>1, LeastNumber
<1>3. \A x \in S : x <= n - m
  <2> TAKE x \in S
  <2>1. n - x \in Nat /\ n - (n - x) = x
    OBVIOUS
  <2>2. m <= n - x
    BY <1>2, <2>1
  <2> QED
    BY <1>2, <2>2
<1>4. \E x \in S : \A y \in S : y <= x
  BY <1>2, <1>3
<1> QED
  BY <1>4, Zenon DEF Request!Largest

(* It is the only one.                                                      *)
LEMMA LargestIsOnly ==
  ASSUME NEW n \in Nat, NEW S, S \subseteq 1..n, NEW x \in S, \A y \in S : y <= x
  PROVE  Request!Largest(S) = x
<1> DEFINE m == Request!Largest(S)
<1>1. m \in S /\ \A y \in S : y <= m
  BY LargestIs
<1> HIDE DEF m
<1>2. m \in Int /\ x \in Int /\ x <= m /\ m <= x
  BY <1>1
<1>3. m = x
  BY <1>2
<1> QED
  BY <1>3 DEF m

(* The directory that a chain's references lead to, one after the other.    *)
IsDown(w, chain, from, n) ==
  w = [j \in from..n |->
         IF j = from THEN chain[j].place ELSE Request!Directory([place |-> w[j - 1]]) \o chain[j].place]

(* They lead somewhere.                                                     *)
LEMMA DownExists ==
  ASSUME NEW chain, NEW from \in Nat, NEW n \in Nat, from <= n
  PROVE  \E w : IsDown(w, chain, from, n)
<1> DEFINE T == {m \in Nat : \E w : IsDown(w, chain, from, from + m)}
<1>1. 0 \in T
  <2> DEFINE w == [j \in from..(from + 0) |-> chain[j].place]
  <2>1. IsDown(w, chain, from, from + 0)
    BY DEF IsDown
  <2> QED
    BY <2>1
<1>2. ASSUME NEW m \in Nat, m \in T PROVE m + 1 \in T
  <2>1. PICK w : IsDown(w, chain, from, from + m)
    BY <1>2
  <2> DEFINE u == [j \in from..(from + (m + 1)) |->
                     IF j = from + (m + 1) THEN Request!Directory([place |-> w[from + m]]) \o chain[j].place
                     ELSE w[j]]
  <2>2. ASSUME NEW j \in from..(from + (m + 1))
        PROVE  u[j] = IF j = from THEN chain[j].place
                      ELSE Request!Directory([place |-> u[j - 1]]) \o chain[j].place
    <3>1. CASE j = from + (m + 1)
      <4>1. j # from /\ j - 1 = from + m /\ j - 1 \in from..(from + (m + 1)) /\ j - 1 # from + (m + 1)
        BY <3>1
      <4>2. u[j - 1] = w[from + m]
        BY <4>1
      <4> QED
        BY <3>1, <4>1, <4>2
    <3>2. CASE j # from + (m + 1)
      <4>1. j \in from..(from + m) /\ u[j] = w[j]
        BY <3>2
      <4>2. j # from => /\ j - 1 \in from..(from + (m + 1)) /\ j - 1 # from + (m + 1)
                        /\ u[j - 1] = w[j - 1]
        BY <3>2
      <4>3. w[j] = IF j = from THEN chain[j].place
                   ELSE Request!Directory([place |-> w[j - 1]]) \o chain[j].place
        BY <2>1, <4>1 DEF IsDown
      <4> HIDE DEF u
      <4> QED
        BY <4>1, <4>2, <4>3
    <3> QED
      BY <3>1, <3>2
  <2>3. u = [j \in from..(from + (m + 1)) |->
               IF j = from THEN chain[j].place
               ELSE Request!Directory([place |-> u[j - 1]]) \o chain[j].place]
    BY <2>2
  <2> HIDE DEF u
  <2>4. IsDown(u, chain, from, from + (m + 1))
    BY <2>3 DEF IsDown
  <2> QED
    BY <2>4
<1> HIDE DEF T
<1>3. n - from \in T
  BY <1>1, <1>2, EveryNumber
<1>4. from + (n - from) = n
  OBVIOUS
<1> QED
  BY <1>3, <1>4 DEF T

(* References that are not yet reached make no difference.                  *)
LEMMA DownIsOne ==
  ASSUME NEW c, NEW d, NEW w, NEW u, NEW from \in Nat, NEW n \in Nat, NEW m \in Nat,
         from <= n, n <= m, \A j \in from..n : c[j] = d[j],
         IsDown(w, c, from, n), IsDown(u, d, from, m)
  PROVE  \A j \in from..n : w[j] = u[j]
<1>w. \A j \in from..n : w[j] = IF j = from THEN c[j].place
                                ELSE Request!Directory([place |-> w[j - 1]]) \o c[j].place
  BY DEF IsDown
<1>u. \A j \in from..m : u[j] = IF j = from THEN d[j].place
                                ELSE Request!Directory([place |-> u[j - 1]]) \o d[j].place
  BY DEF IsDown
<1> DEFINE T == {k \in Nat : from + k <= n => w[from + k] = u[from + k]}
<1>1. 0 \in T
  <2>1. from + 0 = from /\ from \in from..n /\ from \in from..m
    OBVIOUS
  <2>2. w[from] = c[from].place /\ u[from] = d[from].place /\ c[from] = d[from]
    BY <1>w, <1>u, <2>1
  <2> QED
    BY <2>1, <2>2
<1>2. ASSUME NEW k \in Nat, k \in T PROVE k + 1 \in T
  <2> SUFFICES ASSUME from + (k + 1) <= n PROVE w[from + (k + 1)] = u[from + (k + 1)]
    OBVIOUS
  <2> DEFINE j == from + (k + 1)
  <2>1. j \in from..n /\ j \in from..m /\ j # from /\ j - 1 = from + k /\ from + k <= n
    OBVIOUS
  <2>2. w[j - 1] = u[j - 1]
    BY <1>2, <2>1
  <2> HIDE DEF j
  <2>3. /\ w[j] = Request!Directory([place |-> w[j - 1]]) \o c[j].place
        /\ u[j] = Request!Directory([place |-> u[j - 1]]) \o d[j].place /\ c[j] = d[j]
    BY <1>w, <1>u, <2>1
  <2>4. w[j] = u[j]
    BY <2>2, <2>3
  <2> QED
    BY <2>4 DEF j
<1> HIDE DEF T
<1>3. Nat \subseteq T
  BY <1>1, <1>2, EveryNumber
<1>4. ASSUME NEW j \in from..n PROVE w[j] = u[j]
  <2>1. j - from \in Nat /\ from + (j - from) = j /\ j <= n
    OBVIOUS
  <2>2. j - from \in T
    BY <1>3, <2>1
  <2> QED
    BY <2>1, <2>2 DEF T
<1> QED
  BY <1>4

(* A chain of references that starts with an absolute one.                  *)
IsChain(chain) ==
  chain \in Seq(Request!Reference) /\ chain # << >> /\ chain[1].form = "absolute"

(* The parts of what is meant by a chain.                                   *)
FromOf(chain) == Request!Largest({j \in DOMAIN chain : chain[j].form = "absolute"})
QueriesOf(chain) == {j \in FromOf(chain)..Len(chain) : chain[j].query # "none"}

(* What is meant by a chain, by its parts.                                  *)
LEMMA MeantIs ==
  ASSUME NEW chain, IsChain(chain)
  PROVE  /\ FromOf(chain) \in 1..Len(chain) /\ Len(chain) \in Nat
         /\ chain[FromOf(chain)].form = "absolute"
         /\ \A j \in 1..Len(chain) : chain[j].form = "absolute" => j <= FromOf(chain)
         /\ QueriesOf(chain) # {} => /\ Request!Largest(QueriesOf(chain)) \in QueriesOf(chain)
                                     /\ \A j \in QueriesOf(chain) : j <= Request!Largest(QueriesOf(chain))
         /\ \E down : /\ IsDown(down, chain, FromOf(chain), Len(chain))
                      /\ Request!Meant(chain) =
                           [place |-> down[Len(chain)],
                            query |-> IF QueriesOf(chain) = {} THEN "none"
                                      ELSE chain[Request!Largest(QueriesOf(chain))].query]
<1> DEFINE S == {j \in DOMAIN chain : chain[j].form = "absolute"}
           n == Len(chain)
           from == FromOf(chain)
           Q == QueriesOf(chain)
           down == CHOOSE w : w = [j \in from..n |->
                     IF j = from THEN chain[j].place
                     ELSE Request!Directory([place |-> w[j - 1]]) \o chain[j].place]
<1>1. n \in Nat /\ DOMAIN chain = 1..n /\ 1 \in S
  BY DEF IsChain
<1>2. S \subseteq 1..n /\ S # {}
  BY <1>1
<1>3. from = Request!Largest(S)
  BY DEF FromOf
<1>4. from \in S /\ \A j \in S : j <= from
  <2> HIDE DEF S, from
  <2> QED
    BY <1>1, <1>2, <1>3, LargestIs
<1>5. from \in 1..n /\ chain[from].form = "absolute"
  BY <1>1, <1>4
<1>6. Q \subseteq 1..n
  BY <1>1, <1>5 DEF QueriesOf
<1>7. Q # {} => Request!Largest(Q) \in Q /\ \A j \in Q : j <= Request!Largest(Q)
  <2> HIDE DEF Q
  <2> QED
    BY <1>1, <1>6, LargestIs
<1>8. IsDown(down, chain, from, n)
  <2> HIDE DEF from, n
  <2>1. \E w : IsDown(w, chain, from, n)
    <3>1. n \in Nat /\ from \in Nat /\ from <= n
      BY <1>1, <1>5
    <3> QED
      BY <3>1, DownExists, Zenon
  <2>2. \E w : w = [j \in from..n |->
                     IF j = from THEN chain[j].place
                     ELSE Request!Directory([place |-> w[j - 1]]) \o chain[j].place]
    BY <2>1, Zenon DEF IsDown
  <2>3. down = [j \in from..n |->
                     IF j = from THEN chain[j].place
                     ELSE Request!Directory([place |-> down[j - 1]]) \o chain[j].place]
    BY <2>2, Zenon
  <2> HIDE DEF down
  <2> QED
    BY <2>3, Zenon DEF IsDown
<1>9. Request!Meant(chain) =
        [place |-> down[n],
         query |-> IF Q = {} THEN "none" ELSE chain[Request!Largest(Q)].query]
  BY Zenon DEF Request!Meant, FromOf, QueriesOf
<1>10. \A j \in 1..n : chain[j].form = "absolute" => j <= from
  BY <1>1, <1>4
<1> HIDE DEF down
<1> QED
  BY <1>1, <1>5, <1>7, <1>8, <1>9, <1>10

(* A chain with one more reference means what merging that into the URL     *)
(* meant before gives.                                                      *)
LEMMA MeantOfMore ==
  ASSUME NEW chain, IsChain(chain), NEW ref \in Request!Reference
  PROVE  /\ IsChain(Append(chain, ref))
         /\ Request!Meant(Append(chain, ref)) = Request!merge_baseurls(Request!Meant(chain), ref)
<1> DEFINE more == Append(chain, ref)
           n == Len(chain)
           from == FromOf(chain)
           from2 == FromOf(more)
           Q == QueriesOf(chain)
           Q2 == QueriesOf(more)
<1>1. /\ IsChain(more) /\ n \in Nat /\ Len(more) = n + 1
      /\ \A j \in 1..n : more[j] = chain[j]
      /\ more[n + 1] = ref
  BY DEF IsChain
<1>2. /\ from \in 1..n /\ chain[from].form = "absolute"
      /\ \A j \in 1..n : chain[j].form = "absolute" => j <= from
      /\ Q # {} => Request!Largest(Q) \in Q /\ \A j \in Q : j <= Request!Largest(Q)
  BY MeantIs
<1>3. PICK down :
        /\ IsDown(down, chain, from, n)
        /\ Request!Meant(chain) =
             [place |-> down[n],
              query |-> IF Q = {} THEN "none" ELSE chain[Request!Largest(Q)].query]
  BY MeantIs
<1>4. /\ from2 \in 1..(n + 1) /\ more[from2].form = "absolute"
      /\ \A j \in 1..(n + 1) : more[j].form = "absolute" => j <= from2
  <2> HIDE DEF more
  <2> QED
    BY <1>1, MeantIs
<1>5. PICK down2 :
        /\ IsDown(down2, more, from2, n + 1)
        /\ Request!Meant(more) =
             [place |-> down2[n + 1],
              query |-> IF Q2 = {} THEN "none" ELSE more[Request!Largest(Q2)].query]
  <2> HIDE DEF more
  <2> QED
    BY <1>1, MeantIs
<1>6. /\ Q = {j \in from..n : chain[j].query # "none"}
      /\ Q2 = {j \in from2..(n + 1) : more[j].query # "none"}
  BY <1>1 DEF QueriesOf
<1> HIDE DEF more, n, from, from2, Q, Q2
<1>7. CASE ref.form = "absolute"
  <2>1. n + 1 \in 1..(n + 1)
    BY <1>1
  <2>2. n + 1 <= from2
    BY <1>1, <1>4, <1>7, <2>1
  <2>3. from2 = n + 1
    BY <1>1, <1>4, <2>2
  <2>4. down2[n + 1] = ref.place
    BY <1>1, <1>5, <2>3 DEF IsDown
  <2>5. ref.query = "none" => Q2 = {}
    BY <1>1, <1>6, <2>3
  <2>6. ref.query # "none" => Q2 # {} /\ Request!Largest(Q2) = n + 1
    <3> SUFFICES ASSUME ref.query # "none" PROVE Q2 # {} /\ Request!Largest(Q2) = n + 1
      OBVIOUS
    <3>1. Q2 = {n + 1}
      BY <1>1, <1>6, <2>3
    <3>2. n + 1 \in Nat /\ Q2 \subseteq 1..(n + 1) /\ n + 1 \in Q2 /\ \A j \in Q2 : j <= n + 1
      BY <1>1, <3>1
    <3> QED
      BY <3>2, LargestIsOnly
  <2>7. (IF Q2 = {} THEN "none" ELSE more[Request!Largest(Q2)].query) = ref.query
    BY <1>1, <2>5, <2>6
  <2>8. Request!Meant(more) = [place |-> ref.place, query |-> ref.query]
    BY <1>5, <2>4, <2>7
  <2> QED
    BY <1>1, <1>7, <2>8 DEF Request!merge_baseurls, more
<1>8. CASE ref.form # "absolute"
  <2>1. from2 = from
    <3>1. from2 # n + 1
      BY <1>1, <1>4, <1>8
    <3>2. from2 \in 1..n /\ from \in 1..(n + 1)
      BY <1>1, <1>2, <1>4, <3>1
    <3>3. from2 <= from /\ from <= from2
      BY <1>1, <1>2, <1>4, <3>2
    <3> QED
      BY <3>2, <3>3
  <2>2. down2[n] = down[n]
    <3>1. \A j \in from..n : chain[j] = more[j]
      BY <1>1, <1>2
    <3>2. from \in Nat /\ n + 1 \in Nat /\ from <= n /\ n <= n + 1 /\ n \in from..n
      BY <1>1, <1>2
    <3>3. IsDown(down2, more, from, n + 1)
      BY <1>5, <2>1
    <3>4. n \in Nat /\ IsDown(down, chain, from, n)
      BY <1>1, <1>3
    <3>5. \A j \in from..n : down[j] = down2[j]
      BY <3>1, <3>2, <3>3, <3>4, DownIsOne, SMTT(30)
    <3> QED
      BY <3>2, <3>5
  <2>3. down2[n + 1] = Request!Directory([place |-> down[n]]) \o ref.place
    <3>1. n + 1 \in from..(n + 1) /\ n + 1 # from /\ (n + 1) - 1 = n
      BY <1>1, <1>2
    <3>2. down2[n + 1] = Request!Directory([place |-> down2[(n + 1) - 1]]) \o more[n + 1].place
      BY <1>5, <2>1, <3>1 DEF IsDown
    <3> QED
      BY <1>1, <2>2, <3>1, <3>2
  <2>4. Request!Directory([place |-> down[n]]) = Request!Directory(Request!Meant(chain))
    BY <1>3 DEF Request!Directory
  <2>5. CASE ref.query = "none"
    <3>1. Q2 = Q
      <4>1. \A j \in from..(n + 1) : j = n + 1 \/ j \in from..n
        BY <1>1, <1>2
      <4>2. \A j \in from..n : j \in from..(n + 1) /\ more[j] = chain[j]
        BY <1>1, <1>2
      <4> QED
        BY <1>1, <1>6, <2>1, <2>5, <4>1, <4>2
    <3>2. Q # {} => Request!Largest(Q) \in 1..n
      <4>1. Q \subseteq 1..n
        BY <1>1, <1>2, <1>6
      <4> QED
        BY <1>2, <4>1
    <3>3. (IF Q2 = {} THEN "none" ELSE more[Request!Largest(Q2)].query) = Request!Meant(chain).query
      BY <1>1, <1>3, <3>1, <3>2
    <3> QED
      BY <1>1, <1>5, <1>8, <2>3, <2>4, <2>5, <3>3 DEF Request!merge_baseurls, more
  <2>6. CASE ref.query # "none"
    <3>1. n + 1 \in Q2
      BY <1>1, <1>2, <1>6, <2>1, <2>6
    <3>2. n + 1 \in Nat /\ Q2 \subseteq 1..(n + 1) /\ \A j \in Q2 : j <= n + 1
      BY <1>1, <1>4, <1>6
    <3>3. Request!Largest(Q2) = n + 1
      BY <3>1, <3>2, LargestIsOnly
    <3>4. (IF Q2 = {} THEN "none" ELSE more[Request!Largest(Q2)].query) = ref.query
      BY <1>1, <3>1, <3>3
    <3> QED
      BY <1>1, <1>5, <1>8, <2>3, <2>4, <2>6, <3>4 DEF Request!merge_baseurls, more
  <2> QED
    BY <2>5, <2>6
<1> QED
  BY <1>7, <1>8

(* A URL, as a chain, means itself.                                         *)
LEMMA MeantOfOne ==
  ASSUME NEW url \in Request!URL
  PROVE  LET chain == <<[form |-> "absolute", place |-> url.place, query |-> url.query]>>
         IN  IsChain(chain) /\ Request!Meant(chain) = url
<1> DEFINE ref == [form |-> "absolute", place |-> url.place, query |-> url.query]
           chain == <<ref>>
<1>1. ref \in Request!Reference /\ ref.form = "absolute" /\ ref.place = url.place /\ ref.query = url.query
  BY DEF Request!Reference, Request!URL
<1> HIDE DEF ref
<1>2. IsChain(chain) /\ Len(chain) = 1 /\ chain[1] = ref
  BY <1>1 DEF IsChain
<1> HIDE DEF chain
<1>3. FromOf(chain) = 1
  <2>1. FromOf(chain) \in 1..1
    BY <1>2, MeantIs
  <2> QED
    BY <2>1
<1>4. PICK down : /\ IsDown(down, chain, 1, 1)
                  /\ Request!Meant(chain) =
                       [place |-> down[1],
                        query |-> IF QueriesOf(chain) = {} THEN "none"
                                  ELSE chain[Request!Largest(QueriesOf(chain))].query]
  BY <1>2, <1>3, MeantIs
<1>5. down[1] = url.place
  BY <1>1, <1>2, <1>4 DEF IsDown
<1>6. QueriesOf(chain) = {j \in 1..1 : chain[j].query # "none"}
  BY <1>2, <1>3 DEF QueriesOf
<1>7. (IF QueriesOf(chain) = {} THEN "none" ELSE chain[Request!Largest(QueriesOf(chain))].query) = url.query
  <2>1. QueriesOf(chain) # {} => Request!Largest(QueriesOf(chain)) \in QueriesOf(chain)
    BY <1>2, MeantIs
  <2>2. QueriesOf(chain) # {} => Request!Largest(QueriesOf(chain)) = 1
    BY <1>6, <2>1
  <2>3. QueriesOf(chain) = {} => url.query = "none"
    BY <1>1, <1>2, <1>6
  <2> QED
    BY <1>1, <1>2, <2>2, <2>3
<1>8. url = [place |-> url.place, query |-> url.query]
  BY DEF Request!URL
<1>9. Request!Meant(chain) = url
  BY <1>4, <1>5, <1>7, <1>8
<1> QED
  BY <1>2, <1>9 DEF chain, ref

(* The first of some references, if there is one, leads on from what a      *)
(* chain means.                                                             *)
LEMMA MeantOfFirst ==
  ASSUME NEW chain, IsChain(chain), NEW refs \in Seq(Request!Reference)
  PROVE  /\ IsChain(chain \o Request!First(refs))
         /\ Request!Meant(chain \o Request!First(refs)) = Request!Merged(Request!Meant(chain), refs)
<1>1. CASE refs = << >>
  <2>1. Request!First(refs) = << >> /\ chain \o << >> = chain
    BY <1>1 DEF Request!First, IsChain
  <2> QED
    BY <1>1, <2>1 DEF Request!Merged
<1>2. CASE refs # << >>
  <2>1. Request!First(refs) = <<refs[1]>> /\ refs[1] \in Request!Reference
    BY <1>2 DEF Request!First
  <2>2. chain \o <<refs[1]>> = Append(chain, refs[1])
    BY <2>1 DEF IsChain
  <2>3. /\ IsChain(Append(chain, refs[1]))
        /\ Request!Meant(Append(chain, refs[1])) = Request!merge_baseurls(Request!Meant(chain), refs[1])
    BY <2>1, MeantOfMore
  <2> QED
    BY <1>2, <2>1, <2>2, <2>3 DEF Request!Merged
<1> QED
  BY <1>1, <1>2

(* The directory of a URL is a sequence of names.                           *)
LEMMA DirectoryType ==
  ASSUME NEW url \in Request!URL
  PROVE  Request!Directory(url) \in Seq(STRING)
<1>1. url.place \in Seq(STRING)
  BY DEF Request!URL
<1>2. \A i \in 1..(Len(url.place) - 1) : url.place[i] \in STRING
  BY <1>1
<1>3. SubSeq(url.place, 1, Len(url.place) - 1) \in Seq(STRING)
  BY <1>1, <1>2, SubSeqProperties
<1> QED
  BY <1>3 DEF Request!Directory

(* Merging gives URLs.                                                      *)
LEMMA MergedType ==
  ASSUME NEW url \in Request!URL, NEW refs \in Seq(Request!Reference)
  PROVE  Request!Merged(url, refs) \in Request!URL
<1>1. CASE refs = << >>
  BY <1>1 DEF Request!Merged
<1>2. CASE refs # << >>
  <2> DEFINE ref == refs[1]
             d == Request!Directory(url)
  <2>1. ref \in Request!Reference /\ d \in Seq(STRING)
    BY <1>2, DirectoryType
  <2>2. Request!Merged(url, refs) = Request!merge_baseurls(url, ref)
    BY <1>2 DEF Request!Merged
  <2> HIDE DEF ref, d
  <2>3. d \o ref.place \in Seq(STRING)
    BY <2>1 DEF Request!Reference
  <2>4. Request!merge_baseurls(url, ref) \in Request!URL
    BY <2>1, <2>3 DEF Request!merge_baseurls, Request!URL, Request!Reference, d
  <2> QED
    BY <2>2, <2>4
<1> QED
  BY <1>1, <1>2

(* A reference without directories of its own leads no further the second   *)
(* time.                                                                    *)
LEMMA MergedTwice ==
  ASSUME NEW url \in Request!URL, NEW refs \in Seq(Request!Reference), refs # << >>,
         refs[1].form = "absolute" \/ Len(refs[1].place) = 1
  PROVE  Request!Merged(Request!Merged(url, refs), refs) = Request!Merged(url, refs)
<1> DEFINE ref == refs[1]
           once == Request!merge_baseurls(url, ref)
<1>1. /\ ref \in Request!Reference /\ Request!Merged(url, refs) = once
      /\ Request!Merged(once, refs) = Request!merge_baseurls(once, ref)
  BY DEF Request!Merged
<1>2. CASE ref.form = "absolute"
  BY <1>1, <1>2 DEF Request!merge_baseurls
<1>3. CASE ref.form # "absolute"
  <2> DEFINE d == Request!Directory(url)
             place == d \o ref.place
  <2>1. d \in Seq(STRING) /\ ref.place \in Seq(STRING) /\ Len(ref.place) = 1
    BY <1>1, <1>3, DirectoryType DEF Request!Reference
  <2>2. once = [place |-> place, query |-> IF ref.query = "none" THEN url.query ELSE ref.query]
    BY <1>3 DEF Request!merge_baseurls
  <2> HIDE DEF ref, d
  <2>3. Len(place) = Len(d) + 1 /\ place \in Seq(STRING) /\ \A i \in 1..Len(d) : place[i] = d[i]
    <3> DEFINE e == ref.place
    <3>1. d \in Seq(STRING) /\ e \in Seq(STRING) /\ Len(e) = 1
      BY <2>1
    <3> HIDE DEF e
    <3>2. /\ d \o e \in Seq(STRING) /\ Len(d \o e) = Len(d) + Len(e)
          /\ \A i \in 1..(Len(d) + Len(e)) : (d \o e)[i] = IF i <= Len(d) THEN d[i] ELSE e[i - Len(d)]
      BY <3>1, ConcatProperties
    <3>3. Len(d) \in Nat
      BY <3>1
    <3> QED
      BY <3>1, <3>2, <3>3 DEF e
  <2> HIDE DEF place, once
  <2>4. SubSeq(place, 1, Len(place) - 1) = d
    <3> DEFINE front == SubSeq(place, 1, Len(place) - 1)
    <3>0. Len(d) \in Nat /\ Len(place) - 1 = Len(d)
      BY <2>1, <2>3
    <3>1. \A i \in 1..(Len(place) - 1) : place[i] \in STRING
      BY <2>3, <3>0
    <3>2. /\ front \in Seq(STRING)
          /\ Len(front) = IF 1 <= Len(d) THEN Len(d) - 1 + 1 ELSE 0
          /\ \A i \in 1..(Len(d) - 1 + 1) : front[i] = place[1 + i - 1]
      BY <2>3, <3>0, <3>1, SubSeqProperties
    <3> HIDE DEF front
    <3>3. front \in Seq(STRING) /\ Len(front) = Len(d) /\ \A i \in 1..Len(d) : front[i] = d[i]
      BY <2>3, <3>0, <3>2
    <3>4. front = d
      BY <2>1, <3>3
    <3> QED
      BY <3>4 DEF front
  <2>5. Request!Directory(once) = d
    BY <2>2, <2>4 DEF Request!Directory
  <2>6. Request!merge_baseurls(once, ref) = once
    BY <1>3, <2>2, <2>5 DEF Request!merge_baseurls, place
  <2> QED
    BY <1>1, <2>6
<1> QED
  BY <1>2, <1>3

-----------------------------------------------------------------------------
(* Base URLs: what the streams have.                                       *)

(* The chain of references above all streams, and that above those of a     *)
(* period.                                                                  *)
TopRefs == IF setting.base # << >> THEN setting.base ELSE mpd.base
SourceChain == <<[form |-> "absolute", place |-> source.place, query |-> source.query]>>
TopChain == SourceChain \o Request!First(TopRefs)
PeriodChain(k) == TopChain \o Request!First(mpd.periods[k].base)
AdaptationChain(k, kind) == PeriodChain(k) \o Request!First(mpd.periods[k].streams[kind].adaptation)

Places == Request!URL \cup {Request!NoURL}
Plans == [Request!Kinds -> [base : Places, file : Places]]

(* How far the manifest is worked through.                                  *)
InStream == {"audio", "video", "subs"}
Before == {"request", "parse", "links", "style", "manifest"}

BaseInv ==
  /\ target \in Request!URL
  /\ redirected_url \in Request!URL
  /\ planned \in Seq(Plans)
  /\ pc \in Before => planned = << >> /\ period_counter = 0
  /\ pc \in Request!Planning =>
       /\ period_counter \in 0..Len(mpd.periods) /\ Len(planned) = period_counter
       /\ toplevel_base_url \in Request!URL /\ toplevel_base_url = Request!Meant(TopChain)
       /\ IsChain(TopChain)
  /\ pc \in InStream =>
       /\ period_counter \in 1..Len(mpd.periods)
       /\ base_url \in Request!URL /\ base_url = Request!Meant(PeriodChain(period_counter))
       /\ IsChain(PeriodChain(period_counter))
  /\ Request!BaseResolved

(* At the start nothing is planned.                                         *)
LEMMA BaseInit ==
  ASSUME Request!ManifestFetchAssumption, Request!Init
  PROVE  BaseInv
<1>1. setting.url \in Request!URL
  BY DEF Request!Init, Request!ManifestFetchAssumption, Request!Setting
<1>2. planned = << >> /\ << >> \in Seq(Plans)
  BY DEF Request!Init
<1>3. Request!BaseResolved
  BY <1>2 DEF Request!BaseResolved
<1> QED
  BY <1>1, <1>2, <1>3 DEF BaseInv, Request!Init, Before, InStream, Request!Planning

(* The manifest in hand is one, and so are its parts.                       *)
LEMMA ManifestParts ==
  ASSUME Request!ManifestFetchAssumption, IInv, pc \in HasBeenReceived
  PROVE  /\ mpd \in Request!Document /\ redirected_url = source
         /\ TopRefs \in Seq(Request!Reference) /\ setting.fetch \subseteq Request!Kinds
         /\ \A k \in 1..Len(mpd.periods) : /\ mpd.periods[k].base \in Seq(Request!Reference)
                                           /\ \A kind \in Request!Kinds :
                                                mpd.periods[k].streams[kind] \in Request!Stream
<1>1. /\ redirected_url = source /\ mpd = Request!Without(web[source.place], Request!Applied)
      /\ source.place \in DOMAIN web
  BY DEF IInv, InForce
<1>2. web[source.place] \in Request!Document
  BY <1>1, WebHasDocuments DEF IInv
<1>3. mpd \in Request!Document
  BY <1>1, <1>2, WithoutKeepsLinks
<1>4. setting.base \in Seq(Request!Reference) /\ setting.fetch \subseteq Request!Kinds
  BY DEF IInv, Control, Request!ManifestFetchAssumption, Request!Setting
<1>5. mpd.base \in Seq(Request!Reference) /\ mpd.periods \in Seq(Request!Period)
  BY <1>3 DEF Request!Document
<1>6. \A k \in 1..Len(mpd.periods) : mpd.periods[k] \in Request!Period
  BY <1>5
<1>7. TopRefs \in Seq(Request!Reference)
  BY <1>4, <1>5 DEF TopRefs
<1>8. \A p \in Request!Period : /\ p.base \in Seq(Request!Reference)
                                /\ \A kind \in Request!Kinds : p.streams[kind] \in Request!Stream
  BY DEF Request!Period
<1> QED
  BY <1>1, <1>3, <1>4, <1>6, <1>7, <1>8

(* What a URL is meant to be depends on the manifest and the call alone.    *)
LEMMA SameChains ==
  ASSUME UNCHANGED <<setting, source, mpd>>
  PROVE  /\ TopRefs' = TopRefs /\ SourceChain' = SourceChain /\ TopChain' = TopChain
         /\ \A k : PeriodChain(k)' = PeriodChain(k)
         /\ \A k, kind : Request!Chain(k, kind)' = Request!Chain(k, kind)
<1>1. TopRefs' = TopRefs /\ SourceChain' = SourceChain /\ TopChain' = TopChain
  BY DEF TopRefs, SourceChain, TopChain, Request!First
<1>2. \A k : PeriodChain(k)' = PeriodChain(k)
  BY <1>1 DEF PeriodChain, Request!First
<1>3. \A k, kind : Request!Chain(k, kind)' = Request!Chain(k, kind)
  BY DEF Request!Chain, Request!First
<1> QED
  BY <1>1, <1>2, <1>3

(* Streams that are planned stay as they were meant.                        *)
LEMMA StillResolved ==
  ASSUME BaseInv, UNCHANGED <<setting, source, mpd, planned>>
  PROVE  Request!BaseResolved'
<1>1. \A k, kind : Request!Chain(k, kind)' = Request!Chain(k, kind)
  BY SameChains
<1>2. \A k, kind : Request!Meant(Request!Chain(k, kind))' = Request!Meant(Request!Chain(k, kind))
  BY <1>1
<1>3. Request!BaseResolved
  BY DEF BaseInv
<1> QED
  BY <1>2, <1>3 DEF Request!BaseResolved, Request!NoURL

(* Until the manifest is read nothing is planned.                           *)
LEMMA BaseEarly ==
  ASSUME planned' = << >>, period_counter' = 0, pc' \in Before \cup {"err"},
         target' \in Request!URL, redirected_url' \in Request!URL
  PROVE  BaseInv'
<1>1. Request!BaseResolved'
  BY DEF Request!BaseResolved
<1>2. << >> \in Seq(Plans)
  OBVIOUS
<1>3. pc' \notin Request!Planning /\ pc' \notin InStream
  BY DEF Before, Request!Planning, InStream
<1> QED
  BY <1>1, <1>2, <1>3 DEF BaseInv

(* So it is when the request fails or is answered, and as the answer is     *)
(* parsed and styled.                                                       *)
LEMMA BaseReceive ==
  ASSUME Request!ManifestFetchAssumption, IInv, BaseInv,
         \/ Request!Retry \/ Request!RequestFails \/ Request!Answer \/ Request!BodyFails
         \/ Request!ReadFile \/ Request!Parse \/ Request!ResolveLinks \/ Request!ApplyStylesheet
         \/ Request!StylesheetFails \/ Request!Read
  PROVE  BaseInv'
<1> USE DEF Request!Goto, Request!Return, Request!request, Request!received, Request!bases
<1>1. /\ pc \in {"request", "parse", "links", "style"}
      /\ UNCHANGED <<planned, period_counter>>
  BY DEF Request!Retry, Request!RequestFails, Request!Answer, Request!BodyFails, Request!ReadFile,
         Request!Parse, Request!ResolveLinks, Request!ApplyStylesheet, Request!StylesheetFails,
         Request!Read, Request!Requesting, Request!Styling
<1>2. planned' = << >> /\ period_counter' = 0
  BY <1>1 DEF BaseInv, Before
<1>3. \A url \in Request!Landing(target) : url \in Request!URL
  BY DEF Request!Landing, BaseInv, Request!ManifestFetchAssumption
<1>4. CASE Request!Retry \/ Request!RequestFails \/ Request!Answer \/ Request!BodyFails
  <2>1. target' = target /\ (redirected_url' = redirected_url \/ redirected_url' \in Request!Landing(target))
    BY <1>4 DEF Request!Retry, Request!RequestFails, Request!Answer, Request!BodyFails
  <2>2. pc' \in Before \cup {"err"}
    BY <1>1, <1>4 DEF Request!Retry, Request!RequestFails, Request!Answer, Request!BodyFails,
          Request!Receive, Before
  <2>3. target' \in Request!URL /\ redirected_url' \in Request!URL
    BY <1>3, <2>1 DEF BaseInv
  <2> QED
    BY <1>2, <2>2, <2>3, BaseEarly
<1>5. CASE \/ Request!ReadFile \/ Request!Parse \/ Request!ResolveLinks
           \/ Request!ApplyStylesheet \/ Request!StylesheetFails
  <2>1. target' = target /\ redirected_url' = redirected_url
    BY <1>5 DEF Request!ReadFile, Request!Parse, Request!ResolveLinks, Request!ApplyStylesheet,
          Request!StylesheetFails, Request!Receive
  <2>2. pc' \in Before \cup {"err"}
    BY <1>1, <1>5 DEF Request!ReadFile, Request!Parse, Request!ResolveLinks,
          Request!ApplyStylesheet, Request!StylesheetFails, Request!Receive, Before
  <2>3. target' \in Request!URL /\ redirected_url' \in Request!URL
    BY <2>1 DEF BaseInv
  <2> QED
    BY <1>2, <2>2, <2>3, BaseEarly
<1>6. CASE Request!Read
  <2>1. /\ pc = "style" /\ redirected_url' = redirected_url /\ pc' \in Before \cup {"err"}
        /\ \/ target' = target
           \/ /\ mpd.locations # << >>
              /\ target' = [place |-> Request!Location.place, query |-> Request!Location.query]
    BY <1>6 DEF Request!Read, Before
  <2>2. mpd.locations \in Seq(Request!Reference)
    BY <2>1, ManifestParts DEF HasBeenReceived, HasBeenLinked, Request!Document
  <2>3. mpd.locations # << >> => Request!Location \in Request!Reference
    BY <2>2 DEF Request!Location
  <2>4. target' \in Request!URL /\ redirected_url' \in Request!URL
    BY <2>1, <2>3 DEF BaseInv, Request!URL, Request!Reference
  <2> QED
    BY <1>2, <2>1, <2>4, BaseEarly
<1> QED
  BY <1>4, <1>5, <1>6

(* The base URL of the manifest is that of the option or of its BaseURL,    *)
(* from where it was found.                                                 *)
LEMMA BaseRead ==
  ASSUME Request!ManifestFetchAssumption, IInv, BaseInv, Request!ReadManifest
  PROVE  BaseInv'
<1>1. /\ pc = "manifest" /\ UNCHANGED <<setting, target, redirected_url, source, mpd, period_counter, planned>>
      /\ \/ pc' = "err"
         \/ pc' = "period" /\ toplevel_base_url' = Request!Merged(redirected_url, TopRefs)
  BY DEF Request!ReadManifest, Request!Goto, Request!Return, Request!request, Request!received, TopRefs
<1>2. /\ planned = << >> /\ period_counter = 0 /\ target \in Request!URL /\ redirected_url \in Request!URL
  BY <1>1 DEF BaseInv, Before
<1>3. CASE pc' = "err"
  BY <1>1, <1>2, <1>3, BaseEarly
<1>4. CASE pc' = "period"
  <2>1. /\ mpd \in Request!Document /\ redirected_url = source /\ TopRefs \in Seq(Request!Reference)
    BY <1>1, ManifestParts DEF HasBeenReceived, HasBeenLinked, HasBeenRead
  <2>2. IsChain(SourceChain) /\ Request!Meant(SourceChain) = source
    BY <1>2, <2>1, MeantOfOne DEF SourceChain
  <2>3. IsChain(TopChain) /\ Request!Meant(TopChain) = Request!Merged(source, TopRefs)
    BY <2>1, <2>2, MeantOfFirst DEF TopChain
  <2>4. Request!Merged(source, TopRefs) \in Request!URL
    BY <1>2, <2>1, MergedType
  <2>5. TopChain' = TopChain
    BY <1>1, SameChains
  <2>6. Request!Meant(TopChain)' = Request!Meant(TopChain)
    BY <2>5
  <2>7. Len(mpd.periods) \in Nat /\ Len(planned) = 0
    BY <1>2, <2>1 DEF Request!Document
  <2>8. Request!BaseResolved'
    BY <1>1, StillResolved
  <2>9. pc' \notin Before /\ pc' \notin InStream
    BY <1>4 DEF Before, InStream
  <2>10. toplevel_base_url' = Request!Meant(TopChain)' /\ toplevel_base_url' \in Request!URL
    BY <1>1, <1>4, <2>1, <2>3, <2>4, <2>6
  <2>11. IsChain(TopChain)'
    BY <2>3, <2>5 DEF IsChain
  <2>12. planned' \in Seq(Plans)
    BY <1>1 DEF BaseInv
  <2> QED
    BY <1>1, <1>2, <2>7, <2>8, <2>9, <2>10, <2>11, <2>12 DEF BaseInv
<1> QED
  BY <1>1, <1>3, <1>4

(* A period starts from the base URL of the manifest, whatever the periods  *)
(* before it had.                                                           *)
LEMMA BasePeriod ==
  ASSUME Request!ManifestFetchAssumption, IInv, BaseInv, Request!NextPeriod
  PROVE  BaseInv'
<1> DEFINE k == period_counter + 1
           refs == mpd.periods[k].base
<1>1. /\ pc = "period" /\ period_counter < Len(mpd.periods)
      /\ UNCHANGED <<setting, target, redirected_url, source, mpd, toplevel_base_url>>
      /\ \/ pc' = "err" /\ UNCHANGED planned
         \/ /\ pc' = "audio" /\ base_url' = Request!Merged(toplevel_base_url, refs)
            /\ period_counter' = k /\ planned' = Append(planned, Request!NothingPlanned)
  BY DEF Request!NextPeriod, Request!Goto, Request!Return, Request!request, Request!received
<1>2. /\ target \in Request!URL /\ redirected_url \in Request!URL /\ planned \in Seq(Plans)
      /\ period_counter \in 0..Len(mpd.periods) /\ Len(planned) = period_counter
      /\ toplevel_base_url \in Request!URL /\ toplevel_base_url = Request!Meant(TopChain)
      /\ IsChain(TopChain) /\ Request!BaseResolved
  BY <1>1 DEF BaseInv, Request!Planning
<1>3. CASE pc' = "err"
  <2>1. Request!BaseResolved' /\ planned' = planned
    BY <1>1, <1>3, StillResolved
  <2> QED
    BY <1>1, <1>2, <1>3, <2>1 DEF BaseInv, Before, InStream, Request!Planning
<1>4. CASE pc' = "audio"
  <2>1. /\ mpd \in Request!Document
        /\ \A j \in 1..Len(mpd.periods) : mpd.periods[j].base \in Seq(Request!Reference)
    BY <1>1, ManifestParts DEF HasBeenReceived, HasBeenLinked, HasBeenRead, Request!Planning
  <2>2. Len(mpd.periods) \in Nat /\ k \in 1..Len(mpd.periods)
    <3>1. mpd.periods \in Seq(Request!Period)
      BY <2>1 DEF Request!Document
    <3>2. Len(mpd.periods) \in Nat
      BY <3>1
    <3> QED
      BY <1>1, <1>2, <3>2
  <2>3. refs \in Seq(Request!Reference)
    BY <2>1, <2>2
  <2>4. /\ IsChain(PeriodChain(k))
        /\ Request!Meant(PeriodChain(k)) = Request!Merged(toplevel_base_url, refs)
    BY <1>2, <2>3, MeantOfFirst DEF PeriodChain
  <2>5. Request!Merged(toplevel_base_url, refs) \in Request!URL
    BY <1>2, <2>3, MergedType
  <2> HIDE DEF refs
  <2>6. TopChain' = TopChain /\ \A j : PeriodChain(j)' = PeriodChain(j)
    BY <1>1, SameChains
  <2>7. PeriodChain(period_counter)' = PeriodChain(k)
    <3>1. period_counter' = k
      BY <1>1, <1>4
    <3> HIDE DEF k
    <3>2. TopChain' \o Request!First(mpd'.periods[period_counter'].base) =
          TopChain \o Request!First(mpd.periods[k].base)
      BY <1>1, <2>6, <3>1
    <3> QED
      BY <3>2 DEF PeriodChain, Request!First
  <2>8. Request!NothingPlanned \in Plans
    BY DEF Request!NothingPlanned, Plans, Places
  <2>9. planned' \in Seq(Plans) /\ Len(planned') = k
    BY <1>1, <1>2, <1>4, <2>8
  <2>10. Request!BaseResolved'
    <3>1. \A j \in DOMAIN planned' :
            (j \in DOMAIN planned /\ planned'[j] = planned[j]) \/ planned'[j] = Request!NothingPlanned
      BY <1>1, <1>2, <1>4, <2>8
    <3>2. \A kind \in setting.fetch : Request!NothingPlanned[kind].base = Request!NoURL
      <4>1. setting.fetch \subseteq Request!Kinds
        BY <1>1, ManifestParts DEF HasBeenReceived, HasBeenLinked, HasBeenRead, Request!Planning
      <4> QED
        BY <4>1 DEF Request!NothingPlanned
    <3>3. \A j, kind : Request!Chain(j, kind)' = Request!Chain(j, kind)
      BY <1>1, SameChains
    <3>4. \A j, kind : Request!Meant(Request!Chain(j, kind))' = Request!Meant(Request!Chain(j, kind))
      BY <3>3
    <3> QED
      BY <1>1, <1>2, <3>1, <3>2, <3>4 DEF Request!BaseResolved, Request!NoURL
  <2>11. Request!Meant(TopChain)' = Request!Meant(TopChain)
         /\ Request!Meant(PeriodChain(period_counter))' = Request!Meant(PeriodChain(k))
    BY <2>6, <2>7
  <2>12. IsChain(TopChain)' /\ IsChain(PeriodChain(period_counter))'
    BY <1>2, <2>4, <2>6, <2>7 DEF IsChain
  <2>13. base_url' \in Request!URL /\ base_url' = Request!Meant(PeriodChain(period_counter))'
    BY <1>1, <1>4, <2>4, <2>5, <2>11
  <2>14. period_counter' = k
    BY <1>1, <1>4
  <2> HIDE DEF k
  <2> QED
    BY <1>1, <1>2, <1>4, <2>2, <2>6, <2>9, <2>10, <2>11, <2>12, <2>13, <2>14
      DEF BaseInv, Before
<1> QED
  BY <1>1, <1>3, <1>4

(* A stream is planned as its chain of references means, and the streams    *)
(* planned before it stay as they were.                                     *)
LEMMA OneMorePlan ==
  ASSUME Request!ManifestFetchAssumption, IInv, BaseInv,
         NEW kind \in Request!Kinds, NEW plan \in [base : Places, file : Places],
         pc = kind, UNCHANGED <<setting, source, mpd, period_counter>>,
         planned' = [planned EXCEPT ![period_counter][kind] = plan],
         plan.base = Request!Meant(Request!Chain(period_counter, kind)),
         LET repr == mpd.periods[period_counter].streams[kind].representation
         IN  kind # "subs" /\ repr # << >> /\ (repr[1].form = "absolute" \/ Len(repr[1].place) = 1)
               => plan.file = plan.base
  PROVE  Request!BaseResolved' /\ planned' \in Seq(Plans) /\ Len(planned') = Len(planned)
<1>1. /\ planned \in Seq(Plans) /\ period_counter \in 1..Len(planned) /\ Request!BaseResolved
      /\ setting.fetch \subseteq Request!Kinds
  <2>1. pc \in InStream /\ pc \in Request!Planning
    BY DEF Request!Kinds, InStream, Request!Planning
  <2>2. setting.fetch \subseteq Request!Kinds
    BY <2>1, ManifestParts DEF HasBeenReceived, HasBeenLinked, HasBeenRead
  <2>3. Len(planned) = period_counter /\ period_counter \in 1..Len(mpd.periods)
    BY <2>1 DEF BaseInv
  <2>4. period_counter \in 1..period_counter
    BY <2>3
  <2> QED
    BY <2>2, <2>3, <2>4 DEF BaseInv
<1>2. planned[period_counter] \in Plans
  BY <1>1
<1> DEFINE new == [planned[period_counter] EXCEPT ![kind] = plan]
<1>3. /\ new \in Plans /\ new[kind] = plan
      /\ \A other \in Request!Kinds : other # kind => new[other] = planned[period_counter][other]
  BY <1>2 DEF Plans
<1>4. planned' = [planned EXCEPT ![period_counter] = new]
  OBVIOUS
<1> HIDE DEF new
<1>5. /\ planned' \in Seq(Plans) /\ Len(planned') = Len(planned) /\ DOMAIN planned' = DOMAIN planned
      /\ planned'[period_counter] = new
      /\ \A k \in DOMAIN planned : k # period_counter => planned'[k] = planned[k]
  BY <1>1, <1>3, <1>4
<1>6. \A k, other : Request!Chain(k, other)' = Request!Chain(k, other)
  BY SameChains
<1>7. \A k, other : Request!Meant(Request!Chain(k, other))' = Request!Meant(Request!Chain(k, other))
  BY <1>6
<1>8. Request!BaseResolved'
  <2> SUFFICES ASSUME NEW k \in DOMAIN planned', NEW other \in (setting.fetch)',
                      planned'[k][other].base # Request!NoURL
               PROVE  /\ planned'[k][other].base = Request!Meant(Request!Chain(k, other))'
                      /\ LET repr == mpd'.periods[k].streams[other].representation
                         IN  other # "subs" /\ repr # << >>
                               /\ (repr[1].form = "absolute" \/ Len(repr[1].place) = 1)
                               => planned'[k][other].file = planned'[k][other].base
    BY Zenon DEF Request!BaseResolved, Request!NoURL
  <2>0. /\ k \in DOMAIN planned /\ other \in setting.fetch /\ mpd' = mpd
        /\ Request!Meant(Request!Chain(k, other))' = Request!Meant(Request!Chain(k, other))
    BY <1>5, <1>7
  <2>1. CASE k = period_counter /\ other = kind
    BY <1>3, <1>5, <2>0, <2>1
  <2>2. CASE ~(k = period_counter /\ other = kind)
    <3>1. planned'[k][other] = planned[k][other]
      BY <1>1, <1>3, <1>5, <2>0, <2>2
    <3> QED
      BY <1>1, <2>0, <3>1 DEF Request!BaseResolved
  <2> QED
    BY <2>1, <2>2
<1> QED
  BY <1>5, <1>8

(* A stream's base URL follows from that of its period.                     *)
LEMMA StreamMeans ==
  ASSUME Request!ManifestFetchAssumption, IInv, BaseInv, NEW kind \in Request!Kinds, pc = kind
  PROVE  LET s1 == mpd.periods[period_counter].streams[kind]
             base == Request!Merged(base_url, s1.adaptation)
             inner == Request!Merged(base, s1.representation)
         IN  /\ s1 \in Request!Stream
             /\ base \in Request!URL /\ inner \in Request!URL
             /\ Request!Merged(inner, s1.representation) \in Request!URL
             /\ Request!Meant(Request!Chain(period_counter, kind)) = IF kind = "subs" THEN base ELSE inner
<1> DEFINE s1 == mpd.periods[period_counter].streams[kind]
           a == s1.adaptation
           r == s1.representation
           base == Request!Merged(base_url, a)
           inner == Request!Merged(base, r)
<1>1. pc \in InStream /\ pc \in Request!Planning
  BY DEF Request!Kinds, InStream, Request!Planning
<1>2. /\ period_counter \in 1..Len(mpd.periods)
      /\ base_url \in Request!URL /\ base_url = Request!Meant(PeriodChain(period_counter))
      /\ IsChain(PeriodChain(period_counter))
  BY <1>1 DEF BaseInv
<1>3. s1 \in Request!Stream
  BY <1>1, <1>2, ManifestParts DEF HasBeenReceived, HasBeenLinked, HasBeenRead
<1>4. a \in Seq(Request!Reference) /\ r \in Seq(Request!Reference)
  BY <1>3 DEF Request!Stream
<1>5. base \in Request!URL
  BY <1>2, <1>4, MergedType
<1>6. /\ AdaptationChain(period_counter, kind) = PeriodChain(period_counter) \o Request!First(a)
      /\ Request!Chain(period_counter, kind) =
           AdaptationChain(period_counter, kind) \o Request!First(IF kind = "subs" THEN << >> ELSE r)
  BY DEF AdaptationChain, PeriodChain, TopChain, SourceChain, TopRefs, Request!Chain
<1> HIDE DEF s1, a, r
<1>7. /\ IsChain(AdaptationChain(period_counter, kind))
      /\ Request!Meant(AdaptationChain(period_counter, kind)) = base
  BY <1>2, <1>4, <1>6, MeantOfFirst
<1> HIDE DEF base
<1>8. inner \in Request!URL /\ Request!Merged(inner, r) \in Request!URL
  BY <1>4, <1>5, MergedType
<1>9. Request!Meant(Request!Chain(period_counter, kind)) = IF kind = "subs" THEN base ELSE inner
  <2>1. CASE kind = "subs"
    <3>1. << >> \in Seq(Request!Reference)
      OBVIOUS
    <3>2. Request!Meant(AdaptationChain(period_counter, kind) \o Request!First(<< >>)) =
            Request!Merged(base, << >>)
      BY <1>7, <3>1, MeantOfFirst
    <3> QED
      BY <1>6, <2>1, <3>2 DEF Request!Merged
  <2>2. CASE kind # "subs"
    BY <1>4, <1>6, <1>7, <2>2, MeantOfFirst
  <2> QED
    BY <2>1, <2>2
<1> QED
  BY <1>3, <1>5, <1>8, <1>9 DEF base, s1, a, r

(* Planning a stream, of whichever kind, keeps the base URL of its period.  *)
LEMMA BaseStream ==
  ASSUME Request!ManifestFetchAssumption, IInv, BaseInv,
         Request!PlanAudio \/ Request!PlanVideo \/ Request!PlanSubs
  PROVE  BaseInv'
<1> USE DEF Request!Goto, Request!Return, Request!request, Request!received
<1>1. PICK kind \in Request!Kinds :
        /\ pc = kind /\ pc' \in {"video", "subs", "period", "err"}
        /\ UNCHANGED <<setting, target, redirected_url, source, mpd, toplevel_base_url, base_url, period_counter>>
        /\ \/ UNCHANGED planned
           \/ /\ kind = "subs"
              /\ planned' = [planned EXCEPT ![period_counter][kind] = Request!PlanSubtitles(Request!StreamOf(kind))]
           \/ /\ kind # "subs"
              /\ planned' = [planned EXCEPT ![period_counter][kind] = Request!PlanAudioVideo(Request!StreamOf(kind))]
  <2>1. "audio" \in Request!Kinds /\ "video" \in Request!Kinds /\ "subs" \in Request!Kinds
    BY DEF Request!Kinds
  <2>2. CASE Request!PlanAudio
    BY <2>1, <2>2 DEF Request!PlanAudio, Request!PlanStream
  <2>3. CASE Request!PlanVideo
    BY <2>1, <2>3 DEF Request!PlanVideo, Request!PlanStream
  <2>4. CASE Request!PlanSubs
    BY <2>1, <2>4 DEF Request!PlanSubs, Request!PlanStream
  <2> QED
    BY <2>2, <2>3, <2>4
<1>2. pc \in InStream /\ pc \in Request!Planning
  BY <1>1 DEF Request!Kinds, InStream, Request!Planning
<1> DEFINE str == mpd.periods[period_counter].streams[kind]
           base == Request!Merged(base_url, str.adaptation)
           inner == Request!Merged(base, str.representation)
<1>3. /\ str \in Request!Stream /\ base \in Request!URL /\ inner \in Request!URL
      /\ Request!Merged(inner, str.representation) \in Request!URL
      /\ Request!Meant(Request!Chain(period_counter, kind)) = IF kind = "subs" THEN base ELSE inner
  BY <1>1, StreamMeans
<1>4. Request!BaseResolved' /\ planned' \in Seq(Plans) /\ Len(planned') = Len(planned)
  <2>1. CASE UNCHANGED planned
    BY <1>1, <2>1, StillResolved DEF BaseInv
  <2>2. CASE /\ kind = "subs"
             /\ planned' = [planned EXCEPT ![period_counter][kind] = Request!PlanSubtitles(Request!StreamOf(kind))]
    <3>1. PICK plan : plan = Request!PlanSubtitles(Request!StreamOf(kind))
      OBVIOUS
    <3>2. plan = [base |-> base, file |-> inner]
      BY <3>1 DEF Request!PlanSubtitles, Request!StreamOf
    <3>3. plan.base = base /\ plan \in [base : Places, file : Places]
      BY <1>3, <3>2 DEF Places
    <3>4. planned' = [planned EXCEPT ![period_counter][kind] = plan]
      BY <2>2, <3>1
    <3>5. plan.base = Request!Meant(Request!Chain(period_counter, kind))
      BY <1>3, <2>2, <3>3
    <3> HIDE DEF str, base, inner
    <3> QED
      BY <1>1, <2>2, <3>3, <3>4, <3>5, OneMorePlan
  <2>3. CASE /\ kind # "subs"
             /\ planned' = [planned EXCEPT ![period_counter][kind] = Request!PlanAudioVideo(Request!StreamOf(kind))]
    <3>1. PICK plan : plan = Request!PlanAudioVideo(Request!StreamOf(kind))
      OBVIOUS
    <3>2. plan = [base |-> inner, file |-> Request!Merged(inner, str.representation)]
      BY <3>1 DEF Request!PlanAudioVideo, Request!StreamOf
    <3>3. plan.base = inner /\ plan \in [base : Places, file : Places]
      BY <1>3, <3>2 DEF Places
    <3>4. planned' = [planned EXCEPT ![period_counter][kind] = plan]
      BY <2>3, <3>1
    <3>5. plan.base = Request!Meant(Request!Chain(period_counter, kind))
      BY <1>3, <2>3, <3>3
    <3>6. LET repr == mpd.periods[period_counter].streams[kind].representation
          IN  kind # "subs" /\ repr # << >> /\ (repr[1].form = "absolute" \/ Len(repr[1].place) = 1)
                => plan.file = plan.base
      <4> DEFINE repr == str.representation
      <4>1. repr \in Seq(Request!Reference)
        BY <1>3 DEF Request!Stream
      <4>2. plan.file = Request!Merged(inner, repr)
        BY <3>2
      <4> SUFFICES ASSUME repr # << >>, repr[1].form = "absolute" \/ Len(repr[1].place) = 1
                   PROVE  plan.file = plan.base
        OBVIOUS
      <4>3. Request!Merged(inner, repr) = inner
        <5> HIDE DEF repr, base
        <5>1. inner = Request!Merged(base, repr)
          BY DEF repr
        <5> HIDE DEF inner
        <5> QED
          BY <1>3, <4>1, <5>1, MergedTwice
      <4> QED
        BY <3>3, <4>2, <4>3
    <3> HIDE DEF str, base, inner
    <3> QED
      BY <1>1, <3>3, <3>4, <3>5, <3>6, OneMorePlan
  <2> QED
    BY <1>1, <2>1, <2>2, <2>3
<1>5. TopChain' = TopChain /\ \A j : PeriodChain(j)' = PeriodChain(j)
  BY <1>1, SameChains
<1>6. PeriodChain(period_counter)' = PeriodChain(period_counter)
  <2>1. TopChain' \o Request!First(mpd'.periods[period_counter'].base) =
        TopChain \o Request!First(mpd.periods[period_counter].base)
    BY <1>1, <1>5
  <2> QED
    BY <2>1 DEF PeriodChain, Request!First
<1>7. /\ Request!Meant(TopChain)' = Request!Meant(TopChain)
      /\ Request!Meant(PeriodChain(period_counter))' = Request!Meant(PeriodChain(period_counter))
  BY <1>5, <1>6
<1>8. /\ target \in Request!URL /\ redirected_url \in Request!URL
      /\ period_counter \in 0..Len(mpd.periods) /\ Len(planned) = period_counter
      /\ toplevel_base_url \in Request!URL /\ toplevel_base_url = Request!Meant(TopChain)
      /\ IsChain(TopChain)
      /\ period_counter \in 1..Len(mpd.periods)
      /\ base_url \in Request!URL /\ base_url = Request!Meant(PeriodChain(period_counter))
      /\ IsChain(PeriodChain(period_counter))
  BY <1>2 DEF BaseInv
<1>9. IsChain(TopChain)' /\ IsChain(PeriodChain(period_counter))'
  BY <1>5, <1>6, <1>8 DEF IsChain
<1>10. pc' \notin Before
  BY <1>1 DEF Before
<1> HIDE DEF str, base, inner
<1> QED
  BY <1>1, <1>4, <1>7, <1>8, <1>9, <1>10 DEF BaseInv

(* Every step keeps the base URLs what they are meant to be.                *)
LEMMA BaseStep ==
  ASSUME Request!ManifestFetchAssumption, IInv, BaseInv, [Request!Next]_(Request!vars)
  PROVE  BaseInv'
<1>1. ASSUME UNCHANGED <<setting, target, redirected_url, source, mpd, toplevel_base_url, base_url,
                         period_counter, planned>>,
             pc' = pc \/ (pc = "period" /\ pc' = "ok")
      PROVE  BaseInv'
  <2>1. TopChain' = TopChain /\ \A j : PeriodChain(j)' = PeriodChain(j)
    BY <1>1, SameChains
  <2>2. PeriodChain(period_counter)' = PeriodChain(period_counter)
    <3>1. TopChain' \o Request!First(mpd'.periods[period_counter'].base) =
          TopChain \o Request!First(mpd.periods[period_counter].base)
      BY <1>1, <2>1
    <3> QED
      BY <3>1 DEF PeriodChain, Request!First
  <2>3. /\ Request!Meant(TopChain)' = Request!Meant(TopChain)
        /\ Request!Meant(PeriodChain(period_counter))' = Request!Meant(PeriodChain(period_counter))
    BY <2>1, <2>2
  <2>4. /\ IsChain(TopChain) => IsChain(TopChain)'
        /\ IsChain(PeriodChain(period_counter)) => IsChain(PeriodChain(period_counter))'
    BY <2>1, <2>2 DEF IsChain
  <2>5. Request!BaseResolved'
    BY <1>1, StillResolved
  <2>6. /\ pc' \in Before => pc \in Before
        /\ pc' \in Request!Planning => pc \in Request!Planning
        /\ pc' \in InStream => pc \in InStream
    BY <1>1 DEF Before, Request!Planning, InStream
  <2> QED
    BY <1>1, <2>3, <2>4, <2>5, <2>6 DEF BaseInv
<1>2. CASE UNCHANGED Request!vars
  BY <1>1, <1>2 DEF Request!vars, Request!request, Request!received, Request!bases
<1>3. CASE Request!Done
  BY <1>1, <1>3 DEF Request!Done, Request!Goto, Request!request, Request!received, Request!bases
<1> QED
  BY <1>2, <1>3, BaseReceive, BaseRead, BasePeriod, BaseStream DEF Request!Next

(* Every stream of every period has the base URL that the references above  *)
(* it lead to, with the innermost query, however many there are of either,  *)
(* wherever the manifest came from (fetch.rs:1208-1232, 2492-2500).         *)
THEOREM BaseURLsAreResolved ==
  ASSUME Request!ManifestFetchAssumption
  PROVE  Spec => []BaseResolved
<1> DEFINE RequestInv == procedure = "request" => IInv /\ BaseInv
<1>1. Init => RequestInv
  BY InForceInit, BaseInit DEF Init
<1>2. RequestInv /\ [Next]_vars => RequestInv'
  <2> SUFFICES ASSUME RequestInv, [Next]_vars, procedure' = "request" PROVE IInv' /\ BaseInv'
    OBVIOUS
  <2>1. procedure = "request" /\ IInv /\ BaseInv
    BY DEF Next, vars
  <2>2. [Request!Next]_(Request!vars)
    BY <2>1 DEF Next, vars, requestVars, Request!vars, Request!request, Request!received,
          Request!bases
  <2> QED
    BY <2>1, <2>2, ControlStep, InForceStep, BaseStep DEF IInv
<1>3. RequestInv => BaseResolved
  BY DEF BaseResolved, BaseInv
<1> QED
  BY <1>1, <1>2, <1>3, PTL DEF Spec

-----------------------------------------------------------------------------
(* The expansion of a SegmentTimeline.                                     *)

(* How many segments the first elements stand for, and where they end.     *)
Runs == Timeline!CountTo(input.segments)
Ends == Timeline!EndOf(input.segments)
Starts(j) == Timeline!StartOf(input.segments, j)
Elements == 1..Len(input.segments)

(* Neither an open repeat, @endNumber nor the end of the period counts.    *)
Regular == Timeline!Closed /\ input.endNumber = -1 /\ (input.kind = "av" \/ input.force = -1)

Timed == [time : Int, number : Int]

(* The k-th fragment is the segment that the timeline has there.           *)
Expanded(k) ==
  /\ fragments[k].number = StartNumber + k - 1
  /\ \E j \in Elements : \E m \in 0..input.segments[j].r :
       /\ k = Runs[j - 1] + 1 + m
       /\ fragments[k].time = Starts(j) + m * input.segments[j].d

(* The counters that the loop carries fit the element in hand.             *)
Carried ==
  /\ s \in 1..(Len(input.segments) + 1)
  /\ fragments \in Seq(Timed)
  /\ number = StartNumber + Len(fragments)
  /\ pc = "entry" => Len(fragments) = Runs[s - 1] /\ segment_time = Ends[s - 1]
  /\ pc = "repeat" =>
       /\ s \in Elements
       /\ count \in 0..input.segments[s].r
       /\ Len(fragments) = Runs[s - 1] + 1 + count
       /\ segment_time = Starts(s) + count * input.segments[s].d
  /\ pc = "done" /\ input.force = -1 => Len(fragments) = Runs[Len(input.segments)]

TimelineInv ==
  /\ input \in Inputs
  /\ Regular => Carried /\ \A k \in 1..Len(fragments) : Expanded(k)

(* What a timeline and the options are made of.                             *)
LEMMA TimelineTypes ==
  ASSUME Timeline!SegmentTimelineAssumption, input \in Inputs
  PROVE  /\ StartNumber \in Nat
         /\ Len(input.segments) \in Nat
         /\ DOMAIN input.segments = Elements
         /\ \A j \in Elements :
              /\ input.segments[j].t \in Nat \cup {-1}
              /\ input.segments[j].d \in Nat
              /\ input.segments[j].r \in Int
         /\ input.force \in Nat \cup {-1} /\ input.period \in Nat \cup {-1}
<1>1. input \in Timeline!Input /\ StartNumber \in Nat
  BY DEF Timeline!SegmentTimelineAssumption
<1>2. /\ input.segments \in Seq(Timeline!S)
      /\ input.force \in Nat \cup {-1} /\ input.period \in Nat \cup {-1}
  BY <1>1 DEF Timeline!Input, Timeline!Optional, Timeline!Absent
<1>3. \A j \in Elements : input.segments[j] \in Timeline!S
  BY <1>2 DEF Elements
<1>4. Len(input.segments) \in Nat /\ DOMAIN input.segments = Elements
  BY <1>2 DEF Elements
<1> QED
  BY <1>1, <1>2, <1>3, <1>4 DEF Timeline!S, Timeline!Optional, Timeline!Absent

(* The elements of a timeline without open repeats are counted.             *)
LEMMA RunsAre ==
  ASSUME Timeline!SegmentTimelineAssumption, input \in Inputs, Timeline!Closed
  PROVE  /\ Runs[0] = 0
         /\ \A j \in Elements :
              input.segments[j].r \in Nat /\ Runs[j] = Runs[j - 1] + (1 + input.segments[j].r)
         /\ \A j \in 0..Len(input.segments) : Runs[j] \in Nat
         /\ \A i, j \in 0..Len(input.segments) : i <= j => Runs[i] <= Runs[j]
<1> DEFINE n == Len(input.segments)
           a == [j \in 1..n |-> 1 + input.segments[j].r]
<1>1. /\ n \in Nat /\ Elements = 1..n
      /\ \A j \in 1..n : input.segments[j].r \in Nat
  BY TimelineTypes DEF Timeline!Closed, Timeline!segments, Elements
<1>2. \A j \in 1..n : a[j] = 1 + input.segments[j].r /\ a[j] \in Nat
  BY <1>1
<1>3. \A w : [j \in 0..n |-> IF j = 0 THEN 0 ELSE w[j - 1] + a[j]]
           = [j \in 0..n |-> IF j = 0 THEN 0 ELSE w[j - 1] + (1 + input.segments[j].r)]
  BY <1>1, <1>2
<1>4. Runs = CHOOSE w : w = [j \in 0..n |-> IF j = 0 THEN 0 ELSE w[j - 1] + (1 + input.segments[j].r)]
  BY Zenon DEF Runs, Timeline!CountTo
<1> HIDE DEF a
<1>5. \E w : w = [j \in 0..n |-> IF j = 0 THEN 0 ELSE w[j - 1] + (1 + input.segments[j].r)]
  <2>1. PICK w : IsSums(w, a, n)
    BY <1>1, SumsExist
  <2>2. w = [j \in 0..n |-> IF j = 0 THEN 0 ELSE w[j - 1] + a[j]]
    BY <2>1 DEF IsSums
  <2> QED
    BY <1>3, <2>2
<1>6. Runs = [j \in 0..n |-> IF j = 0 THEN 0 ELSE Runs[j - 1] + (1 + input.segments[j].r)]
  BY <1>4, <1>5, Zenon
<1> HIDE DEF n
<1>7. IsSums(Runs, a, n)
  BY <1>3, <1>6 DEF IsSums
<1>8. /\ \A j \in 0..n : Runs[j] \in Nat
      /\ \A i, j \in 0..n : i <= j => Runs[i] <= Runs[j]
  <2>1. \A j \in 1..n : a[j] \in Nat
    BY <1>2
  <2> QED
    BY <1>1, <1>7, <2>1, SumsGrow
<1>9. /\ Runs[0] = 0
      /\ \A j \in 1..n : Runs[j] = Runs[j - 1] + (1 + input.segments[j].r)
  BY <1>1, <1>6
<1> QED
  BY <1>1, <1>8, <1>9 DEF n

(* f[j] is where the first j of n elements end.                             *)
IsEnds(f, stl, n) ==
  f = [j \in 0..n |->
         IF j = 0 THEN 0 ELSE Timeline!StartAfter(f[j - 1], stl[j]) + (1 + stl[j].r) * stl[j].d]

(* The ends of any elements exist.                                          *)
LEMMA EndsExist ==
  ASSUME NEW stl, NEW n \in Nat
  PROVE  \E f : IsEnds(f, stl, n)
<1> DEFINE T == {m \in Nat : \E f : IsEnds(f, stl, m)}
           Step(e, j) == Timeline!StartAfter(e, stl[j]) + (1 + stl[j].r) * stl[j].d
<1> HIDE DEF Step
<1>a. ASSUME NEW m, NEW f
      PROVE  IsEnds(f, stl, m) <=> f = [j \in 0..m |-> IF j = 0 THEN 0 ELSE Step(f[j - 1], j)]
  BY Zenon DEF IsEnds, Step
<1>1. 0 \in T
  <2> DEFINE f == [j \in 0..0 |-> 0]
  <2>1. f = [j \in 0..0 |-> IF j = 0 THEN 0 ELSE Step(f[j - 1], j)]
    OBVIOUS
  <2> QED
    BY <1>a, <2>1
<1>2. ASSUME NEW m \in Nat, m \in T PROVE m + 1 \in T
  <2>1. PICK f : f = [j \in 0..m |-> IF j = 0 THEN 0 ELSE Step(f[j - 1], j)]
    BY <1>2, <1>a
  <2> DEFINE g == [j \in 0..(m + 1) |-> IF j = m + 1 THEN Step(f[m], m + 1) ELSE f[j]]
  <2>2. ASSUME NEW j \in 0..(m + 1) PROVE g[j] = IF j = 0 THEN 0 ELSE Step(g[j - 1], j)
    <3>1. CASE j = m + 1
      BY <3>1
    <3>2. CASE j # m + 1
      <4>1. j \in 0..m /\ g[j] = f[j]
        BY <3>2
      <4>2. j # 0 => j - 1 \in 0..(m + 1) /\ j - 1 # m + 1 /\ g[j - 1] = f[j - 1]
        BY <3>2
      <4> HIDE DEF g
      <4> QED
        BY <2>1, <4>1, <4>2
    <3> QED
      BY <3>1, <3>2
  <2>3. g = [j \in 0..(m + 1) |-> IF j = 0 THEN 0 ELSE Step(g[j - 1], j)]
    BY <2>2
  <2> HIDE DEF g
  <2> QED
    BY <1>a, <2>3
<1> HIDE DEF T
<1>3. Nat \subseteq T
  BY <1>1, <1>2, EveryNumber
<1> QED
  BY <1>3 DEF T

(* Every element ends after its segments, wherever it starts.               *)
LEMMA EndsAre ==
  ASSUME Timeline!SegmentTimelineAssumption, input \in Inputs
  PROVE  /\ Ends[0] = 0
         /\ \A j \in Elements :
              /\ Starts(j) = IF input.segments[j].t # -1 THEN input.segments[j].t ELSE Ends[j - 1]
              /\ Ends[j] = Starts(j) + (1 + input.segments[j].r) * input.segments[j].d
         /\ \A j \in 0..Len(input.segments) : Ends[j] \in Int
         /\ \A j \in Elements : Starts(j) \in Int
<1> DEFINE n == Len(input.segments)
<1>1. n \in Nat /\ Elements = 1..n
  BY TimelineTypes DEF Elements
<1>2. Ends = CHOOSE f : IsEnds(f, input.segments, n)
  BY Zenon DEF Ends, Timeline!EndOf, IsEnds
<1>3. IsEnds(Ends, input.segments, n)
  BY <1>1, <1>2, EndsExist
<1>4. ASSUME NEW j \in 1..n
      PROVE  Starts(j) = IF input.segments[j].t # -1 THEN input.segments[j].t ELSE Ends[j - 1]
  BY DEF Starts, Timeline!StartOf, Timeline!StartAfter, Timeline!Absent, Ends
<1>5. \A j \in 1..n : Starts(j) = Timeline!StartAfter(Ends[j - 1], input.segments[j])
  BY DEF Starts, Timeline!StartOf, Ends
<1> HIDE DEF n
<1>6. Ends = [j \in 0..n |-> IF j = 0 THEN 0 ELSE
                Timeline!StartAfter(Ends[j - 1], input.segments[j])
                  + (1 + input.segments[j].r) * input.segments[j].d]
  BY <1>3 DEF IsEnds
<1>7. /\ Ends[0] = 0
      /\ \A j \in 1..n : Ends[j] = Starts(j) + (1 + input.segments[j].r) * input.segments[j].d
  BY <1>1, <1>5, <1>6
<1>8. \A j \in 0..n : Ends[j] \in Int
  <2> DEFINE T == {j \in Nat : j <= n => Ends[j] \in Int}
  <2>1. 0 \in T
    BY <1>7
  <2>2. ASSUME NEW j \in Nat, j \in T PROVE j + 1 \in T
    <3> SUFFICES ASSUME j + 1 <= n PROVE Ends[j + 1] \in Int
      OBVIOUS
    <3>1. j + 1 \in 1..n /\ (j + 1) - 1 = j /\ Ends[j] \in Int
      BY <1>1, <2>2
    <3>2. Starts(j + 1) \in Int
      <4>1. input.segments[j + 1].t \in Nat \cup {-1}
        BY <1>1, <3>1, TimelineTypes
      <4> QED
        BY <1>4, <3>1, <4>1
    <3>3. input.segments[j + 1].r \in Int /\ input.segments[j + 1].d \in Int
      BY <1>1, <3>1, TimelineTypes
    <3> QED
      BY <1>7, <3>1, <3>2, <3>3
  <2> HIDE DEF T
  <2>3. Nat \subseteq T
    BY <2>1, <2>2, EveryNumber
  <2> QED
    BY <2>3 DEF T
<1>9. \A j \in 1..n : Starts(j) \in Int
  <2> SUFFICES ASSUME NEW j \in 1..n PROVE Starts(j) \in Int
    OBVIOUS
  <2>1. input.segments[j].t \in Nat \cup {-1} /\ j - 1 \in 0..n
    BY <1>1, TimelineTypes
  <2> QED
    BY <1>4, <1>8, <2>1
<1> QED
  BY <1>1, <1>4, <1>7, <1>8, <1>9 DEF n

(* At the start no segment is expanded.                                     *)
LEMMA TimelineInit ==
  ASSUME Timeline!SegmentTimelineAssumption, Timeline!Init
  PROVE  TimelineInv
<1>1. /\ input \in Inputs /\ s = 1 /\ pc = "entry" /\ fragments = << >>
      /\ number = StartNumber /\ segment_time = 0
  BY DEF Timeline!Init
<1>2. StartNumber \in Nat /\ Len(input.segments) \in Nat
  BY <1>1, TimelineTypes
<1>3. ASSUME Regular PROVE Runs[0] = 0 /\ Ends[0] = 0
  BY <1>1, <1>3, RunsAre, EndsAre DEF Regular
<1>4. fragments \in Seq(Timed) /\ Len(fragments) = 0 /\ s - 1 = 0
  BY <1>1
<1> QED
  BY <1>1, <1>2, <1>3, <1>4 DEF TimelineInv, Carried

(* Nothing about the timeline changes with the manifest left alone.         *)
LEMMA SameTimeline ==
  ASSUME input' = input
  PROVE  /\ Runs' = Runs /\ Ends' = Ends /\ Elements' = Elements /\ Regular' = Regular
         /\ \A j : Starts(j)' = Starts(j)
  BY DEF Runs, Ends, Elements, Regular, Timeline!Closed, Timeline!segments, Starts

(* A segment is appended to those expanded.                                 *)
LEMMA OneMoreSegment ==
  ASSUME Timeline!SegmentTimelineAssumption, TimelineInv, Regular, Carried, input' = input,
         NEW time \in Int, NEW sum, Timeline!Push(time, sum),
         NEW j \in Elements, NEW m \in 0..input.segments[j].r,
         Len(fragments) + 1 = Runs[j - 1] + 1 + m,
         time = Starts(j) + m * input.segments[j].d
  PROVE  /\ fragments' \in Seq(Timed)
         /\ Len(fragments') = Len(fragments) + 1
         /\ number' = StartNumber + Len(fragments')
         /\ segment_time' = time
         /\ \A k \in 1..Len(fragments') : Expanded(k)'
<1>1. /\ StartNumber \in Nat /\ fragments \in Seq(Timed) /\ Len(fragments) \in Nat
      /\ number = StartNumber + Len(fragments)
  BY TimelineTypes DEF TimelineInv, Carried
<1> DEFINE f == [time |-> time, number |-> number]
           l == Len(fragments)
<1>2. /\ segment_time' = time /\ fragments' = Append(fragments, f) /\ number' = number + 1
  BY DEF Timeline!Push
<1>3. f \in Timed /\ f.time = time /\ f.number = number
  BY <1>1 DEF Timed
<1> HIDE DEF f
<1>4. /\ fragments' \in Seq(Timed) /\ Len(fragments') = l + 1
      /\ fragments'[l + 1] = f
      /\ \A k \in 1..l : fragments'[k] = fragments[k]
  BY <1>1, <1>2, <1>3
<1>5. /\ Runs' = Runs /\ Elements' = Elements
      /\ \A i : Starts(i)' = Starts(i)
  BY SameTimeline
<1>6. number' = StartNumber + Len(fragments')
  BY <1>1, <1>2, <1>4
<1> HIDE DEF l
<1>7. ASSUME NEW k \in 1..(l + 1) PROVE Expanded(k)'
  <2>1. CASE k \in 1..l
    <3>1. Expanded(k)
      BY <2>1 DEF TimelineInv, l
    <3>2. fragments'[k] = fragments[k]
      BY <1>4, <2>1
    <3> QED
      BY <1>5, <3>1, <3>2 DEF Expanded
  <2>2. CASE k = l + 1
    <3>1. k \in Nat /\ fragments'[k].number = StartNumber + k - 1
      BY <1>1, <1>3, <1>4, <2>2 DEF l
    <3>2. k = Runs[j - 1] + 1 + m /\ fragments'[k].time = Starts(j) + m * input.segments[j].d
      BY <1>3, <1>4, <2>2 DEF l
    <3> QED
      BY <1>5, <3>1, <3>2 DEF Expanded
  <2> QED
    BY <1>1, <2>1, <2>2 DEF l
<1> QED
  BY <1>2, <1>4, <1>6, <1>7 DEF l

(* The first segment of an element starts where the element does.           *)
LEMMA ExpandEntry ==
  ASSUME Timeline!SegmentTimelineAssumption, TimelineInv, Timeline!Entry
  PROVE  TimelineInv'
<1> DEFINE time == IF input.segments[s].t # -1 THEN input.segments[s].t ELSE segment_time
           sum == elapsed + input.segments[s].d
<1>1. /\ pc = "entry" /\ s <= Len(input.segments) /\ input' = input /\ s' = s /\ count' = 0
      /\ Timeline!Push(time, sum)
      /\ pc' = IF Timeline!Enough(sum) THEN "done" ELSE "repeat"
  BY DEF Timeline!Entry, Timeline!segments, Timeline!Absent
<1> HIDE DEF time, sum
<1>2. input \in Inputs /\ input' \in Inputs /\ Regular' = Regular
  BY <1>1, SameTimeline DEF TimelineInv
<1> SUFFICES ASSUME Regular PROVE Carried' /\ \A k \in 1..Len(fragments') : Expanded(k)'
  BY <1>2 DEF TimelineInv
<1>3. /\ Carried /\ s \in Elements
      /\ Len(fragments) = Runs[s - 1] /\ segment_time = Ends[s - 1] /\ Len(input.segments) \in Nat
  BY <1>1, <1>2, TimelineTypes DEF TimelineInv, Carried, Elements
<1>4. /\ Starts(s) = IF input.segments[s].t # -1 THEN input.segments[s].t ELSE Ends[s - 1]
      /\ Starts(s) \in Int /\ input.segments[s].d \in Nat
  BY <1>2, <1>3, EndsAre, TimelineTypes
<1>5. input.segments[s].r \in Nat /\ Runs[s - 1] \in Nat
  <2>1. s - 1 \in 0..Len(input.segments)
    BY <1>3 DEF Elements
  <2> QED
    BY <1>2, <1>3, <2>1, RunsAre DEF Regular
<1>6. time = Starts(s) + 0 * input.segments[s].d /\ time \in Int
  BY <1>3, <1>4 DEF time
<1>7. /\ fragments' \in Seq(Timed)
      /\ Len(fragments') = Len(fragments) + 1
      /\ number' = StartNumber + Len(fragments')
      /\ segment_time' = time
      /\ \A k \in 1..Len(fragments') : Expanded(k)'
  <2>1. 0 \in 0..input.segments[s].r /\ Len(fragments) + 1 = Runs[s - 1] + 1 + 0
    BY <1>3, <1>5
  <2> QED
    BY <1>1, <1>3, <1>6, <2>1, OneMoreSegment
<1>8. /\ Runs' = Runs /\ Ends' = Ends /\ Elements' = Elements
      /\ \A j : Starts(j)' = Starts(j)
  BY <1>1, SameTimeline
<1>9. pc' = "done" => input.force # -1
  BY <1>1 DEF Timeline!Enough, Timeline!Absent
<1>10. 0 \in 0..input.segments[s].r /\ Len(fragments') = Runs[s - 1] + 1 + 0
  BY <1>3, <1>5, <1>7
<1>11. Starts(s)' = Starts(s)
  BY <1>1, SameTimeline DEF Starts
<1>12. pc' = "repeat" =>
         /\ s' \in Elements'
         /\ count' \in 0..input'.segments[s'].r
         /\ Len(fragments') = Runs'[s' - 1] + 1 + count'
         /\ segment_time' = Starts(s)' + count' * input'.segments[s'].d
  BY <1>1, <1>3, <1>6, <1>7, <1>8, <1>10, <1>11
<1>13. s' \in 1..(Len(input'.segments) + 1) /\ pc' \in {"repeat", "done"}
  BY <1>1, <1>3 DEF Carried
<1> QED
  BY <1>7, <1>9, <1>12, <1>13, <1>1 DEF Carried

(* The repeats of an element are done just when @r of them are.             *)
LEMMA AllRepeated ==
  ASSUME Timeline!SegmentTimelineAssumption, TimelineInv, Regular, pc = "repeat"
  PROVE  /\ Carried /\ s \in Elements
         /\ input.segments[s].r \in Nat /\ input.segments[s].d \in Nat /\ Starts(s) \in Int
         /\ count \in 0..input.segments[s].r
         /\ Timeline!Exhausted <=> count = input.segments[s].r
         /\ ~Timeline!AtEndNumber
<1>1. /\ Carried /\ s \in Elements /\ count \in 0..input.segments[s].r /\ input \in Inputs
  BY DEF TimelineInv, Carried
<1>2. input.segments[s].r \in Nat /\ input.segments[s].d \in Nat /\ Starts(s) \in Int
  BY <1>1, RunsAre, EndsAre, TimelineTypes DEF Regular
<1>3. ~((input.segments[s].r < 0 \/ input.force # -1) /\ Timeline!PastEnd)
  BY <1>2 DEF Regular, Timeline!PastEnd
<1>4. Timeline!Exhausted <=> count = input.segments[s].r
  BY <1>1, <1>2, <1>3 DEF Timeline!Exhausted, Timeline!segments, Timeline!Absent
<1> QED
  BY <1>1, <1>2, <1>4 DEF Regular, Timeline!AtEndNumber, Timeline!Absent

(* A repeated segment starts one duration later.                            *)
LEMMA ExpandRepeat ==
  ASSUME Timeline!SegmentTimelineAssumption, TimelineInv, Timeline!Repeat
  PROVE  TimelineInv'
<1> DEFINE d == input.segments[s].d
           time == segment_time + d
           sum == elapsed + d
<1>1. /\ pc = "repeat" /\ input' = input /\ s' = s /\ pc' = pc /\ count' = count + 1
      /\ ~Timeline!Exhausted
      /\ Timeline!Push(time, sum)
  BY DEF Timeline!Repeat, Timeline!segments
<1> HIDE DEF sum
<1>2. input \in Inputs /\ input' \in Inputs /\ Regular' = Regular
  BY <1>1, SameTimeline DEF TimelineInv
<1> SUFFICES ASSUME Regular PROVE Carried' /\ \A k \in 1..Len(fragments') : Expanded(k)'
  BY <1>2 DEF TimelineInv
<1>3. /\ Carried /\ s \in Elements
      /\ input.segments[s].r \in Nat /\ d \in Nat /\ Starts(s) \in Int
      /\ count \in 0..input.segments[s].r /\ count + 1 \in 0..input.segments[s].r
  BY <1>1, AllRepeated
<1>4. segment_time = Starts(s) + count * d
  BY <1>1, <1>3 DEF Carried
<1>n. Len(fragments) = Runs[s - 1] + 1 + count /\ count \in Int
  BY <1>1, <1>3 DEF Carried
<1>5. Runs[s - 1] \in Nat
  <2>1. s - 1 \in 0..Len(input.segments)
    BY <1>2, <1>3, TimelineTypes DEF Elements
  <2> QED
    BY <1>2, <1>3, <2>1, RunsAre DEF Regular
<1>6. time = Starts(s) + (count + 1) * d /\ time \in Int
  <2> HIDE DEF d
  <2>1. (count + 1) * d = count * d + d /\ count * d \in Int
    BY <1>3
  <2> QED
    BY <1>3, <1>4, <2>1
<1> HIDE DEF time
<1>7. /\ fragments' \in Seq(Timed)
      /\ Len(fragments') = Len(fragments) + 1
      /\ number' = StartNumber + Len(fragments')
      /\ segment_time' = time
      /\ \A k \in 1..Len(fragments') : Expanded(k)'
  <2>1. Len(fragments) + 1 = Runs[s - 1] + 1 + (count + 1)
    BY <1>n, <1>5
  <2> QED
    BY <1>1, <1>2, <1>3, <1>6, <2>1, OneMoreSegment
<1>8. /\ Runs' = Runs /\ Ends' = Ends /\ Elements' = Elements
      /\ \A j : Starts(j)' = Starts(j)
  BY <1>1, SameTimeline
<1>9. Starts(s)' = Starts(s)
  BY <1>1, SameTimeline DEF Starts
<1>l. Len(fragments') = Len(fragments) + 1
  BY <1>7
<1>10. Len(fragments') = Runs[s - 1] + 1 + (count + 1)
  BY <1>n, <1>l, <1>5
<1>11. pc' = "repeat" =>
         /\ s' \in Elements'
         /\ count' \in 0..input'.segments[s'].r
         /\ Len(fragments') = Runs'[s' - 1] + 1 + count'
         /\ segment_time' = Starts(s)' + count' * input'.segments[s'].d
  BY <1>1, <1>3, <1>6, <1>7, <1>8, <1>9, <1>10
<1>12. s' \in 1..(Len(input'.segments) + 1)
  BY <1>1, <1>3 DEF Carried
<1> QED
  BY <1>1, <1>7, <1>11, <1>12 DEF Carried

(* After the last repeat the next element begins where this one ends.       *)
LEMMA ExpandNext ==
  ASSUME Timeline!SegmentTimelineAssumption, TimelineInv, Timeline!NextEntry
  PROVE  TimelineInv'
<1> DEFINE d == input.segments[s].d
           r == input.segments[s].r
<1>1. /\ pc = "repeat" /\ input' = input /\ s' = s + 1 /\ pc' = "entry"
      /\ fragments' = fragments /\ number' = number /\ segment_time' = segment_time + d
      /\ Timeline!Exhausted \/ Timeline!AtEndNumber
  BY DEF Timeline!NextEntry, Timeline!segments
<1>2. input \in Inputs /\ input' \in Inputs /\ Regular' = Regular
  BY <1>1, SameTimeline DEF TimelineInv
<1> SUFFICES ASSUME Regular PROVE Carried' /\ \A k \in 1..Len(fragments') : Expanded(k)'
  BY <1>2 DEF TimelineInv
<1>3. /\ Carried /\ s \in Elements /\ r \in Nat /\ d \in Nat /\ Starts(s) \in Int /\ count = r
  BY <1>1, AllRepeated
<1>4. segment_time = Starts(s) + r * d
  BY <1>1, <1>3 DEF Carried
<1>n. Len(fragments) = Runs[s - 1] + 1 + r /\ r \in Nat
  BY <1>1, <1>3 DEF Carried
<1>5. /\ Len(input.segments) \in Nat /\ Runs[s - 1] \in Nat
      /\ Runs[s] = Runs[s - 1] + (1 + r)
  <2>1. s - 1 \in 0..Len(input.segments) /\ Len(input.segments) \in Nat
    BY <1>2, <1>3, TimelineTypes DEF Elements
  <2> QED
    BY <1>2, <1>3, <2>1, RunsAre DEF Regular
<1>6. Ends[s] = Starts(s) + (1 + r) * d
  BY <1>2, <1>3, EndsAre
<1> HIDE DEF d, r
<1>7. segment_time' = Ends[s]
  <2>1. (1 + r) * d = r * d + d /\ r * d \in Int
    BY <1>3
  <2> QED
    BY <1>1, <1>3, <1>4, <1>6, <2>1
<1>8. Len(fragments') = Runs[s]
  <2>1. fragments' = fragments
    BY <1>1
  <2> QED
    BY <1>n, <1>5, <2>1
<1>9. Runs' = Runs /\ Ends' = Ends /\ Elements' = Elements /\ \A j : Starts(j)' = Starts(j)
  BY <1>1, SameTimeline
<1>10. \A k \in 1..Len(fragments) : Expanded(k)'
  BY <1>1, <1>9 DEF Expanded, TimelineInv
<1>11. s' \in 1..(Len(input'.segments) + 1) /\ s' - 1 = s
  <2>1. s \in 1..Len(input.segments) /\ Len(input.segments) \in Nat /\ s' = s + 1 /\ input' = input
    BY <1>1, <1>3, <1>5 DEF Elements
  <2> QED
    BY <2>1
<1> QED
  BY <1>1, <1>3, <1>7, <1>8, <1>9, <1>10, <1>11 DEF Carried

(* The loop ends with no segment more.                                      *)
LEMMA ExpandEnd ==
  ASSUME Timeline!SegmentTimelineAssumption, TimelineInv,
         Timeline!CutShort \/ Timeline!Finish \/ UNCHANGED Timeline!vars
  PROVE  TimelineInv'
<1>1. /\ input' = input /\ s' = s /\ fragments' = fragments /\ number' = number
      /\ segment_time' = segment_time
  BY DEF Timeline!CutShort, Timeline!Finish, Timeline!vars
<1>2. input \in Inputs /\ input' \in Inputs /\ Regular' = Regular
  BY <1>1, SameTimeline DEF TimelineInv
<1> SUFFICES ASSUME Regular PROVE Carried' /\ \A k \in 1..Len(fragments') : Expanded(k)'
  BY <1>2 DEF TimelineInv
<1>3. /\ Runs' = Runs /\ Ends' = Ends /\ Elements' = Elements
      /\ \A j : Starts(j)' = Starts(j)
  BY <1>1, SameTimeline
<1>4. \A k \in 1..Len(fragments) : Expanded(k)'
  BY <1>1, <1>3 DEF Expanded, TimelineInv
<1>5. Starts(s)' = Starts(s)
  BY <1>1, SameTimeline DEF Starts
<1>6. Carried
  BY DEF TimelineInv
<1>7. CASE UNCHANGED Timeline!vars
  BY <1>1, <1>3, <1>4, <1>5, <1>6, <1>7 DEF Carried, Timeline!vars
<1>8. CASE Timeline!Finish
  <2>1. pc = "entry" /\ s > Len(input.segments) /\ pc' = "done"
    BY <1>8 DEF Timeline!Finish, Timeline!segments
  <2>2. Len(input.segments) \in Nat
    BY <1>2, TimelineTypes
  <2>3. s - 1 = Len(input.segments)
    BY <1>6, <2>1, <2>2 DEF Carried
  <2> QED
    BY <1>1, <1>3, <1>4, <1>6, <2>1, <2>3 DEF Carried
<1>9. CASE Timeline!CutShort
  <2>1. pc' = "done" /\ input.force # -1
    BY <1>9 DEF Timeline!CutShort, Timeline!Enough, Timeline!Absent
  <2> QED
    BY <1>1, <1>3, <1>4, <1>6, <2>1 DEF Carried
<1> QED
  BY <1>7, <1>8, <1>9

(* Every step expands the timeline as it is.                                *)
LEMMA TimelineSteps ==
  ASSUME Timeline!SegmentTimelineAssumption, TimelineInv, [Timeline!Next]_(Timeline!vars)
  PROVE  TimelineInv'
  BY ExpandEntry, ExpandRepeat, ExpandNext, ExpandEnd DEF Timeline!Next

(* What is expanded is the timeline.                                        *)
LEMMA FollowsTimelineHolds ==
  ASSUME Timeline!SegmentTimelineAssumption, TimelineInv
  PROVE  Timeline!FollowsTimeline
<1> SUFFICES ASSUME Regular
             PROVE  /\ \A k \in DOMAIN fragments :
                         /\ fragments[k].number = StartNumber + k - 1
                         /\ \E j \in DOMAIN input.segments : \E m \in 0..input.segments[j].r :
                              /\ k = Runs[j - 1] + 1 + m
                              /\ fragments[k].time = Starts(j) + m * input.segments[j].d
                    /\ pc = "done" /\ input.force = -1 =>
                         Len(fragments) = Runs[Len(input.segments)]
  BY Zenon DEF Timeline!FollowsTimeline, Timeline!segments, Timeline!Segments, Regular, Runs,
        Starts, Timeline!Absent
<1>1. Carried /\ input \in Inputs /\ \A k \in 1..Len(fragments) : Expanded(k)
  BY DEF TimelineInv
<1>2. DOMAIN fragments = 1..Len(fragments) /\ DOMAIN input.segments = Elements
  BY <1>1, TimelineTypes DEF Carried
<1> QED
  BY <1>1, <1>2 DEF Expanded, Carried

-----------------------------------------------------------------------------
(* A forced duration.                                                      *)

(* It is what limits a timeline for audio or video.                        *)
Forced ==
  input.kind = "av" /\ input.force \notin {0, -1} /\ Timeline!Closed /\ input.endNumber = -1

(* How long each of the first n segments lasts.                            *)
Durations(n) ==
  [k \in 1..n |->
     input.segments[CHOOSE j \in DOMAIN input.segments : Runs[j - 1] < k /\ k <= Runs[j]].d]

(* Before the last of n segments no more than the duration has passed.     *)
Within(n) ==
  n >= 1 => Timeline!Lasting(n - 1) \in Nat /\ Timeline!Lasting(n - 1) <= input.force

(* What is left of n segments when the loop ends.                          *)
Fewest(n) ==
  /\ n > 1 /\ Timeline!Lasting(n - 1) > input.force =>
       /\ Timeline!Lasting(n - 2) <= input.force
       /\ \E j \in Elements : Runs[j - 1] + 1 = n
  /\ n = Runs[Len(input.segments)] \/ Timeline!Lasting(n) > input.force

ForcedInv ==
  /\ TimelineInv
  /\ Forced =>
       /\ elapsed \in Nat
       /\ elapsed = Timeline!Lasting(Len(fragments))
       /\ pc \in {"entry", "repeat"} => Within(Len(fragments))
       /\ pc = "done" => Fewest(Len(fragments))
       /\ pc \in {"entry", "repeat", "done"}

(* How long some segments last is a running sum.                            *)
LEMMA LastingIs ==
  ASSUME NEW n \in Nat
  PROVE  \E w : IsSums(w, Durations(n), n) /\ Timeline!Lasting(n) = w[n]
<1> DEFINE D(k) == input.segments[CHOOSE j \in DOMAIN input.segments : Runs[j - 1] < k /\ k <= Runs[j]].d
           W == CHOOSE w : w = [k \in 0..n |-> IF k = 0 THEN 0 ELSE w[k - 1] + D(k)]
<1>1. Timeline!Lasting(n) = W[n]
  BY Zenon DEF Timeline!Lasting, Timeline!segments, Runs
<1> HIDE DEF D
<1>2. Durations(n) = [k \in 1..n |-> D(k)]
  BY Zenon DEF Durations, D
<1>3. \A k \in 1..n : Durations(n)[k] = D(k)
  BY <1>2
<1>4. \A w : [k \in 0..n |-> IF k = 0 THEN 0 ELSE w[k - 1] + Durations(n)[k]]
           = [k \in 0..n |-> IF k = 0 THEN 0 ELSE w[k - 1] + D(k)]
  BY <1>3
<1>5. PICK u : u = [k \in 0..n |-> IF k = 0 THEN 0 ELSE u[k - 1] + Durations(n)[k]]
  BY SumsExist, Zenon DEF IsSums
<1>6. \E v : v = [k \in 0..n |-> IF k = 0 THEN 0 ELSE v[k - 1] + D(k)]
  BY <1>4, <1>5
<1>7. W = [k \in 0..n |-> IF k = 0 THEN 0 ELSE W[k - 1] + D(k)]
  BY <1>6, Zenon
<1> HIDE DEF W
<1>8. IsSums(W, Durations(n), n)
  BY <1>4, <1>7 DEF IsSums
<1> QED
  BY <1>1, <1>8

(* No segments last no time.                                                *)
LEMMA NoneLast == Timeline!Lasting(0) = 0
<1>1. PICK w : IsSums(w, Durations(0), 0) /\ Timeline!Lasting(0) = w[0]
  BY LastingIs
<1> QED
  BY <1>1 DEF IsSums

(* One segment more lasts as long as its element says.                      *)
LEMMA OneMoreLasts ==
  ASSUME Timeline!SegmentTimelineAssumption, input \in Inputs, Timeline!Closed, NEW n \in Nat,
         NEW j \in Elements, Runs[j - 1] < n + 1, n + 1 <= Runs[j]
  PROVE  Timeline!Lasting(n + 1) = Timeline!Lasting(n) + input.segments[j].d
<1> DEFINE H(i, k) == Runs[i - 1] < k /\ k <= Runs[i]
           D(k) == input.segments[CHOOSE i \in DOMAIN input.segments : H(i, k)].d
           e == CHOOSE i \in DOMAIN input.segments : H(i, n + 1)
<1>d. D(n + 1) = input.segments[e].d
  OBVIOUS
<1>f. ASSUME NEW m \in Nat PROVE Durations(m) = [k \in 1..m |-> D(k)]
  BY Zenon DEF Durations
<1> HIDE DEF D
<1>1. PICK w : IsSums(w, Durations(n), n) /\ Timeline!Lasting(n) = w[n]
  BY LastingIs
<1>2. PICK v : IsSums(v, Durations(n + 1), n + 1) /\ Timeline!Lasting(n + 1) = v[n + 1]
  <2>1. n + 1 \in Nat
    OBVIOUS
  <2> QED
    BY <2>1, LastingIs
<1>3. w[n] = v[n]
  <2>1. \A k \in 1..n : Durations(n)[k] = Durations(n + 1)[k]
    <3>1. Durations(n) = [k \in 1..n |-> D(k)] /\ Durations(n + 1) = [k \in 1..(n + 1) |-> D(k)]
      <4>1. n \in Nat /\ n + 1 \in Nat
        OBVIOUS
      <4> QED
        BY <1>f, <4>1
    <3> QED
      BY <3>1
  <2>2. n + 1 \in Nat /\ n <= n + 1
    OBVIOUS
  <2>3. \A k \in 0..n : w[k] = v[k]
    <3> DEFINE a == Durations(n)
               b == Durations(n + 1)
    <3>1. IsSums(w, a, n) /\ IsSums(v, b, n + 1) /\ Agree(a, b, 1, n)
      BY <1>1, <1>2, <2>1 DEF Agree
    <3> HIDE DEF a, b
    <3>2. PICK l \in Nat : l = n + 1
      BY <2>2
    <3>3. /\ n \in Nat /\ l \in Nat /\ n <= l /\ IsSums(v, b, l) /\ IsSums(w, a, n)
          /\ Agree(a, b, 1, n)
      BY <3>1, <3>2
    <3>4. Agree(w, v, 0, n)
      BY <3>3, SumsAgree
    <3> QED
      BY <3>4 DEF Agree
  <2> QED
    BY <2>3
<1>4. v[n + 1] = v[n] + Durations(n + 1)[n + 1]
  BY <1>2 DEF IsSums
<1>5. Durations(n + 1)[n + 1] = input.segments[e].d
  <2>1. Durations(n + 1) = [k \in 1..(n + 1) |-> D(k)]
    BY <1>f
  <2> QED
    BY <1>d, <2>1
<1>6. DOMAIN input.segments = Elements /\ Len(input.segments) \in Nat
  BY TimelineTypes
<1>7. e \in Elements /\ H(e, n + 1)
  BY <1>6, Zenon
<1> HIDE DEF e
<1>8. e = j
  <2>1. /\ e \in 1..Len(input.segments) /\ j \in 1..Len(input.segments)
        /\ Runs[e - 1] < n + 1 /\ n + 1 <= Runs[e]
    BY <1>7 DEF Elements
  <2>2. \A i \in 0..Len(input.segments) : Runs[i] \in Nat
    BY RunsAre
  <2>3. \A i, k \in 0..Len(input.segments) : i <= k => Runs[i] <= Runs[k]
    BY RunsAre
  <2>4. CASE e < j
    <3>1. e \in 0..Len(input.segments) /\ j - 1 \in 0..Len(input.segments) /\ e <= j - 1
      BY <1>6, <2>1, <2>4
    <3>2. Runs[e] <= Runs[j - 1] /\ Runs[e] \in Nat /\ Runs[j - 1] \in Nat
      BY <2>2, <2>3, <3>1
    <3> QED
      BY <2>1, <3>2
  <2>5. CASE j < e
    <3>1. j \in 0..Len(input.segments) /\ e - 1 \in 0..Len(input.segments) /\ j <= e - 1
      BY <1>6, <2>1, <2>5
    <3>2. Runs[j] <= Runs[e - 1] /\ Runs[j] \in Nat /\ Runs[e - 1] \in Nat
      BY <2>2, <2>3, <3>1
    <3> QED
      BY <2>1, <3>2
  <2> QED
    BY <2>1, <2>4, <2>5
<1> QED
  BY <1>1, <1>2, <1>3, <1>4, <1>5, <1>8

(* At the start nothing lasts.                                              *)
LEMMA ForcedInit ==
  ASSUME Timeline!SegmentTimelineAssumption, Timeline!Init
  PROVE  ForcedInv
<1>1. /\ pc = "entry" /\ elapsed = 0 /\ Len(fragments) = 0
  BY DEF Timeline!Init
<1> QED
  BY <1>1, TimelineInit, NoneLast DEF ForcedInv, Within

(* A forced timeline is expanded without other limits.                      *)
LEMMA ForcedIsRegular ==
  ASSUME Timeline!SegmentTimelineAssumption, ForcedInv, Forced
  PROVE  /\ Regular /\ Carried /\ input \in Inputs /\ input.force \in Nat /\ input.force > 0
         /\ Timeline!Closed /\ Len(fragments) \in Nat
         /\ \A x \in Nat : Timeline!Enough(x) <=> x > input.force
<1>1. Regular /\ Carried /\ input \in Inputs /\ Timeline!Closed
  BY DEF ForcedInv, TimelineInv, Forced, Regular
<1>2. input.force \in Nat /\ input.force > 0
  BY <1>1, TimelineTypes DEF Forced
<1>3. Len(fragments) \in Nat
  BY <1>1 DEF Carried
<1>4. \A x : Timeline!Enough(x) <=> x > input.force
  BY <1>2 DEF Timeline!Enough, Timeline!target_duration, Forced, Timeline!Absent
<1> QED
  BY <1>1, <1>2, <1>3, <1>4

(* Nothing that lasts changes with the manifest left alone.                 *)
LEMMA SameLengths ==
  ASSUME input' = input, NEW n
  PROVE  /\ Timeline!Lasting(n)' = Timeline!Lasting(n)
         /\ Within(n)' = Within(n) /\ Fewest(n)' = Fewest(n) /\ Forced' = Forced
<1>1. Timeline!Lasting(n)' = Timeline!Lasting(n)
  BY DEF Timeline!Lasting, Timeline!segments
<1>2. Timeline!Lasting(n - 1)' = Timeline!Lasting(n - 1)
  BY DEF Timeline!Lasting, Timeline!segments
<1>3. Timeline!Lasting(n - 2)' = Timeline!Lasting(n - 2)
  BY DEF Timeline!Lasting, Timeline!segments
<1>4. Runs' = Runs /\ Elements' = Elements
  BY SameTimeline
<1>5. Forced' = Forced
  BY DEF Forced, Timeline!Closed, Timeline!segments
<1> QED
  BY <1>1, <1>2, <1>3, <1>4, <1>5 DEF Within, Fewest

(* With a segment appended, what has elapsed is what all of them last.      *)
LEMMA OneMoreElapsed ==
  ASSUME Timeline!SegmentTimelineAssumption, ForcedInv, Forced, input' = input,
         NEW time, NEW j \in Elements, NEW m \in 0..input.segments[j].r,
         Timeline!Push(time, elapsed + input.segments[j].d),
         Len(fragments) = Runs[j - 1] + m
  PROVE  /\ elapsed' \in Nat /\ elapsed <= elapsed'
         /\ elapsed' = Timeline!Lasting(Len(fragments) + 1)
         /\ Len(fragments') = Len(fragments) + 1
<1>1. /\ elapsed \in Nat /\ elapsed = Timeline!Lasting(Len(fragments))
  BY DEF ForcedInv
<1>2. /\ input \in Inputs /\ Timeline!Closed /\ Len(fragments) \in Nat /\ fragments \in Seq(Timed)
  BY ForcedIsRegular DEF Carried
<1>3. input.segments[j].r \in Nat /\ Runs[j] = Runs[j - 1] + (1 + input.segments[j].r)
  BY <1>2, RunsAre
<1>4. Runs[j - 1] \in Nat
  <2>1. j - 1 \in 0..Len(input.segments)
    BY <1>2, TimelineTypes DEF Elements
  <2> QED
    BY <1>2, <2>1, RunsAre
<1>5. Runs[j - 1] < Len(fragments) + 1 /\ Len(fragments) + 1 <= Runs[j]
  BY <1>3, <1>4
<1>6. Timeline!Lasting(Len(fragments) + 1) = Timeline!Lasting(Len(fragments)) + input.segments[j].d
  BY <1>2, <1>5, OneMoreLasts
<1>7. elapsed' = elapsed + input.segments[j].d /\ input.segments[j].d \in Nat
  BY <1>2, TimelineTypes DEF Timeline!Push
<1>8. Len(fragments') = Len(fragments) + 1
  <2>1. fragments' = Append(fragments, [time |-> time, number |-> number])
    BY DEF Timeline!Push
  <2>2. \A f : Len(Append(fragments, f)) = Len(fragments) + 1
    BY <1>2
  <2> QED
    BY <2>1, <2>2
<1> QED
  BY <1>1, <1>6, <1>7, <1>8

(* The invariant of a forced timeline from that of the timeline.            *)
LEMMA ForcedKept ==
  ASSUME Timeline!SegmentTimelineAssumption, ForcedInv, Timeline!Next,
         input' = input, NEW n, Len(fragments') = n,
         Forced => /\ elapsed' \in Nat /\ elapsed' = Timeline!Lasting(n)
                   /\ pc' \in {"entry", "repeat"} => Within(n)
                   /\ pc' = "done" => Fewest(n)
                   /\ pc' \in {"entry", "repeat", "done"}
  PROVE  ForcedInv'
<1>1. TimelineInv'
  BY TimelineSteps DEF ForcedInv
<1>2. /\ Timeline!Lasting(n)' = Timeline!Lasting(n) /\ Within(n)' = Within(n)
      /\ Fewest(n)' = Fewest(n) /\ Forced' = Forced
  BY SameLengths
<1> QED
  BY <1>1, <1>2 DEF ForcedInv

(* The first segment of an element may be one more than was needed.         *)
LEMMA ForcedEntry ==
  ASSUME Timeline!SegmentTimelineAssumption, ForcedInv, Timeline!Entry
  PROVE  ForcedInv'
<1> DEFINE time == IF input.segments[s].t # -1 THEN input.segments[s].t ELSE segment_time
           sum == elapsed + input.segments[s].d
<1>1. /\ pc = "entry" /\ s <= Len(input.segments) /\ input' = input
      /\ Timeline!Push(time, sum) /\ elapsed' = sum
      /\ pc' = IF Timeline!Enough(sum) THEN "done" ELSE "repeat"
  BY DEF Timeline!Entry, Timeline!segments, Timeline!Absent, Timeline!Push
<1> HIDE DEF time
<1>2. CASE ~Forced
  <2>1. PICK n : n = Len(fragments')
    OBVIOUS
  <2> QED
    BY <1>1, <1>2, <2>1, ForcedKept DEF Timeline!Next
<1>3. CASE Forced
  <2>1. /\ Carried /\ input.force \in Nat /\ input.force > 0 /\ Len(fragments) \in Nat
        /\ input \in Inputs /\ Timeline!Closed
        /\ \A x \in Nat : Timeline!Enough(x) <=> x > input.force
    BY <1>3, ForcedIsRegular
  <2>2. s \in Elements /\ Len(fragments) = Runs[s - 1]
    BY <1>1, <2>1, TimelineTypes DEF Carried, Elements
  <2>3. input.segments[s].r \in Nat /\ Runs[s - 1] \in Nat
    BY <2>1, <2>2, RunsAre
  <2>4. PICK n \in Nat : n = Len(fragments) + 1
    BY <2>1
  <2>5. /\ elapsed' \in Nat /\ elapsed <= elapsed'
        /\ elapsed' = Timeline!Lasting(n)
        /\ Len(fragments') = n
    <3>1. 0 \in 0..input.segments[s].r /\ Len(fragments) = Runs[s - 1] + 0
      BY <2>1, <2>2, <2>3
    <3>2. Timeline!Push(time, elapsed + input.segments[s].d)
      BY <1>1
    <3> QED
      BY <1>1, <1>3, <2>2, <2>4, <3>1, <3>2, OneMoreElapsed
  <2>6. /\ elapsed \in Nat /\ elapsed = Timeline!Lasting(n - 1) /\ Within(n - 1)
    <3>1. n - 1 = Len(fragments)
      BY <2>1, <2>4
    <3> QED
      BY <1>1, <1>3, <3>1 DEF ForcedInv
  <2> HIDE DEF sum
  <2>7. CASE Timeline!Enough(sum)
    <3>1. pc' = "done" /\ elapsed' > input.force
      BY <1>1, <2>1, <2>5, <2>7
    <3>2. \E j \in Elements : Runs[j - 1] + 1 = n
      BY <2>2, <2>4
    <3>3. n > 1 => Timeline!Lasting(n - 2) <= input.force
      <4>1. n > 1 => n - 1 >= 1 /\ (n - 1) - 1 = n - 2
        BY <2>4
      <4> QED
        BY <2>6, <4>1 DEF Within
    <3>4. Fewest(n)
      BY <2>5, <3>1, <3>2, <3>3 DEF Fewest
    <3> QED
      BY <1>1, <2>5, <3>1, <3>4, ForcedKept DEF Timeline!Next
  <2>8. CASE ~Timeline!Enough(sum)
    <3>1. pc' = "repeat" /\ elapsed' <= input.force
      BY <1>1, <2>1, <2>5, <2>8
    <3>2. Within(n)
      BY <2>1, <2>5, <2>6, <3>1 DEF Within
    <3> QED
      BY <1>1, <2>5, <3>1, <3>2, ForcedKept DEF Timeline!Next
  <2> QED
    BY <2>7, <2>8
<1> QED
  BY <1>2, <1>3

(* A repeat is taken only when the duration has not passed.                 *)
LEMMA ForcedRepeat ==
  ASSUME Timeline!SegmentTimelineAssumption, ForcedInv, Timeline!Repeat
  PROVE  ForcedInv'
<1>1. /\ pc = "repeat" /\ pc' = pc /\ input' = input
      /\ ~Timeline!Exhausted /\ ~Timeline!Enough(elapsed)
      /\ Timeline!Push(segment_time + input.segments[s].d, elapsed + input.segments[s].d)
  BY DEF Timeline!Repeat, Timeline!segments
<1>2. CASE ~Forced
  <2>1. PICK n : n = Len(fragments')
    OBVIOUS
  <2> QED
    BY <1>1, <1>2, <2>1, ForcedKept DEF Timeline!Next
<1>3. CASE Forced
  <2>1. /\ input.force \in Nat /\ Len(fragments) \in Nat /\ Regular /\ TimelineInv
        /\ \A x \in Nat : Timeline!Enough(x) <=> x > input.force
    BY <1>3, ForcedIsRegular DEF ForcedInv
  <2>2. /\ Carried /\ s \in Elements
        /\ count \in 0..input.segments[s].r /\ input.segments[s].r \in Nat
        /\ count + 1 \in 0..input.segments[s].r
    BY <1>1, <2>1, AllRepeated
  <2>3. Len(fragments) = Runs[s - 1] + 1 + count
    BY <1>1, <2>2 DEF Carried
  <2>4. Runs[s - 1] \in Nat /\ count \in Nat
    <3>1. input \in Inputs /\ Timeline!Closed
      BY <1>3, ForcedIsRegular
    <3>2. s - 1 \in 0..Len(input.segments)
      BY <2>2, <3>1, TimelineTypes DEF Elements
    <3> QED
      BY <2>2, <3>1, <3>2, RunsAre
  <2>5. Len(fragments) = Runs[s - 1] + (count + 1)
    BY <2>3, <2>4
  <2>6. PICK n \in Nat : n = Len(fragments) + 1
    BY <2>1
  <2>7. PICK time : time = segment_time + input.segments[s].d
    OBVIOUS
  <2>8. /\ elapsed' \in Nat
        /\ elapsed' = Timeline!Lasting(n)
        /\ Len(fragments') = n
    <3>1. Timeline!Push(time, elapsed + input.segments[s].d)
      BY <1>1, <2>7
    <3> QED
      BY <1>1, <1>3, <2>2, <2>5, <2>6, <3>1, OneMoreElapsed
  <2>9. elapsed \in Nat /\ elapsed = Timeline!Lasting(n - 1)
    <3>1. n - 1 = Len(fragments)
      BY <2>1, <2>6
    <3> QED
      BY <1>3, <3>1 DEF ForcedInv
  <2>10. Within(n)
    BY <1>1, <2>1, <2>9 DEF Within
  <2> QED
    BY <1>1, <2>8, <2>10, ForcedKept DEF Timeline!Next
<1> QED
  BY <1>2, <1>3

(* The loop goes on with the next element, or ends, with what there is.     *)
LEMMA ForcedRest ==
  ASSUME Timeline!SegmentTimelineAssumption, ForcedInv,
         Timeline!NextEntry \/ Timeline!CutShort \/ Timeline!Finish
  PROVE  ForcedInv'
<1>1. input' = input /\ fragments' = fragments /\ elapsed' = elapsed
  BY DEF Timeline!NextEntry, Timeline!CutShort, Timeline!Finish
<1>2. Timeline!Next
  BY DEF Timeline!Next
<1>3. PICK n : n = Len(fragments)
  OBVIOUS
<1>4. CASE ~Forced
  BY <1>1, <1>2, <1>3, <1>4, ForcedKept
<1>5. CASE Forced
  <2>1. /\ input.force \in Nat /\ n \in Nat /\ Carried /\ input \in Inputs
        /\ \A x \in Nat : Timeline!Enough(x) <=> x > input.force
    BY <1>3, <1>5, ForcedIsRegular
  <2>2. /\ elapsed \in Nat /\ elapsed = Timeline!Lasting(n)
        /\ pc \in {"entry", "repeat"} => Within(n)
    BY <1>3, <1>5 DEF ForcedInv
  <2>3. pc \in {"entry", "repeat"} => (n > 1 => ~(Timeline!Lasting(n - 1) > input.force))
    BY <2>1, <2>2 DEF Within
  <2>4. CASE Timeline!NextEntry
    <3>1. pc' = "entry" /\ Within(n)
      BY <2>2, <2>4 DEF Timeline!NextEntry
    <3> QED
      BY <1>1, <1>2, <1>3, <2>2, <3>1, ForcedKept
  <2>5. CASE Timeline!CutShort
    <3>1. pc = "repeat" /\ pc' = "done" /\ elapsed > input.force
      BY <2>1, <2>2, <2>5 DEF Timeline!CutShort
    <3>2. Fewest(n)
      BY <2>2, <2>3, <3>1 DEF Fewest
    <3> QED
      BY <1>1, <1>2, <1>3, <2>2, <3>1, <3>2, ForcedKept
  <2>6. CASE Timeline!Finish
    <3>1. pc = "entry" /\ pc' = "done" /\ s > Len(input.segments)
      BY <2>6 DEF Timeline!Finish, Timeline!segments
    <3>2. n = Runs[Len(input.segments)]
      <4>1. Len(input.segments) \in Nat
        BY <2>1, TimelineTypes
      <4>2. s - 1 = Len(input.segments) /\ n = Runs[s - 1]
        BY <1>3, <2>1, <3>1, <4>1 DEF Carried
      <4> QED
        BY <4>2
    <3>3. Fewest(n)
      BY <2>3, <3>1, <3>2 DEF Fewest
    <3> QED
      BY <1>1, <1>2, <1>3, <2>2, <3>1, <3>3, ForcedKept
  <2> QED
    BY <2>4, <2>5, <2>6
<1> QED
  BY <1>4, <1>5

(* Every step keeps a forced timeline as short as the loop can.             *)
LEMMA ForcedStep ==
  ASSUME Timeline!SegmentTimelineAssumption, ForcedInv, [Timeline!Next]_(Timeline!vars)
  PROVE  ForcedInv'
<1>1. CASE Timeline!Next
  BY <1>1, ForcedEntry, ForcedRepeat, ForcedRest DEF Timeline!Next
<1>2. CASE UNCHANGED Timeline!vars
  <2>1. input' = input /\ fragments' = fragments /\ elapsed' = elapsed /\ pc' = pc
    BY <1>2 DEF Timeline!vars
  <2>2. TimelineInv'
    BY TimelineSteps DEF ForcedInv
  <2>3. PICK n : n = Len(fragments)
    OBVIOUS
  <2>4. /\ Timeline!Lasting(n)' = Timeline!Lasting(n) /\ Within(n)' = Within(n)
        /\ Fewest(n)' = Fewest(n) /\ Forced' = Forced
    BY <2>1, SameLengths
  <2> QED
    BY <2>1, <2>2, <2>3, <2>4 DEF ForcedInv
<1> QED
  BY <1>1, <1>2

(* A forced duration takes no more segments than the loop needs.            *)
LEMMA ForcedIsShortestHolds ==
  ASSUME Timeline!SegmentTimelineAssumption, ForcedInv
  PROVE  Timeline!ForcedIsShortest
<1> SUFFICES ASSUME Forced, NEW n, n = Len(fragments)
             PROVE  /\ n > 1 /\ Timeline!Lasting(n - 1) > input.force =>
                         /\ Timeline!Lasting(n - 2) <= input.force
                         /\ \E j \in DOMAIN input.segments : Runs[j - 1] + 1 = n
                    /\ pc = "done" =>
                         n = Runs[Len(input.segments)] \/ Timeline!Lasting(n) > input.force
  BY Zenon DEF Timeline!ForcedIsShortest, Timeline!segments, Timeline!Segments, Forced, Runs,
        Timeline!Absent
<1>1. /\ input \in Inputs /\ n \in Nat /\ input.force \in Nat
  BY ForcedIsRegular
<1>2. DOMAIN input.segments = Elements
  BY <1>1, TimelineTypes
<1>3. /\ pc \in {"entry", "repeat"} => Within(n)
      /\ pc = "done" => Fewest(n)
      /\ pc \in {"entry", "repeat", "done"}
  BY DEF ForcedInv
<1>4. pc \in {"entry", "repeat"} => ~(n > 1 /\ Timeline!Lasting(n - 1) > input.force)
  BY <1>1, <1>3 DEF Within
<1> QED
  BY <1>2, <1>3, <1>4 DEF Fewest

(* A timeline without open repeats is expanded into just its segments, at   *)
(* their times and with consecutive numbers (fetch.rs:2735-2784).           *)
THEOREM TimelineIsFollowed ==
  ASSUME Timeline!SegmentTimelineAssumption
  PROVE  Spec => []FollowsTimeline
<1> DEFINE Inv == procedure = "timeline" => TimelineInv
<1>1. Init => Inv
  BY TimelineInit DEF Init
<1>2. Inv /\ [Next]_vars => Inv'
  BY TimelineSteps DEF Next, vars, timelineVars, Timeline!vars
<1>3. Inv => FollowsTimeline
  BY FollowsTimelineHolds DEF FollowsTimeline
<1> QED
  BY <1>1, <1>2, <1>3, PTL DEF Spec

(* A forced duration is served with the fewest segments that outlast it,    *)
(* or one more if an element ends with the last of them (fetch.rs:          *)
(* 2748-2768).                                                              *)
THEOREM ForcedDurationIsShortest ==
  ASSUME Timeline!SegmentTimelineAssumption
  PROVE  Spec => []ForcedIsShortest
<1> DEFINE Inv == procedure = "timeline" => ForcedInv
<1>1. Init => Inv
  BY ForcedInit DEF Init
<1>2. Inv /\ [Next]_vars => Inv'
  BY ForcedStep DEF Next, vars, timelineVars, Timeline!vars
<1>3. Inv => ForcedIsShortest
  BY ForcedIsShortestHolds DEF ForcedIsShortest
<1> QED
  BY <1>1, <1>2, <1>3, PTL DEF Spec

-----------------------------------------------------------------------------
(* Resolving links.                                                        *)

Elem == Links!Element

(* Ways of weighing elements, and what elements weigh by what they mean.   *)
Weighings == [Elem -> Nat]
Meant(w) == [x \in Elem |-> Total(Links!Meaning(x), w)]

(* However elements are weighed, those before the link in hand and what    *)
(* the others mean weigh what the document does after the round.           *)
LinksInv ==
  /\ document \in Documents /\ before \in Seq(Elem) /\ after \in Seq(Elem)
  /\ round \in 1..(Links!Rounds + 1)
  /\ pc \in {"resolve", "err", "ok"}
  /\ round <= Links!Rounds =>
       \A w \in Weighings : Total(before, w) + Total(after, Meant(w)) = Total(Links!Expanded[round], w)
  /\ round > Links!Rounds =>
       \A w \in Weighings : Total(after, w) = Total(Links!Expanded[Links!Rounds], w)
  /\ pc = "ok" => round > Links!Rounds

(* What elements are and mean.                                              *)
LEMMA MeaningIs ==
  ASSUME Links!XLinkAssumption, NEW x \in Elem
  PROVE  /\ Links!Meaning(x) \in Seq(Elem)
         /\ x.href \in Hrefs =>
              Links!Meaning(x) = Remote[x.href] /\ Remote[x.href] \in Seq(Elem)
         /\ x.href = "zero" => Links!Meaning(x) = << >>
         /\ x.href \in {"none", "empty"} => Links!Meaning(x) = <<x>>
         /\ x.href \in Hrefs \/ x.href \in {"none", "zero", "empty"}
<1>1. /\ x.href \in {"none", "zero", "empty"} \cup Hrefs
      /\ Remote \in [Hrefs -> Seq(Elem)]
      /\ Hrefs \cap {"none", "zero", "empty"} = {}
  BY DEF Elem, Links!Element, Links!Unfetched, Links!XLinkAssumption
<1>2. <<x>> \in Seq(Elem) /\ << >> \in Seq(Elem)
  OBVIOUS
<1>3. Links!Meaning(x) =
        IF x.href \in Hrefs THEN Remote[x.href] ELSE IF x.href = "zero" THEN << >> ELSE <<x>>
  BY DEF Links!Meaning
<1>4. CASE x.href \in Hrefs
  <2>1. x.href \notin {"none", "zero", "empty"} /\ Remote[x.href] \in Seq(Elem)
    BY <1>1, <1>4
  <2> QED
    BY <1>3, <1>4, <2>1
<1>5. CASE x.href \notin Hrefs
  <2>1. x.href \in {"none", "zero", "empty"}
    BY <1>1, <1>5
  <2> QED
    BY <1>2, <1>3, <1>5, <2>1
<1> QED
  BY <1>4, <1>5

(* What elements weigh by what they mean is a weighing.                     *)
LEMMA MeantIsWeighing ==
  ASSUME Links!XLinkAssumption, NEW w \in Weighings
  PROVE  Meant(w) \in Weighings /\ \A x \in Elem : Meant(w)[x] = Total(Links!Meaning(x), w)
<1>1. \A x \in Elem : Total(Links!Meaning(x), w) \in Nat
  <2> TAKE x \in Elem
  <2>1. Links!Meaning(x) \in Seq(Elem)
    BY MeaningIs
  <2> QED
    BY <2>1, TotalIs DEF Weighings
<1> QED
  BY <1>1 DEF Meant, Weighings

(* A resolved document weighs what its elements mean.                       *)
LEMMA ResolvedWeighs ==
  ASSUME Links!XLinkAssumption, NEW d \in Seq(Elem)
  PROVE  /\ Links!Resolved(d) \in Seq(Elem)
         /\ \A w \in Weighings : Total(Links!Resolved(d), w) = Total(d, Meant(w))
<1> DEFINE n == Len(d)
           ss == [k \in DOMAIN d |-> Links!Meaning(d[k])]
<1>1. n \in Nat /\ DOMAIN d = 1..n /\ \A k \in 1..n : d[k] \in Elem
  OBVIOUS
<1> HIDE DEF n
<1>2. ss \in Seq(Seq(Elem)) /\ Len(ss) = n /\ \A k \in 1..n : ss[k] = Links!Meaning(d[k])
  <2>1. ss \in [1..n -> Seq(Elem)]
    BY <1>1, MeaningIs
  <2>2. \A k \in 1..n : ss[k] = Links!Meaning(d[k])
    BY <1>1
  <2> HIDE DEF ss
  <2>3. ss \in Seq(Seq(Elem)) /\ DOMAIN ss = 1..n
    BY <1>1, <2>1
  <2> QED
    BY <1>1, <2>2, <2>3
<1>3. Links!Resolved(d) = FlatOf(ss)
  BY Zenon DEF Links!Resolved, Links!FlattenSeq, FlatOf, IsFlat
<1> HIDE DEF ss
<1>4. ASSUME NEW w \in Weighings
      PROVE  FlatOf(ss) \in Seq(Elem) /\ Total(FlatOf(ss), w) = Total(d, Meant(w))
  <2> DEFINE m == Meant(w)
             a == Weights(d, m)
  <2>1. m \in Weighings /\ \A x \in Elem : m[x] = Total(Links!Meaning(x), w)
    BY MeantIsWeighing
  <2>2. m \in [Elem -> Nat] /\ w \in [Elem -> Nat]
    BY <2>1 DEF Weighings
  <2> HIDE DEF m
  <2>3. /\ \E t : IsSums(t, a, n) /\ Total(d, m) = t[n]
        /\ \A k \in 1..n : a[k] = m[d[k]]
    BY <2>2, TotalIs DEF n
  <2> HIDE DEF a
  <2>4. PICK t : IsSums(t, a, n) /\ Total(d, m) = t[n]
    BY <2>3
  <2>5. \A k \in 1..n : a[k] = Total(ss[k], w)
    BY <1>1, <1>2, <2>1, <2>3
  <2>6. /\ FlatOf(ss) \in Seq(Elem)
        /\ Total(FlatOf(ss), w) = t[Len(ss)]
    <3>1. /\ ss \in Seq(Seq(Elem)) /\ \A k \in 1..Len(ss) : a[k] = Total(ss[k], w)
          /\ IsSums(t, a, Len(ss))
      BY <1>2, <2>4, <2>5
    <3> QED
      BY <2>2, <3>1, TotalOfFlat
  <2> QED
    BY <1>2, <2>4, <2>6 DEF m
<1>5. [x \in Elem |-> 0] \in Weighings
  BY DEF Weighings
<1>6. FlatOf(ss) \in Seq(Elem)
  BY <1>4, <1>5
<1> QED
  BY <1>3, <1>4, <1>6

(* Round by round the document is resolved.                                 *)
LEMMA ExpandedIs ==
  ASSUME Links!XLinkAssumption, document \in Documents
  PROVE  /\ Links!Expanded[0] = document
         /\ \A k \in 1..Links!Rounds : Links!Expanded[k] = Links!Resolved(Links!Expanded[k - 1])
         /\ \A k \in 0..Links!Rounds : Links!Expanded[k] \in Seq(Elem)
<1> DEFINE X == Links!Expanded
           n == Links!Rounds
           Is(f, m) == f = [k \in 0..m |-> IF k = 0 THEN document ELSE Links!Resolved(f[k - 1])]
           T == {m \in Nat : \E f : Is(f, m)}
<1>1. 0 \in T
  <2> DEFINE f == [k \in 0..0 |-> document]
  <2>1. f = [k \in 0..0 |-> IF k = 0 THEN document ELSE Links!Resolved(f[k - 1])]
    OBVIOUS
  <2> QED
    BY <2>1
<1>2. ASSUME NEW m \in Nat, m \in T PROVE m + 1 \in T
  <2>1. PICK f : f = [k \in 0..m |-> IF k = 0 THEN document ELSE Links!Resolved(f[k - 1])]
    BY <1>2
  <2> DEFINE g == [k \in 0..(m + 1) |-> IF k = m + 1 THEN Links!Resolved(f[m]) ELSE f[k]]
  <2>2. ASSUME NEW k \in 0..(m + 1)
        PROVE  g[k] = IF k = 0 THEN document ELSE Links!Resolved(g[k - 1])
    <3>1. CASE k = m + 1
      BY <3>1
    <3>2. CASE k # m + 1
      <4>1. k \in 0..m /\ g[k] = f[k]
        BY <3>2
      <4>2. k # 0 => k - 1 \in 0..(m + 1) /\ k - 1 # m + 1 /\ g[k - 1] = f[k - 1]
        BY <3>2
      <4> HIDE DEF g
      <4> QED
        BY <2>1, <4>1, <4>2
    <3> QED
      BY <3>1, <3>2
  <2>3. Is(g, m + 1)
    BY <2>2
  <2> HIDE DEF g, Is
  <2> QED
    BY <2>3
<1> HIDE DEF T
<1>3. n \in Nat /\ Nat \subseteq T
  BY <1>1, <1>2, EveryNumber DEF Links!Rounds
<1>4. X = CHOOSE f : Is(f, n)
  BY Zenon DEF Links!Expanded
<1>5. Is(X, n)
  <2>1. \E f : Is(f, n)
    BY <1>3 DEF T
  <2> HIDE DEF Is
  <2> QED
    BY <1>4, <2>1, Zenon
<1> HIDE DEF X, n
<1>6. X[0] = document /\ \A k \in 1..n : X[k] = Links!Resolved(X[k - 1])
  BY <1>3, <1>5
<1> HIDE DEF Is
<1> DEFINE U == {k \in Nat : k <= n => X[k] \in Seq(Elem)}
<1>7. 0 \in U
  BY <1>6 DEF Links!XLinkAssumption, Elem
<1>8. ASSUME NEW k \in Nat, k \in U PROVE k + 1 \in U
  <2> SUFFICES ASSUME k + 1 <= n PROVE X[k + 1] \in Seq(Elem)
    OBVIOUS
  <2>1. k + 1 \in 1..n /\ (k + 1) - 1 = k /\ k <= n
    BY <1>3
  <2>2. X[k] \in Seq(Elem) /\ X[k + 1] = Links!Resolved(X[k])
    BY <1>6, <1>8, <2>1
  <2> QED
    BY <2>2, ResolvedWeighs
<1> HIDE DEF U
<1>9. Nat \subseteq U
  BY <1>7, <1>8, EveryNumber
<1>10. \A k \in 0..n : X[k] \in Seq(Elem)
  BY <1>9 DEF U
<1> QED
  BY <1>6, <1>10 DEF X, n

(* A document weighs after the next round what its elements mean.           *)
LEMMA RoundWeighs ==
  ASSUME Links!XLinkAssumption, document \in Documents, NEW k \in 1..Links!Rounds, NEW w \in Weighings
  PROVE  Total(Links!Expanded[k], w) = Total(Links!Expanded[k - 1], Meant(w))
<1>1. k - 1 \in 0..Links!Rounds
  BY DEF Links!Rounds
<1>2. /\ Links!Expanded[k] = Links!Resolved(Links!Expanded[k - 1])
      /\ Links!Expanded[k - 1] \in Seq(Elem)
  BY <1>1, ExpandedIs
<1> QED
  BY <1>2, ResolvedWeighs

(* At the start nothing is resolved.                                        *)
LEMMA LinksInit ==
  ASSUME Links!XLinkAssumption, Links!Init
  PROVE  LinksInv
<1>1. /\ document \in Documents /\ before = << >> /\ after = document /\ round = 1
      /\ pc = "resolve"
  BY DEF Links!Init
<1>2. document \in Seq(Elem) /\ << >> \in Seq(Elem)
  BY <1>1 DEF Links!XLinkAssumption, Elem
<1>3. ASSUME NEW w \in Weighings
      PROVE  Total(before, w) + Total(after, Meant(w)) = Total(Links!Expanded[1], w)
  <2>1. 1 \in 1..Links!Rounds /\ 1 - 1 = 0
    BY DEF Links!Rounds
  <2>2. Total(Links!Expanded[1], w) = Total(document, Meant(w))
    BY <1>1, <2>1, RoundWeighs, ExpandedIs
  <2>3. Total(<< >>, w) = 0
    BY TotalOfNone DEF Weighings
  <2>4. Total(document, Meant(w)) \in Nat
    <3>1. Meant(w) \in [Elem -> Nat]
      BY MeantIsWeighing DEF Weighings
    <3> QED
      BY <1>2, <3>1, TotalIs
  <2> QED
    BY <1>1, <2>2, <2>3, <2>4
<1>4. 1 \in 1..(Links!Rounds + 1) /\ ~(1 > Links!Rounds)
  BY DEF Links!Rounds
<1> QED
  BY <1>1, <1>2, <1>3, <1>4 DEF LinksInv

(* A link is replaced, dropped or kept: with it goes what it means, in      *)
(* whatever order.                                                          *)
LEMMA LinkResolved ==
  ASSUME Links!XLinkAssumption, LinksInv, Links!Keep \/ Links!ResolveToZero \/ Links!Fetch
  PROVE  LinksInv'
<1> DEFINE x == Head(after)
<1>1. /\ document' = document /\ round' = round /\ pc' = pc /\ after' = Tail(after)
      /\ pc = "resolve" /\ round <= Links!Rounds /\ after # << >>
  BY DEF Links!Keep, Links!ResolveToZero, Links!Fetch, Links!Resolving
<1>2. /\ document \in Documents /\ before \in Seq(Elem) /\ after \in Seq(Elem)
      /\ round \in 1..(Links!Rounds + 1)
      /\ \A w \in Weighings :
           Total(before, w) + Total(after, Meant(w)) = Total(Links!Expanded[round], w)
  BY <1>1 DEF LinksInv
<1>3. x \in Elem /\ Tail(after) \in Seq(Elem)
  BY <1>1, <1>2
<1>4. \E more \in Seq(Elem) :
        /\ before' = before \o more
        /\ \A w \in Weighings : Total(more, w) = Total(Links!Meaning(x), w)
  <2>1. CASE Links!Keep
    <3>1. /\ x.href \in {"none", "empty"} /\ before' = Append(before, x)
      BY <2>1 DEF Links!Keep, Links!link
    <3> HIDE DEF x
    <3>2. Links!Meaning(x) = <<x>>
      <4>1. x \in Elem /\ x.href \notin Hrefs /\ x.href # "zero"
        BY <1>3, <3>1 DEF Links!XLinkAssumption, Links!Unfetched
      <4> QED
        BY <4>1, Zenon DEF Links!Meaning
    <3>3. <<x>> \in Seq(Elem)
      BY <1>3
    <3>4. Append(before, x) = before \o <<x>>
      BY <1>2, <1>3
    <3>5. before' = before \o <<x>>
      BY <3>1, <3>4
    <3> QED
      BY <3>2, <3>3, <3>5
  <2>2. CASE Links!ResolveToZero
    <3>1. x.href = "zero" /\ before' = before
      BY <2>2 DEF Links!ResolveToZero, Links!link
    <3> HIDE DEF x
    <3>2. Links!Meaning(x) = << >> /\ << >> \in Seq(Elem) /\ before' = before \o << >>
      BY <1>2, <1>3, <3>1, MeaningIs
    <3> QED
      BY <3>2
  <2>3. CASE Links!Fetch
    <3> DEFINE a == Remote[x.href]
               b == Links!Reverse(a)
    <3>1. x.href \in Hrefs /\ before' = before \o b
      BY <2>3 DEF Links!Fetch, Links!link, Links!Inserted
    <3>2. Links!Meaning(x) = a /\ a \in Seq(Elem)
      BY <1>3, <3>1, MeaningIs
    <3>3. b = [k \in 1..Len(a) |-> a[(Len(a) - k) + 1]]
      BY DEF Links!Reverse
    <3> HIDE DEF a, b
    <3>4. b \in Seq(Elem) /\ Len(b) = Len(a) /\ \A k \in 1..Len(a) : b[k] = a[(Len(a) - k) + 1]
      <4>1. Len(a) \in Nat /\ \A k \in 1..Len(a) : a[(Len(a) - k) + 1] \in Elem
        BY <3>2
      <4>2. b \in [1..Len(a) -> Elem]
        BY <3>3, <4>1
      <4> QED
        BY <3>3, <4>1, <4>2
    <3>5. ASSUME NEW w \in Weighings PROVE Total(b, w) = Total(a, w)
      <4>1. w \in [Elem -> Nat]
        BY DEF Weighings
      <4> QED
        BY <3>2, <3>4, <4>1, TotalBackwards
    <3> QED
      BY <3>1, <3>2, <3>4, <3>5
  <2> QED
    BY <2>1, <2>2, <2>3
<1>5. PICK more \in Seq(Elem) :
        /\ before' = before \o more
        /\ \A w \in Weighings : Total(more, w) = Total(Links!Meaning(x), w)
  BY <1>4
<1>6. ASSUME NEW w \in Weighings
      PROVE  /\ before' \in Seq(Elem)
             /\ Total(before', w) + Total(after', Meant(w)) = Total(Links!Expanded[round], w)
  <2>1. w \in [Elem -> Nat] /\ Meant(w) \in [Elem -> Nat]
    BY MeantIsWeighing DEF Weighings
  <2>2. before \o more \in Seq(Elem) /\ Total(before \o more, w) = Total(before, w) + Total(more, w)
    BY <1>2, <2>1, TotalOfBoth
  <2>3. Total(after, Meant(w)) = Meant(w)[x] + Total(Tail(after), Meant(w))
    BY <1>1, <1>2, <2>1, TotalOfFirst, ZenonT(60)
  <2>4. Meant(w)[x] = Total(more, w)
    BY <1>3, <1>5, MeantIsWeighing
  <2>5. /\ Total(before, w) \in Nat /\ Total(more, w) \in Nat
        /\ Total(Tail(after), Meant(w)) \in Nat
    BY <1>2, <1>3, <2>1, TotalIs
  <2>6. Total(before, w) + Total(after, Meant(w)) = Total(Links!Expanded[round], w)
    BY <1>2
  <2> QED
    BY <1>1, <1>5, <2>2, <2>3, <2>4, <2>5, <2>6
<1>7. before' \in Seq(Elem)
  <2>1. [e \in Elem |-> 0] \in Weighings
    BY DEF Weighings
  <2> QED
    BY <1>6, <2>1
<1>8. Links!Expanded' = Links!Expanded
  BY <1>1 DEF Links!Expanded
<1>9. round' <= Links!Rounds /\ ~(round' > Links!Rounds)
  BY <1>1, <1>2 DEF Links!Rounds
<1>10. ASSUME NEW w \in Weighings
       PROVE  Total(before', w) + Total(after', Meant(w)) = Total(Links!Expanded[round]', w)
  BY <1>1, <1>6, <1>8
<1>11. /\ document' \in Documents /\ after' \in Seq(Elem) /\ round' \in 1..(Links!Rounds + 1)
       /\ pc' = "resolve"
  BY <1>1, <1>2, <1>3
<1> QED
  BY <1>1, <1>7, <1>9, <1>10, <1>11 DEF LinksInv

(* What a round has resolved is resolved again.                             *)
LEMMA NextRoundBegins ==
  ASSUME Links!XLinkAssumption, LinksInv, Links!NextRound
  PROVE  LinksInv'
<1>1. /\ document' = document /\ round' = round + 1 /\ pc' = pc /\ pc = "resolve"
      /\ after' = before /\ before' = << >> /\ after = << >> /\ round <= Links!Rounds
  BY DEF Links!NextRound
<1>2. /\ document \in Documents /\ before \in Seq(Elem)
      /\ round \in 1..(Links!Rounds + 1)
      /\ \A w \in Weighings :
           Total(before, w) + Total(after, Meant(w)) = Total(Links!Expanded[round], w)
  BY <1>1 DEF LinksInv
<1>3. ASSUME NEW w \in Weighings PROVE Total(before, w) = Total(Links!Expanded[round], w)
  <2>1. w \in [Elem -> Nat] /\ Meant(w) \in [Elem -> Nat]
    BY MeantIsWeighing DEF Weighings
  <2>2. Total(after, Meant(w)) = 0
    BY <1>1, <2>1, TotalOfNone
  <2>3. Total(before, w) \in Nat
    BY <1>2, <2>1, TotalIs
  <2>4. Total(before, w) + Total(after, Meant(w)) = Total(Links!Expanded[round], w)
    BY <1>2
  <2> QED
    BY <2>2, <2>3, <2>4
<1>4. Links!Expanded' = Links!Expanded
  BY <1>1 DEF Links!Expanded
<1>5. /\ document' \in Documents /\ after' \in Seq(Elem) /\ before' \in Seq(Elem)
      /\ round' \in 1..(Links!Rounds + 1)
  <2>1. << >> \in Seq(Elem)
    OBVIOUS
  <2> QED
    BY <1>1, <1>2, <2>1 DEF Links!Rounds
<1>6. ASSUME round' <= Links!Rounds, NEW w \in Weighings
      PROVE  Total(before', w) + Total(after', Meant(w)) = Total(Links!Expanded'[round'], w)
  <2>1. round + 1 \in 1..Links!Rounds /\ (round + 1) - 1 = round
    BY <1>1, <1>2, <1>6 DEF Links!Rounds
  <2>2. Total(Links!Expanded[round + 1], w) = Total(Links!Expanded[round], Meant(w))
    <3>1. PICK k \in 1..Links!Rounds : k = round + 1
      BY <2>1
    <3>2. Total(Links!Expanded[k], w) = Total(Links!Expanded[k - 1], Meant(w))
      BY <1>2, RoundWeighs
    <3> QED
      BY <2>1, <3>1, <3>2
  <2>3. Meant(w) \in Weighings
    BY MeantIsWeighing
  <2>4. Total(before, Meant(w)) = Total(Links!Expanded[round], Meant(w))
    BY <1>3, <2>3
  <2>5. Total(<< >>, w) = 0 /\ Total(before, Meant(w)) \in Nat
    BY <1>2, <2>3, TotalOfNone, TotalIs DEF Weighings
  <2> QED
    BY <1>1, <1>4, <2>2, <2>4, <2>5
<1>7. ASSUME round' > Links!Rounds, NEW w \in Weighings
      PROVE  Total(after', w) = Total(Links!Expanded'[Links!Rounds], w)
  <2>1. round = Links!Rounds
    BY <1>1, <1>2, <1>7 DEF Links!Rounds
  <2> QED
    BY <1>1, <1>3, <1>4, <2>1
<1>8. Links!Rounds' = Links!Rounds
  BY DEF Links!Rounds
<1> QED
  BY <1>1, <1>5, <1>6, <1>7, <1>8 DEF LinksInv

(* Every step resolves links as they are meant.                             *)
LEMMA LinksStep ==
  ASSUME Links!XLinkAssumption, LinksInv, [Links!Next]_(Links!vars)
  PROVE  LinksInv'
<1>1. CASE Links!Keep \/ Links!ResolveToZero \/ Links!Fetch
  BY <1>1, LinkResolved
<1>2. CASE Links!NextRound
  BY <1>2, NextRoundBegins
<1>3. CASE Links!FetchFails \/ Links!Parse \/ UNCHANGED Links!vars
  <2>1. /\ document' = document /\ before' = before /\ after' = after /\ round' = round
        /\ pc' \in {"resolve", "ok", "err"}
        /\ pc' = "ok" => round > Links!Rounds
    BY <1>3 DEF Links!FetchFails, Links!Parse, Links!vars, LinksInv
  <2>2. Links!Expanded' = Links!Expanded
    BY <2>1 DEF Links!Expanded
  <2> QED
    BY <2>1, <2>2 DEF LinksInv
<1> QED
  BY <1>1, <1>2, <1>3 DEF Links!Next

(* How often an element is there, and the weighing that counts only it.     *)
Occurrences(x, a) == Cardinality({k \in DOMAIN a : a[k] = x})
Only(E, x) == [y \in E |-> IF y = x THEN 1 ELSE 0]

(* Elements are counted by weighing them.                                   *)
LEMMA CountedByWeight ==
  ASSUME NEW E, NEW a \in Seq(E), NEW x
  PROVE  Occurrences(x, a) = Total(a, Only(E, x))
<1> DEFINE w == Only(E, x)
           n == Len(a)
           v == Weights(a, w)
           S(m) == {k \in 1..m : a[k] = x}
<1>1. w \in [E -> Nat] /\ \A y \in E : w[y] = IF y = x THEN 1 ELSE 0
  BY DEF Only
<1>2. n \in Nat /\ DOMAIN a = 1..n /\ \A k \in 1..n : a[k] \in E
  OBVIOUS
<1> HIDE DEF w
<1>3. /\ \E u : IsSums(u, v, n) /\ Total(a, w) = u[n]
      /\ \A k \in 1..n : v[k] = w[a[k]]
  BY <1>1, TotalIs
<1> HIDE DEF n, v
<1>4. PICK u : IsSums(u, v, n) /\ Total(a, w) = u[n]
  BY <1>3
<1>5. u[0] = 0 /\ \A k \in 1..n : u[k] = u[k - 1] + v[k]
  BY <1>2, <1>4 DEF IsSums
<1> DEFINE T == {m \in Nat : m <= n => IsFiniteSet(S(m)) /\ Cardinality(S(m)) = u[m]}
<1>6. 0 \in T
  <2>1. S(0) = {}
    OBVIOUS
  <2> QED
    BY <1>5, <2>1, FS_EmptySet
<1>7. ASSUME NEW m \in Nat, m \in T PROVE m + 1 \in T
  <2> SUFFICES ASSUME m + 1 <= n
               PROVE  IsFiniteSet(S(m + 1)) /\ Cardinality(S(m + 1)) = u[m + 1]
    OBVIOUS
  <2>1. m + 1 \in 1..n /\ (m + 1) - 1 = m /\ m <= n
    BY <1>2
  <2>2. IsFiniteSet(S(m)) /\ Cardinality(S(m)) = u[m]
    BY <1>7, <2>1
  <2>3. u[m + 1] = u[m] + v[m + 1] /\ v[m + 1] = IF a[m + 1] = x THEN 1 ELSE 0
    BY <1>1, <1>2, <1>3, <1>5, <2>1
  <2>4. CASE a[m + 1] = x
    <3>1. S(m + 1) = S(m) \cup {m + 1} /\ m + 1 \notin S(m)
      BY <2>4
    <3> HIDE DEF S
    <3>2. IsFiniteSet(S(m) \cup {m + 1}) /\ Cardinality(S(m) \cup {m + 1}) = Cardinality(S(m)) + 1
      BY <2>2, <3>1, FS_AddElement
    <3> QED
      BY <2>2, <2>3, <2>4, <3>1, <3>2
  <2>5. CASE a[m + 1] # x
    <3>1. S(m + 1) = S(m)
      BY <2>5
    <3>2. Cardinality(S(m)) \in Nat
      BY <2>2, FS_CardinalityType
    <3> HIDE DEF S
    <3> QED
      BY <2>2, <2>3, <2>5, <3>1, <3>2
  <2> QED
    BY <2>4, <2>5
<1> HIDE DEF T
<1>8. n \in T
  BY <1>2, <1>6, <1>7, EveryNumber
<1>9. Cardinality(S(n)) = u[n]
  BY <1>2, <1>8 DEF T
<1>10. S(n) = {k \in DOMAIN a : a[k] = x}
  BY <1>2
<1> HIDE DEF S
<1> QED
  BY <1>4, <1>9, <1>10 DEF w, Occurrences

(* A sequence is as long as its elements weigh one each.                    *)
LEMMA LengthByWeight ==
  ASSUME NEW E, NEW a \in Seq(E)
  PROVE  Total(a, [y \in E |-> 1]) = Len(a)
<1> DEFINE w == [y \in E |-> 1]
           n == Len(a)
           v == Weights(a, w)
<1>1. w \in [E -> Nat] /\ \A y \in E : w[y] = 1
  OBVIOUS
<1>2. n \in Nat /\ \A k \in 1..n : a[k] \in E
  OBVIOUS
<1> HIDE DEF w
<1>3. /\ \E u : IsSums(u, v, n) /\ Total(a, w) = u[n]
      /\ \A k \in 1..n : v[k] = w[a[k]]
  BY <1>1, TotalIs
<1> HIDE DEF n, v
<1>4. PICK u : IsSums(u, v, n) /\ Total(a, w) = u[n]
  BY <1>3
<1>5. u[0] = 0 /\ \A k \in 1..n : u[k] = u[k - 1] + 1
  BY <1>1, <1>2, <1>3, <1>4 DEF IsSums
<1> DEFINE T == {m \in Nat : m <= n => u[m] = m}
<1>6. 0 \in T
  BY <1>5
<1>7. ASSUME NEW m \in Nat, m \in T PROVE m + 1 \in T
  <2> SUFFICES ASSUME m + 1 <= n PROVE u[m + 1] = m + 1
    OBVIOUS
  <2>1. m + 1 \in 1..n /\ (m + 1) - 1 = m /\ m <= n
    BY <1>2
  <2> QED
    BY <1>5, <1>7, <2>1
<1> HIDE DEF T
<1>8. n \in T
  BY <1>2, <1>6, <1>7, EveryNumber
<1> QED
  BY <1>2, <1>4, <1>8 DEF T, w, n

(* Once the rounds are over, each element is there as often as in the       *)
(* document one reads.                                                      *)
LEMMA SameElementsHolds ==
  ASSUME Links!XLinkAssumption, LinksInv
  PROVE  Links!SameElements
<1> SUFFICES ASSUME pc = "ok" PROVE Links!SameBag(after, Links!Expanded[Links!Rounds])
  BY DEF Links!SameElements
<1> DEFINE e == Links!Expanded[Links!Rounds]
<1>1. /\ after \in Seq(Elem) /\ document \in Documents
      /\ \A w \in Weighings : Total(after, w) = Total(e, w)
  BY DEF LinksInv
<1>2. e \in Seq(Elem)
  <2>1. Links!Rounds \in 0..Links!Rounds
    BY DEF Links!Rounds
  <2> QED
    BY <1>1, <2>1, ExpandedIs
<1> HIDE DEF e
<1>3. Len(after) = Len(e)
  <2>1. [y \in Elem |-> 1] \in Weighings
    BY DEF Weighings
  <2> QED
    BY <1>1, <1>2, <2>1, LengthByWeight
<1>4. ASSUME NEW x PROVE Links!Count(x, after) = Links!Count(x, e)
  <2> DEFINE w == Only(Elem, x)
  <2>1. w \in Weighings
    BY DEF Weighings, Only
  <2>2. Occurrences(x, after) = Total(after, w) /\ Occurrences(x, e) = Total(e, w)
    BY <1>1, <1>2, CountedByWeight
  <2> HIDE DEF w
  <2>3. Total(after, w) = Total(e, w)
    BY <1>1, <2>1
  <2>4. \A S : Links!Cardinality(S) = Cardinality(S)
    BY Zenon DEF Links!Cardinality, Cardinality
  <2>5. Links!Count(x, after) = Occurrences(x, after) /\ Links!Count(x, e) = Occurrences(x, e)
    BY <2>4, Zenon DEF Links!Count, Occurrences
  <2> QED
    BY <2>2, <2>3, <2>5
<1> QED
  BY <1>3, <1>4 DEF Links!SameBag, e

(* However links nest and the elements they stand for are inserted, the     *)
(* manifest that is parsed has just the elements of four rounds of          *)
(* resolution, each as many times (fetch.rs:2120-2231, 2259-2261).          *)
THEOREM LinksKeepElements ==
  ASSUME Links!XLinkAssumption
  PROVE  Spec => []SameElements
<1> DEFINE Inv == procedure = "links" => LinksInv
<1>1. Init => Inv
  BY LinksInit DEF Init
<1>2. Inv /\ [Next]_vars => Inv'
  BY LinksStep DEF Next, vars, linkVars, Links!vars
<1>3. Inv => SameElements
  BY SameElementsHolds DEF SameElements
<1> QED
  BY <1>1, <1>2, <1>3, PTL DEF Spec
=============================================================================
