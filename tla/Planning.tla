------------------------------- MODULE Planning -------------------------------
(***************************************************************************)
(* From the manifest to the fragments to fetch: the manifest is requested  *)
(* (ManifestFetch) and its remote elements are resolved (XLink); of each   *)
(* period a stream is selected (Selection) and a way to address its media  *)
(* is chosen (Addressing); a SegmentTimeline (SegmentTimeline) or an index *)
(* (IndexRange) is expanded.  The procedures run one after the other and   *)
(* share only what one hands to the next, a manifest or a list, so a       *)
(* behaviour is one call of one of them.  Variables that the call has no   *)
(* use for are Unused, and those of one name belong to whichever is        *)
(* called.                                                                 *)
(***************************************************************************)
CONSTANTS
  Procedures,         (* Those that are called.                            *)
  Settings, Webs, Redirects, BackonRetries,   (* See the modules for       *)
  Documents, Hrefs, Remote,                   (* these.                    *)
  Calls,
  Manifests,
  Inputs, StartNumber,
  Cases, OverflowChecks

VARIABLES
  procedure,
  pc, fault, fragments,
  setting, web, target, attempts, relocated, redirected_url, source, mpd, styled, linked, tmpmpd,
  toplevel_base_url, base_url, period_counter, planned,
  document, before, after, round,
  call, adaptations, offered, candidates, chosen, parent, format,
  manifest, attrs,
  input, s, segment_time, number, elapsed, count,
  case, indexable_segments

requestVars ==
  <<setting, web, target, attempts, relocated, redirected_url, source, mpd, styled, linked, tmpmpd,
    toplevel_base_url, base_url, period_counter, planned>>
linkVars == <<document, before, after, round>>
selectVars == <<call, adaptations, offered, candidates, chosen, parent, format>>
addressVars == <<manifest, attrs>>
timelineVars == <<input, s, segment_time, number, elapsed, count>>
indexVars == <<case, indexable_segments>>
vars ==
  <<procedure, pc, fault, fragments, requestVars, linkVars, selectVars, addressVars, timelineVars,
    indexVars>>

Request == INSTANCE ManifestFetch
Links == INSTANCE XLink
Select == INSTANCE Selection
Addresses == INSTANCE Addressing
Timeline == INSTANCE SegmentTimeline
Index == INSTANCE IndexRange

Unused == "unused"
NoRequest ==
  /\ setting = Unused /\ web = Unused /\ target = Unused /\ attempts = Unused /\ relocated = Unused
  /\ redirected_url = Unused /\ source = Unused /\ mpd = Unused /\ styled = Unused
  /\ linked = Unused /\ tmpmpd = Unused /\ toplevel_base_url = Unused /\ base_url = Unused
  /\ period_counter = Unused /\ planned = Unused
NoLinks == document = Unused /\ before = Unused /\ after = Unused /\ round = Unused
NoSelect ==
  /\ call = Unused /\ adaptations = Unused /\ offered = Unused /\ candidates = Unused
  /\ chosen = Unused /\ parent = Unused /\ format = Unused
NoAddress == manifest = Unused /\ attrs = Unused
NoTimeline ==
  /\ input = Unused /\ s = Unused /\ segment_time = Unused /\ number = Unused
  /\ elapsed = Unused /\ count = Unused
NoIndex == case = Unused /\ indexable_segments = Unused

Init ==
  /\ procedure \in Procedures
  /\ \/ /\ procedure = "request" /\ Request!Init
        /\ fragments = Unused /\ NoLinks /\ NoSelect /\ NoAddress /\ NoTimeline /\ NoIndex
     \/ /\ procedure = "links" /\ Links!Init
        /\ fragments = Unused /\ NoRequest /\ NoSelect /\ NoAddress /\ NoTimeline /\ NoIndex
     \/ /\ procedure = "select" /\ Select!Init
        /\ fault = Unused /\ fragments = Unused
        /\ NoRequest /\ NoLinks /\ NoAddress /\ NoTimeline /\ NoIndex
     \/ /\ procedure = "address" /\ Addresses!Init
        /\ NoRequest /\ NoLinks /\ NoSelect /\ NoTimeline /\ NoIndex
     \/ /\ procedure = "timeline" /\ Timeline!Init
        /\ fault = Unused /\ NoRequest /\ NoLinks /\ NoSelect /\ NoAddress /\ NoIndex
     \/ /\ procedure = "index" /\ Index!Init
        /\ NoRequest /\ NoLinks /\ NoSelect /\ NoAddress /\ NoTimeline

Next ==
  /\ UNCHANGED procedure
  /\ \/ /\ procedure = "request" /\ Request!Next
        /\ UNCHANGED <<fragments, linkVars, selectVars, addressVars, timelineVars, indexVars>>
     \/ /\ procedure = "links" /\ Links!Next
        /\ UNCHANGED <<fragments, requestVars, selectVars, addressVars, timelineVars, indexVars>>
     \/ /\ procedure = "select" /\ Select!Next
        /\ UNCHANGED <<fault, fragments, requestVars, linkVars, addressVars, timelineVars, indexVars>>
     \/ /\ procedure = "address" /\ Addresses!Next
        /\ UNCHANGED <<requestVars, linkVars, selectVars, timelineVars, indexVars>>
     \/ /\ procedure = "timeline" /\ Timeline!Next
        /\ UNCHANGED <<fault, requestVars, linkVars, selectVars, addressVars, indexVars>>
     \/ /\ procedure = "index" /\ Index!Next
        /\ UNCHANGED <<requestVars, linkVars, selectVars, addressVars, timelineVars>>

Spec == Init /\ [][Next]_vars

(* One async task, polled until it returns; requests end by the timeout of *)
(* the client.                                                             *)
FairSpec == Spec /\ WF_vars(Next)

-----------------------------------------------------------------------------

(* What is planned from is one manifest, found at its Location if it has   *)
(* one, with its links resolved and all stylesheets applied (fetch.rs:     *)
(* 4606-4685).                                                             *)
DocumentInForce == procedure = "request" => Request!DocumentInForce

(* Every stream of every period has the base URL that the references above *)
(* it lead to, with the innermost query (fetch.rs:1208-1232, 2492-2500).   *)
BaseResolved == procedure = "request" => Request!BaseResolved

(* Whatever links stand for other links, the manifest that is parsed has   *)
(* the elements of four rounds of resolution (fetch.rs:2120-2261).         *)
SameElements == procedure = "links" => Links!SameElements

(* "This can specify some common attribute values (media, timescale,       *)
(* duration, startNumber) for child SegmentTemplate nodes" (fetch.rs:      *)
(* 2452-2454): those of the innermost element count.                       *)
MostSpecific == procedure = "address" => Addresses!MostSpecific

(* The AdaptationSet used is of the preferred language and role (fetch.rs: *)
(* 1316-1356, 2477-2481), role preferences being in alphabetical order.    *)
PreferredAdaptation == procedure = "select" => Select!PreferredAdaptation

(* Preferences leave a stream that is offered (fetch.rs:1361-1649).        *)
SomethingSelected == procedure = "select" => Select!SomethingSelected

(* The Representation is the best by each preference in turn (fetch.rs:    *)
(* 1361-1649, 2908-2950).                                                  *)
BestRepresentation == procedure = "select" => Select!BestRepresentation

(* No stream is fetched twice, as one of audio, video and subtitles each   *)
(* (lib.rs:2257-2420).                                                     *)
ServedOnce == procedure = "select" => Select!ServedOnce

(* "If `role_preference` is ["main", "alternate"] and one of the           *)
(* AdaptationSets is annotated "main", then we will only download that     *)
(* AdaptationSet" (doc comment, fetch.rs:438-440).                         *)
RolesInOrder == procedure = "select" => Select!RolesInOrder

(* The segments planned from a @duration make up the period, to half a     *)
(* segment (fetch.rs:2825) or covering it (fetch.rs:3815), where the       *)
(* values they are computed from are the template's own.                   *)
CoversPeriod == procedure = "address" => Addresses!CoversPeriod

(* "This can specify some common attribute values (media, timescale,       *)
(* duration, startNumber) for child SegmentTemplate nodes" (comment on     *)
(* subtitles, fetch.rs:3512-3514).                                         *)
SubsInherit == procedure = "address" => Addresses!SubsInherit

(* The expansion of a timeline is what its attributes say                  *)
(* (fetch.rs:2735-2784).                                                   *)
FollowsTimeline == procedure = "timeline" => Timeline!FollowsTimeline

(* A forced duration takes no more segments than it needs, but for one     *)
(* after the last repeat of an S element (fetch.rs:2748-2768).             *)
ForcedIsShortest == procedure = "timeline" => Timeline!ForcedIsShortest

(* Every call ends: a Location is followed once and transient errors are  *)
(* retried a few times (fetch.rs:4578-4660), "we only repeat the           *)
(* resolution 5 times to avoid potential infloop DoS attacks" (comment,    *)
(* fetch.rs:2257-2258), and an open repeat meets a limit, if there is one  *)
(* that the code looks at (fetch.rs:2748-2773, 3724-3737).                 *)
PlanningEnds ==
  (procedure = "timeline" => Timeline!AllLimited)
    => <>(pc \in {"ok", "err", "done", "exhausted", "panic"})

(* "... repeats until the start of the next S element, the end of the      *)
(* Period or until the next MPD update" (comment, fetch.rs:2757-2760).     *)
OpenRepeatStops == procedure = "timeline" => Timeline!OpenRepeatStops

(* The media fragments of an indexed file follow one another in the file   *)
(* and go before the Initialization (fetch.rs:2353-2407).                  *)
Tiles == procedure = "index" => Index!Tiles

(* Whatever goes wrong with an index, all octets are planned but as many   *)
(* as its first_offset says (fetch.rs:2329-2421, sidx.rs:109-117).         *)
OnlyOffsetMissed == procedure = "index" => Index!OnlyOffsetMissed

(* "If anything prevented us from handling this SegmentBase@indexRange     *)
(* element using HTTP Range requests, just download the whole segment as a *)
(* single chunk" (comment, fetch.rs:2410-2411).                            *)
FallsBackToOneChunk == procedure = "index" => Index!FallsBackToOneChunk
=============================================================================
