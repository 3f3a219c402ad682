------------------------------ MODULE MCPlanning ------------------------------
EXTENDS Integers, Sequences, Planning, MCManifest, MCSelection

ASSUME RequestsTyped == Request!ManifestFetchAssumption
ASSUME LinksTyped == Links!XLinkAssumption
ASSUME CasesTyped == Index!IndexRangeAssumption
ASSUME ManifestsTyped == Addresses!AddressingAssumption
ASSUME InputsTyped == Timeline!SegmentTimelineAssumption
ASSUME CallsTyped == Select!SelectionAssumption

Absent == -1

-----------------------------------------------------------------------------
(* Links: nested, looping and empty ones.                                  *)
E(name, href) == [id |-> name, href |-> href]
Plain(name) == E(name, "none")

MCHrefs == {"two", "nested", "loop", "nothing", "deep"}
MCRemote ==
  [h \in MCHrefs |->
     CASE h = "two" -> <<Plain("r1"), Plain("r2")>>
       [] h = "nested" -> <<E("n1", "two"), Plain("n2"), E("n3", "zero")>>
       [] h = "loop" -> <<Plain("l"), E("l", "loop")>>
       [] h = "nothing" -> << >>
       [] h = "deep" -> <<E("d", "nested")>>]

Targets == {"none", "zero", "empty"} \cup MCHrefs
MCDocuments ==
  {<<E("a", x), Plain("b"), E("c", y), Plain("d")>> : x \in Targets, y \in Targets}

-----------------------------------------------------------------------------
(* Addresses.                                                              *)
NoTemplate ==
  [present |-> FALSE, timeline |-> FALSE, init |-> FALSE, media |-> FALSE, duration |-> Absent,
   timescale |-> Absent, startNumber |-> Absent, endNumber |-> Absent]
NoList == [present |-> FALSE, init |-> "none", urls |-> << >>, malformed |-> FALSE]

(* A static manifest of three seconds with nothing to fetch.               *)
Bare(k) ==
  [kind |-> k, template |-> [l \in 1..3 |-> NoTemplate], list |-> [l \in 2..3 |-> NoList],
   base |-> [l \in 2..3 |-> 0], segmentBase |-> FALSE, id |-> TRUE, period |-> 3, force |-> Absent,
   dynamic |-> FALSE, age |-> Absent, start |-> 0]
AllKinds == {"audio", "video", "subs"}

Common == [NoTemplate EXCEPT !.present = TRUE]
Values(starts, timelines) ==
  {NoTemplate} \cup
    {[Common EXCEPT !.init = i, !.media = m, !.startNumber = n, !.timeline = t, !.duration = d] :
       i \in BOOLEAN, m \in BOOLEAN, n \in starts, t \in timelines, d \in {Absent, 4}}
WithScale(t, d, e) == [Common EXCEPT !.media = TRUE, !.timescale = t, !.duration = d, !.endNumber = e]

(* Templates on three levels, and periods and segments of many lengths.    *)
Templates ==
  {[Bare(k) EXCEPT !.template = <<p, a, r>>] :
     k \in AllKinds, p \in {NoTemplate, [Common EXCEPT !.init = TRUE, !.startNumber = 7]},
     a \in Values({5}, BOOLEAN), r \in Values({Absent, 2}, {FALSE})}
    \cup
  {[Bare(k) EXCEPT !.template[2] = [Common EXCEPT !.timescale = a], !.template[3] = WithScale(r, d, e)] :
     k \in AllKinds, a \in {Absent, 2}, r \in {Absent, 0, 3}, d \in {Absent, 4}, e \in {Absent, 2}}
Lengths ==
  {[Bare(k) EXCEPT !.template[2] = [Common EXCEPT !.media = TRUE, !.duration = d, !.timescale = t],
                   !.period = p, !.force = f] :
     k \in AllKinds, d \in 0..5, t \in {Absent, 1, 3}, p \in {Absent, 0, 1, 2, 7}, f \in {Absent, 4}}

(* Lists, alone, on both levels, and beside the other modes.               *)
Urls == {<<"media", "media">>, <<"bare", "media", "bare">>}
Lists == {NoList} \cup [present : {TRUE}, init : {"none", "bare", "source"}, urls : Urls, malformed : {FALSE}]
           \cup {[NoList EXCEPT !.present = TRUE, !.malformed = TRUE]}
Listed ==
  {[Bare(k) EXCEPT !.list[2] = a, !.list[3] = r, !.base[2] = b, !.base[3] = c,
                   !.segmentBase = (b = 1), !.template[2] = t, !.id = (t = NoTemplate \/ b = 1)] :
     k \in AllKinds, a \in Lists, r \in Lists, b \in {0, 1}, c \in {0, 1},
     t \in {NoTemplate, [Common EXCEPT !.media = TRUE, !.duration = 1]}}

(* Live manifests, of which a part is over.                                *)
Live ==
  {[Bare(k) EXCEPT !.template[3] = [Common EXCEPT !.media = TRUE, !.duration = 2, !.startNumber = n],
                   !.dynamic = TRUE, !.age = t] :
     k \in AllKinds, n \in {Absent, 0}, t \in {Absent, 1, 7}}

MCManifests == Templates \cup Lengths \cup Listed \cup Live

-----------------------------------------------------------------------------
(* Timelines of up to three elements, with and without @t, gaps and        *)
(* overlaps, every repeat closed: all the limits are tried on them.        *)
Elements(ts, ds, rs) == [t : ts, d : ds, r : rs]
Timelines(elements, n) == UNION {[1..k -> elements] : k \in 1..n}
ClosedInputs ==
  [kind : {"av", "subs"}, segments : Timelines(Elements({Absent, 0, 4}, {1, 2}, {0, 1, 2}), 2),
   period : {Absent, 3}, force : {Absent, 0, 2, 5}, endNumber : {Absent, 1}]
    \cup
  [kind : {"av"}, segments : [1..3 -> Elements({Absent}, {1, 2}, {0, 2})],
   period : {6}, force : {Absent, 3, 4}, endNumber : {Absent}]

(* Open repeats that meet a limit.                                         *)
Open == Elements({Absent, 3}, {1, 2}, {-1, 1})
OpenInputs ==
  [kind : {"subs"}, segments : Timelines(Open, 2), period : {Absent, 4},
   force : {Absent, 2}, endNumber : {Absent, 2}]
    \cup
  [kind : {"av"}, segments : Timelines(Open, 2), period : {Absent, 4},
   force : {2, 5}, endNumber : {Absent, 2}]
MCInputs == ClosedInputs \cup OpenInputs

(* One open repeat in a period of known length.                            *)
OpenRepeat ==
  [kind : {"av"}, segments : [1..1 -> Elements({0}, {2}, {-1})], period : {4},
   force : {Absent}, endNumber : {Absent}]

-----------------------------------------------------------------------------
(* Indexes that are well-formed, cut short, too long, without a header, and *)
(* servers that answer with them or do something else.                     *)
NoRange == [given |-> FALSE, wellFormed |-> TRUE, first |-> 0, last |-> 0]
Octets(a, b) == [given |-> TRUE, wellFormed |-> TRUE, first |-> a, last |-> b]
Malformed == [Octets(0, 0) EXCEPT !.wellFormed = FALSE]
Box(n, sizes) == [header |-> TRUE, first_offset |-> 0, declared |-> n, sizes |-> sizes]
Boxes ==
  {Box(0, << >>), Box(2, <<3, 1>>), Box(3, <<1, 0, 2>>), Box(2, <<1>>), Box(1, <<2, 2>>)}
    \cup {[Box(2, <<3, 1>>) EXCEPT !.first_offset = 2], [Box(0, << >>) EXCEPT !.first_offset = 1],
          [Box(1, <<2>>) EXCEPT !.header = FALSE]}
Answers == [ok : BOOLEAN, type : {"none", "mp4", "other"}, honoured : BOOLEAN]
MCCases ==
  [use_index_range : BOOLEAN, indexRange : {NoRange, Malformed, Octets(2, 3), Octets(0, 0), Octets(3, 2), Octets(3, 1)},
   answer : Answers, sidx : Boxes, init : {"none", "bare", "source"},
   initRange : {NoRange, Malformed, Octets(0, 1)}]
=============================================================================
