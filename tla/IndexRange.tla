----------------------------- MODULE IndexRange -----------------------------
(***************************************************************************)
(* SegmentBase@indexRange addressing: do_segmentbase_indexrange            *)
(* (src/src/fetch.rs) asks for the octets of the index, reads the sidx box *)
(* in them (src/src/sidx.rs) and plans one fragment per subsegment, or the *)
(* whole file if the index cannot be used.                                 *)
(*                                                                         *)
(* Octet positions are small numbers.  A sidx box is modelled by what its  *)
(* parser tells apart: a good header or not, the number of references it   *)
(* declares and those that are there; and by its first_offset, the octets  *)
(* between the index and the first subsegment.                             *)
(***************************************************************************)
EXTENDS Integers, Sequences

CONSTANTS
  Cases,              (* What the manifest and the server may say.         *)
  OverflowChecks      (* Is Rust's arithmetic checked, as in a debug build?*)

Absent == -1
Optional(S) == S \cup {Absent}

(* Octet ranges; a malformed one is refused by parse_range.                *)
OctetRange == [given : BOOLEAN, wellFormed : BOOLEAN, first : Nat, last : Nat]

(* The answer: a network error, or a content type and a body, which has as *)
(* many octets as asked for or not.                                        *)
Answer == [ok : BOOLEAN, type : {"none", "mp4", "other"}, honoured : BOOLEAN]
Sidx == [header : BOOLEAN, first_offset : Nat, declared : Nat, sizes : Seq(Nat)]

Case ==
  [use_index_range : BOOLEAN, indexRange : OctetRange, answer : Answer, sidx : Sidx,
   init : {"none", "bare", "source"}, initRange : OctetRange]

IndexRangeAssumption == Cases \subseteq Case

VARIABLES
  case, pc,
  fragments, indexable_segments,
  fault

vars == <<case, pc, fragments, indexable_segments, fault>>

(* A fragment without a range is the whole file.                           *)
Fragment == [url : {"base", "source"}, start_byte : Optional(Nat), end_byte : Optional(Nat), is_init : BOOLEAN]
Part(a, b) == [url |-> "base", start_byte |-> a, end_byte |-> b, is_init |-> FALSE]
Everything == Part(Absent, Absent)

Init ==
  /\ case \in Cases
  /\ pc = "start" /\ fragments = << >> /\ indexable_segments = FALSE /\ fault = "none"

Goto(label) == pc' = label /\ UNCHANGED fault

Return(kind) == pc' = "err" /\ fault' = kind

Start ==
  /\ pc = "start"
  /\ \/ (~case.use_index_range \/ ~case.indexRange.given) /\ Goto("plan")
     \/ /\ case.use_index_range /\ case.indexRange.given
        /\ IF case.indexRange.wellFormed THEN Goto("fetch") ELSE Return("Parsing")
  /\ UNCHANGED <<case, fragments, indexable_segments>>

s == case.indexRange.first
e == case.indexRange.last

(* Without a content type the body is not even read.  e - s + 1 cannot be  *)
(* computed for a range that ends before it starts; unchecked, it wraps to *)
(* a length no body has, or to 0, the length of an empty body, if the      *)
(* range ends right before it starts.                                      *)
Fetch ==
  /\ pc = "fetch"
  /\ \/ ~case.answer.ok /\ Return("Network")
     \/ case.answer.ok /\ case.answer.type = "none" /\ Goto("plan")
     \/ /\ case.answer.ok /\ case.answer.type # "none"
        /\ IF s > e /\ OverflowChecks THEN Goto("panic")
           ELSE IF s <= e + 1 /\ case.answer.honoured THEN Goto("read")
           ELSE Goto("plan")
  /\ UNCHANGED <<case, fragments, indexable_segments>>

(* SidxBox::parse gives up on another box and on one that is cut short, an *)
(* empty one included.                                                     *)
Parses(sidx) == s <= e /\ sidx.header /\ sidx.declared <= Len(sidx.sizes)

(* Mutant of SegmentChunks: the end of a range is exclusive.               *)
SegmentChunks_Exclusive(sidx, index_start) ==
  LET current_pos[k \in 1..(sidx.declared + 1)] ==
        IF k = 1 THEN index_start ELSE current_pos[k - 1] + sidx.sizes[k - 1]
  IN  [k \in 1..sidx.declared |-> Part(current_pos[k], current_pos[k] + sidx.sizes[k])]

(* from_isobmff_sidx: the referenced subsegments follow one another from   *)
(* index_start on.  The box's first_offset is read and not used.           *)
SegmentChunks(sidx, index_start) ==
  LET current_pos[k \in 1..(sidx.declared + 1)] ==
        IF k = 1 THEN index_start ELSE current_pos[k - 1] + sidx.sizes[k - 1]
  IN  [k \in 1..sidx.declared |->
         Part(current_pos[k], current_pos[k] - 1 + sidx.sizes[k])]

(* Mutant of ReadIndex: only the index itself precedes the subsegments.    *)
ReadIndex_IndexOnly ==
  /\ pc = "read"
  /\ IF case.answer.type # "mp4" THEN UNCHANGED <<fragments, indexable_segments>>
     ELSE /\ indexable_segments' = Parses(case.sidx)
          /\ fragments' = <<Part(s, e)>> \o
               (IF Parses(case.sidx) THEN SegmentChunks(case.sidx, e + 1) ELSE << >>)
  /\ Goto("plan")
  /\ UNCHANGED case

(* ISOBMFF: what precedes the subsegments, the index included, goes first. *)
(* The Cues of a WebM file are not used.                                   *)
ReadIndex ==
  /\ pc = "read"
  /\ IF case.answer.type # "mp4" THEN UNCHANGED <<fragments, indexable_segments>>
     ELSE /\ indexable_segments' = Parses(case.sidx)
          /\ fragments' = <<Part(0, e)>> \o
               (IF Parses(case.sidx) THEN SegmentChunks(case.sidx, e + 1) ELSE << >>)
  /\ Goto("plan")
  /\ UNCHANGED case

(* An Initialization is planned after the subsegments.                     *)
AddInitialization ==
  /\ pc = "plan" /\ indexable_segments
  /\ LET r == case.initRange
         init == [url |-> IF case.init = "source" THEN "source" ELSE "base",
                  start_byte |-> IF r.given THEN r.first ELSE Absent,
                  end_byte |-> IF r.given THEN r.last ELSE Absent, is_init |-> TRUE]
     IN  IF case.init = "none" THEN Goto("ok") /\ UNCHANGED fragments
         ELSE IF r.given /\ ~r.wellFormed THEN Return("Parsing") /\ UNCHANGED fragments
         ELSE fragments' = Append(fragments, init) /\ Goto("ok")
  /\ UNCHANGED <<case, indexable_segments>>

(* The whole file, after whatever ReadIndex planned.                       *)
FallBack ==
  /\ pc = "plan" /\ ~indexable_segments
  /\ fragments' = Append(fragments, Everything)
  /\ Goto("ok")
  /\ UNCHANGED <<case, indexable_segments>>

Next == Start \/ Fetch \/ ReadIndex \/ AddInitialization \/ FallBack
Spec == Init /\ [][Next]_vars

-----------------------------------------------------------------------------
Media == {k \in DOMAIN fragments : ~fragments[k].is_init}

(* Where the first k subsegments would end if they followed the index, and *)
(* where the last one does end: ISO/IEC 14496-12 puts first_offset octets  *)
(* before the first one.                                                   *)
Ends[k \in 0..Len(case.sidx.sizes)] == IF k = 0 THEN e ELSE Ends[k - 1] + case.sidx.sizes[k]
FileEnd == Ends[Len(case.sidx.sizes)] + case.sidx.first_offset

(* Appended in order, the media fragments of an indexed file have its      *)
(* octets from the first one on, none twice and none left out in between   *)
(* (fetch.rs:2353-2376, sidx.rs:109-117), to the end of the last           *)
(* subsegment but for the first_offset octets that the code does not know  *)
(* of.  An Initialization comes after them all, even if they hold it       *)
(* (fetch.rs:2386-2407).                                                   *)
Tiles ==
  pc = "ok" /\ indexable_segments /\ Len(case.sidx.sizes) = case.sidx.declared =>
    /\ Media # {}
    /\ \A k \in Media :
         /\ (\A j \in Media : k <= j) => fragments[k].start_byte = 0
         /\ (\A j \in Media : j <= k) => fragments[k].end_byte = FileEnd - case.sidx.first_offset
         /\ \A j \in Media : j < k /\ ~(\E i \in Media : j < i /\ i < k) =>
              fragments[k].start_byte = fragments[j].end_byte + 1
    /\ \A k \in DOMAIN fragments \ Media : k = Len(fragments)

(* The octets of the file that are in no media fragment.                   *)
Missed ==
  {p \in 0..FileEnd :
     ~\E k \in Media : fragments[k].start_byte <= p /\ p <= fragments[k].end_byte}

(* Whatever goes wrong on the way, the octets of the file that the         *)
(* manifest and the index refer to are planned, but for the last ones, as  *)
(* many as first_offset says that are not counted (sidx.rs:109-117).       *)
OnlyOffsetMissed ==
  pc = "ok" /\ Len(case.sidx.sizes) = case.sidx.declared =>
    \/ \E k \in DOMAIN fragments : fragments[k] = Everything
    \/ Missed = (FileEnd - case.sidx.first_offset + 1)..FileEnd

(* "If anything prevented us from handling this SegmentBase@indexRange     *)
(* element using HTTP Range requests, just download the whole segment as a *)
(* single chunk" (comment, fetch.rs:2410-2411).  When the sidx cannot be   *)
(* parsed the leading octets are already planned, and are fetched twice.   *)
FallsBackToOneChunk == pc = "ok" /\ ~indexable_segments => fragments = <<Everything>>
=============================================================================
