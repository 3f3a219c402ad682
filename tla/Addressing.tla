----------------------------- MODULE Addressing -----------------------------
(***************************************************************************)
(* How the fragments of one stream of one period are found once a          *)
(* Representation is chosen: the body of do_period_audio, do_period_video  *)
(* and do_period_subtitles (src/src/fetch.rs), which look for one of six   *)
(* addressing modes in the Representation and in the elements above it.    *)
(*                                                                         *)
(* A SegmentTimeline and an index range each stand for one fragment here;  *)
(* SegmentTimeline.tla and IndexRange.tla expand them.  URLs are named by  *)
(* the element that gives them.                                            *)
(***************************************************************************)
EXTENDS Integers, Sequences, FiniteSetsExt, TLC

CONSTANT Manifests    (* What the manifest and the options may say.        *)

Absent == -1
Optional(S) == S \cup {Absent}

(* The elements an attribute may be given on, by increasing precedence.    *)
PeriodLevel == 1
AdaptationLevel == 2
RepresentationLevel == 3
Levels == 1..3

Template ==
  [present : BOOLEAN, timeline : BOOLEAN, init : BOOLEAN, media : BOOLEAN, duration : Optional(Nat),
   timescale : Optional(Nat), startNumber : Optional(Nat), endNumber : Optional(Nat)]

(* init: no Initialization, one without or one with a @sourceURL; urls:    *)
(* does a SegmentURL have a @media?  malformed: parse_range or             *)
(* merge_baseurls refuses something in it.                                 *)
SegmentList ==
  [present : BOOLEAN, init : {"none", "bare", "source"}, urls : Seq({"media", "bare"}),
   malformed : BOOLEAN]

(* base: number of BaseURL elements; period: its duration in seconds; age: *)
(* now - @availabilityStartTime; start: Period@start.  Left out: a live    *)
(* manifest whose segments last no time at all (@duration of zero).        *)
Manifest ==
  [kind : {"audio", "video", "subs"}, template : [Levels -> Template],
   list : [2..3 -> SegmentList], base : [2..3 -> Nat], segmentBase : BOOLEAN, id : BOOLEAN,
   period : Optional(Nat), force : Optional(Nat),
   dynamic : BOOLEAN, age : Optional(Nat), start : Nat]

AddressingAssumption == Manifests \subseteq Manifest

VARIABLES
  manifest, pc,
  attrs,              (* opt_init, opt_media (the level they come from),   *)
                      (* opt_duration, timescale, start_number.            *)
  fragments,
  fault               (* The kind of the error returned.                   *)

vars == <<manifest, pc, attrs, fragments, fault>>

Fragment ==
  [what : {"init", "list", "template", "timeline", "index", "base"}, level : Levels, n : Optional(Nat)]
F(what, level, n) == [what |-> what, level |-> level, n |-> n]

Init ==
  /\ manifest \in Manifests
  /\ pc = "inherit" /\ fragments = << >> /\ fault = "none"
  /\ attrs = [init |-> Absent, media |-> Absent, duration |-> Absent, timescale |-> 1,
              startNumber |-> 1]

subs == manifest.kind = "subs"
Present(l) == manifest.template[l].present

(* Mutant of Overlay: the values of elements above come first.             *)
Overlay_OuterFirst(a, l) ==
  LET t == manifest.template[l]
      Or(new, old) == IF old # Absent THEN old ELSE new
  IN  IF ~t.present THEN a
      ELSE [init |-> IF a.init = Absent /\ t.init THEN l ELSE a.init,
            media |-> IF a.media = Absent /\ t.media THEN l ELSE a.media,
            duration |-> Or(t.duration, a.duration), timescale |-> a.timescale,
            startNumber |-> a.startNumber]

(* The values of a template that is there, over those of elements above.   *)
Overlay(a, l) ==
  LET t == manifest.template[l]
      Or(new, old) == IF new # Absent THEN new ELSE old
  IN  IF ~t.present THEN a
      ELSE [init |-> IF t.init THEN l ELSE a.init, media |-> IF t.media THEN l ELSE a.media,
            duration |-> Or(t.duration, a.duration), timescale |-> Or(t.timescale, a.timescale),
            startNumber |-> Or(t.startNumber, a.startNumber)]

Return(kind) == pc' = "err" /\ fault' = kind
Goto(label) == pc' = label /\ UNCHANGED fault

(* Audio and video take over values of the Period and of the AdaptationSet.*)
Inherit ==
  /\ pc = "inherit" /\ ~subs
  /\ attrs' = Overlay(Overlay(attrs, PeriodLevel), AdaptationLevel)
  /\ Goto("list")
  /\ UNCHANGED <<manifest, fragments>>

(* Subtitles: BaseURLs are fetched on the spot; else only a template, of   *)
(* which the AdaptationSet's is ignored here, leads to fragments.          *)
ChooseSubtitles ==
  /\ pc = "inherit" /\ subs
  /\ \/ manifest.base[3] > 0 /\ Goto("sidecar") /\ UNCHANGED attrs
     \/ /\ manifest.base[3] = 0 /\ (Present(2) \/ Present(3))
        /\ attrs' = Overlay(attrs, RepresentationLevel)
        /\ IF manifest.id THEN Goto("list") ELSE Return("UnhandledMediaStream")
     \/ manifest.base[3] = 0 /\ ~Present(2) /\ ~Present(3) /\ Goto("ok") /\ UNCHANGED attrs
  /\ UNCHANGED <<manifest, fragments>>

(* Five requests that fail, or a file that cannot be written, end it.      *)
FetchSidecar ==
  /\ pc = "sidecar"
  /\ Goto("ok") \/ Return("Network")
  /\ UNCHANGED <<manifest, attrs, fragments>>

(* The fragments of a SegmentList found at level l, whose segments without *)
(* a @media take the BaseURL of level b, and are left out without one.     *)
InitOf(list, level, declared) ==
  IF list.init \in declared THEN <<F("init", level, Absent)>> ELSE << >>
UrlsOf(list, level, b) ==
  LET Named == {k \in DOMAIN list.urls : list.urls[k] = "media" \/ manifest.base[b] > 0}
      Index[k \in 0..Len(list.urls)] == IF k = 0 THEN << >>
                          ELSE Index[k - 1] \o (IF k \in Named THEN <<F("list", level, k)>> ELSE << >>)
  IN  Index[Len(list.urls)]

(* An Initialization is fetched from its @sourceURL or from the base URL.  *)
(* The AdaptationSet's list for video has the else one level too high: the *)
(* base URL is fetched when there is no Initialization.                    *)
Declares(kind) == IF kind = "video" THEN {"source", "none"} ELSE {"source", "bare"}

(* AdaptationSet>SegmentList; for subtitles, the Representation's.         *)
ReadFirstList ==
  /\ pc = "list"
  /\ LET level == IF subs THEN 3 ELSE 2
         list == manifest.list[level]
     IN  IF ~list.present THEN Goto("mode") /\ UNCHANGED fragments
         ELSE IF list.malformed THEN Return("Parsing") /\ UNCHANGED fragments
         ELSE /\ fragments' = InitOf(list, level, Declares(manifest.kind)) \o UrlsOf(list, level, 2)
              /\ Goto("mode")
  /\ UNCHANGED <<manifest, attrs>>

(* Representation>SegmentList, which goes before every mode below.         *)
ReadRepresentationList ==
  /\ pc = "mode" /\ manifest.list[3].present
  /\ IF manifest.list[3].malformed THEN Return("Parsing") /\ UNCHANGED fragments
     ELSE /\ fragments' = fragments \o InitOf(manifest.list[3], 3, {"source", "bare"})
                                    \o UrlsOf(manifest.list[3], 3, 3)
          /\ Goto("settle")
  /\ UNCHANGED <<manifest, attrs>>

(* The template in force, and the values with it: all but its @duration.   *)
st == IF Present(3) THEN 3 ELSE 2
UsesTemplate == pc = "mode" /\ ~manifest.list[3].present /\ (Present(2) \/ Present(3))
InForce == [Overlay(attrs, st) EXCEPT !.duration = attrs.duration]
HasTimeline == \E l \in {2, 3} : Present(l) /\ manifest.template[l].timeline

InitFragment == IF InForce.init # Absent THEN <<F("init", InForce.init, Absent)>> ELSE << >>

(* SegmentTemplate with a SegmentTimeline.                                 *)
UseTimeline ==
  /\ UsesTemplate /\ HasTimeline
  /\ attrs' = InForce
  /\ IF InForce.media = Absent THEN Return("UnhandledMediaStream") /\ UNCHANGED fragments
     ELSE /\ fragments' = fragments \o InitFragment \o <<F("timeline", InForce.media, Absent)>>
          /\ Goto("settle")
  /\ UNCHANGED manifest

(* force_duration replaces the duration of the period, not for subtitles.  *)
(* An unknown duration is -1.0 for audio, 0.0 for video and subtitles.     *)
period_duration_secs ==
  CASE ~subs /\ manifest.force # Absent -> manifest.force
    [] OTHER -> IF manifest.period # Absent THEN manifest.period
                ELSE IF manifest.kind = "audio" THEN -1 ELSE 0

(* A segment lasts ticks / scale seconds.  The @duration of the template   *)
(* in force is divided by the timescale, an inherited one is not.          *)
ticks == IF manifest.template[st].duration # Absent THEN manifest.template[st].duration
         ELSE attrs.duration
scale == IF manifest.template[st].duration # Absent THEN InForce.timescale ELSE 1

(* Mutant of Quotient: the number of segments is truncated.                *)
Quotient_Floor == (period_duration_secs * scale) \div ticks

(* (period / segment_duration).round() as i64, .ceil() for subtitles.      *)
Quotient == IF subs THEN (period_duration_secs * scale + ticks - 1) \div ticks
            ELSE (2 * period_duration_secs * scale + ticks) \div (2 * ticks)

(* Dividing by zero gives an infinite number, or 0 for 0 / 0.              *)
Endless == ticks = 0 /\ period_duration_secs > 0 /\ manifest.template[st].endNumber = Absent
total_number ==
  IF manifest.template[st].endNumber # Absent THEN manifest.template[st].endNumber
  ELSE IF ticks = 0 \/ period_duration_secs < 0 THEN 0 ELSE Quotient

(* The latest segment of a live stream, with u64 saturating at 0.          *)
first_number ==
  IF manifest.dynamic /\ ~subs
  THEN Max({0, (manifest.age * scale) \div ticks + InForce.startNumber - 1})
  ELSE InForce.startNumber

Refused ==
  \/ ticks = Absent
  \/ manifest.template[st].duration # Absent /\ InForce.timescale = 0
  \/ manifest.dynamic /\ ~subs /\ manifest.age = Absent

(* SegmentTemplate@duration and $Number$.  Without a @media only the init  *)
(* segment is fetched.  A count of i64::MAX outgrows the memory.           *)
UseDuration ==
  /\ UsesTemplate /\ ~HasTimeline
  /\ attrs' = InForce
  /\ IF InForce.media = Absent
       THEN fragments' = fragments \o InitFragment /\ Goto("settle")
     ELSE IF Refused THEN Return("UnhandledMediaStream") /\ UNCHANGED fragments
     ELSE IF Endless THEN Goto("exhausted") /\ UNCHANGED fragments
     ELSE /\ fragments' = fragments \o InitFragment
               \o [k \in 1..total_number |-> F("template", InForce.media, first_number + k - 1)]
          /\ Goto("settle")
  /\ UNCHANGED manifest

OtherMode == pc = "mode" /\ ~manifest.list[3].present /\ ~Present(2) /\ ~Present(3)

(* SegmentBase: see IndexRange.tla, which never returns without fragments. *)
UseIndexRange ==
  /\ OtherMode /\ manifest.segmentBase
  /\ \/ fragments' = Append(fragments, F("index", 3, Absent)) /\ Goto("settle")
     \/ \E kind \in {"Network", "Parsing"} : Return(kind) /\ UNCHANGED fragments
  /\ UNCHANGED <<manifest, attrs>>

(* The whole file, if nothing else was found.                              *)
UseBaseURL ==
  /\ OtherMode /\ ~manifest.segmentBase
  /\ fragments' = IF fragments = << >> /\ manifest.base[3] > 0 THEN <<F("base", 3, Absent)>>
                  ELSE fragments
  /\ Goto("settle")
  /\ UNCHANGED <<manifest, attrs>>

(* Audio and video need a fragment; subtitles do without.                  *)
Settle ==
  /\ pc = "settle"
  /\ IF fragments = << >> /\ ~subs THEN Return("UnhandledMediaStream") ELSE Goto("ok")
  /\ UNCHANGED <<manifest, attrs, fragments>>

Next ==
  \/ Inherit \/ ChooseSubtitles \/ FetchSidecar \/ ReadFirstList \/ ReadRepresentationList
  \/ UseTimeline \/ UseDuration \/ UseIndexRange \/ UseBaseURL \/ Settle

Spec == Init /\ [][Next]_vars

-----------------------------------------------------------------------------
(* The elements whose template has a flag set, or a number.                *)
Declared(flag) == {l \in Levels : Present(l) /\ manifest.template[l][flag]}
Given(number) == {l \in Levels : Present(l) /\ manifest.template[l][number] # Absent}
Numbered == {k \in DOMAIN fragments : fragments[k].what = "template"}
Templated == {k \in DOMAIN fragments : fragments[k].what \in {"template", "timeline"}}

(* Audio and video: "This can specify some common attribute values (media, *)
(* timescale, duration, startNumber) for child SegmentTemplate nodes"      *)
(* (fetch.rs:2452-2454): what is planned from a template uses the media,   *)
(* the init segment and the start number of the innermost element that has *)
(* them, and starts with the init segment.                                 *)
MostSpecific ==
  pc = "ok" /\ ~subs =>
    /\ \A k \in Templated : fragments[k].level = Max(Declared("media"))
    /\ Templated # {} /\ Declared("init") # {} /\ ~manifest.list[2].present =>
         fragments[1] = F("init", Max(Declared("init")), Absent)
    /\ ~manifest.dynamic => \A k \in Numbered :
         /\ k - 1 \notin Numbered => fragments[k].n =
              IF Given("startNumber") = {} THEN 1
              ELSE manifest.template[Max(Given("startNumber"))].startNumber
         /\ k - 1 \in Numbered => fragments[k].n = fragments[k - 1].n + 1

(* Of a template's values, the innermost element's count.                  *)
Innermost(number, otherwise) ==
  IF Given(number) = {} THEN otherwise ELSE manifest.template[Max(Given(number))][number]

(* A stream that is planned from @duration and $Number$, to its end.       *)
PlannedByNumber ==
  /\ pc = "ok" /\ Templated = Numbered /\ Declared("media") # {}
  /\ (Present(2) \/ Present(3)) /\ ~manifest.list[3].present /\ manifest.base[3] = 0
  /\ Given("endNumber") = {} /\ Innermost("duration", 0) > 0 /\ period_duration_secs >= 0

(* The period and what is planned of it, in units of the timescale.        *)
Length == period_duration_secs * Innermost("timescale", 1)
PlannedLength == Cardinality(Numbered) * Innermost("duration", 0)

(* The number of segments is the period's length in segments: audio and    *)
(* video round it, and leave out or add half a segment at most; subtitles  *)
(* cover the period, with the fewest segments (fetch.rs:2825, 3815).  Not  *)
(* so if the template in force has no @duration of its own: an inherited   *)
(* one is taken as seconds (fetch.rs:2791-2808).  Nor if subtitles have to *)
(* take their @media or @timescale from an element above: SubsInherit.     *)
CoversPeriod ==
  /\ PlannedByNumber /\ Max(Given("duration")) = st
  /\ subs => Max(Declared("media")) = st /\ Given("timescale") \ {st} = {}
  => IF subs THEN PlannedLength >= Length /\ PlannedLength - Innermost("duration", 0) < Length
     ELSE /\ 2 * (PlannedLength - Length) <= Innermost("duration", 0)
          /\ 2 * (Length - PlannedLength) <= Innermost("duration", 0)

(* "SegmentTemplate as a direct child of an Adaptation node.  This can     *)
(* specify some common attribute values (media, timescale, duration,       *)
(* startNumber) for child SegmentTemplate nodes" (comment on subtitles,    *)
(* fetch.rs:3512-3514): the segments cover the period also when the        *)
(* @timescale is the AdaptationSet's.  The code under the comment reads    *)
(* the Representation's template only.                                     *)
SubsInherit ==
  subs /\ PlannedByNumber /\ Max(Given("duration")) = st /\ ~Present(PeriodLevel)
  => PlannedLength >= Length
=============================================================================
