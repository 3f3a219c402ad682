--------------------------- MODULE SegmentTimeline ---------------------------
(***************************************************************************)
(* The expansion of a SegmentTimeline into media fragments: the loop of    *)
(* do_period_audio and do_period_video (the same code twice) and the one   *)
(* of do_period_subtitles (src/src/fetch.rs).  An S element stands for     *)
(* 1 + @r segments of duration @d; a negative @r leaves their number open. *)
(*                                                                         *)
(* Times and durations are in units of @timescale.  The rounding of the    *)
(* f64 sum elapsed_seconds is not modelled.                                *)
(***************************************************************************)
EXTENDS Integers, Sequences

CONSTANTS
  Inputs,             (* What the loop is run on (see Input).              *)
  StartNumber         (* SegmentTemplate@startNumber.                      *)

(* An attribute or an option that is not given.                            *)
Absent == -1
Optional(S) == S \cup {Absent}

(* An absent @r counts as 0: both leave the inner loop at once.            *)
S == [t : Optional(Nat), d : Nat, r : Int]

(* The period's duration in the manifest, force_duration and @endNumber.   *)
Input ==
  [kind : {"av", "subs"}, segments : Seq(S), period : Optional(Nat),
   force : Optional(Nat), endNumber : Optional(Nat)]

SegmentTimelineAssumption == Inputs \subseteq Input /\ StartNumber \in Nat

VARIABLES
  input,              (* The manifest and the options.                     *)
  s,                  (* Index of the S element in hand.                   *)
  pc,                 (* "entry", "repeat" (the loop on @r) or "done".     *)
  segment_time, number, elapsed, count,
  fragments           (* The fragments to fetch, init segment left out.    *)

vars == <<input, s, pc, segment_time, number, elapsed, count, fragments>>

segments == input.segments
Fragment == [time : Nat, number : Nat]

Init ==
  /\ input \in Inputs
  /\ s = 1 /\ pc = "entry"
  /\ segment_time = 0 /\ number = StartNumber /\ elapsed = 0 /\ count = 0
  /\ fragments = << >>

(* force_duration replaces the period's duration before the loop, so the   *)
(* comparison of the two that precedes the loop changes nothing.           *)
target_duration == IF input.force # Absent THEN input.force ELSE input.period

(* Mutant of Enough: the duration is enough when it is just reached.       *)
Enough_Reached(seconds) ==
  input.kind = "av" /\ input.force # Absent /\ target_duration > 0 /\ seconds >= target_duration

(* Has a forced duration been passed?  For subtitles nothing is summed.    *)
Enough(seconds) ==
  input.kind = "av" /\ input.force # Absent /\ target_duration > 0 /\ seconds > target_duration

(* Subtitles look at the period's duration in the manifest, 0 if unknown.  *)
end_time == IF input.period = Absent THEN 0 ELSE input.period
PastEnd == input.kind = "subs" /\ segment_time > end_time

Push(time, sum) ==
  /\ segment_time' = time
  /\ fragments' = Append(fragments, [time |-> time, number |-> number])
  /\ number' = number + 1
  /\ elapsed' = sum

(* The first segment of an S element.                                      *)
Entry ==
  /\ pc = "entry" /\ s <= Len(segments)
  /\ LET e == segments[s] IN
     /\ Push(IF e.t # Absent THEN e.t ELSE segment_time, elapsed + e.d)
     /\ pc' = IF Enough(elapsed + e.d) THEN "done" ELSE "repeat"
  /\ count' = 0
  /\ UNCHANGED <<input, s>>

(* @r iterations done or, for subtitles, the end of the period passed.     *)
Exhausted ==
  LET r == segments[s].r IN
  \/ r >= 0 /\ count + 1 > r
  \/ (r < 0 \/ input.force # Absent) /\ PastEnd

(* The count of this S element, not the number, is compared to @endNumber. *)
AtEndNumber == input.endNumber # Absent /\ count + 1 > input.endNumber

(* One more segment of the S element in hand.                              *)
Repeat ==
  /\ pc = "repeat" /\ ~Exhausted /\ ~Enough(elapsed) /\ ~AtEndNumber
  /\ count' = count + 1
  /\ Push(segment_time + segments[s].d, elapsed + segments[s].d)
  /\ UNCHANGED <<input, s, pc>>

(* break 'segment_loop.                                                    *)
CutShort ==
  /\ pc = "repeat" /\ ~Exhausted /\ Enough(elapsed)
  /\ count' = count + 1
  /\ pc' = "done"
  /\ UNCHANGED <<input, s, segment_time, number, elapsed, fragments>>

(* Mutants of NextEntry: the element's last duration is not added to the   *)
(* time; @endNumber does not lead to the next element.                     *)
NextEntry_DropsDuration ==
  /\ pc = "repeat" /\ (Exhausted \/ (~Enough(elapsed) /\ AtEndNumber))
  /\ count' = count + 1 /\ s' = s + 1 /\ pc' = "entry"
  /\ UNCHANGED <<input, segment_time, number, elapsed, fragments>>

NextEntry_NoEndNumber ==
  /\ pc = "repeat" /\ Exhausted
  /\ count' = count + 1 /\ segment_time' = segment_time + segments[s].d
  /\ s' = s + 1 /\ pc' = "entry"
  /\ UNCHANGED <<input, number, elapsed, fragments>>

(* The inner loop is left; its time goes on where the element ends.        *)
NextEntry ==
  /\ pc = "repeat"
  /\ Exhausted \/ (~Enough(elapsed) /\ AtEndNumber)
  /\ count' = count + 1
  /\ segment_time' = segment_time + segments[s].d
  /\ s' = s + 1
  /\ pc' = "entry"
  /\ UNCHANGED <<input, number, elapsed, fragments>>

(* No S element is left.                                                   *)
Finish ==
  /\ pc = "entry" /\ s > Len(segments)
  /\ pc' = "done"
  /\ UNCHANGED <<input, s, segment_time, number, elapsed, count, fragments>>

Next == Entry \/ Repeat \/ CutShort \/ NextEntry \/ Finish

Spec == Init /\ [][Next]_vars

-----------------------------------------------------------------------------
(* What a timeline without open repeats says, without a loop: how many     *)
(* segments its first j elements stand for, where the j-th ends and starts.*)
CountTo(stl) ==
  LET Count[j \in 0..Len(stl)] == IF j = 0 THEN 0 ELSE Count[j - 1] + (1 + stl[j].r)
  IN  Count

StartAfter(end, e) == IF e.t # Absent THEN e.t ELSE end
EndOf(stl) ==
  LET End[j \in 0..Len(stl)] ==
        IF j = 0 THEN 0 ELSE StartAfter(End[j - 1], stl[j]) + (1 + stl[j].r) * stl[j].d
  IN  End
StartOf(stl, j) == StartAfter(EndOf(stl)[j - 1], stl[j])

Closed == \A j \in DOMAIN segments : segments[j].r >= 0

Segments == CountTo(segments)[Len(segments)]

(* The expansion reaches the k-th fragment by carried counters; it is the  *)
(* segment the timeline's attributes give for position k, and numbers run  *)
(* without a gap over all S elements (fetch.rs:2735-2784).  If nothing     *)
(* limits the timeline, the break tests neither drop the last repeat of an *)
(* element nor add one.                                                    *)
FollowsTimeline ==
  Closed /\ input.endNumber = Absent /\ (input.kind = "av" \/ input.force = Absent) =>
    /\ \A k \in DOMAIN fragments :
         /\ fragments[k].number = StartNumber + k - 1
         /\ \E j \in DOMAIN segments : \E m \in 0..segments[j].r :
              /\ k = CountTo(segments)[j - 1] + 1 + m
              /\ fragments[k].time = StartOf(segments, j) + m * segments[j].d
    /\ pc = "done" /\ input.force = Absent => Len(fragments) = Segments

(* How long the first n segments of the timeline last.                     *)
Lasting(n) ==
  LET ElementOf(k) == CHOOSE j \in DOMAIN segments :
        CountTo(segments)[j - 1] < k /\ k <= CountTo(segments)[j]
      Sum[k \in 0..n] == IF k = 0 THEN 0 ELSE Sum[k - 1] + segments[ElementOf(k)].d
  IN  Sum[n]

(* force_duration takes the fewest segments that last longer than asked,   *)
(* or all there are.  One more is taken only when the target is passed by  *)
(* the last repeat of an S element: the loop looks at the repeat count     *)
(* first and at the target after the next element's first segment          *)
(* (fetch.rs:2748-2768).                                                   *)
ForcedIsShortest ==
  input.kind = "av" /\ input.force \notin {0, Absent} /\ Closed /\ input.endNumber = Absent =>
    LET n == Len(fragments) IN
    /\ n > 1 /\ Lasting(n - 1) > input.force =>
         /\ Lasting(n - 2) <= input.force
         /\ \E j \in DOMAIN segments : CountTo(segments)[j - 1] + 1 = n
    /\ pc = "done" => n = Segments \/ Lasting(n) > input.force

(* "A negative value of the @r attribute indicates that the duration       *)
(* indicated in @d attribute repeats until the start of the next S         *)
(* element, the end of the Period" (comment, fetch.rs:2757-2760): a        *)
(* repeated segment starts before either.  It does not.                    *)
OpenRepeatStops ==
  pc = "repeat" /\ count > 0 /\ segments[s].r < 0 =>
    /\ input.period # Absent => segment_time < input.period
    /\ s < Len(segments) /\ segments[s + 1].t # Absent => segment_time < segments[s + 1].t

(* Planning comes to an end when every open repeat meets a limit the code  *)
(* looks at: @endNumber, a forced duration or, for subtitles, the period.  *)
Limited(e) ==
  \/ e.r >= 0 \/ input.endNumber # Absent
  \/ e.d > 0 /\ (input.kind = "subs" \/ input.force \notin {0, Absent})
AllLimited == \A j \in DOMAIN segments : Limited(segments[j])
=============================================================================
