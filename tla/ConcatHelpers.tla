---------------------------- MODULE ConcatHelpers ----------------------------
(***************************************************************************)
(* concat_output_files of src/src/ffmpeg.rs: the media files of the        *)
(* periods are concatenated into the first of them by the first helper     *)
(* program that succeeds.  Every helper copies the first file to a         *)
(* temporary file, whose content it reads, and writes the first file in    *)
(* place: a helper that fails leaves there whatever it had written, and    *)
(* the next one starts by copying that.                                    *)
(***************************************************************************)
EXTENDS Integers, Sequences, SequencesExt

CONSTANTS
  Periods,            (* Number of files to concatenate.                   *)
  Containers,         (* Filename extensions of the first file.            *)
  Orderings           (* concat_preference for that extension, if any.     *)

Helpers == {"mkvmerge", "ffmpeg", "ffmpegdemuxer", "mp4box"}

(* Files are only concatenated if there is more than one.                  *)
ConcatAssumption == Periods \in Nat

(* No ordering was given by the caller of the library.                     *)
Default == <<"default">>

VARIABLES
  container, ordering,
  queue,              (* Helpers not yet tried.                            *)
  first,              (* paths[0]: the periods whose media it holds.       *)
  tmpout,             (* The helper's copy of it.                          *)
  spoilt,             (* History: a helper failed after starting to write. *)
  pc

vars == <<container, ordering, queue, first, tmpout, spoilt, pc>>

(* The other files are only read.                                          *)
Rest == [k \in 1..(Periods - 1) |-> k + 1]
Whole == <<1>> \o Rest

concat_preference ==
  IF ordering # Default THEN ordering
  ELSE IF container \in {"mp4", "mkv", "webm"} THEN <<"mkvmerge", "ffmpeg">>
  ELSE <<"ffmpeg">>

Init ==
  /\ container \in Containers /\ ordering \in Orderings
  /\ queue = concat_preference
  /\ first = <<1>> /\ tmpout = << >>
  /\ spoilt = FALSE
  /\ pc = "try"

(* A name in the preference that is no helper is passed over.              *)
IgnoreUnknown ==
  /\ pc = "try" /\ queue # << >> /\ Head(queue) \notin Helpers
  /\ queue' = Tail(queue)
  /\ UNCHANGED <<container, ordering, first, tmpout, spoilt, pc>>

(* The helper copies the first file, or cannot.                            *)
Stage ==
  /\ pc = "try" /\ queue # << >> /\ Head(queue) \in Helpers
  /\ queue' = Tail(queue)
  /\ \/ tmpout' = first /\ pc' = "run"
     \/ tmpout' = << >> /\ UNCHANGED <<pc>>
  /\ UNCHANGED <<container, ordering, first, spoilt>>

(* Mutant of Succeed: the copy of the first file is the last input.        *)
Succeed_CopyLast ==
  /\ pc = "run"
  /\ first' = Rest \o tmpout /\ tmpout' = << >> /\ pc' = "ok"
  /\ UNCHANGED <<container, ordering, queue, spoilt>>

(* A helper that reports success has written all of its inputs.            *)
Succeed ==
  /\ pc = "run"
  /\ first' = tmpout \o Rest
  /\ tmpout' = << >>
  /\ pc' = "ok"
  /\ UNCHANGED <<container, ordering, queue, spoilt>>

(* The program cannot be started, or returns an error: before it wrote     *)
(* anything, half-way, or (mkvmerge: with warnings) after everything.  Its *)
(* copy is deleted.                                                        *)
Fail ==
  /\ pc = "run"
  /\ \/ UNCHANGED <<first, spoilt>>
     \/ first' \in Prefixes(tmpout \o Rest) /\ spoilt' = TRUE
  /\ tmpout' = << >>
  /\ pc' = "try"
  /\ UNCHANGED <<container, ordering, queue>>

(* concat_output_files returns an error.                                   *)
AllFailed ==
  /\ pc = "try" /\ queue = << >>
  /\ pc' = "err"
  /\ UNCHANGED <<container, ordering, queue, first, tmpout, spoilt>>

Next == IgnoreUnknown \/ Stage \/ Succeed \/ Fail \/ AllFailed

Spec == Init /\ [][Next]_vars

-----------------------------------------------------------------------------

(* "Merge all media files named by paths into the file named by the first  *)
(* element of the vector" (ffmpeg.rs:1577).                                *)
OkIsWhole == pc = "ok" => first = Whole

(* It does so as long as no failed helper has written to the first file;   *)
(* then the first file is also still there when all helpers have failed.   *)
(* Whatever the helpers that failed did to it, the periods after the first *)
(* one end it, whole and in order: what module Download relies on when it  *)
(* deletes their files.                                                    *)
WholeUnlessSpoilt ==
  /\ ~spoilt => first = IF pc = "ok" THEN Whole ELSE <<1>>
  /\ pc = "ok" => IsSuffix(Rest, first)
=============================================================================
