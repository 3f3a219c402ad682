------------------------------ MODULE MuxHelpers ------------------------------
(***************************************************************************)
(* mux_audio_video, copy_video_to_container and copy_audio_to_container of *)
(* src/src/ffmpeg.rs: the streams of a period are packaged by the first    *)
(* muxer of a list that succeeds.  A muxer writes to a temporary file,     *)
(* which is copied to the output path only if the muxer reports success.   *)
(***************************************************************************)
EXTENDS Integers, Sequences, SequencesExt

CONSTANTS
  Containers,         (* Filename extensions of the output.                *)
  Orderings           (* muxer_preference for that extension, if any.      *)

Tasks == {"mux", "video", "audio"}
Default == <<"default">>

(* The muxers that each of the three functions knows.                      *)
KnownTo(task) == {"mkvmerge", "ffmpeg", "mp4box"} \cup (IF task = "mux" THEN {"vlc"} ELSE {})

VARIABLES
  task, container, ordering,
  persist,            (* DASHMPD_PERSIST_FILES                             *)
  queue,              (* Muxers not yet tried.                             *)
  muxer,              (* The muxer in hand, or the last one.               *)
  runs,               (* Times that it has been run.                       *)
  tmpout,             (* Its temporary file.                               *)
  output,             (* The file at output_path.                          *)
  leaked,             (* History: muxers that left a temporary file.       *)
  copy_failed,        (* History: copying to output_path failed.           *)
  pc

argVars == <<task, container, ordering, persist>>
vars == <<argVars, queue, muxer, runs, tmpout, output, leaked, copy_failed, pc>>

muxer_preference ==
  CASE ordering # Default -> ordering
    [] ordering = Default /\ container = "mkv" -> <<"mkvmerge", "ffmpeg", "mp4box">>
    [] ordering = Default /\ container = "webm" /\ task = "mux" -> <<"vlc", "ffmpeg">>
    [] ordering = Default /\ container = "mp4" /\ task = "mux" -> <<"ffmpeg", "vlc", "mp4box">>
    [] OTHER -> <<"ffmpeg", "mp4box">>

(* What was there before ("old", or no file) or what was put there.        *)
Content == {"old", "empty", "partial", "whole"}

(* The copy_ functions look at the container of the stream first.          *)
Init ==
  /\ task \in Tasks /\ container \in Containers /\ ordering \in Orderings /\ persist \in BOOLEAN
  /\ queue = muxer_preference
  /\ muxer = "none" /\ runs = 0 /\ tmpout = "absent" /\ output = "old"
  /\ leaked = {} /\ copy_failed = FALSE
  /\ pc = IF task = "mux" THEN "try" ELSE "type"

(* The stream is in the wanted container already: copied as it is.  If its *)
(* type cannot be told, or copying fails, that is an error at once.        *)
SameContainer ==
  /\ pc = "type"
  /\ \/ output' = "whole" /\ pc' = "ok" /\ UNCHANGED copy_failed
     \/ output' \in {"old", "empty", "partial"} /\ pc' = "err" /\ copy_failed' = (output' # "old")
  /\ UNCHANGED <<argVars, queue, muxer, runs, tmpout, leaked>>

OtherContainer ==
  /\ pc = "type"
  /\ pc' = "try"
  /\ UNCHANGED <<argVars, queue, muxer, runs, tmpout, output, leaked, copy_failed>>

IgnoreUnknown ==
  /\ pc = "try" /\ queue # << >> /\ Head(queue) \notin KnownTo(task)
  /\ queue' = Tail(queue)
  /\ UNCHANGED <<argVars, muxer, runs, tmpout, output, leaked, copy_failed, pc>>

(* The temporary file exists before the muxer runs, except for mkvmerge,   *)
(* which gets the name of a file that was deleted: temporary_outpath.      *)
Stage ==
  /\ pc = "try" /\ queue # << >> /\ Head(queue) \in KnownTo(task)
  /\ queue' = Tail(queue)
  /\ muxer' = Head(queue)
  /\ runs' = 0
  /\ tmpout' = IF muxer' = "mkvmerge" THEN "absent" ELSE "empty"
  /\ pc' = "run"
  /\ UNCHANGED <<argVars, output, leaked, copy_failed>>

(* A muxer that reports success has written its whole output.  VLC returns *)
(* 0 "even when it fails to mux" (ffmpeg.rs:600): it may have written less *)
(* if its message is not the one that the code looks for.                  *)
RunOk ==
  /\ pc = "run"
  /\ tmpout' = "whole" \/ (muxer = "vlc" /\ tmpout' \in {"empty", "partial"})
  /\ pc' = "copy"
  /\ UNCHANGED <<argVars, queue, muxer, runs, output, leaked, copy_failed>>

(* DASHMPD_PERSIST_FILES keeps the temporary files, but for the one of     *)
(* mux_stream_mp4box, which is dropped all the same.                       *)
Kept == persist /\ ~(muxer = "mp4box" /\ task # "mux")

(* Mutant of Leaks: no temporary file is dropped on failure.               *)
Leaks_All == IF tmpout' # "absent" THEN {muxer} ELSE {}

(* A failure: the temporary file is dropped (kept if files persist), but   *)
(* nobody deletes what mkvmerge has written.                               *)
Leaks == IF tmpout' # "absent" /\ (Kept \/ muxer = "mkvmerge") THEN {muxer} ELSE {}

RunFails ==
  /\ pc = "run"
  /\ tmpout' \in {tmpout, "partial"}
  /\ IF muxer = "ffmpeg" /\ task = "mux" /\ runs = 0
       THEN runs' = 1 /\ UNCHANGED <<leaked, pc>>        (* Now reencoding. *)
       ELSE leaked' = leaked \cup Leaks /\ pc' = "try" /\ UNCHANGED runs
  /\ UNCHANGED <<argVars, queue, muxer, output, copy_failed>>

(* The muxer cannot be started or run a second time.                       *)
SpawnFails ==
  /\ pc = "run"
  /\ UNCHANGED tmpout
  /\ leaked' = leaked \cup Leaks
  /\ pc' = "try"
  /\ UNCHANGED <<argVars, queue, muxer, runs, output, copy_failed>>

CopyOk ==
  /\ pc = "copy"
  /\ output' = tmpout
  /\ tmpout' = tmpout \/ (~Kept /\ tmpout' = "absent")  (* A failed deletion is logged. *)
  /\ leaked' = IF tmpout' # "absent" THEN leaked \cup {muxer} ELSE leaked
  /\ pc' = "ok"
  /\ UNCHANGED <<argVars, queue, muxer, runs, copy_failed>>

(* Mutant of CopyFails: the error is ignored.                              *)
CopyFails_Ignored ==
  /\ pc = "copy"
  /\ output' \in {output, "empty", "partial"}
  /\ copy_failed' = TRUE
  /\ pc' = "ok"
  /\ UNCHANGED <<argVars, queue, muxer, runs, tmpout, leaked>>

(* An error of the muxer too: the next one is tried.                       *)
CopyFails ==
  /\ pc = "copy"
  /\ output' \in {output, "empty", "partial"}
  /\ copy_failed' = (copy_failed \/ output' # output)
  /\ UNCHANGED tmpout
  /\ leaked' = leaked \cup Leaks
  /\ pc' = "try"
  /\ UNCHANGED <<argVars, queue, muxer, runs>>

AllFailed ==
  /\ pc = "try" /\ queue = << >>
  /\ pc' = "err"
  /\ UNCHANGED <<argVars, queue, muxer, runs, tmpout, output, leaked, copy_failed>>

Next ==
  \/ SameContainer \/ OtherContainer
  \/ IgnoreUnknown \/ Stage \/ RunOk \/ RunFails \/ SpawnFails
  \/ CopyOk \/ CopyFails \/ AllFailed

Spec == Init /\ [][Next]_vars

-----------------------------------------------------------------------------

(* Whatever the muxers that were tried before did, Ok means that the       *)
(* output is what the last one made, and all of it unless that was VLC;    *)
(* muxers that fail do not touch it, but for a copy that breaks off.       *)
OkIsWhole ==
  /\ pc = "ok" => output = "whole" \/ (muxer = "vlc" /\ output # "old")
  /\ pc # "ok" /\ ~copy_failed => output = "old"

(* Temporary files are left behind only by mkvmerge when it fails, by a    *)
(* deletion that failed (of the winner), or on request.                    *)
OnlyMkvmergeLeaks ==
  ~persist => leaked \subseteq ({"mkvmerge"} \cup IF pc = "ok" THEN {muxer} ELSE {})
=============================================================================
