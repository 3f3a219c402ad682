------------------------------- MODULE Download -------------------------------
(***************************************************************************)
(* fetch_mpd of src/src/fetch.rs, from the parsed manifest to the path it  *)
(* returns: a first loop over the periods of the manifest collects their   *)
(* fragments, a second one fetches the streams of every period, muxes them *)
(* into an output file of the period and deletes the temporary files, and  *)
(* the outputs are then concatenated or left separate.                     *)
(*                                                                         *)
(* A stream of audio or video is used by its promise, module               *)
(* OrderedDelivery, which module StreamFetch keeps.                        *)
(***************************************************************************)
EXTENDS Integers, Sequences, FiniteSets, SequencesExt

CONSTANTS
  Manifests,          (* Sequences of periods.                             *)
  Options,            (* Settings of the DashDownloader.                   *)
  FragmentRetryCount,
  MaxErrorCount,
  CounterModulus      (* 256: the period counter is a u8.                  *)

Kinds == {"audio", "video", "subs"}

(* A period by the number of fragments that do_period_audio, _video and    *)
(* _subtitles find in it, whether it carries STPP subtitles, and whether   *)
(* it is shorter than minimum_period_duration.                             *)
Period == [audio : Nat, video : Nat, subs : Nat, stpp : BOOLEAN, short : BOOLEAN]

(* What to fetch, the streams to keep a file of (keep_audio, keep_video),  *)
(* DASHMPD_PERSIST_FILES, concatenate_periods, whether mkvmerge is among   *)
(* the programs that may be run for the container (to mux, or to merge     *)
(* subtitles), and whether the program was built with overflow checks.     *)
Option == [fetch : SUBSET Kinds, keep : SUBSET {"audio", "video"},
           persist : BOOLEAN, concatenate : BOOLEAN, mkvmerge : BOOLEAN,
           checked : BOOLEAN]

ASSUME DownloadAssumption ==
  /\ Manifests \subseteq Seq(Period)
  /\ Options \subseteq Option
  /\ FragmentRetryCount \in Nat
  /\ MaxErrorCount \in Nat
  /\ CounterModulus \in Nat \ {0}

VARIABLES
  manifest, opt,      (* The arguments.                                    *)
  i,                  (* Periods planned.                                  *)
  period_counter,
  pds,                (* The planned periods: PeriodDownloads.             *)
  d,                  (* The planned period in hand.                       *)
  wanted, settled, out, losses, status,   (* Its stream: OrderedDelivery.  *)
  have,               (* have_audio, have_video, have_subtitles            *)
  got,                (* History: what the streams of the period held.     *)
  files,              (* The file system.                                  *)
  stuck,              (* History: files that could not be deleted.         *)
  left,               (* Why temporary files of muxers are still there.    *)
  outputs,            (* period_output_pathbufs, as indices of pds.        *)
  media,              (* History: what was fetched for each planned period.*)
  download_errors, segment_counter,       (* DownloadState                 *)
  subs_lost,          (* History: subtitle fragments given up.             *)
  percent,            (* The last progress that the observers were told.   *)
  pc

planVars == <<manifest, opt, i, period_counter, pds>>
streamVars == <<wanted, settled, out, losses, status>>
fileVars == <<files, stuck, left, outputs, media>>
dsVars == <<download_errors, segment_counter, subs_lost>>
vars == <<planVars, d, streamVars, have, got, fileVars, dsVars, percent, pc>>

Delivery == INSTANCE OrderedDelivery WITH
  Positions  <- Nat \ {0},
  LossCost   <- FragmentRetryCount,
  Budget     <- MaxErrorCount,
  MayDiscard <- TRUE

(* The files of the download: output_path_for_period (the requested path   *)
(* for period 1), keep_audio and keep_video, and temporary files whose     *)
(* names are fresh in every period.                                        *)
Out(counter) == <<"out", "av", counter>>

(* Mutant of OutOf: every period has the requested path.                   *)
OutOf_Requested(k) == Out(1)

OutOf(k) == Out(pds[k].counter)
StreamPath(kind) == IF kind \in opt.keep THEN <<"keep", kind, 0>> ELSE <<"tmp", kind, d>>

WriteAll(fs, paths, content) ==
  [p \in DOMAIN fs \cup paths |-> IF p \in paths THEN content ELSE fs[p]]
Write(path, content) == WriteAll(files, {path}, content)
Delete(paths) == Restrict(files, DOMAIN files \ paths)

Contents(path) == IF path \in DOMAIN files THEN files[path] ELSE << >>

segment_count ==
  LET upto[k \in 0..Len(pds)] ==
        IF k = 0 THEN 0 ELSE upto[k - 1] + pds[k].audio + pds[k].video + pds[k].subs
  IN  upto[Len(pds)]

CeilDiv(a, b) == (a + b - 1) \div b

(* Progress while the n-th fragment of the download is fetched.            *)
Progress(kind, n) ==
  LET total == IF kind = "audio" THEN 2 + segment_count ELSE segment_count
      p     == CeilDiv(100 * n, total)
  IN  IF p > 98 THEN 98 ELSE p

Init ==
  /\ manifest \in Manifests /\ opt \in Options
  /\ i = 0 /\ period_counter = 0 /\ pds = << >> /\ d = 0
  /\ Delivery!Init
  /\ have = {} /\ got = [k \in Kinds |-> << >>]
  /\ files = << >> /\ stuck = {} /\ left = {} /\ outputs = << >> /\ media = << >>
  /\ download_errors = 0 /\ segment_counter = 0 /\ subs_lost = 0
  /\ percent \in {0, 1}          (* No progress for a file: manifest.      *)
  /\ pc = "plan"

-----------------------------------------------------------------------------
(* The planning loop.                                                      *)

Counted == (period_counter + 1) % CounterModulus
Overflows == period_counter + 1 = CounterModulus

(* The next period of the manifest, and its number.                        *)
Planning ==
  /\ pc = "plan" /\ i < Len(manifest)
  /\ ~(Overflows /\ opt.checked)
  /\ i' = i + 1
  /\ period_counter' = Counted
  /\ UNCHANGED <<manifest, opt, d, streamVars, have, got, fileVars, dsVars, percent>>

SkipPeriod == Planning /\ manifest[i'].short /\ UNCHANGED <<pds, pc>>

(* An error of do_period_subtitles is ignored: no subtitles then.          *)
PlanPeriod ==
  /\ Planning /\ ~manifest[i'].short
  /\ LET n(kind) == IF kind \in opt.fetch THEN manifest[i'][kind] ELSE 0 IN
     \E parsed \in BOOLEAN :
       pds' = Append(pds, [counter |-> Counted, audio |-> n("audio"), video |-> n("video"),
                           subs |-> IF parsed THEN n("subs") ELSE 0,
                           stpp |-> parsed /\ manifest[i'].stpp /\ "subs" \in opt.fetch])
  /\ UNCHANGED pc

(* The BaseURL does not parse, or do_period_audio or do_period_video       *)
(* returns an error.                                                       *)
PlanError ==
  /\ Planning /\ ~manifest[i'].short
  /\ pc' = "failed"
  /\ UNCHANGED pds

(* The u8 overflows in a build that checks.                                *)
CounterPanics ==
  /\ pc = "plan" /\ i < Len(manifest)
  /\ Overflows /\ opt.checked
  /\ pc' = "panic"
  /\ UNCHANGED <<planVars, d, streamVars, have, got, fileVars, dsVars, percent>>

-----------------------------------------------------------------------------
(* The download loop.                                                      *)

(* The next of the planned periods, or the end of the download.            *)
Iterating == (pc = "plan" /\ i = Len(manifest)) \/ pc = "period"
MorePeriods == Iterating /\ d < Len(pds) /\ pds[d + 1].counter > 0
Finished == Iterating /\ d = Len(pds)

(* The assertion of output_path_for_period.                                *)
PathPanics ==
  /\ Iterating /\ d < Len(pds) /\ pds[d + 1].counter = 0
  /\ pc' = "panic"
  /\ UNCHANGED <<planVars, d, streamVars, have, got, fileVars, dsVars, percent>>

(* No name for a temporary file can be made.                               *)
StartFails ==
  /\ MorePeriods
  /\ pc' = "failed"
  /\ UNCHANGED <<planVars, d, streamVars, have, got, fileVars, dsVars, percent>>

(* DASHMPD_PERSIST_FILES: tmp_file_path leaves an empty file behind.       *)
StartPeriod ==
  /\ MorePeriods
  /\ d' = d + 1
  /\ have' = {} /\ got' = [k \in Kinds |-> << >>]
  /\ LET named == {<<"tmp", k, d + 1>> : k \in Kinds \ opt.keep} IN
     files' = IF opt.persist THEN WriteAll(files, named, << >>) ELSE files
  /\ pc' = "audio"
  /\ UNCHANGED <<planVars, streamVars, stuck, left, outputs, media, dsVars, percent>>

After(kind) == CASE kind = "audio" -> "video" [] kind = "video" -> "subs" [] kind = "subs" -> "mux"

(* Mutant of SkipStream: a stream that has fragments may be passed over.   *)
SkipStream_Any(kind) ==
  /\ pc = kind /\ status # "running"
  /\ pc' = After(kind)
  /\ UNCHANGED <<planVars, d, streamVars, have, got, fileVars, dsVars, percent>>

(* Not wanted, or the period has none.                                     *)
SkipStream(kind) ==
  /\ pc = kind /\ status # "running"
  /\ pds[d][kind] = 0
  /\ pc' = After(kind)
  /\ UNCHANGED <<planVars, d, streamVars, have, got, fileVars, dsVars, percent>>

(* Mutant of StartStream: the progress starts anew with every stream.      *)
StartStream_ResetsCounter(kind) ==
  /\ pc = kind /\ status # "running"
  /\ pds[d][kind] > 0
  /\ wanted' = 1..pds[d][kind]
  /\ Delivery!Begin
  /\ files' = Write(StreamPath(kind), << >>)
  /\ segment_counter' = 0
  /\ UNCHANGED <<planVars, d, have, got, stuck, left, outputs, media, download_errors,
                 subs_lost, percent, pc>>

(* File::create truncates whatever a kept path held.                       *)
StartStream(kind) ==
  /\ pc = kind /\ status # "running"
  /\ pds[d][kind] > 0
  /\ wanted' = 1..pds[d][kind]
  /\ Delivery!Begin
  /\ files' = Write(StreamPath(kind), << >>)
  /\ UNCHANGED <<planVars, d, have, got, stuck, left, outputs, media, dsVars, percent, pc>>

Fetching(kind) == pc = kind /\ status = "running"

(* Mutants of Settled: the limit on errors is forgotten; every attempt     *)
(* counts as a segment.                                                    *)
Settled_Unlimited(kind, errors) ==
  /\ Fetching(kind)
  /\ segment_counter' = segment_counter + 1
  /\ download_errors' = download_errors + errors
  /\ percent' \in {percent, Progress(kind, segment_counter')}
  /\ UNCHANGED <<planVars, d, got, fileVars, pc>>

Settled_CountsAttempts(kind, errors) ==
  /\ Fetching(kind)
  /\ segment_counter' = segment_counter + 1 + errors
  /\ download_errors' = download_errors + errors
  /\ download_errors' <= MaxErrorCount
  /\ percent' \in {percent, Progress(kind, segment_counter')}
  /\ UNCHANGED <<planVars, d, got, fileVars, pc>>

(* One fragment is dealt with and costs `errors' of the shared budget.     *)
Settled(kind, errors) ==
  /\ Fetching(kind)
  /\ segment_counter' = segment_counter + 1
  /\ download_errors' = download_errors + errors
  /\ download_errors' <= MaxErrorCount
  /\ LET p == Progress(kind, segment_counter') IN
     IF kind = "subs" THEN percent' = p ELSE percent' \in {percent, p}
  /\ UNCHANGED <<planVars, d, got, fileVars, pc>>

(* Failed attempts before the one that succeeded; none if embedded.        *)
Retries(kind) == IF kind = "subs" THEN {0} ELSE {0} \cup 0..(FragmentRetryCount - 1)

FragmentDelivered(kind) ==
  /\ Delivery!Deliver
  /\ \E e \in Retries(kind) : Settled(kind, e)
  /\ have' = have \cup {kind}
  /\ UNCHANGED subs_lost

(* Only the audio and video fetchers check the content type.               *)
FragmentDiscarded(kind) ==
  /\ kind # "subs"
  /\ Delivery!Discard
  /\ \E e \in Retries(kind) : Settled(kind, e)
  /\ have' = have \cup {kind}
  /\ UNCHANGED subs_lost

FragmentLost(kind) ==
  /\ IF kind = "subs"
       THEN /\ Settled(kind, 1)
            /\ \E p \in wanted : Delivery!Settle(p)
            /\ subs_lost' = subs_lost + 1
            /\ UNCHANGED <<out, losses>>
       ELSE /\ Settled(kind, FragmentRetryCount)
            /\ Delivery!Lose
            /\ UNCHANGED subs_lost
  /\ UNCHANGED have

(* Flushed, and decrypted if there are keys.                               *)
StreamDone(kind) ==
  /\ Fetching(kind)
  /\ Delivery!Complete
  /\ LET content == [n \in DOMAIN out |-> <<kind, d, out[n]>>] IN
     /\ files' = Write(StreamPath(kind), content)
     /\ got' = [got EXCEPT ![kind] = content]
  /\ pc' = After(kind)
  /\ UNCHANGED <<planVars, d, have, stuck, left, outputs, media, dsVars, percent>>

(* Too many errors, a failed write or helper: fetch_mpd returns at once.   *)
StreamFails(kind) ==
  /\ Fetching(kind)
  /\ Delivery!Fail
  /\ download_errors' \in download_errors..(MaxErrorCount + 1)
  /\ pc' = "failed"
  /\ UNCHANGED <<planVars, d, have, got, fileVars, segment_counter, subs_lost, percent>>

-----------------------------------------------------------------------------
(* The output of the period.                                               *)

AV == have \cap {"audio", "video"}

(* The temporary files that the muxers make for themselves: those of       *)
(* mkvmerge stay when it fails, or when the copy of its result does, and   *)
(* any that cannot be deleted: module MuxHelpers.                          *)
Lingering(reasons) ==
  {r \in reasons : CASE r = "failed"      -> opt.mkvmerge
                     [] r = "undeletable" -> ~opt.persist
                     [] r = "persisted"   -> opt.persist}
Leaving(reasons) == \E why \in SUBSET Lingering(reasons) : left' = left \cup why

(* mux_audio_video, copy_audio_to_container or copy_video_to_container:    *)
(* the first muxer that succeeds, after others that failed.                *)
Mux ==
  /\ pc = "mux" /\ AV # {}
  /\ LET part(kind) == IF kind \in have THEN Contents(StreamPath(kind)) ELSE << >>
         sent(kind) == IF kind \in have THEN got[kind] ELSE << >> IN
     /\ files' = Write(OutOf(d), part("audio") \o part("video"))
     /\ media' = Append(media, sent("audio") \o sent("video"))
  /\ percent' = IF AV = {"audio", "video"} THEN 99 ELSE percent
  /\ pc' = IF AV = {"audio", "video"} /\ pds[d].stpp THEN "merge" ELSE "clean"
  /\ Leaving({"failed", "undeletable", "persisted"})
  /\ UNCHANGED <<planVars, d, streamVars, have, got, stuck, outputs, dsVars>>

(* Mutant of NothingToMux: it is never an error.                           *)
NothingToMux_Silent ==
  /\ pc = "mux" /\ AV = {}
  /\ media' = Append(media, << >>)
  /\ pc' = "clean"
  /\ UNCHANGED <<planVars, d, streamVars, have, got, files, stuck, left, outputs, dsVars, percent>>

(* The muxer fails, or there was nothing to mux although it was asked for. *)
MuxFails ==
  /\ pc = "mux" /\ (AV # {} \/ opt.fetch \cap {"audio", "video"} # {})
  /\ percent' = IF AV = {"audio", "video"} THEN 99 ELSE percent
  /\ pc' = "failed"
  /\ IF AV # {} THEN Leaving({"failed", "undeletable", "persisted"}) ELSE UNCHANGED left
  /\ UNCHANGED <<planVars, d, streamVars, have, got, files, stuck, outputs, media, dsVars>>

NothingToMux ==
  /\ pc = "mux" /\ AV = {} /\ opt.fetch \cap {"audio", "video"} = {}
  /\ media' = Append(media, << >>)
  /\ pc' = "clean"
  /\ UNCHANGED <<planVars, d, streamVars, have, got, files, stuck, left, outputs, dsVars, percent>>

(* STPP subtitles are added to the container, by MP4Box in place or by     *)
(* mkvmerge with a temporary file; a failure is only logged, and the       *)
(* temporary file of a mkvmerge that failed stays.                         *)
MergeSubtitles ==
  /\ pc = "merge"
  /\ \/ /\ files' = Write(OutOf(d), Contents(OutOf(d)) \o Contents(StreamPath("subs")))
        /\ media' = [media EXCEPT ![d] = @ \o got["subs"]]
        /\ IF opt.mkvmerge THEN Leaving({"undeletable", "persisted"}) ELSE UNCHANGED left
     \/ UNCHANGED <<files, media>> /\ Leaving({"failed"})
  /\ pc' = "clean"
  /\ UNCHANGED <<planVars, d, streamVars, have, got, stuck, outputs, dsVars, percent>>

(* The result of mkvmerge cannot be copied over the output, which may have *)
(* been truncated by then.                                                 *)
MergeFails ==
  /\ pc = "merge" /\ opt.mkvmerge
  /\ Leaving({"failed"})
  /\ files' \in {files, Write(OutOf(d), << >>)}
  /\ pc' = "failed"
  /\ UNCHANGED <<planVars, d, streamVars, have, got, stuck, outputs, media, dsVars, percent>>

(* Mutant of CleanUp: only the files of streams that delivered something.  *)
CleanUp_OnlyHave ==
  /\ pc = "clean"
  /\ LET temporary == {StreamPath(k) : k \in have \ opt.keep} \cap DOMAIN files IN
     IF opt.persist
       THEN UNCHANGED <<files, stuck>>
       ELSE \E s \in SUBSET temporary :
              files' = Delete(temporary \ s) /\ stuck' = stuck \cup s
  /\ outputs' = IF AV # {} THEN Append(outputs, d) ELSE outputs
  /\ pc' = "period"
  /\ UNCHANGED <<planVars, d, streamVars, have, got, left, media, dsVars, percent>>

(* Delete the temporary files, as far as that succeeds, and record the     *)
(* output of the period.                                                   *)
CleanUp ==
  /\ pc = "clean"
  /\ LET temporary == {StreamPath(k) : k \in opt.fetch \ opt.keep} \cap DOMAIN files IN
     IF opt.persist
       THEN UNCHANGED <<files, stuck>>
       ELSE \E s \in SUBSET temporary :
              files' = Delete(temporary \ s) /\ stuck' = stuck \cup s
  /\ outputs' = IF AV # {} THEN Append(outputs, d) ELSE outputs
  /\ pc' = "period"
  /\ UNCHANGED <<planVars, d, streamVars, have, got, left, media, dsVars, percent>>

-----------------------------------------------------------------------------
(* The end of the download.                                                *)

(* Mutant of LeaveSeparate: an output is expected.                         *)
LeaveSeparate_NeedsOutput ==
  /\ Finished /\ outputs # << >>
  /\ percent' = 100
  /\ pc' = "done"
  /\ UNCHANGED <<planVars, d, streamVars, have, got, fileVars, dsVars>>

(* At most one output, or outputs that are not to be concatenated, or that *)
(* video_containers_concatable finds to differ.                            *)
LeaveSeparate ==
  /\ Finished
  /\ percent' = 100
  /\ pc' = "done"
  /\ UNCHANGED <<planVars, d, streamVars, have, got, fileVars, dsVars>>

OutContents(from) ==
  LET upto[k \in 0..Len(outputs)] ==
        IF k < from THEN << >> ELSE upto[k - 1] \o files[OutOf(outputs[k])]
  IN  upto[Len(outputs)]

(* Mutant of Concatenate: the first file is appended to the others.        *)
Concatenate_FirstLast ==
  /\ Finished
  /\ opt.concatenate /\ Len(outputs) > 1
  /\ LET first == OutOf(outputs[1])
         others == {OutOf(outputs[k]) : k \in 2..Len(outputs)} IN
     /\ files' = WriteAll(Delete(others), {first}, OutContents(2) \o files[first])
     /\ UNCHANGED stuck
  /\ percent' = 100
  /\ pc' = "joined"
  /\ UNCHANGED <<planVars, d, streamVars, have, got, left, outputs, media, dsVars>>

(* concat_output_files merges all outputs into the first one; the others   *)
(* are deleted, as far as that succeeds.  The first of the two default     *)
(* helpers may fail after writing a part of the joined media into the      *)
(* first file, and the second one starts from that: module ConcatHelpers.  *)
Concatenate ==
  /\ Finished
  /\ opt.concatenate /\ Len(outputs) > 1
  /\ LET first == OutOf(outputs[1])
         others == {OutOf(outputs[k]) : k \in 2..Len(outputs)} IN
     \E s \in SUBSET others, prefix \in Prefixes(OutContents(1)) :
       /\ files' = WriteAll(Delete(others \ s), {first}, prefix \o OutContents(2))
       /\ stuck' = stuck \cup s
  /\ percent' = 100
  /\ pc' = "joined"
  /\ UNCHANGED <<planVars, d, streamVars, have, got, left, outputs, media, dsVars>>

(* All helpers failed: the first file may hold anything they wrote.        *)
ConcatenateFails ==
  /\ Finished
  /\ opt.concatenate /\ Len(outputs) > 1
  /\ \E content \in Prefixes(OutContents(1)) :
       files' = Write(OutOf(outputs[1]), content)
  /\ pc' = "unjoined"
  /\ UNCHANGED <<planVars, d, streamVars, have, got, stuck, left, outputs, media, dsVars, percent>>

Next ==
  \/ SkipPeriod \/ PlanPeriod \/ PlanError \/ CounterPanics
  \/ PathPanics \/ StartPeriod \/ StartFails
  \/ \E kind \in Kinds :
       \/ SkipStream(kind) \/ StartStream(kind)
       \/ FragmentDelivered(kind) \/ FragmentDiscarded(kind) \/ FragmentLost(kind)
       \/ StreamDone(kind) \/ StreamFails(kind)
  \/ Mux \/ MuxFails \/ NothingToMux
  \/ MergeSubtitles \/ MergeFails \/ CleanUp
  \/ LeaveSeparate \/ Concatenate \/ ConcatenateFails

Spec == Init /\ [][Next]_vars

(* One async task, polled until it returns; every request ends by the      *)
(* timeout of the client, and every helper program is assumed to end.      *)
FairSpec == Spec /\ WF_vars(Next)

-----------------------------------------------------------------------------

Final == {"done", "joined", "unjoined", "failed", "panic"}

TypeOK ==
  /\ manifest \in Manifests /\ opt \in Options
  /\ i \in 0..Len(manifest)
  /\ period_counter \in 0..(CounterModulus - 1)
  /\ pds \in Seq([counter : 0..(CounterModulus - 1), audio : Nat, video : Nat,
                  subs : Nat, stpp : BOOLEAN])
  /\ d \in 0..Len(pds)
  /\ wanted \subseteq Nat \ {0} /\ settled \subseteq wanted /\ out \in Seq(wanted)
  /\ losses \in Nat /\ subs_lost \in Nat
  /\ have \subseteq Kinds
  /\ stuck \subseteq DOMAIN files
  /\ left \subseteq {"failed", "undeletable", "persisted"}
  /\ outputs \in Seq(1..d) /\ Len(media) \in {d - 1, d}
  /\ download_errors \in 0..(MaxErrorCount + 1)
  /\ segment_counter \in 0..segment_count
  /\ percent \in 0..100
  /\ pc \in Kinds \cup Final \cup {"plan", "period", "mux", "merge", "clean"}

(* "We need to ensure that we associate media segments with the correct    *)
(* period" (fetch.rs:4690): the output of a period holds what was fetched  *)
(* for that period, whatever kept files and counters the periods share,    *)
(* until the outputs are joined.                                           *)
OutputsIntact ==
  pc \notin {"joined", "unjoined"} =>
    \A k \in DOMAIN outputs :
      OutOf(outputs[k]) \in DOMAIN files /\ files[OutOf(outputs[k])] = media[outputs[k]]

(* A download that succeeds has an output for every period that was not    *)
(* skipped for its duration.                                               *)
NoPeriodMissing ==
  pc \in {"done", "joined"} /\ opt.fetch \cap {"audio", "video"} # {} =>
    /\ outputs = [k \in 1..Len(pds) |-> k]
    /\ Len(pds) = Cardinality({n \in DOMAIN manifest : ~manifest[n].short})

(* After a concatenation, all periods but the first are in the joined file *)
(* whole and in order, and no other output is left but those that could    *)
(* not be deleted.                                                         *)
Rest == LET upto[k \in 1..Len(outputs)] ==
              IF k = 1 THEN << >> ELSE upto[k - 1] \o media[outputs[k]]
        IN  upto[Len(outputs)]

JoinedInOrder ==
  pc = "joined" =>
    LET joined == files[OutOf(outputs[1])] IN
    /\ Len(joined) >= Len(Rest)
    /\ SubSeq(joined, Len(joined) - Len(Rest) + 1, Len(joined)) = Rest
    /\ \A p \in DOMAIN files : p[1] = "out" => p = OutOf(outputs[1]) \/ p \in stuck

(* "We already arranged to write directly to the requested output_path"    *)
(* (fetch.rs:5023): when media was saved, the returned path names a file.  *)
ReturnedPathExists ==
  pc \in {"done", "joined"} /\ outputs # << >> => Out(1) \in DOMAIN files

(* A download that succeeds and was not asked to persist files has deleted *)
(* the temporary files of all streams of all periods, as far as they could *)
(* be deleted, also of streams that delivered nothing.  Not so those that  *)
(* muxers make for themselves: what mkvmerge wrote before it failed stays  *)
(* although the download goes on (fetch.rs:4925, 4967), and nothing else.  *)
TempFilesRemoved ==
  pc \in {"done", "joined"} /\ ~opt.persist =>
    /\ \A p \in DOMAIN files : p[1] = "tmp" => p \in stuck
    /\ ~opt.mkvmerge => left \subseteq {"undeletable"}

(* All streams of all periods share one budget of errors: what is missing  *)
(* from the outputs has been paid for, and nobody overdraws it silently.   *)
BudgetShared ==
  /\ losses * FragmentRetryCount + subs_lost <= download_errors
  /\ pc # "failed" => download_errors <= MaxErrorCount

(* A download that succeeds has taken every planned fragment in hand, none *)
(* of them twice: the count that the progress is computed from.            *)
EveryFragmentTried == pc \in {"done", "joined"} => segment_counter = segment_count

(* With a single period the progress never goes back.                      *)
OnePeriodMonotone == [][Len(manifest) = 1 => percent' >= percent]_vars

(* assert!(period > 0): fetch.rs:1185.                                     *)
NoPanic == pc # "panic"

(* fetch_mpd returns, whatever the servers and the helper programs do.     *)
DownloadEnds == <>(pc \in Final)
=============================================================================
