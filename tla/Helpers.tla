------------------------------- MODULE Helpers --------------------------------
(***************************************************************************)
(* The four places where a download hands files to helper programs:        *)
(* decryption (StreamDecrypt), muxing (MuxHelpers), subtitles (Subtitles,  *)
(* with all that is done about them before) and concatenation              *)
(* (ConcatHelpers).  fetch_mpd awaits them one after the other and they    *)
(* have files in common only by way of module Download, so a behaviour is  *)
(* one call of one of them.  Variables that the call has no use for are    *)
(* Unused, and those of one name belong to whichever of them is called.    *)
(***************************************************************************)
CONSTANTS
  Procedures,         (* Those that are called.                            *)
  Decryptors,         (* See the modules for these.                        *)
  Streams,
  Periods,
  MuxContainers, MuxOrderings,
  ConcatContainers, ConcatOrderings,
  Manifests, SubtitleContainers, MaxErrorCount, RetryCount, Leftovers

VARIABLES
  procedure,
  pc, persist,
  decryptor, keep, input, tmppath, decrypted, stray, key_file, produced, fault,
  container, ordering, queue, tmpout,
  task, muxer, runs, output, leaked, copy_failed,
  first, spoilt,
  manifest, p, f, attempts, tmp, styles, paragraphs, delivered, have_subtitles, download_errors,
  files, merged, docs

decryptVars == <<decryptor, keep, input, tmppath, decrypted, stray, key_file, produced>>
packVars == <<ordering, queue, tmpout>>
muxVars == <<task, muxer, runs, output, leaked, copy_failed>>
concatVars == <<first, spoilt>>
subtitleVars ==
  <<manifest, p, f, attempts, tmp, styles, paragraphs, delivered, have_subtitles, download_errors,
    files, merged, docs>>
vars ==
  <<procedure, pc, fault, container, persist, decryptVars, packVars, muxVars, concatVars, subtitleVars>>

Decrypt == INSTANCE StreamDecrypt WITH Inputs <- Streams
Mux == INSTANCE MuxHelpers WITH Containers <- MuxContainers, Orderings <- MuxOrderings
Concat == INSTANCE ConcatHelpers WITH Containers <- ConcatContainers, Orderings <- ConcatOrderings
Subtitle == INSTANCE Subtitles WITH Containers <- SubtitleContainers

Unused == "unused"
NoDecrypt ==
  /\ decryptor = Unused /\ keep = Unused /\ input = Unused /\ tmppath = Unused /\ decrypted = Unused
  /\ stray = Unused /\ key_file = Unused /\ produced = Unused
NoPack == ordering = Unused /\ queue = Unused /\ tmpout = Unused
NoMux ==
  /\ task = Unused /\ muxer = Unused /\ runs = Unused /\ output = Unused /\ leaked = Unused
  /\ copy_failed = Unused
NoConcat == first = Unused /\ spoilt = Unused
NoSubtitles ==
  /\ manifest = Unused /\ p = Unused /\ f = Unused /\ attempts = Unused /\ tmp = Unused
  /\ styles = Unused /\ paragraphs = Unused /\ delivered = Unused /\ have_subtitles = Unused
  /\ download_errors = Unused /\ files = Unused /\ merged = Unused /\ docs = Unused

Init ==
  /\ procedure \in Procedures
  /\ \/ /\ procedure = "decrypt" /\ Decrypt!Init
        /\ container = Unused /\ NoPack /\ NoMux /\ NoConcat /\ NoSubtitles
     \/ /\ procedure = "mux" /\ Mux!Init
        /\ fault = Unused /\ NoDecrypt /\ NoConcat /\ NoSubtitles
     \/ /\ procedure = "concat" /\ Concat!Init
        /\ fault = Unused /\ persist = Unused /\ NoDecrypt /\ NoMux /\ NoSubtitles
     \/ /\ procedure = "subtitles" /\ Subtitle!Init
        /\ persist = Unused /\ NoDecrypt /\ NoPack /\ NoMux /\ NoConcat

Next ==
  /\ UNCHANGED procedure
  /\ \/ /\ procedure = "decrypt" /\ Decrypt!Next
        /\ UNCHANGED <<container, packVars, muxVars, concatVars, subtitleVars>>
     \/ /\ procedure = "mux" /\ Mux!Next
        /\ UNCHANGED <<fault, decryptVars, concatVars, subtitleVars>>
     \/ /\ procedure = "concat" /\ Concat!Next
        /\ UNCHANGED <<fault, persist, decryptVars, muxVars, subtitleVars>>
     \/ /\ procedure = "subtitles" /\ Subtitle!Next
        /\ UNCHANGED <<persist, decryptVars, packVars, muxVars, concatVars>>

Spec == Init /\ [][Next]_vars

-----------------------------------------------------------------------------

(* "Undecrypted stream left in inpath" (decryption.rs:71, 128, 258, 319,   *)
(* 384) if decryption fails; and whatever step of it or of the exchange of *)
(* the two files fails (fetch.rs:4273-4284), the stream is in one of them. *)
StreamSurvives == procedure = "decrypt" => Decrypt!StreamSurvives

(* A muxed output is what the last muxer tried has made, and complete but  *)
(* for VLC's; muxers that fail leave what was there (ffmpeg.rs:448-480,    *)
(* 971-1010).                                                              *)
MuxedIsWhole == procedure = "mux" => Mux!OkIsWhole

(* Temporary files that stay behind are mkvmerge's, the winner's or wanted *)
(* (ffmpeg.rs:633-659, 775-805).                                           *)
OnlyMkvmergeLeaks == procedure = "mux" => Mux!OnlyMkvmergeLeaks

(* The concatenation is complete, or the first file untouched, unless a    *)
(* helper failed after it began to write (ffmpeg.rs:1614-1649); even then  *)
(* the later periods end it, whose files Download deletes (fetch.rs:       *)
(* 5036-5042).                                                             *)
WholeUnlessSpoilt == procedure = "concat" => Concat!WholeUnlessSpoilt

(* A document has the cues of the fragments that came, and one definition  *)
(* of every style they use (stpp.rs:140-190).                              *)
MergedDocument == procedure = "subtitles" => Subtitle!MergedDocument

(* No period is saved that misses more fragments than max_error_count      *)
(* (fetch.rs:4418-4427).                                                   *)
MissingBounded == procedure = "subtitles" => Subtitle!MissingBounded

(* The files beside the output are those of the last period, what is       *)
(* merged into an output is its own (fetch.rs:4500-4535, 4876-4905).       *)
OwnSubtitles == procedure = "subtitles" => Subtitle!OwnSubtitles

(* "Merge all media files named by paths into the file named by the first  *)
(* element of the vector" (comment, ffmpeg.rs:1577).                       *)
ConcatenatedIsWhole == procedure = "concat" => Concat!OkIsWhole

(* "We know that both inpath and outpath are created in the same system    *)
(* temporary directory" (comment, decryption.rs:148-149): a stream that    *)
(* was decrypted entirely is not reported as a failure.                    *)
CleanRunAccepted == procedure = "decrypt" => Decrypt!CleanRunAccepted
=============================================================================
