----------------------------- MODULE Subtitles ------------------------------
(***************************************************************************)
(* Subtitles, from planning to the files beside the output: the BaseURL    *)
(* branch of do_period_subtitles, fetch_period_subtitles and the merge in  *)
(* fetch_mpd (src/src/fetch.rs), with the documents that collect fragments *)
(* (src/src/stpp.rs, src/src/vtt.rs).                                      *)
(*                                                                         *)
(* All periods have audio and video.  A subtitle is a cue; a region of an  *)
(* STPP document is handled as a style is, and not modelled.               *)
(***************************************************************************)
EXTENDS Integers, Sequences, SequencesExt, FiniteSetsExt

CONSTANTS
  Manifests,          (* Sequences of periods.                             *)
  Containers,         (* Extensions of the output file.                    *)
  MaxErrorCount,      (* max_error_count.                                  *)
  RetryCount,         (* Requests for a sidecar: 5 in the code.            *)
  Leftovers           (* Files of an earlier download to the same path.    *)

(* What a fragment or a sidecar holds.  binary: no UTF-8; malformed: no    *)
(* XML; foreign: XML without a tt element.  type: of a data URL.           *)
Content ==
  [source : {"http", "data"}, type : {"video", "other"},
   form : {"tt", "foreign", "malformed", "binary"}, styles : Seq(STRING), cues : Seq(Nat)]

(* A Representation with BaseURLs is a sidecar (here, one file).           *)
Period ==
  [mode : {"sidecar", "fragments", "none"}, format : {"stpp", "vtt", "wvtt", "srt"},
   contents : Seq(Content)]

SubtitlesAssumption ==
  /\ Manifests \subseteq Seq(Period) /\ Containers \subseteq {"mp4", "mkv"}
  /\ MaxErrorCount \in Nat /\ RetryCount \in Nat \ {0}
  /\ \A m \in Manifests : \A k \in DOMAIN m : m[k].mode = "sidecar" => Len(m[k].contents) = 1

VARIABLES
  manifest, container,
  pc,
  p, f,               (* The period and the fragment in hand.              *)
  attempts,           (* Requests for the sidecar that failed.             *)
  tmp,                (* What is written to tmppath_subs as it comes.      *)
  styles, paragraphs, (* The StppDocument; paragraphs: also the VttDocument*)
  delivered,          (* History: the fragments received.                  *)
  have_subtitles, download_errors,
  files,              (* Cues by path: <<extension, period of the name>>.  *)
  merged,             (* Cues in the output file of each period.           *)
  docs,               (* History: {the cues received for a period}, or {}. *)
  fault

document == <<f, tmp, styles, paragraphs, delivered, have_subtitles>>
results == <<files, merged, docs>>
vars == <<manifest, container, pc, p, attempts, document, download_errors, results, fault>>

Extensions == {"ttml", "vtt", "wvtt", "srt"}
period == manifest[p]
content == period.contents[f]

Init ==
  /\ manifest \in Manifests /\ container \in Containers
  /\ pc = "plan" /\ p = 1 /\ f = 0 /\ attempts = 0
  /\ tmp = << >> /\ styles = << >> /\ paragraphs = << >> /\ delivered = << >>
  /\ have_subtitles = FALSE /\ download_errors = 0
  /\ files \in Leftovers
  /\ merged = [k \in 1..Len(manifest) |-> << >>] /\ docs = [k \in 1..Len(manifest) |-> {}]
  /\ fault = "none"

Goto(label) == pc' = label /\ UNCHANGED fault
Return(kind) == pc' = "err" /\ fault' = kind
Write(path, cues) == [x \in DOMAIN files \cup {path} |-> IF x = path THEN cues ELSE files[x]]

-----------------------------------------------------------------------------
(* Planning: sidecars are fetched while the periods are looked at.  What   *)
(* goes wrong with them is logged and ignored.                             *)
SidecarExtension ==
  CASE period.format = "stpp" -> "ttml" [] OTHER -> period.format

PlanNext == Goto("plan") /\ p' = p + 1 /\ attempts' = 0

PlanPeriod ==
  /\ pc = "plan" /\ p <= Len(manifest) /\ period.mode # "sidecar"
  /\ PlanNext
  /\ UNCHANGED <<manifest, container, document, download_errors, results>>

(* reqwest_bytes_with_retries: any error is retried, at once.              *)
SidecarFails ==
  /\ pc = "plan" /\ p <= Len(manifest) /\ period.mode = "sidecar"
  /\ IF attempts + 1 < RetryCount
       THEN attempts' = attempts + 1 /\ UNCHANGED <<pc, p, fault>>
       ELSE PlanNext
  /\ UNCHANGED <<manifest, container, document, download_errors, results>>

(* The file is named after the period.  A failed write leaves a part.      *)
SidecarArrives ==
  /\ pc = "plan" /\ p <= Len(manifest) /\ period.mode = "sidecar"
  /\ LET path == <<SidecarExtension, p>> IN
     \/ /\ files' = Write(path, period.contents[1].cues)
        /\ IF period.format = "wvtt" THEN Goto("convert_sidecar") /\ UNCHANGED <<p, attempts>>
           ELSE PlanNext
     \/ files' = Write(path, << >>) /\ PlanNext
  /\ UNCHANGED <<manifest, container, document, download_errors, merged, docs>>

(* MP4Box, which may be missing or fail.                                   *)
ConvertSidecar ==
  /\ pc = "convert_sidecar"
  /\ \/ files' = Write(<<"srt", p>>, period.contents[1].cues)
     \/ UNCHANGED files
  /\ PlanNext
  /\ UNCHANGED <<manifest, container, document, download_errors, merged, docs>>

Planned ==
  /\ pc = "plan" /\ p > Len(manifest)
  /\ Goto("fetch") /\ p' = 1
  /\ UNCHANGED <<manifest, container, attempts, document, download_errors, results>>

-----------------------------------------------------------------------------
(* fetch_period_subtitles.                                                 *)
(* Mutant of StartPeriod: all periods share one temporary file.            *)
StartPeriod_SharedFile ==
  /\ pc = "fetch" /\ p <= Len(manifest)
  /\ styles' = << >> /\ paragraphs' = << >> /\ delivered' = << >> /\ have_subtitles' = FALSE
  /\ IF period.mode = "fragments" /\ period.contents # << >>
       THEN f' = 1 /\ Goto("fragment")
       ELSE f' = 0 /\ Goto("merge")
  /\ UNCHANGED <<manifest, container, p, attempts, tmp, download_errors, results>>

(* A period without fragments is not fetched; creating its file may fail.  *)
StartPeriod ==
  /\ pc = "fetch" /\ p <= Len(manifest)
  /\ tmp' = << >> /\ styles' = << >> /\ paragraphs' = << >> /\ delivered' = << >>
  /\ have_subtitles' = FALSE
  /\ \/ /\ period.mode # "fragments" \/ period.contents = << >>
        /\ f' = 0 /\ Goto("merge")
     \/ /\ period.mode = "fragments" /\ period.contents # << >>
        /\ f' = 1
        /\ Goto("fragment") \/ Return("Io")
  /\ UNCHANGED <<manifest, container, p, attempts, download_errors, results>>

Fetching == pc = "fragment" /\ f <= Len(period.contents)
Settle == f' = f + 1 /\ have_subtitles' = TRUE /\ delivered' = Append(delivered, f) /\ Goto("fragment")

DataFragment ==
  /\ Fetching /\ content.source = "data"
  /\ IF content.type # "video" THEN Return("UnhandledMediaStream") /\ UNCHANGED document
     ELSE tmp' = tmp \o content.cues /\ Settle /\ UNCHANGED <<styles, paragraphs>>
  /\ UNCHANGED <<manifest, container, p, attempts, download_errors, results>>

(* Mutant of New: redundant styles are added too.                          *)
New_Always(seen, style) == TRUE

(* add_content: a style that is already there is not added again; the cues *)
(* of all fragments follow one another.                                    *)
New(seen, style) == style = "" \/ style \notin Range(seen)
AddStyles(seen, more) ==
  LET Added[k \in 0..Len(more)] ==
        IF k = 0 THEN seen
        ELSE IF New(Added[k - 1], more[k]) THEN Append(Added[k - 1], more[k]) ELSE Added[k - 1]
  IN  Added[Len(more)]

(* The limiter refuses a fragment larger than its burst (Other).           *)
FragmentArrives ==
  /\ Fetching /\ content.source = "http"
  /\ \/ Return("Other") /\ UNCHANGED document
     \/ /\ period.format = "stpp" /\ content.form = "malformed"
        /\ Return("Parsing") /\ UNCHANGED document
     \/ /\ period.format = "stpp" /\ content.form # "malformed"
        /\ IF content.form = "tt"
             THEN /\ styles' = AddStyles(styles, content.styles)
                  /\ paragraphs' = paragraphs \o content.cues
             ELSE UNCHANGED <<styles, paragraphs>>
        /\ Settle /\ UNCHANGED tmp
     \/ /\ period.format = "vtt"
        /\ paragraphs' = IF content.form = "binary" THEN paragraphs ELSE paragraphs \o content.cues
        /\ Settle /\ UNCHANGED <<tmp, styles>>
     \/ /\ period.format \notin {"stpp", "vtt"}
        /\ tmp' = tmp \o content.cues
        /\ Settle /\ UNCHANGED <<styles, paragraphs>>
  /\ UNCHANGED <<manifest, container, p, attempts, download_errors, results>>

(* Mutant of FragmentRefused: the error is not counted.                    *)
FragmentRefused_Uncounted ==
  /\ Fetching /\ content.source = "http"
  /\ f' = f + 1 /\ Goto("fragment")
  /\ UNCHANGED <<manifest, container, p, attempts, tmp, styles, paragraphs, delivered,
                 have_subtitles, download_errors, results>>

(* No response after the retries of backon, or an HTTP error.              *)
FragmentRefused ==
  /\ Fetching /\ content.source = "http"
  /\ download_errors' = download_errors + 1
  /\ IF download_errors + 1 > MaxErrorCount THEN Return("Network") /\ UNCHANGED f
     ELSE f' = f + 1 /\ Goto("fragment")
  /\ UNCHANGED <<manifest, container, p, attempts, tmp, styles, paragraphs, delivered,
                 have_subtitles, results>>

(* A response whose body does not arrive.                                  *)
BodyFails ==
  /\ Fetching /\ content.source = "http"
  /\ Return("Network")
  /\ UNCHANGED <<manifest, container, p, attempts, document, download_errors, results>>

(* The documents are written to the temporary file.                        *)
Close ==
  /\ pc = "fragment" /\ f > Len(period.contents)
  /\ \/ /\ tmp' = tmp \o paragraphs
        /\ docs' = [docs EXCEPT ![p] = IF have_subtitles THEN {tmp \o paragraphs} ELSE {}]
        /\ Goto(IF have_subtitles THEN "save" ELSE "merge")
     \/ Return("Io") /\ UNCHANGED <<tmp, docs>>
  /\ UNCHANGED <<manifest, container, p, attempts, f, styles, paragraphs, delivered,
                 have_subtitles, download_errors, files, merged>>

(* Copied, or converted by MP4Box, to a file named after the output file,  *)
(* whichever the period.  Other formats stay in the temporary file.        *)
SavedPath(format) == <<IF format = "stpp" THEN "ttml" ELSE "vtt", 1>>
Save ==
  /\ pc = "save"
  /\ \/ period.format = "wvtt" /\ files' = Write(<<"srt", 1>>, tmp) /\ Goto("merge")
     \/ period.format \in {"wvtt", "srt"} /\ UNCHANGED files /\ Goto("merge")
     \/ /\ period.format \in {"stpp", "vtt"}
        /\ \/ files' = Write(SavedPath(period.format), tmp) /\ Goto("merge")
           \/ files' \in {files, Write(SavedPath(period.format), << >>)} /\ Return("Io")
  /\ UNCHANGED <<manifest, container, p, attempts, document, download_errors, merged, docs>>

(* After muxing, and for STPP only: MP4Box adds the temporary file to an   *)
(* MP4 file, mkvmerge a .srt file of the period's name to a Matroska file. *)
(* A helper that fails is ignored, an error copying its output is not.     *)
Mergeable == IF container = "mp4" THEN {tmp} ELSE {files[x] : x \in DOMAIN files \cap {<<"srt", p>>}}
Merge ==
  /\ pc = "merge"
  /\ \/ /\ period.format = "stpp" /\ period.mode # "none"
        /\ \E cues \in Mergeable : merged' = [merged EXCEPT ![p] = cues]
        /\ Goto("fetch") /\ p' = p + 1
     \/ UNCHANGED merged /\ Goto("fetch") /\ p' = p + 1
     \/ /\ period.format = "stpp" /\ period.mode # "none" /\ container = "mkv" /\ Mergeable # {}
        /\ Return("Io") /\ UNCHANGED <<merged, p>>
  /\ UNCHANGED <<manifest, container, attempts, document, download_errors, files, docs>>

Done ==
  /\ pc = "fetch" /\ p > Len(manifest)
  /\ Goto("ok")
  /\ UNCHANGED <<manifest, container, p, attempts, document, download_errors, results>>

Next ==
  \/ PlanPeriod \/ SidecarFails \/ SidecarArrives \/ ConvertSidecar \/ Planned
  \/ StartPeriod \/ DataFragment \/ FragmentArrives \/ FragmentRefused \/ BodyFails
  \/ Close \/ Save \/ Merge \/ Done

Spec == Init /\ [][Next]_vars

-----------------------------------------------------------------------------
(* The document of a period has the cues of the fragments that came, in    *)
(* order and none twice, and one definition of every style they use: the   *)
(* redundant ones are filtered out, no other is (stpp.rs:140-190).         *)
Came(k) == period.contents[delivered[k]]
Parsed == {k \in DOMAIN delivered : Came(k).source = "http" /\ Came(k).form = "tt"}
Cues == [k \in DOMAIN delivered |-> IF k \in Parsed THEN Came(k).cues ELSE << >>]
MergedDocument ==
  pc = "save" /\ period.format = "stpp" =>
    /\ paragraphs = FlattenSeq(Cues)
    /\ \A k, l \in DOMAIN delivered : k < l => delivered[k] < delivered[l]
    /\ \A k, l \in DOMAIN styles : styles[k] = styles[l] => k = l \/ styles[k] = ""
    /\ Range(styles) = UNION {Range(Came(k).styles) : k \in Parsed}

(* No period is saved that misses more fragments than max_error_count, and *)
(* errors add up over the periods (fetch.rs:4418-4427).                    *)
MissingBounded ==
  /\ pc # "err" => download_errors <= MaxErrorCount
  /\ pc = "save" => Len(period.contents) - Len(delivered) <= download_errors

(* At the end a .ttml or .vtt file holds what the last period with         *)
(* subtitles in that format brought, be it nothing, and not what a period  *)
(* before it did; and no output gets the subtitles of another period by    *)
(* way of the temporary file (fetch.rs:4500-4535, 4876-4905).              *)
Of(format) ==
  {k \in 1..Len(manifest) :
     manifest[k].mode = "fragments" /\ manifest[k].format = format /\ docs[k] # {}}
OwnSubtitles ==
  /\ container = "mp4" => \A k \in DOMAIN merged : merged[k] \in {<< >>} \cup docs[k]
  /\ \A format \in {"stpp", "vtt"} :
       pc = "ok" /\ Of(format) # {} => {files[SavedPath(format)]} = docs[Max(Of(format))]
=============================================================================
