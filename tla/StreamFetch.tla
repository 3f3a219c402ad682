----------------------------- MODULE StreamFetch -----------------------------
(***************************************************************************)
(* fetch_period_audio and fetch_period_video of src/src/fetch.rs, up to    *)
(* the decryption of what they wrote (module StreamDecrypt): the fragments *)
(* of one period are fetched one after the other and appended to a         *)
(* temporary file.  The two functions differ in the media type only.  A    *)
(* download calls them once per period and stream with one DownloadState,  *)
(* so the error count of a stream is carried over to the next one.         *)
(*                                                                         *)
(* A step is one fragment taken from the plan or one complete attempt of   *)
(* fetch_fragment, whose inside is module FragmentFetch.                   *)
(***************************************************************************)
EXTENDS Integers, Sequences, FiniteSets

CONSTANTS
  Plans,              (* The fragment lists a stream may be called with.   *)
  Periods,            (* Values of the period counter.                     *)
  FragmentRetryCount, (* DashDownloader::fragment_retry_count              *)
  MaxErrorCount,      (* DashDownloader::max_error_count                   *)
  ContentTypeChecks,  (* DashDownloader::content_type_checks               *)
  MaxCalls            (* Streams in one download (bounds the model).       *)

(* The URL of a fragment: fetched over the network, a data: URL with media *)
(* of the right type inside, or a data: URL that is refused.               *)
Source == {"http", "data", "alien"}

Fragment == [period : Periods, source : Source]

ASSUME StreamFetchAssumption ==
  /\ Plans \subseteq Seq(Fragment)
  /\ FragmentRetryCount \in Nat
  /\ MaxErrorCount \in Nat
  /\ ContentTypeChecks \in BOOLEAN
  /\ MaxCalls \in Nat

VARIABLES
  plan,               (* audio_fragments / video_fragments                 *)
  period,             (* DownloadState.period_counter                      *)
  calls,              (* Streams started so far.                           *)
  pos,                (* The iterator: next or current index of plan.      *)
  attempt,            (* Failed attempts at the current fragment.          *)
  file,               (* The temporary file: positions appended, in order. *)
  have,               (* have_audio / have_video                           *)
  rejected,           (* History: accepted with an empty body for their    *)
                      (* content type, in this call.                       *)
  lost,               (* History: <<call, position>> given up.             *)
  download_errors,    (* DownloadState.download_errors                     *)
  segment_counter,    (* DownloadState.segment_counter                     *)
  pc, fault           (* Control state, and why the call failed.           *)

callVars == <<plan, period, calls>>
dsVars == <<download_errors, segment_counter>>
vars == <<callVars, pos, attempt, file, have, rejected, lost, dsVars, pc, fault>>

Running == {"next", "try"}

(* The fragments that the iterator's filter on the period lets through.    *)
Wanted == {p \in DOMAIN plan : plan[p].period = period}

(* Those of them that the loop is past.                                    *)
Settled == {p \in Wanted : p < pos}

Delivered == {file[i] : i \in DOMAIN file}

TypeOK ==
  /\ plan \in Seq(Fragment)
  /\ period \in Periods
  /\ calls \in 0..MaxCalls
  /\ pos \in 1..(Len(plan) + 1)
  /\ attempt \in 0..FragmentRetryCount
  /\ file \in Seq(1..Len(plan))
  /\ have \in BOOLEAN
  /\ rejected \subseteq 1..Len(plan)
  /\ lost \subseteq (1..MaxCalls) \X (Nat \ {0})
  /\ IsFiniteSet(lost)
  /\ download_errors \in 0..(MaxErrorCount + 1)
  /\ segment_counter \in Nat
  /\ pc \in Running \cup {"idle", "ok", "err"}
  /\ fault \in {"none", "Network", "Parsing", "UnhandledMediaStream", "Io"}

-----------------------------------------------------------------------------

Init ==
  /\ plan = << >>
  /\ period \in Periods
  /\ calls = 0
  /\ pos = 1
  /\ attempt = 0
  /\ file = << >>
  /\ have = FALSE
  /\ rejected = {}
  /\ lost = {}
  /\ download_errors = 0
  /\ segment_counter = 0
  /\ pc = "idle"
  /\ fault = "none"

(* Mutant of Call: every stream starts with a fresh error count.           *)
Call_ResetsErrors(p, per) ==
  /\ pc \in {"idle", "ok"} /\ calls < MaxCalls
  /\ plan' = p /\ period' = per /\ calls' = calls + 1
  /\ pos' = 1 /\ attempt' = 0 /\ file' = << >> /\ have' = FALSE /\ rejected' = {}
  /\ download_errors' = 0
  /\ pc' = "next"
  /\ UNCHANGED <<lost, segment_counter, fault>>

(* fetch_mpd calls the function for the next stream of the download.       *)
Call(p, per) ==
  /\ pc \in {"idle", "ok"}
  /\ calls < MaxCalls
  /\ plan' = p
  /\ period' = per
  /\ calls' = calls + 1
  /\ pos' = 1
  /\ attempt' = 0
  /\ file' = << >>
  /\ have' = FALSE
  /\ rejected' = {}
  /\ pc' = "next"
  /\ UNCHANGED <<lost, dsVars, fault>>

(* The iterator finds the next fragment of this period.                    *)
NextFragment ==
  /\ pc = "next"
  /\ \E p \in Wanted :
       /\ p >= pos
       /\ \A q \in Wanted : q >= pos => q >= p
       /\ pos' = p
  /\ segment_counter' = segment_counter + 1
  /\ attempt' = 0
  /\ pc' = "try"
  /\ UNCHANGED <<callVars, file, have, rejected, lost, download_errors, fault>>

(* The body of the current fragment is appended and the loop moves on.     *)
Append1 ==
  /\ file' = Append(file, pos)
  /\ have' = TRUE
  /\ pos' = pos + 1
  /\ pc' = "next"
  /\ UNCHANGED <<callVars, attempt, rejected, lost, dsVars, fault>>

Embedded ==
  /\ pc = "try" /\ plan[pos].source = "data"
  /\ Append1

(* A data: URL that does not parse or has another media type ends the call.*)
BadEmbedded ==
  /\ pc = "try" /\ plan[pos].source = "alien"
  /\ pc' = "err" /\ fault' \in {"Parsing", "UnhandledMediaStream"}
  /\ UNCHANGED <<callVars, pos, attempt, file, have, rejected, lost, dsVars>>

(* The body of the retry loop runs.                                        *)
Attempting == pc = "try" /\ plan[pos].source = "http" /\ attempt < FragmentRetryCount

(* Mutant of FetchOk: the loop is not left after a success.                *)
FetchOk_NoBreak ==
  /\ Attempting
  /\ file' = Append(file, pos) /\ have' = TRUE /\ attempt' = attempt + 1
  /\ UNCHANGED <<callVars, pos, rejected, lost, dsVars, pc, fault>>

(* fetch_fragment returned a file, which is read back and appended.        *)
FetchOk == Attempting /\ Append1

(* fetch_fragment returned an empty file: wrong content type.              *)
FetchRejected ==
  /\ Attempting
  /\ ContentTypeChecks
  /\ rejected' = rejected \cup {pos}
  /\ have' = TRUE
  /\ pos' = pos + 1
  /\ pc' = "next"
  /\ UNCHANGED <<callVars, attempt, file, lost, dsVars, fault>>

(* Mutants of FetchFails: the fragment is abandoned at its first error;    *)
(* the limit is compared with >=; attempts and errors are not counted.     *)
FetchFails_Skips ==
  /\ Attempting
  /\ download_errors' = download_errors + 1
  /\ IF download_errors' > MaxErrorCount
       THEN pc' = "err" /\ fault' = "Network" /\ UNCHANGED pos
       ELSE pos' = pos + 1 /\ pc' = "next" /\ UNCHANGED fault
  /\ UNCHANGED <<callVars, attempt, file, have, rejected, lost, segment_counter>>

FetchFails_AtLimit ==
  /\ Attempting
  /\ download_errors' = download_errors + 1
  /\ IF download_errors' >= MaxErrorCount
       THEN pc' = "err" /\ fault' = "Network" /\ UNCHANGED attempt
       ELSE attempt' = attempt + 1 /\ UNCHANGED <<pc, fault>>
  /\ UNCHANGED <<callVars, pos, file, have, rejected, lost, segment_counter>>

FetchFails_Uncounted == Attempting /\ UNCHANGED vars

(* fetch_fragment returned an error: count it, abort or retry.             *)
FetchFails ==
  /\ Attempting
  /\ download_errors' = download_errors + 1
  /\ IF download_errors' > MaxErrorCount
       THEN pc' = "err" /\ fault' = "Network" /\ UNCHANGED attempt
       ELSE attempt' = attempt + 1 /\ UNCHANGED <<pc, fault>>
  /\ UNCHANGED <<callVars, pos, file, have, rejected, lost, segment_counter>>

(* The retry loop ran out: the fragment is left out of the file.           *)
GiveUp ==
  /\ pc = "try" /\ plan[pos].source = "http"
  /\ attempt = FragmentRetryCount
  /\ lost' = lost \cup {<<calls, pos>>}
  /\ pos' = pos + 1
  /\ pc' = "next"
  /\ UNCHANGED <<callVars, attempt, file, have, rejected, dsVars, fault>>

(* Mutant of Finish: the last fragment is left out.                        *)
Finish_Early ==
  /\ pc = "next"
  /\ \A p \in Wanted : p <= pos
  /\ pc' = "ok"
  /\ UNCHANGED <<callVars, pos, attempt, file, have, rejected, lost, dsVars, fault>>

(* No fragment is left: flush the file and return Ok(have).                *)
Finish ==
  /\ pc = "next"
  /\ \A p \in Wanted : p < pos
  /\ pc' = "ok"
  /\ UNCHANGED <<callVars, pos, attempt, file, have, rejected, lost, dsVars, fault>>

(* Creating, writing or flushing the temporary file fails.                 *)
IoError ==
  /\ pc \in Running
  /\ pc' = "err" /\ fault' = "Io"
  /\ UNCHANGED <<callVars, pos, attempt, file, have, rejected, lost, dsVars>>

Work ==
  \/ NextFragment \/ Embedded \/ BadEmbedded
  \/ FetchOk \/ FetchRejected \/ FetchFails \/ GiveUp
  \/ Finish

Step == Work \/ IoError

Next == Step \/ \E p \in Plans, per \in Periods : Call(p, per)

Spec == Init /\ [][Next]_vars

-----------------------------------------------------------------------------

(* The file is the media in manifest order: fragments of this period only, *)
(* none twice (fetched again by the retry loop), none before an earlier    *)
(* one.                                                                    *)
InOrderOnce ==
  /\ Delivered \subseteq Wanted
  /\ \A i, j \in DOMAIN file : i < j => file[i] < file[j]

(* When the function returns Ok, every fragment of the period was written, *)
(* given up after its attempts, or had the wrong content type: exactly one *)
(* of the three, so nothing is skipped unnoticed.                          *)
LostHere == {p \in DOMAIN plan : <<calls, p>> \in lost}

Accounted ==
  pc = "ok" =>
    /\ Wanted = Delivered \cup LostHere \cup rejected
    /\ Delivered \cap LostHere = {}
    /\ rejected \cap (Delivered \cup LostHere) = {}

(* A gap in the media is never free: each fragment given up by any stream  *)
(* of the download cost FragmentRetryCount of the errors that all streams  *)
(* share, so a download that goes on has at most MaxErrorCount /           *)
(* FragmentRetryCount gaps.                                                *)
LossBudget ==
  /\ Cardinality(lost) * FragmentRetryCount <= download_errors
  /\ pc # "err" => Cardinality(lost) * FragmentRetryCount <= MaxErrorCount

(* The download is aborted for network errors when and only when more than *)
(* MaxErrorCount were counted.                                             *)
AbortIffOverBudget == fault = "Network" <=> download_errors > MaxErrorCount

(* The count of errors is spent, never given back: not by a success, not   *)
(* by the next stream of the download.                                     *)
ErrorsOnlyGrow == [][download_errors' \in download_errors..(download_errors + 1)]_vars

(* The refinement mapping: what the caller sees of the control state.      *)
Status == CASE pc = "idle" -> "idle"
            [] pc \in Running -> "running"
            [] pc = "ok" -> "complete"
            [] pc = "err" -> "failed"

Delivery == INSTANCE OrderedDelivery WITH
  Positions  <- Nat \ {0},
  LossCost   <- FragmentRetryCount,
  Budget     <- MaxErrorCount,
  MayDiscard <- ContentTypeChecks,
  wanted     <- Wanted,
  settled    <- Settled,
  out        <- file,
  losses     <- Cardinality(lost),
  status     <- Status

(* The loop keeps the promise of OrderedDelivery.                          *)
KeepsPromise == Delivery!Spec
=============================================================================
