------------------------------ MODULE StreamHttp ------------------------------
(***************************************************************************)
(* The stream loop of module StreamFetch with every attempt carried out    *)
(* request by request and chunk by chunk by module FragmentFetch.          *)
(***************************************************************************)
EXTENDS StreamFetch, FragmentFetch

CONSTANT
  NameOf            (* The name of the fragment at each position.          *)

VARIABLES
  media,            (* The bytes of the temporary file of the stream.      *)
  copied,           (* History: positions accepted while a copy was saved. *)
  taken             (* History: names that earlier streams have used.      *)

ASSUME StreamHttpAssumption ==
  /\ BackonRetries \in Nat
  /\ Chunks \in Nat \ {0}
  /\ SaveFragments \in BOOLEAN
  /\ MaxLate \in Nat
  /\ NoFile \notin [1..Chunks -> DOMAIN NameOf \cup {Hole}]
  /\ \A p \in Plans : \A i \in DOMAIN p : i \in DOMAIN NameOf /\ NameOf[i] \in Names

httpVars == <<vars, fragVars, media, copied, taken>>

HttpTypeOK ==
  /\ TypeOK
  /\ FragTypeOK(DOMAIN NameOf)
  /\ media \in Content(DOMAIN NameOf)
  /\ copied \subseteq DOMAIN plan
  /\ taken \subseteq Names

HttpInit == Init /\ FragInit /\ media = << >> /\ copied = {} /\ taken = {}

(* What happens inside fetch_fragment leaves the loop where it is.         *)
Inside ==
  /\ Attempting
  /\ \/ Send \/ Transient \/ Fatal \/ WrongType(ContentTypeChecks)
     \/ Answer(NameOf[pos]) \/ Chunk(pos, NameOf[pos]) \/ CopyError
     \/ BodyError(pos, NameOf[pos]) \/ EndOfBody(pos, NameOf[pos])
  /\ UNCHANGED <<vars, media, copied, taken>>

(* Mutants: the bytes of a failed attempt are appended as well; a failed   *)
(* attempt loses the fragment at once.                                     *)
TakeError_KeepsBytes ==
  req = "err" /\ Return /\ FetchFails /\ media' = media \o tmp /\ UNCHANGED <<copied, taken>>

TakeError_GivesUp ==
  /\ req = "err" /\ Return
  /\ lost' = lost \cup {<<calls, pos>>} /\ pos' = pos + 1 /\ pc' = "next"
  /\ UNCHANGED <<callVars, attempt, file, have, rejected, dsVars, fault, media, copied, taken>>

(* The loop takes the result: the whole temporary file, or the error.      *)
TakeOk ==
  /\ req = "ok"
  /\ Return
  /\ IF mismatch THEN FetchRejected ELSE FetchOk
  /\ media' = media \o tmp
  /\ copied' = IF saving /\ ~mismatch THEN copied \cup {pos} ELSE copied
  /\ UNCHANGED taken

TakeError == req = "err" /\ Return /\ FetchFails /\ UNCHANGED <<media, copied, taken>>

(* The loop itself, between two attempts.                                  *)
Between ==
  /\ req = "idle"
  /\ \/ Embedded /\ media' = media \o Body(pos)
     \/ (NextFragment \/ BadEmbedded \/ GiveUp \/ Finish) /\ UNCHANGED media
  /\ UNCHANGED <<fragVars, copied, taken>>

HttpIoError == req \in {"idle", "ok"} /\ IoError /\ UNCHANGED <<fragVars, media, copied, taken>>

CallHttp ==
  /\ \E p \in Plans, per \in Periods : Call(p, per)
  /\ media' = << >>
  /\ copied' = {}
  /\ taken' = {n \in Names : saved[n] # NoFile}
  /\ UNCHANGED fragVars

(* What is left of earlier attempts goes on by itself.                     *)
LateHttp == LateWrite /\ UNCHANGED <<vars, media, copied, taken>>

HttpStep == Inside \/ TakeOk \/ TakeError \/ Between

HttpNext == HttpStep \/ HttpIoError \/ CallHttp \/ LateHttp

HttpSpec == HttpInit /\ [][HttpNext]_httpVars

(* Every request and every chunk ends by the timeout of the HTTP client,   *)
(* so the task always gets on.                                             *)
HttpFairSpec == HttpSpec /\ WF_httpVars(HttpStep)

-----------------------------------------------------------------------------

(* Whatever breaks off in the middle, the stream's file is made of whole   *)
(* fragments: the bytes of a failed attempt never reach it.                *)
WholeFragments ==
  /\ Len(media) = Len(file) * Chunks
  /\ \A n \in DOMAIN file, k \in 1..Chunks : media[(n - 1) * Chunks + k] = <<file[n], k>>

(* The directory of saved fragments is no substitute for the stream.  Of a *)
(* fragment that was delivered it has every chunk but perhaps the last,    *)
(* which nobody waits for, and in its place nothing else: whatever writes  *)
(* of failed attempts land later, if the file could be created and no      *)
(* other fragment, of this stream or of an earlier one, has its name.      *)
Unshared(p) ==
  /\ NameOf[p] \notin taken
  /\ \A q \in DOMAIN plan : NameOf[q] = NameOf[p] => q = p

SavedButLast ==
  \A p \in copied : p \in Delivered /\ Unshared(p) =>
    /\ \A k \in 1..(Chunks - 1) : saved[NameOf[p]][k] = p
    /\ saved[NameOf[p]][Chunks] \in {p, Hole}

(* The proofs about StreamFetch apply to the loop with all its requests.   *)
ImplementsStream == Spec

(* A call returns however its requests and bodies fail.                    *)
HttpCallReturns == (pc \in Running) ~> (pc \in {"ok", "err"})
=============================================================================
