---------------------------- MODULE FragmentFetch ----------------------------
(***************************************************************************)
(* fetch_fragment of src/src/fetch.rs: one attempt at a media fragment.    *)
(* The request is repeated with an exponential backoff while it fails for  *)
(* a transient reason; the body of the answer is then read chunk by chunk  *)
(* into a temporary file and, if the caller of the library asked to save   *)
(* fragments, into a file named after the last segment of the URL's path.  *)
(* A body that breaks off is an error of the attempt: nothing is retried   *)
(* inside.                                                                 *)
(*                                                                         *)
(* Both are files of tokio: write_all hands the chunk to another thread    *)
(* and returns; the next write_all waits for it and returns its error.     *)
(* The temporary file is synchronised before it is returned, so that it    *)
(* has all its chunks; the saved copy is dropped without a flush.          *)
(***************************************************************************)
EXTENDS Integers, Sequences, FiniteSets

CONSTANTS
  BackonRetries,    (* Retries of ExponentialBuilder::default().           *)
  Chunks,           (* Chunks in the body of a fragment.                   *)
  Names,            (* Last path segments of the fragments' URLs.          *)
  SaveFragments,    (* downloader.fragment_path is set.                    *)
  NoFile,           (* The saved copy does not exist.                      *)
  MaxLate           (* Bound on the writes of dropped copies under way.    *)

VARIABLES
  req,              (* Where the attempt is.                               *)
  sends,            (* Requests sent by this attempt.                      *)
  mismatch,         (* The answer had the wrong content type.              *)
  tmp,              (* Chunks in the temporary file of the attempt.        *)
  saving,           (* fragment_out is Some: the saved copy could be made. *)
  saved,            (* The directory of saved fragments.                   *)
  late              (* Writes of copies dropped before they were done.     *)

fragVars == <<req, sends, mismatch, tmp, saving, saved, late>>

(* The bytes of the fragment at position p are its chunks <<p, 1>>, ...    *)
Body(p) == [k \in 1..Chunks |-> <<p, k>>]

(* What a stream's file may hold.                                          *)
Content(Positions) == Seq(Positions \X (1..Chunks))

(* A saved copy has room for the chunks of one fragment; in each place is  *)
(* that chunk of the fragment at some position, or nothing.                *)
Hole == 0
Copy(Positions) == {NoFile} \cup [1..Chunks -> Positions \cup {Hole}]
Empty == [k \in 1..Chunks |-> Hole]

(* A write of a copy: the name, the position and the number of the chunk.  *)
Write(Positions) == Names \X Positions \X (1..Chunks)

FragTypeOK(Positions) ==
  /\ req \in {"idle", "sent", "body", "ok", "err"}
  /\ sends \in 0..(BackonRetries + 1)
  /\ mismatch \in BOOLEAN
  /\ saving \in BOOLEAN
  /\ tmp \in Content(Positions)
  /\ saved \in [Names -> Copy(Positions)]
  /\ late \subseteq Write(Positions)

FragInit ==
  /\ req = "idle"
  /\ sends = 0
  /\ mismatch = FALSE
  /\ tmp = << >>
  /\ saving = FALSE
  /\ saved = [n \in Names |-> NoFile]
  /\ late = {}

Send ==
  /\ req = "idle"
  /\ req' = "sent"
  /\ sends' = 1
  /\ UNCHANGED <<mismatch, tmp, saving, saved, late>>

(* Mutant of Transient: one request more than the builder allows.          *)
Transient_Extra ==
  /\ req = "sent"
  /\ IF sends <= BackonRetries + 1
       THEN sends' = sends + 1 /\ UNCHANGED req
       ELSE req' = "err" /\ UNCHANGED sends
  /\ UNCHANGED <<mismatch, tmp, saving, saved, late>>

(* A timeout or HTTP 408, 429, 503, 504: reqwest_error_transient_p.        *)
Transient ==
  /\ req = "sent"
  /\ IF sends <= BackonRetries
       THEN sends' = sends + 1 /\ UNCHANGED req
       ELSE req' = "err" /\ UNCHANGED sends
  /\ UNCHANGED <<mismatch, tmp, saving, saved, late>>

(* Any other failure to connect and any other HTTP error.                  *)
Fatal ==
  /\ req = "sent"
  /\ req' = "err"
  /\ UNCHANGED <<sends, mismatch, tmp, saving, saved, late>>

(* An answer whose content type is refused: an empty file is returned.     *)
WrongType(checks) ==
  /\ req = "sent" /\ checks
  /\ req' = "ok"
  /\ mismatch' = TRUE
  /\ tmp' = << >>
  /\ UNCHANGED <<sends, saving, saved, late>>

(* An accepted answer: File::create truncates what an earlier attempt, or  *)
(* another fragment of the same name, left behind.  If it fails there is   *)
(* no saved copy and nobody is told.                                       *)
Answer(name) ==
  /\ req = "sent"
  /\ req' = "body"
  /\ mismatch' = FALSE
  /\ tmp' = << >>
  /\ saving' \in IF SaveFragments THEN BOOLEAN ELSE {FALSE}
  /\ saved' = IF saving' THEN [saved EXCEPT ![name] = Empty] ELSE saved
  /\ UNCHANGED <<sends, late>>

(* The k-th chunk of fragment p lands in its place.                        *)
Written(name, p, k) == [saved EXCEPT ![name][k] = p]

(* The chunk handed to the saved copy last is under way.                   *)
Writing == saving /\ tmp # << >>

(* Mutant of Chunk: the error of the copy's write before is ignored.       *)
Chunk_IgnoresCopy(p, name) ==
  /\ req = "body" /\ Len(tmp) < Chunks
  /\ tmp' = Append(tmp, <<p, Len(tmp) + 1>>)
  /\ saved' \in IF Writing THEN {saved, Written(name, p, Len(tmp))} ELSE {saved}
  /\ UNCHANGED <<req, sends, mismatch, saving, late>>

(* The next chunk of the body of fragment p goes to both files; that of    *)
(* the copy waits until the one before has landed.                         *)
Chunk(p, name) ==
  /\ req = "body" /\ Len(tmp) < Chunks
  /\ tmp' = Append(tmp, <<p, Len(tmp) + 1>>)
  /\ saved' = IF Writing THEN Written(name, p, Len(tmp)) ELSE saved
  /\ UNCHANGED <<req, sends, mismatch, saving, late>>

(* The one before could not be written: an error of the attempt.           *)
CopyError ==
  /\ req = "body" /\ Len(tmp) < Chunks /\ Writing
  /\ req' = "err"
  /\ UNCHANGED <<sends, mismatch, tmp, saving, saved, late>>

(* The copy is dropped without a flush.  Its last write is done, or it has *)
(* failed and nobody is told, or it is still under way.                    *)
Dropped(p, name) ==
  \/ Writing /\ saved' = Written(name, p, Len(tmp)) /\ UNCHANGED late
  \/ UNCHANGED <<saved, late>>
  \/ /\ Writing /\ Cardinality(late) < MaxLate
     /\ late' = late \cup {<<name, p, Len(tmp)>>} /\ UNCHANGED saved

(* The body breaks off, times out, the temporary file cannot be written,   *)
(* or the bandwidth limiter refuses the chunk.                             *)
BodyError(p, name) ==
  /\ req = "body"
  /\ req' = "err"
  /\ Dropped(p, name)
  /\ UNCHANGED <<sends, mismatch, tmp, saving>>

EndOfBody(p, name) ==
  /\ req = "body" /\ Len(tmp) = Chunks
  /\ req' = "ok"
  /\ Dropped(p, name)
  /\ UNCHANGED <<sends, mismatch, tmp, saving>>

(* A write of a dropped copy ends, at any time: perhaps after another      *)
(* attempt has truncated the file and written to it.                       *)
LateWrite ==
  \E w \in late :
    /\ late' = late \ {w}
    /\ saved' \in {saved, Written(w[1], w[2], w[3])}
    /\ UNCHANGED <<req, sends, mismatch, tmp, saving>>

(* The caller has taken the result.                                        *)
Return ==
  /\ req \in {"ok", "err"}
  /\ req' = "idle"
  /\ sends' = 0
  /\ UNCHANGED <<mismatch, tmp, saving, saved, late>>
=============================================================================
