--------------------------- MODULE StreamHttpProofs ---------------------------
(***************************************************************************)
(* Proofs about StreamHttp: what holds of the stream loop holds of it with *)
(* all its requests, and what reaches its file, for every number of        *)
(* retries and of chunks.                                                  *)
(***************************************************************************)
EXTENDS StreamHttp, StreamFetchProofs

(* A step of the loop with its requests is a step of the loop or a stutter.*)
LEMMA StreamStep == [HttpNext]_httpVars => [Next]_vars
  BY DEF HttpNext, HttpStep, HttpIoError, CallHttp, Inside, TakeOk, TakeError, Between, httpVars,
         LateHttp, Next, Step, Work

(* The loop with all its requests implements the loop of StreamFetch, so   *)
(* that all its theorems apply.                                            *)
THEOREM RequestsImplementStream == HttpSpec => ImplementsStream
<1>1. HttpInit => Init
  BY DEF HttpInit
<1> QED
  BY <1>1, StreamStep, PTL DEF HttpSpec, ImplementsStream, Spec

(* What the bounds of StreamFetch say of the loop with its requests: no    *)
(* more is missing than max_error_count allows, and what is in the file is *)
(* in order, however often requests are sent again.                        *)
THEOREM RequestsKeepPromise == HttpSpec => []LossBudget /\ []InOrderOnce /\ KeepsPromise
<1>1. HttpSpec => Spec
  BY RequestsImplementStream DEF ImplementsStream
<1> QED
  BY <1>1, LossIsBounded, FileIsOrdered, ImplementsPromise

-----------------------------------------------------------------------------

Media == Content(DOMAIN NameOf)
Files == [1..Chunks -> DOMAIN NameOf \cup {Hole}]
Copies == Copy(DOMAIN NameOf)

Writes == Write(DOMAIN NameOf)

(* What a write writes where.                                              *)
LEMMA WriteParts ==
  /\ \A w \in Writes : w[1] \in Names /\ w[2] \in DOMAIN NameOf /\ w[3] \in 1..Chunks
  /\ \A n \in Names, p \in DOMAIN NameOf, k \in 1..Chunks : <<n, p, k>> \in Writes
  BY DEF Writes, Write

(* An empty file is a file.                                                *)
LEMMA EmptyFile == << >> \in Media /\ Empty \in Files
  BY DEF Media, Files, Content, Empty

(* A copy is a file, or there is none yet.                                 *)
LEMMA CopyOrNone == Copies = {NoFile} \cup Files /\ NoFile \notin Files
  BY StreamHttpAssumption DEF Copies, Copy, Files

(* A file to which one more chunk is written.                              *)
LEMMA OneMore ==
  ASSUME NEW s \in Media, NEW p \in DOMAIN NameOf, NEW k \in 1..Chunks
  PROVE  /\ Append(s, <<p, k>>) \in Media
         /\ Len(s) \in Nat /\ Len(Append(s, <<p, k>>)) = Len(s) + 1
         /\ DOMAIN s = 1..Len(s) /\ DOMAIN Append(s, <<p, k>>) = 1..(Len(s) + 1)
         /\ \A i \in 1..Len(s) : Append(s, <<p, k>>)[i] = s[i]
         /\ Append(s, <<p, k>>)[Len(s) + 1] = <<p, k>>
<1> DEFINE S == (DOMAIN NameOf) \X (1..Chunks)
           e == <<p, k>>
<1>1. Media = Seq(S)
  BY Zenon DEF Media, Content
<1>2. s \in Seq(S) /\ e \in S
  BY <1>1
<1> HIDE DEF S, e
<1>3. /\ Append(s, e) \in Seq(S)
      /\ Len(s) \in Nat /\ Len(Append(s, e)) = Len(s) + 1
      /\ DOMAIN s = 1..Len(s) /\ DOMAIN Append(s, e) = 1..(Len(s) + 1)
      /\ \A i \in 1..Len(s) : Append(s, e)[i] = s[i]
      /\ Append(s, e)[Len(s) + 1] = e
  BY <1>2
<1> QED
  BY <1>1, <1>3, Zenon DEF e

(* A file is opened for a copy, and nothing else happens to the others.    *)
LEMMA OpenCopy ==
  ASSUME NEW n \in Names, saved \in [Names -> Copies]
  PROVE  LET opened == [saved EXCEPT ![n] = Empty] IN
         /\ opened \in [Names -> Copies] /\ opened[n] = Empty
         /\ \A m \in Names : m # n => opened[m] = saved[m]
         /\ \A m \in Names : saved[m] \in Files => opened[m] \in Files
  BY EmptyFile, CopyOrNone

(* A chunk lands in its place, and nowhere else.                           *)
LEMMA WriteCopy ==
  ASSUME NEW n \in Names, NEW p \in DOMAIN NameOf, NEW k \in 1..Chunks,
         saved \in [Names -> Copies], saved[n] \in Files
  PROVE  /\ Written(n, p, k) \in [Names -> Copies]
         /\ Written(n, p, k)[n] \in Files /\ Written(n, p, k)[n][k] = p
         /\ \A j \in 1..Chunks : j # k => Written(n, p, k)[n][j] = saved[n][j]
         /\ \A m \in Names : m # n => Written(n, p, k)[m] = saved[m]
         /\ \A m \in Names : saved[m] \in Files => Written(n, p, k)[m] \in Files
<1> DEFINE written == [saved[n] EXCEPT ![k] = p]
<1>1. /\ written \in Files /\ written[k] = p
      /\ \A j \in 1..Chunks : j # k => written[j] = saved[n][j]
  BY DEF Files
<1>2. Written(n, p, k) = [saved EXCEPT ![n] = written]
  BY DEF Written
<1> HIDE DEF written
<1> QED
  BY <1>1, <1>2, CopyOrNone

(* The types, with what a file holds left folded.                           *)
LEMMA FragTypes ==
  FragTypeOK(DOMAIN NameOf) <=>
    /\ req \in {"idle", "sent", "body", "ok", "err"}
    /\ sends \in 0..(BackonRetries + 1)
    /\ mismatch \in BOOLEAN /\ saving \in BOOLEAN
    /\ tmp \in Media /\ saved \in [Names -> Copies]
    /\ late \subseteq Writes
  BY Zenon DEF FragTypeOK, Media, Copies, Writes

(* The position in hand is that of a fragment that has a name.             *)
Named ==
  /\ plan = << >> \/ plan \in Plans
  /\ pc = "try" => pos \in DOMAIN NameOf /\ NameOf[pos] \in Names

(* While an attempt is made, its temporary file is the beginning of the    *)
(* body, the whole of it in the end or nothing if it has the wrong type.   *)
(* What is written to a saved copy is written to a file that exists.       *)
Beginning == Len(tmp) <= Chunks /\ \A k \in DOMAIN tmp : tmp[k] = <<pos, k>>
AttemptInv ==
  /\ req # "idle" => Attempting \/ pc = "err"
  /\ req \in {"body", "ok"} => Beginning
  /\ req = "body" => ~mismatch
  /\ req = "ok" => Len(tmp) = IF mismatch THEN 0 ELSE Chunks
  /\ saving /\ ~mismatch /\ req \in {"body", "ok"} /\ pc = "try" => saved[NameOf[pos]] \in Files
  /\ \A w \in late : saved[w[1]] \in Files

HttpControl == Named /\ HttpTypeOK /\ Control

(* The loop starts without a request, with its variables typed.             *)
LEMMA HttpControlInit == HttpInit => HttpControl /\ AttemptInv
<1> SUFFICES ASSUME HttpInit PROVE HttpControl /\ AttemptInv
  OBVIOUS
<1> USE StreamHttpAssumption DEF HttpInit, FragInit
<1>1. TypeOK /\ Control
  BY TypeInit
<1>2. Named
  BY DEF Init, Named
<1>3. FragTypeOK(DOMAIN NameOf)
  <2>1. saved \in [Names -> Copies] /\ late = {}
    BY CopyOrNone
  <2>2. /\ req = "idle" /\ sends \in 0..(BackonRetries + 1)
        /\ mismatch = FALSE /\ saving = FALSE /\ tmp \in Media
    BY EmptyFile
  <2> QED
    BY <2>1, <2>2, FragTypes, Zenon
<1>4. HttpTypeOK
  <2>1. media \in Content(DOMAIN NameOf)
    BY EmptyFile DEF Media
  <2> QED
    BY <1>1, <1>3, <2>1 DEF HttpTypeOK
<1> QED
  BY <1>1, <1>2, <1>4 DEF HttpControl, AttemptInv

(* The fragment in hand has a name.                                         *)
LEMMA NamedStep ==
  ASSUME HttpControl, [HttpNext]_httpVars
  PROVE  Named' /\ TypeOK' /\ Control'
<1>1. [Next]_vars
  BY StreamStep
<1>2. TypeOK' /\ Control'
  BY <1>1, TypeStep DEF HttpControl, HttpTypeOK
<1>3. plan' = << >> \/ plan' \in Plans
  BY <1>1 DEF HttpControl, Named, vars, callVars, Next, Step, Work, Call, NextFragment, Embedded,
              BadEmbedded, FetchOk, FetchRejected, FetchFails, GiveUp, Finish, IoError, Append1
<1>4. pc' = "try" => pos' \in DOMAIN plan'
  BY <1>2 DEF Control, Wanted
<1> QED
  BY <1>2, <1>3, <1>4, StreamHttpAssumption DEF Named

(* A write of a copy that is dropped is done, lost, or still under way.     *)
LEMMA DropCopy ==
  ASSUME HttpControl, AttemptInv, Attempting, req = "body", Dropped(pos, NameOf[pos])
  PROVE  /\ saved' \in [Names -> Copies]
         /\ late' \subseteq Writes
         /\ \A m \in Names : saved[m] \in Files => saved'[m] \in Files
         /\ \A w \in late' : saved'[w[1]] \in Files
<1>1. /\ pos \in DOMAIN NameOf /\ NameOf[pos] \in Names
      /\ tmp \in Media /\ saved \in [Names -> Copies]
      /\ late \subseteq Writes
  BY FragTypes, Zenon DEF HttpControl, Named, HttpTypeOK, Attempting
<1>0. Len(tmp) \in Nat /\ (tmp # << >> => Len(tmp) > 0)
  BY <1>1 DEF Media, Content
<1>2. Writing => Len(tmp) \in 1..Chunks /\ saved[NameOf[pos]] \in Files
  BY <1>0, StreamHttpAssumption DEF Writing, AttemptInv, Beginning, Attempting
<1>3. \A w \in late : w[1] \in Names /\ saved[w[1]] \in Files
  BY <1>1, WriteParts DEF AttemptInv
<1>4. CASE Writing /\ saved' = Written(NameOf[pos], pos, Len(tmp)) /\ UNCHANGED late
  BY <1>1, <1>2, <1>3, <1>4, WriteCopy
<1>5. CASE UNCHANGED <<saved, late>>
  BY <1>1, <1>3, <1>5
<1>6. CASE Writing /\ late' = late \cup {<<NameOf[pos], pos, Len(tmp)>>} /\ UNCHANGED saved
  BY <1>1, <1>2, <1>3, <1>6, WriteParts
<1> QED
  BY <1>4, <1>5, <1>6 DEF Dropped

(* What fetch_fragment does keeps its variables typed.                      *)
LEMMA InsideType ==
  ASSUME HttpControl, AttemptInv, Inside
  PROVE  FragTypeOK(DOMAIN NameOf)' /\ AttemptInv'
<1> USE StreamHttpAssumption DEF Attempting, vars, callVars
<1>0. /\ UNCHANGED vars /\ Attempting
      /\ pos \in DOMAIN NameOf /\ NameOf[pos] \in Names
      /\ FragTypeOK(DOMAIN NameOf)
  BY DEF Inside, HttpControl, Named, HttpTypeOK
<1> DEFINE Types == /\ req \in {"idle", "sent", "body", "ok", "err"}
                    /\ sends \in 0..(BackonRetries + 1)
                    /\ mismatch \in BOOLEAN /\ saving \in BOOLEAN
                    /\ tmp \in Media /\ saved \in [Names -> Copies]
                    /\ late \subseteq Writes
<1>A. Types
  BY <1>0, FragTypes, Zenon
<1>B. Types' => FragTypeOK(DOMAIN NameOf)'
  BY Zenon DEF FragTypeOK, Media, Copies, Writes
<1>C. \A w \in late : w[1] \in Names /\ saved[w[1]] \in Files
  BY <1>A, WriteParts DEF AttemptInv
<1> SUFFICES Types' /\ AttemptInv'
  BY <1>B
<1> USE <1>0, <1>A, <1>C
<1>1. CASE Send
  BY <1>1 DEF Send, Media, Copies, Files, AttemptInv, Beginning
<1>2. CASE Transient
  BY <1>2 DEF Transient, Media, Copies, Files, AttemptInv, Beginning
<1>3. CASE Fatal
  BY <1>3 DEF Fatal, Media, Copies, Files, AttemptInv, Beginning
<1>4. CASE WrongType(ContentTypeChecks)
  BY <1>4, EmptyFile DEF WrongType, Media, Copies, Files, AttemptInv, Beginning
<1>5. CASE Answer(NameOf[pos])
  <2>1. saving' \in BOOLEAN
    BY <1>5, Zenon DEF Answer
  <2> DEFINE opened == [saved EXCEPT ![NameOf[pos]] = Empty]
  <2>2. /\ opened \in [Names -> Copies] /\ opened[NameOf[pos]] \in Files
        /\ \A m \in Names : saved[m] \in Files => opened[m] \in Files
    BY EmptyFile, OpenCopy
  <2>3. /\ saved' = IF saving' THEN opened ELSE saved
        /\ req' = "body" /\ mismatch' = FALSE /\ tmp' = << >> /\ sends' = sends /\ late' = late
    BY <1>5 DEF Answer
  <2> HIDE DEF opened
  <2>4. /\ saved' \in [Names -> Copies] /\ (saving' => saved'[NameOf[pos]] \in Files)
        /\ \A w \in late' : saved'[w[1]] \in Files
    BY <2>2, <2>3
  <2>5. Types'
    BY <2>1, <2>3, <2>4, EmptyFile DEF Media, Copies
  <2>6. AttemptInv'
    BY <2>3, <2>4 DEF AttemptInv, Beginning, Media, Files
  <2> QED
    BY <2>5, <2>6
<1>6. CASE Chunk(pos, NameOf[pos])
  <2> DEFINE chunk == <<pos, Len(tmp) + 1>>
  <2>1. /\ req = "body" /\ Len(tmp) < Chunks /\ tmp' = Append(tmp, chunk)
        /\ saved' = IF Writing THEN Written(NameOf[pos], pos, Len(tmp)) ELSE saved
        /\ UNCHANGED <<req, sends, mismatch, saving, late>>
    BY <1>6 DEF Chunk
  <2>2. Len(tmp) + 1 \in 1..Chunks /\ (Writing => Len(tmp) \in 1..Chunks)
    <3>1. Len(tmp) \in Nat /\ (tmp # << >> => Len(tmp) > 0)
      BY DEF Media, Content
    <3> QED
      BY <2>1, <3>1 DEF Writing
  <2>3. /\ tmp' \in Media /\ Len(tmp') = Len(tmp) + 1
        /\ Len(tmp) \in Nat /\ DOMAIN tmp = 1..Len(tmp) /\ DOMAIN tmp' = 1..(Len(tmp) + 1)
        /\ \A k \in 1..Len(tmp) : tmp'[k] = tmp[k]
        /\ tmp'[Len(tmp) + 1] = chunk
    BY <2>1, <2>2, OneMore
  <2>4. \A k \in DOMAIN tmp' : tmp'[k] = <<pos, k>>
    <3> SUFFICES ASSUME NEW k \in DOMAIN tmp' PROVE tmp'[k] = <<pos, k>>
      OBVIOUS
    <3>a. k \in 1..(Len(tmp) + 1) /\ Len(tmp) \in Nat
      BY <2>3, Zenon
    <3>0. k \in 1..Len(tmp) \/ k = Len(tmp) + 1
      BY <3>a
    <3>1. CASE k \in 1..Len(tmp)
      BY <2>1, <2>3, <3>1 DEF AttemptInv, Beginning
    <3>2. CASE k = Len(tmp) + 1
      BY <2>3, <3>2
    <3> QED
      BY <3>0, <3>1, <3>2
  <2>5. ~mismatch /\ (saving => saved[NameOf[pos]] \in Files)
    BY <2>1 DEF AttemptInv
  <2>6. /\ saved' \in [Names -> Copies]
        /\ \A m \in Names : saved[m] \in Files => saved'[m] \in Files
    BY <2>1, <2>2, <2>5, WriteCopy DEF Writing
  <2> HIDE DEF chunk
  <2>7. Types'
    BY <2>1, <2>3, <2>6 DEF Media, Copies
  <2>8. AttemptInv'
    BY <2>1, <2>2, <2>3, <2>4, <2>5, <2>6 DEF AttemptInv, Beginning
  <2> QED
    BY <2>7, <2>8
<1>7. CASE BodyError(pos, NameOf[pos])
  <2>1. /\ req = "body" /\ req' = "err" /\ UNCHANGED <<sends, mismatch, tmp, saving>>
        /\ Dropped(pos, NameOf[pos])
    BY <1>7 DEF BodyError
  <2>2. Types'
    BY <2>1, DropCopy DEF Media, Copies
  <2>3. AttemptInv'
    BY <2>1, DropCopy DEF AttemptInv
  <2> QED
    BY <2>2, <2>3
<1>8. CASE EndOfBody(pos, NameOf[pos])
  <2>1. /\ req = "body" /\ req' = "ok" /\ UNCHANGED <<sends, mismatch, tmp, saving>>
        /\ Dropped(pos, NameOf[pos]) /\ Len(tmp) = Chunks
    BY <1>8 DEF EndOfBody
  <2>2. Types'
    BY <2>1, DropCopy DEF Media, Copies
  <2>3. AttemptInv'
    BY <2>1, DropCopy DEF AttemptInv, Beginning
  <2> QED
    BY <2>2, <2>3
<1>9. CASE CopyError
  BY <1>9 DEF CopyError, Media, Copies, Files, AttemptInv
<1> QED
  BY <1>1, <1>2, <1>3, <1>4, <1>5, <1>6, <1>7, <1>8, <1>9 DEF Inside

(* A write that lands late lands in a file that exists.                     *)
LEMMA LateType ==
  ASSUME HttpControl, AttemptInv, LateHttp
  PROVE  FragTypeOK(DOMAIN NameOf)' /\ AttemptInv'
<1>1. /\ req \in {"idle", "sent", "body", "ok", "err"}
      /\ sends \in 0..(BackonRetries + 1)
      /\ mismatch \in BOOLEAN /\ saving \in BOOLEAN
      /\ tmp \in Media /\ saved \in [Names -> Copies]
      /\ late \subseteq Writes
  BY FragTypes, Zenon DEF HttpControl, HttpTypeOK
<1>2. PICK w \in late : /\ late' = late \ {w}
                        /\ saved' \in {saved, Written(w[1], w[2], w[3])}
                        /\ UNCHANGED <<req, sends, mismatch, tmp, saving>>
  BY DEF LateHttp, LateWrite
<1>3. /\ w[1] \in Names /\ w[2] \in DOMAIN NameOf /\ w[3] \in 1..Chunks
      /\ saved[w[1]] \in Files
      /\ \A v \in late : v[1] \in Names /\ saved[v[1]] \in Files
  BY <1>1, WriteParts DEF AttemptInv
<1>4. /\ saved' \in [Names -> Copies]
      /\ \A m \in Names : saved[m] \in Files => saved'[m] \in Files
  BY <1>1, <1>2, <1>3, WriteCopy
<1>5. FragTypeOK(DOMAIN NameOf)'
  <2>1. /\ req' \in {"idle", "sent", "body", "ok", "err"}
        /\ sends' \in 0..(BackonRetries + 1)
        /\ mismatch' \in BOOLEAN /\ saving' \in BOOLEAN
        /\ tmp' \in Media' /\ saved' \in [Names -> Copies']
        /\ late' \subseteq Writes
    BY <1>1, <1>2, <1>4 DEF Media, Copies
  <2> QED
    BY <2>1, Zenon DEF FragTypeOK, Media, Copies, Writes
<1>6. AttemptInv'
  <2>1. pos' = pos /\ pc' = pc /\ plan' = plan /\ attempt' = attempt
    BY DEF LateHttp, vars, callVars
  <2>2. pc = "try" => NameOf[pos] \in Names
    BY DEF HttpControl, Named
  <2> QED
    BY <1>2, <1>3, <1>4, <2>1, <2>2 DEF AttemptInv, Beginning, Attempting
<1> QED
  BY <1>5, <1>6

(* Two files one after the other.                                           *)
LEMMA Joined ==
  ASSUME NEW s \in Media, NEW t \in Media
  PROVE  /\ s \o t \in Media /\ Len(s) \in Nat /\ Len(t) \in Nat
         /\ Len(s \o t) = Len(s) + Len(t)
         /\ \A i \in 1..Len(s) : (s \o t)[i] = s[i]
         /\ \A i \in 1..Len(t) : (s \o t)[Len(s) + i] = t[i]
<1> DEFINE S == (DOMAIN NameOf) \X (1..Chunks)
<1>1. Media = Seq(S)
  BY Zenon DEF Media, Content
<1> HIDE DEF S
<1>2. s \in Seq(S) /\ t \in Seq(S)
  BY <1>1
<1>3. s \o t \in Seq(S) /\ Len(s) \in Nat /\ Len(t) \in Nat /\ Len(s \o t) = Len(s) + Len(t)
  BY <1>2
<1>4. \A i \in 1..Len(s) : (s \o t)[i] = s[i]
  BY <1>2
<1>5. \A i \in 1..Len(t) : (s \o t)[Len(s) + i] = t[i]
  <2> SUFFICES ASSUME NEW i \in 1..Len(t) PROVE (s \o t)[Len(s) + i] = t[i]
    OBVIOUS
  <2>1. Len(s) + i \in 1..(Len(s) + Len(t)) /\ Len(s) + i > Len(s) /\ (Len(s) + i) - Len(s) = i
    BY <1>3
  <2> QED
    BY <1>2, <2>1
<1> QED
  BY <1>1, <1>3, <1>4, <1>5, Zenon

(* The body of a fragment is a file with all its chunks.                    *)
LEMMA WholeBody ==
  ASSUME NEW p \in DOMAIN NameOf
  PROVE  /\ Body(p) \in Media /\ Len(Body(p)) = Chunks
         /\ \A k \in 1..Chunks : Body(p)[k] = <<p, k>>
<1> DEFINE S == (DOMAIN NameOf) \X (1..Chunks)
<1>1. Media = Seq(S) /\ Chunks \in Nat
  BY StreamHttpAssumption DEF Media, Content
<1>2. \A k \in 1..Chunks : <<p, k>> \in S
  OBVIOUS
<1> HIDE DEF S
<1> QED
  BY <1>1, <1>2 DEF Body

(* What is handed over after a successful attempt is the body, or nothing.  *)
LEMMA HandedOver ==
  ASSUME HttpControl, AttemptInv, req = "ok", Attempting
  PROVE  /\ tmp \in Media /\ pos \in DOMAIN NameOf /\ NameOf[pos] \in Names
         /\ mismatch => Len(tmp) = 0
         /\ ~mismatch => tmp = Body(pos)
<1>1. pos \in DOMAIN NameOf /\ NameOf[pos] \in Names /\ tmp \in Media
  BY FragTypes, Zenon DEF HttpControl, HttpTypeOK, Named, Attempting
<1>2. ASSUME ~mismatch PROVE tmp = Body(pos)
  <2> DEFINE S == (DOMAIN NameOf) \X (1..Chunks)
  <2>1. tmp \in Seq(S)
    BY <1>1, Zenon DEF Media, Content
  <2> HIDE DEF S
  <2>2. Len(tmp) = Chunks /\ \A k \in DOMAIN tmp : tmp[k] = <<pos, k>>
    BY <1>2 DEF AttemptInv, Beginning
  <2> QED
    BY <2>1, <2>2 DEF Body
<1> QED
  BY <1>1, <1>2 DEF AttemptInv

(* Between two attempts nothing but the files and the loop changes.         *)
LEMMA OutsideType ==
  ASSUME HttpControl, AttemptInv, [HttpNext]_httpVars, ~Inside, ~LateHttp
  PROVE  FragTypeOK(DOMAIN NameOf)' /\ AttemptInv'
<1> DEFINE Types == /\ req \in {"idle", "sent", "body", "ok", "err"}
                    /\ sends \in 0..(BackonRetries + 1)
                    /\ mismatch \in BOOLEAN /\ saving \in BOOLEAN
                    /\ tmp \in Media /\ saved \in [Names -> Copies]
                    /\ late \subseteq Writes
<1>A. Types
  BY FragTypes, Zenon DEF HttpControl, HttpTypeOK
<1>B. Types' => FragTypeOK(DOMAIN NameOf)'
  BY Zenon DEF FragTypeOK, Media, Copies, Writes
<1> SUFFICES Types' /\ AttemptInv'
  BY <1>B
<1>1. CASE Return
  <2>1. req' = "idle" /\ sends' = 0 /\ UNCHANGED <<mismatch, tmp, saving, saved, late>>
    BY <1>1 DEF Return
  <2>2. Types'
    BY <1>A, <2>1, StreamHttpAssumption DEF Media, Copies
  <2>3. AttemptInv'
    BY <2>1 DEF AttemptInv, Files
  <2> QED
    BY <2>2, <2>3
<1>2. CASE UNCHANGED fragVars
  <2>1. /\ req' = req /\ sends' = sends /\ mismatch' = mismatch
        /\ tmp' = tmp /\ saving' = saving /\ saved' = saved /\ late' = late
    BY <1>2, Zenon DEF fragVars
  <2>2. Types'
    BY <1>A, <2>1 DEF Media, Copies
  <2>3. CASE req = "idle"
    BY <2>1, <2>2, <2>3 DEF AttemptInv, Files
  <2>4. CASE HttpIoError
    <3>1. pos' = pos /\ pc' = "err"
      BY <2>4 DEF HttpIoError, IoError
    <3> QED
      BY <2>1, <2>2, <3>1 DEF AttemptInv, Beginning, Files
  <2>5. CASE UNCHANGED httpVars
    <3>1. pos' = pos /\ pc' = pc /\ plan' = plan /\ attempt' = attempt
      BY <2>5 DEF httpVars, vars, callVars
    <3> QED
      BY <2>1, <2>2, <3>1 DEF AttemptInv, Beginning, Attempting, Files
  <2>6. ASSUME CallHttp, req # "idle" PROVE FALSE
    BY <2>6 DEF CallHttp, Call, AttemptInv, Attempting, HttpControl, Control
  <2>7. CASE CallHttp
    BY <2>3, <2>6, <2>7
  <2>8. ASSUME TakeOk \/ TakeError PROVE FALSE
    BY <2>1, <2>8 DEF TakeOk, TakeError, Return
  <2>9. CASE Between
    BY <2>3, <2>9 DEF Between
  <2> QED
    BY <2>3, <2>4, <2>5, <2>7, <2>8, <2>9 DEF HttpNext, HttpStep
<1>3. Return \/ UNCHANGED fragVars
  BY DEF HttpNext, HttpStep, HttpIoError, CallHttp, TakeOk, TakeError, Between, httpVars
<1> QED
  BY <1>1, <1>2, <1>3

(* What is written to the stream's file, and what was copied.               *)
LEMMA WrittenType ==
  ASSUME HttpControl, AttemptInv, [HttpNext]_httpVars
  PROVE  media' \in Media /\ copied' \subseteq DOMAIN plan' /\ taken' \subseteq Names
<1>0. /\ media \in Media /\ copied \subseteq DOMAIN plan /\ taken \subseteq Names
      /\ pc = "try" => pos \in DOMAIN NameOf /\ pos \in DOMAIN plan
  BY DEF HttpControl, HttpTypeOK, Named, Control, Wanted, Media
<1>1. CASE Inside \/ TakeError \/ HttpIoError \/ LateHttp \/ UNCHANGED httpVars
  BY <1>0, <1>1 DEF Inside, LateHttp, TakeError, HttpIoError, httpVars, vars, callVars, FetchFails, IoError, Media
<1>2. CASE TakeOk
  <2>1. /\ req = "ok" /\ Attempting /\ plan' = plan /\ media' = media \o tmp
        /\ copied' = IF saving /\ ~mismatch THEN copied \cup {pos} ELSE copied
        /\ taken' = taken
    BY <1>2 DEF TakeOk, FetchOk, FetchRejected, Append1, callVars
  <2>2. media \o tmp \in Media
    BY <1>0, <2>1, HandedOver, Joined
  <2>3. pos \in DOMAIN plan
    BY <1>0, <2>1 DEF Attempting
  <2> QED
    BY <1>0, <2>1, <2>2, <2>3 DEF Media
<1>3. CASE Between
  <2>1. plan' = plan /\ copied' = copied /\ taken' = taken
    BY <1>3 DEF Between, Embedded, Append1, NextFragment, BadEmbedded, GiveUp, Finish, callVars
  <2>2. CASE Embedded /\ media' = media \o Body(pos)
    <3>1. Body(pos) \in Media
      BY <1>0, <2>2, WholeBody DEF Embedded
    <3> QED
      BY <1>0, <2>1, <2>2, <3>1, Joined DEF Media
  <2> QED
    BY <1>0, <1>3, <2>1, <2>2 DEF Between, Media
<1>4. CASE CallHttp
  BY <1>4, EmptyFile DEF CallHttp, Media
<1> QED
  BY <1>1, <1>2, <1>3, <1>4 DEF HttpNext, HttpStep

(* The invariant that the rest is built on.                                 *)
LEMMA HttpControlled == HttpSpec => [](HttpControl /\ AttemptInv)
<1>1. HttpControl /\ AttemptInv /\ [HttpNext]_httpVars => HttpControl' /\ AttemptInv'
  <2> SUFFICES ASSUME HttpControl, AttemptInv, [HttpNext]_httpVars
               PROVE  HttpControl' /\ AttemptInv'
    OBVIOUS
  <2>1. FragTypeOK(DOMAIN NameOf)' /\ AttemptInv'
    BY InsideType, LateType, OutsideType
  <2>2. Named' /\ TypeOK' /\ Control'
    BY NamedStep
  <2>3. HttpTypeOK'
    BY <2>1, <2>2, WrittenType DEF HttpTypeOK, Media
  <2> QED
    BY <2>1, <2>2, <2>3 DEF HttpControl
<1> QED
  BY <1>1, HttpControlInit, PTL DEF HttpSpec

(* Every variable of the loop with its requests keeps to its type: no more  *)
(* requests are sent than the backoff allows, and no chunk is written twice.*)
THEOREM HttpTypeCorrect == HttpSpec => []HttpTypeOK
<1>1. HttpControl => HttpTypeOK
  BY DEF HttpControl
<1> QED
  BY <1>1, HttpControlled, PTL

-----------------------------------------------------------------------------

(* The chunks of fragment n of a file end where those of the next begin.    *)
LEMMA Places ==
  ASSUME NEW c \in Nat \ {0}, NEW l \in Nat
  PROVE  /\ l * c \in Nat /\ (l + 1) * c = l * c + c
         /\ \A n \in 1..l, k \in 1..c : (n - 1) * c + k \in 1..(l * c)
<1>1. l * c \in Nat /\ (l + 1) * c = l * c + c
  OBVIOUS
<1>2. ASSUME NEW n \in 1..l, NEW k \in 1..c PROVE (n - 1) * c + k \in 1..(l * c)
  <2>1. (n - 1) * c \in Nat /\ (l - n) * c \in Nat
    OBVIOUS
  <2>2. l * c = (n - 1) * c + (l - n) * c + c
    OBVIOUS
  <2> QED
    BY <2>1, <2>2
<1> QED
  BY <1>1, <1>2

(* A whole fragment written behind whole fragments leaves whole fragments.  *)
LEMMA JoinWhole ==
  ASSUME HttpControl, WholeFragments, pos \in DOMAIN NameOf, pos \in 1..Len(plan),
         file' = Append(file, pos), media' = media \o Body(pos)
  PROVE  WholeFragments'
<1> DEFINE L == Len(file)
<1>1. /\ file \in Seq(1..Len(plan)) /\ L \in Nat /\ Chunks \in Nat \ {0}
      /\ media \in Media /\ Len(media) = L * Chunks
  BY StreamHttpAssumption DEF HttpControl, HttpTypeOK, TypeOK, WholeFragments, Media
<1>2. /\ DOMAIN file = 1..L /\ DOMAIN file' = 1..(L + 1) /\ Len(file') = L + 1
      /\ \A n \in 1..L : file'[n] = file[n]
      /\ file'[L + 1] = pos
  BY <1>1
<1>3. /\ L * Chunks \in Nat /\ (L + 1) * Chunks = L * Chunks + Chunks
      /\ \A n \in 1..L, k \in 1..Chunks : (n - 1) * Chunks + k \in 1..(L * Chunks)
  BY <1>1, Places
<1>4. /\ Body(pos) \in Media /\ Len(Body(pos)) = Chunks
      /\ \A k \in 1..Chunks : Body(pos)[k] = <<pos, k>>
  BY WholeBody
<1>5. /\ Len(media') = Len(media) + Chunks
      /\ \A i \in 1..Len(media) : media'[i] = media[i]
      /\ \A i \in 1..Chunks : media'[Len(media) + i] = Body(pos)[i]
  BY <1>1, <1>4, Joined
<1> HIDE DEF L
<1>6. Len(media') = Len(file') * Chunks
  BY <1>1, <1>2, <1>3, <1>5
<1>7. ASSUME NEW n \in DOMAIN file', NEW k \in 1..Chunks
      PROVE  media'[(n - 1) * Chunks + k] = <<file'[n], k>>
  <2>a. n \in 1..(L + 1)
    BY <1>2
  <2>0. n \in 1..L \/ n = L + 1
    BY <1>1, <2>a
  <2>1. CASE n \in 1..L
    <3>1. (n - 1) * Chunks + k \in 1..Len(media)
      BY <1>1, <1>3, <2>1
    <3>2. media[(n - 1) * Chunks + k] = <<file[n], k>>
      BY <1>2, <2>1 DEF WholeFragments
    <3> QED
      BY <1>2, <1>5, <2>1, <3>1, <3>2
  <2>2. CASE n = L + 1
    <3>1. (n - 1) * Chunks + k = Len(media) + k
      BY <1>1, <2>2
    <3> QED
      BY <1>2, <1>4, <1>5, <2>2, <3>1, ZenonT(60)
  <2> QED
    BY <2>0, <2>1, <2>2
<1> QED
  BY <1>6, <1>7 DEF WholeFragments

(* Nothing but whole fragments is ever written to the stream's file.        *)
LEMMA WholeStep ==
  ASSUME HttpControl, AttemptInv, WholeFragments, [HttpNext]_httpVars
  PROVE  WholeFragments'
<1>1. ASSUME file' = file, media' = media PROVE WholeFragments'
  BY <1>1 DEF WholeFragments
<1>2. CASE Inside \/ TakeError \/ HttpIoError \/ LateHttp \/ UNCHANGED httpVars
  BY <1>1, <1>2 DEF Inside, LateHttp, TakeError, HttpIoError, httpVars, vars, FetchFails, IoError
<1>3. ASSUME pc = "try" PROVE pos \in DOMAIN NameOf /\ pos \in 1..Len(plan)
  BY <1>3 DEF HttpControl, HttpTypeOK, TypeOK, Named, Control, Wanted
<1>4. CASE TakeOk
  <2>1. req = "ok" /\ Attempting /\ media' = media \o tmp
    BY <1>4 DEF TakeOk, FetchOk, FetchRejected
  <2>2. CASE ~mismatch
    <3>1. file' = Append(file, pos) /\ media' = media \o Body(pos)
      BY <1>4, <2>1, <2>2, HandedOver DEF TakeOk, FetchOk, Append1
    <3> QED
      BY <1>3, <2>1, <3>1, JoinWhole DEF Attempting
  <2>3. CASE mismatch
    <3>1. tmp \in Media /\ Len(tmp) = 0 /\ media \in Media
      BY <2>1, <2>3, HandedOver DEF HttpControl, HttpTypeOK, Media
    <3>2. media \o tmp = media
      BY <3>1 DEF Media, Content
    <3> QED
      BY <1>1, <1>4, <2>1, <2>3, <3>2 DEF TakeOk, FetchRejected
  <2> QED
    BY <2>2, <2>3
<1>5. CASE Between
  <2>1. CASE Embedded /\ media' = media \o Body(pos)
    BY <1>3, <2>1, JoinWhole DEF Embedded, Append1
  <2> QED
    BY <1>1, <1>5, <2>1 DEF Between, NextFragment, BadEmbedded, GiveUp, Finish
<1>6. CASE CallHttp
  BY <1>6, StreamHttpAssumption DEF CallHttp, Call, WholeFragments
<1> QED
  BY <1>2, <1>4, <1>5, <1>6 DEF HttpNext, HttpStep

(* Whatever breaks off, the stream's file is made of whole fragments, for   *)
(* every number of chunks and retries.                                      *)
THEOREM OnlyWholeFragments == HttpSpec => []WholeFragments
<1>1. HttpInit => WholeFragments
  BY StreamHttpAssumption DEF HttpInit, Init, WholeFragments
<1>2. HttpControl /\ AttemptInv /\ WholeFragments /\ [HttpNext]_httpVars => WholeFragments'
  BY WholeStep
<1> QED
  BY <1>1, <1>2, HttpControlled, PTL DEF HttpSpec

-----------------------------------------------------------------------------

(* Under a name that no earlier stream has used there are chunks of this    *)
(* stream's fragments of that name only, written or on their way.           *)
FromPlan(n, q) == q \in DOMAIN plan /\ NameOf[q] = n
OwnInv ==
  /\ \A w \in late : w[1] \notin taken => FromPlan(w[1], w[2])
  /\ \A n \in Names : n \notin taken /\ saved[n] \in Files =>
       \A k \in 1..Chunks : saved[n][k] = Hole \/ FromPlan(n, saved[n][k])

(* The copy in hand, and those that were accepted, have every chunk but     *)
(* perhaps the last if no other fragment has their name.                    *)
AllButLast(p, l) == \A k \in 1..(l - 1) : saved[NameOf[p]][k] = p
CopiedInv ==
  /\ OwnInv
  /\ \A p \in copied : p < pos /\ (Unshared(p) => saved[NameOf[p]] \in Files /\ AllButLast(p, Chunks))
  /\ saving /\ ~mismatch /\ req \in {"body", "ok"} /\ pc = "try" /\ Unshared(pos) =>
       AllButLast(pos, Len(tmp))

(* What the steps below use of the types.                                   *)
LEMMA CopyTypes ==
  ASSUME HttpControl
  PROVE  /\ saved \in [Names -> Copies] /\ tmp \in Media /\ Chunks \in Nat \ {0}
         /\ late \subseteq Writes
         /\ pos \in Nat /\ copied \subseteq DOMAIN plan /\ DOMAIN plan \subseteq Nat
         /\ \A p \in DOMAIN plan : p \in DOMAIN NameOf /\ NameOf[p] \in Names
         /\ pc = "try" => pos \in DOMAIN plan
         /\ Len(tmp) \in Nat /\ (tmp # << >> => Len(tmp) > 0)
<1>1. saved \in [Names -> Copies] /\ tmp \in Media
      /\ late \subseteq Writes
  BY FragTypes, Zenon DEF HttpControl, HttpTypeOK
<1>2. /\ pos \in Nat /\ copied \subseteq DOMAIN plan /\ DOMAIN plan \subseteq Nat
      /\ \A p \in DOMAIN plan : p \in DOMAIN NameOf /\ NameOf[p] \in Names
      /\ pc = "try" => pos \in DOMAIN plan
  BY StreamHttpAssumption DEF HttpControl, HttpTypeOK, TypeOK, Named, Control, Wanted
<1>3. Len(tmp) \in Nat /\ (tmp # << >> => Len(tmp) > 0)
  BY <1>1 DEF Media, Content
<1> QED
  BY <1>1, <1>2, <1>3, StreamHttpAssumption

(* A chunk of fragment q that lands under its name, now or late, harms no   *)
(* copy, as it goes where it belongs.                                       *)
LEMMA LandsOwn ==
  ASSUME HttpControl, CopiedInv, NEW n \in Names, NEW q \in DOMAIN NameOf, NEW k \in 1..Chunks,
         saved[n] \in Files, n \notin taken => FromPlan(n, q),
         saved' = Written(n, q, k), plan' = plan, taken' = taken
  PROVE  /\ \A m \in Names : m \notin taken /\ saved'[m] \in Files =>
              \A j \in 1..Chunks : saved'[m][j] = Hole \/ FromPlan(m, saved'[m][j])
         /\ \A p \in DOMAIN plan, j \in 1..Chunks :
              Unshared(p) /\ saved[NameOf[p]] \in Files /\ saved[NameOf[p]][j] = p
                => saved'[NameOf[p]] \in Files /\ saved'[NameOf[p]][j] = p
<1>1. /\ saved' \in [Names -> Copies]
      /\ saved'[n] \in Files /\ saved'[n][k] = q
      /\ \A j \in 1..Chunks : j # k => saved'[n][j] = saved[n][j]
      /\ \A m \in Names : m # n => saved'[m] = saved[m]
  BY CopyTypes, WriteCopy
<1>2. ASSUME NEW m \in Names, m \notin taken, saved'[m] \in Files, NEW j \in 1..Chunks
      PROVE  saved'[m][j] = Hole \/ FromPlan(m, saved'[m][j])
  <2>1. CASE m # n
    BY <1>1, <1>2, <2>1 DEF CopiedInv, OwnInv
  <2>2. CASE m = n /\ j = k
    BY <1>1, <1>2, <2>2
  <2>3. CASE m = n /\ j # k
    BY <1>1, <1>2, <2>3 DEF CopiedInv, OwnInv
  <2> QED
    BY <2>1, <2>2, <2>3
<1>3. ASSUME NEW p \in DOMAIN plan, NEW j \in 1..Chunks, Unshared(p),
             saved[NameOf[p]] \in Files, saved[NameOf[p]][j] = p
      PROVE  saved'[NameOf[p]] \in Files /\ saved'[NameOf[p]][j] = p
  <2>0. NameOf[p] \in Names
    BY CopyTypes
  <2>1. CASE NameOf[p] # n
    BY <1>1, <1>3, <2>0, <2>1
  <2>2. CASE NameOf[p] = n
    <3>1. q = p
      BY <1>3, <2>2 DEF Unshared, FromPlan
    <3> QED
      BY <1>1, <1>3, <2>2, <3>1
  <2> QED
    BY <2>1, <2>2
<1> QED
  BY <1>2, <1>3

(* What does not touch the files keeps the copies, if it does not take      *)
(* another copy in hand.                                                    *)
LEMMA CopiesStay ==
  ASSUME HttpControl, CopiedInv, plan' = plan, taken' = taken, copied' = copied, saved' = saved,
         late' = late, pos' \in Nat, pos' >= pos,
         req' \notin {"body", "ok"} \/ pc' # "try" \/ mismatch'
           \/ UNCHANGED <<saving, mismatch, req, pc, pos, tmp>>
  PROVE  CopiedInv'
<1>1. OwnInv'
  BY DEF CopiedInv, OwnInv, FromPlan, Files
<1>2. ASSUME NEW p \in copied'
      PROVE  p < pos' /\ (Unshared(p)' => saved'[NameOf[p]] \in Files /\ AllButLast(p, Chunks)')
  <2>1. p \in copied /\ p \in Nat /\ pos \in Nat /\ (Unshared(p)' <=> Unshared(p))
    BY CopyTypes DEF Unshared
  <2> QED
    BY <2>1 DEF CopiedInv, AllButLast
<1>3. ASSUME saving', ~mismatch', req' \in {"body", "ok"}, pc' = "try", Unshared(pos)'
      PROVE  AllButLast(pos, Len(tmp))'
  BY <1>3 DEF CopiedInv, AllButLast, Unshared
<1> QED
  BY <1>1, <1>2, <1>3 DEF CopiedInv, Files

(* A chunk lands in the copy in hand, or later in one that was dropped.     *)
LEMMA CopiesLand ==
  ASSUME HttpControl, CopiedInv, NEW n \in Names, NEW q \in DOMAIN NameOf, NEW k \in 1..Chunks,
         saved[n] \in Files, n \notin taken => FromPlan(n, q), saved' = Written(n, q, k),
         plan' = plan, taken' = taken, copied' = copied, pos' = pos, pc' = pc, late' \subseteq late,
         mismatch' = mismatch, saving' = saving,
         req' \in {"body", "ok"} /\ saving /\ ~mismatch /\ pc = "try" =>
           req \in {"body", "ok"} /\ saved[NameOf[pos]] \in Files /\ Len(tmp') <= Chunks,
         \/ Len(tmp') = Len(tmp)
         \/ Len(tmp') = Len(tmp) + 1 /\ n = NameOf[pos] /\ q = pos /\ k = Len(tmp)
  PROVE  CopiedInv'
<1>1. OwnInv'
  BY LandsOwn DEF CopiedInv, OwnInv, FromPlan, Files
<1>2. ASSUME NEW p \in copied'
      PROVE  p < pos' /\ (Unshared(p)' => saved'[NameOf[p]] \in Files /\ AllButLast(p, Chunks)')
  <2>1. p \in copied /\ p \in DOMAIN plan /\ Chunks \in Nat \ {0} /\ (Unshared(p)' <=> Unshared(p))
    BY CopyTypes DEF Unshared
  <2>2. p < pos' /\ (Unshared(p) => saved[NameOf[p]] \in Files /\ AllButLast(p, Chunks))
    BY <2>1 DEF CopiedInv
  <2>3. ASSUME Unshared(p) PROVE saved'[NameOf[p]] \in Files /\ AllButLast(p, Chunks)'
    <3>1. saved'[NameOf[p]] \in Files
      <4>0. NameOf[p] \in Names
        BY <2>1, CopyTypes
      <4> QED
        BY <4>0, <2>2, <2>3, CopyTypes, WriteCopy
    <3>2. \A j \in 1..(Chunks - 1) : saved'[NameOf[p]][j] = p
      BY <2>1, <2>2, <2>3, LandsOwn DEF AllButLast
    <3> QED
      BY <3>1, <3>2 DEF AllButLast
  <2> QED
    BY <2>1, <2>2, <2>3
<1>3. ASSUME saving', ~mismatch', req' \in {"body", "ok"}, pc' = "try", Unshared(pos)'
      PROVE  AllButLast(pos, Len(tmp))'
  <2>1. /\ Unshared(pos) /\ AllButLast(pos, Len(tmp)) /\ saved[NameOf[pos]] \in Files
        /\ pos \in DOMAIN plan /\ NameOf[pos] \in Names /\ Len(tmp) \in Nat
        /\ Len(tmp') <= Chunks /\ Chunks \in Nat
    BY <1>3, CopyTypes DEF CopiedInv, Unshared
  <2>2. ASSUME NEW j \in 1..(Len(tmp') - 1) PROVE saved'[NameOf[pos]][j] = pos
    <3>1. CASE j \in 1..(Len(tmp) - 1) /\ j \in 1..Chunks
      BY <2>1, <3>1, LandsOwn DEF AllButLast
    <3>2. CASE j = Len(tmp) /\ n = NameOf[pos] /\ q = pos /\ k = Len(tmp)
      BY <3>2, CopyTypes, WriteCopy
    <3>3. j \in 1..Chunks
      BY <2>1
    <3> QED
      BY <2>1, <3>1, <3>2, <3>3
  <2> QED
    BY <2>2 DEF AllButLast
<1> QED
  BY <1>1, <1>2, <1>3 DEF CopiedInv, Files
(* What an attempt does to the copies.                                      *)
LEMMA CopiedInside ==
  ASSUME HttpControl, AttemptInv, CopiedInv, Inside
  PROVE  CopiedInv'
<1>0. /\ plan' = plan /\ pos' = pos /\ pc' = pc /\ copied' = copied /\ taken' = taken
      /\ pc = "try" /\ pos \in DOMAIN plan /\ pos \in Nat
      /\ pos \in DOMAIN NameOf /\ NameOf[pos] \in Names
      /\ FromPlan(NameOf[pos], pos)
  BY CopyTypes DEF Inside, Attempting, vars, callVars, FromPlan
<1>1. CASE Send \/ Transient \/ Fatal \/ WrongType(ContentTypeChecks) \/ CopyError
  <2>1. saved' = saved /\ late' = late /\ (req' \notin {"body", "ok"} \/ mismatch')
    BY <1>1 DEF Send, Transient, Fatal, WrongType, CopyError
  <2> QED
    BY <1>0, <2>1, CopiesStay
<1>2. CASE Answer(NameOf[pos])
  <2> DEFINE opened == [saved EXCEPT ![NameOf[pos]] = Empty]
  <2>1. /\ saved' = saved \/ saved' = opened
        /\ late' = late /\ Len(tmp') = 0
    BY <1>2 DEF Answer
  <2>2. /\ opened \in [Names -> Copies] /\ opened[NameOf[pos]] = Empty
        /\ \A m \in Names : m # NameOf[pos] => opened[m] = saved[m]
        /\ \A m \in Names : saved[m] \in Files => opened[m] \in Files
    BY <1>0, OpenCopy, CopyTypes
  <2> HIDE DEF opened
  <2>3. OwnInv'
    <3>1. ASSUME NEW n \in Names, n \notin taken, saved'[n] \in Files, NEW k \in 1..Chunks
          PROVE  saved'[n][k] = Hole \/ FromPlan(n, saved'[n][k])
      <4>1. CASE saved'[n] = saved[n]
        BY <3>1, <4>1 DEF CopiedInv, OwnInv
      <4>2. CASE saved'[n] = Empty
        BY <3>1, <4>2 DEF Empty
      <4> QED
        BY <2>1, <2>2, <4>1, <4>2
    <3> QED
      BY <1>0, <2>1, <3>1 DEF CopiedInv, OwnInv, FromPlan, Files
  <2>4. ASSUME NEW p \in copied'
        PROVE  p < pos' /\ (Unshared(p)' => saved'[NameOf[p]] \in Files /\ AllButLast(p, Chunks)')
    <3>1. /\ p \in copied /\ p \in DOMAIN plan /\ NameOf[p] \in Names /\ p \in Nat
          /\ p < pos /\ (Unshared(p)' <=> Unshared(p))
      BY <1>0, CopyTypes DEF Unshared, CopiedInv
    <3>2. Unshared(p) => saved'[NameOf[p]] = saved[NameOf[p]]
      BY <1>0, <2>1, <2>2, <3>1 DEF Unshared
    <3> QED
      BY <1>0, <3>1, <3>2 DEF CopiedInv, AllButLast
  <2>5. AllButLast(pos, Len(tmp))'
    BY <2>1 DEF AllButLast
  <2> QED
    BY <2>3, <2>4, <2>5 DEF CopiedInv, Files
<1>3. ASSUME req = "body", Writing PROVE saved[NameOf[pos]] \in Files /\ Len(tmp) \in 1..Chunks
  BY <1>0, <1>3, CopyTypes DEF Writing, AttemptInv, Beginning
<1>4. CASE Chunk(pos, NameOf[pos])
  <2>1. /\ req = "body" /\ req' = "body" /\ UNCHANGED <<mismatch, saving, late>>
        /\ Len(tmp') = Len(tmp) + 1 /\ Len(tmp') <= Chunks /\ Len(tmp) \in Nat
        /\ saved' = IF Writing THEN Written(NameOf[pos], pos, Len(tmp)) ELSE saved
    <3>1. Len(tmp) + 1 \in 1..Chunks /\ Len(tmp) < Chunks
      BY <1>4, CopyTypes DEF Chunk
    <3> QED
      BY <1>0, <1>4, <3>1, OneMore, CopyTypes DEF Chunk
  <2>2. CASE Writing
    <3>1. saved[NameOf[pos]] \in Files /\ Len(tmp) \in 1..Chunks
      BY <1>3, <2>1, <2>2
    <3> QED
      BY <1>0, <2>1, <2>2, <3>1, CopiesLand
  <2>3. CASE ~Writing
    <3>1. ~saving \/ Len(tmp') = 1
      BY <2>1, <2>3 DEF Writing
    <3>2. saved' = saved /\ late' = late
      BY <2>1, <2>3
    <3>3. OwnInv'
      BY <1>0, <3>2 DEF CopiedInv, OwnInv, FromPlan, Files
    <3>4. ASSUME NEW p \in copied'
          PROVE  p < pos' /\ (Unshared(p)' => saved'[NameOf[p]] \in Files /\ AllButLast(p, Chunks)')
      BY <1>0, <3>2 DEF CopiedInv, AllButLast, Unshared
    <3>5. saving' => AllButLast(pos, Len(tmp))'
      BY <2>1, <3>1 DEF AllButLast
    <3> QED
      BY <3>3, <3>4, <3>5 DEF CopiedInv, Files
  <2> QED
    BY <2>2, <2>3
<1>5. CASE BodyError(pos, NameOf[pos]) \/ EndOfBody(pos, NameOf[pos])
  <2>1. /\ req = "body" /\ UNCHANGED <<mismatch, tmp, saving>>
        /\ Dropped(pos, NameOf[pos])
        /\ req' \in {"err", "ok"}
        /\ Len(tmp) <= Chunks
    BY <1>5 DEF BodyError, EndOfBody, AttemptInv, Beginning
  <2>2. saving /\ ~mismatch => saved[NameOf[pos]] \in Files
    BY <1>0, <2>1 DEF AttemptInv
  <2>3. CASE Writing /\ saved' = Written(NameOf[pos], pos, Len(tmp)) /\ UNCHANGED late
    <3>1. saved[NameOf[pos]] \in Files /\ Len(tmp) \in 1..Chunks
      BY <1>3, <2>1, <2>3
    <3> QED
      BY <1>0, <2>1, <2>2, <2>3, <3>1, CopiesLand
  <2>4. ASSUME saved' = saved, late' = late \/ late' = late \cup {<<NameOf[pos], pos, Len(tmp)>>}
        PROVE  CopiedInv'
    <3>1. OwnInv'
      BY <1>0, <2>4 DEF CopiedInv, OwnInv, FromPlan, Files
    <3>2. ASSUME NEW p \in copied'
          PROVE  p < pos' /\ (Unshared(p)' => saved'[NameOf[p]] \in Files /\ AllButLast(p, Chunks)')
      BY <1>0, <2>4 DEF CopiedInv, AllButLast, Unshared
    <3>3. saving' /\ ~mismatch' /\ Unshared(pos)' => AllButLast(pos, Len(tmp))'
      BY <1>0, <2>1, <2>4 DEF CopiedInv, AllButLast, Unshared
    <3> QED
      BY <3>1, <3>2, <3>3 DEF CopiedInv, Files
  <2> QED
    BY <2>1, <2>3, <2>4 DEF Dropped
<1> QED
  BY <1>1, <1>2, <1>4, <1>5 DEF Inside

(* A copy is accepted with all its chunks written but the last, and is not  *)
(* written to later but by the writes of its own fragment.                  *)
LEMMA CopiedStep ==
  ASSUME HttpControl, AttemptInv, CopiedInv, [HttpNext]_httpVars
  PROVE  CopiedInv'
<1>1. CASE Inside
  BY <1>1, CopiedInside
<1>2. CASE LateHttp
  <2>1. PICK w \in late : /\ late' = late \ {w}
                          /\ saved' \in {saved, Written(w[1], w[2], w[3])}
                          /\ UNCHANGED <<req, sends, mismatch, tmp, saving>>
    BY <1>2 DEF LateHttp, LateWrite
  <2>2. /\ plan' = plan /\ pos' = pos /\ pc' = pc /\ copied' = copied /\ taken' = taken
    BY <1>2 DEF LateHttp, vars, callVars
  <2>3. /\ w[1] \in Names /\ w[2] \in DOMAIN NameOf /\ w[3] \in 1..Chunks
        /\ saved[w[1]] \in Files /\ (w[1] \notin taken => FromPlan(w[1], w[2]))
    BY CopyTypes, WriteParts DEF AttemptInv, CopiedInv, OwnInv
  <2>4. CASE saved' = Written(w[1], w[2], w[3])
    <3>1. req \in {"body", "ok"} /\ saving /\ ~mismatch /\ pc = "try" =>
            saved[NameOf[pos]] \in Files /\ Len(tmp) <= Chunks
      BY DEF AttemptInv, Beginning
    <3> QED
      BY <2>1, <2>2, <2>3, <2>4, <3>1, CopiesLand
  <2>5. CASE saved' = saved
    <3>1. OwnInv'
      BY <2>1, <2>2, <2>5 DEF CopiedInv, OwnInv, FromPlan, Files
    <3> QED
      BY <2>1, <2>2, <2>5, <3>1 DEF CopiedInv, AllButLast, Unshared, Files
  <2> QED
    BY <2>1, <2>4, <2>5
<1>3. CASE TakeError \/ HttpIoError \/ UNCHANGED httpVars
  <2>1. /\ plan' = plan /\ taken' = taken /\ copied' = copied /\ saved' = saved /\ late' = late
        /\ pos' \in Nat /\ pos' >= pos
        /\ req' \notin {"body", "ok"} \/ pc' # "try"
             \/ UNCHANGED <<saving, mismatch, req, pc, pos, tmp>>
    BY <1>3, CopyTypes
       DEF TakeError, HttpIoError, httpVars, vars, callVars, fragVars, FetchFails, IoError, Return
  <2> QED
    BY <2>1, CopiesStay
<1>4. CASE TakeOk
  <2>1. /\ plan' = plan /\ pos' = pos + 1 /\ saved' = saved /\ late' = late /\ taken' = taken
        /\ req = "ok" /\ req' = "idle" /\ Attempting
        /\ copied' = IF saving /\ ~mismatch THEN copied \cup {pos} ELSE copied
    BY <1>4 DEF TakeOk, FetchOk, FetchRejected, Append1, callVars, Return
  <2>2. ASSUME saving, ~mismatch, Unshared(pos)
        PROVE  saved[NameOf[pos]] \in Files /\ AllButLast(pos, Chunks)
    BY <2>1, <2>2 DEF AttemptInv, CopiedInv, Attempting
  <2>3. OwnInv'
    BY <2>1 DEF CopiedInv, OwnInv, FromPlan, Files
  <2>4. ASSUME NEW p \in copied'
        PROVE  p < pos' /\ (Unshared(p)' => saved'[NameOf[p]] \in Files /\ AllButLast(p, Chunks)')
    <3>1. p \in copied \/ (p = pos /\ saving /\ ~mismatch)
      BY <2>1, <2>4
    <3>2. pos \in Nat /\ (p \in copied => p \in Nat) /\ (Unshared(p)' <=> Unshared(p))
      BY <2>1, CopyTypes DEF Unshared
    <3>3. CASE p \in copied
      BY <2>1, <3>2, <3>3 DEF CopiedInv, AllButLast
    <3>4. CASE p = pos /\ saving /\ ~mismatch
      BY <2>1, <2>2, <3>2, <3>4 DEF AllButLast
    <3> QED
      BY <3>1, <3>3, <3>4
  <2> QED
    BY <2>1, <2>3, <2>4 DEF CopiedInv, Files
<1>5. CASE Between
  <2>1. /\ plan' = plan /\ copied' = copied /\ taken' = taken
        /\ saved' = saved /\ late' = late /\ req' = "idle"
    BY <1>5 DEF Between, Embedded, Append1, NextFragment, BadEmbedded, GiveUp, Finish, callVars, fragVars
  <2>2. pos' \in Nat /\ pos' >= pos
    BY <1>5, CopyTypes DEF Between, Embedded, Append1, NextFragment, BadEmbedded, GiveUp, Finish, Wanted
  <2> QED
    BY <2>1, <2>2, CopiesStay
<1>6. CASE CallHttp
  <2>1. /\ copied' = {} /\ taken' = {n \in Names : saved[n] # NoFile} /\ saved' = saved /\ late' = late
        /\ pc' # "try"
    BY <1>6 DEF CallHttp, Call, fragVars
  <2>2. \A n \in Names : saved[n] \in Files => n \in taken'
    BY <2>1, CopyOrNone
  <2>3. \A w \in late : w[1] \in Names /\ saved[w[1]] \in Files
    BY CopyTypes, WriteParts DEF AttemptInv
  <2>4. OwnInv'
    BY <2>1, <2>2, <2>3 DEF OwnInv, Files
  <2> QED
    BY <2>1, <2>4 DEF CopiedInv
<1> QED
  BY <1>1, <1>2, <1>3, <1>4, <1>5, <1>6 DEF HttpNext, HttpStep

(* What the directory of saved fragments holds of a delivered fragment is   *)
(* the fragment but perhaps for its last chunk, unless another fragment has *)
(* its name; nothing else is in the place of that chunk.                    *)
THEOREM CopiesLackTheLast == HttpSpec => []SavedButLast
<1>1. HttpInit => CopiedInv
  BY CopyOrNone DEF HttpInit, FragInit, CopiedInv, OwnInv
<1>2. HttpControl /\ AttemptInv /\ CopiedInv /\ [HttpNext]_httpVars => CopiedInv'
  BY CopiedStep
<1>3. HttpControl /\ CopiedInv => SavedButLast
  <2> SUFFICES ASSUME HttpControl, CopiedInv, NEW p \in copied, Unshared(p)
               PROVE  /\ \A k \in 1..(Chunks - 1) : saved[NameOf[p]][k] = p
                      /\ saved[NameOf[p]][Chunks] \in {p, Hole}
    BY DEF SavedButLast
  <2>1. /\ NameOf[p] \in Names /\ NameOf[p] \notin taken /\ Chunks \in 1..Chunks
        /\ saved[NameOf[p]] \in Files /\ AllButLast(p, Chunks)
    BY CopyTypes DEF CopiedInv, Unshared
  <2>2. saved[NameOf[p]][Chunks] = Hole \/ FromPlan(NameOf[p], saved[NameOf[p]][Chunks])
    BY <2>1 DEF CopiedInv, OwnInv
  <2> QED
    BY <2>1, <2>2 DEF AllButLast, Unshared, FromPlan
<1> QED
  BY <1>1, <1>2, <1>3, HttpControlled, PTL DEF HttpSpec
=============================================================================
