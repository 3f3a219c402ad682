---------------------------- MODULE HelpersProofs -----------------------------
(***************************************************************************)
(* Proofs about the procedures of Helpers: decryption and muxing, whatever *)
(* programs and files there are, and subtitles, for every manifest, limit  *)
(* on errors and files of earlier downloads.                               *)
(***************************************************************************)
EXTENDS Helpers, SequenceTheorems, RecursionLemmas

(* The helpers whose output is found to be empty.                          *)
Careful == decryptor \notin {"shaka", "shaka-container"}

(* The stream's file is as it was until the decrypted copy, which has      *)
(* media in it, is about to take its place.                                *)
DecryptInv ==
  /\ decrypted \in {"absent", "empty", "partial", "clear"}
  /\ pc = "err" <=> fault # "none"
  /\ pc \notin {"rename", "ok"} /\ fault # "Io" => tmppath = input
  /\ Careful /\ pc \in {"check", "remove", "rename"} => decrypted \in Decrypt!Media
  /\ Careful /\ input = "cipher" => tmppath \in Decrypt!Media \/ decrypted \in Decrypt!Media

(* Nothing is decrypted yet.                                                *)
LEMMA DecryptInit == Decrypt!Init => DecryptInv
  BY DEF Decrypt!Init, DecryptInv, Decrypt!Media

(* No step of a decryption loses the stream.                                *)
LEMMA DecryptStep ==
  ASSUME DecryptInv, Decrypt!Next
  PROVE  DecryptInv'
<1> USE DEF DecryptInv, Careful, Decrypt!Media, Decrypt!Goto, Decrypt!Stop, Decrypt!Args, Decrypt!files
<1>1. CASE Decrypt!Prepare
  BY <1>1 DEF Decrypt!Prepare
<1>2. CASE Decrypt!NoTempFile \/ Decrypt!WriteKeys \/ Decrypt!Pull \/ Decrypt!SpawnFails
  BY <1>2 DEF Decrypt!NoTempFile, Decrypt!WriteKeys, Decrypt!Pull, Decrypt!SpawnFails
<1>3. CASE Decrypt!Run
  BY <1>3 DEF Decrypt!Run
<1>4. CASE Decrypt!Judge
  BY <1>4 DEF Decrypt!Judge, Decrypt!NoOutput
<1>5. CASE Decrypt!Check
  BY <1>5 DEF Decrypt!Check
<1>6. CASE Decrypt!Remove
  BY <1>6 DEF Decrypt!Remove
<1>7. CASE Decrypt!Rename
  BY <1>7 DEF Decrypt!Rename
<1> QED
  BY <1>1, <1>2, <1>3, <1>4, <1>5, <1>6, <1>7 DEF Decrypt!Next

(* A decryption that fails in whatever way leaves the stream in one of its *)
(* two files, and one that is reported as a failed decryption leaves it    *)
(* encrypted in its own (decryption.rs:71, fetch.rs:4273-4284).            *)
THEOREM StreamIsSafe == Spec => []StreamSurvives
<1> DEFINE Inv == procedure = "decrypt" => DecryptInv
<1>1. Init => Inv
  BY DecryptInit DEF Init
<1>2. Inv /\ [Next]_vars => Inv'
  <2> SUFFICES ASSUME Inv, [Next]_vars, procedure' = "decrypt" PROVE DecryptInv'
    OBVIOUS
  <2>1. procedure = "decrypt" /\ DecryptInv
    BY DEF Next, vars
  <2>2. CASE UNCHANGED vars
    BY <2>1, <2>2 DEF vars, decryptVars, DecryptInv, Careful
  <2>3. CASE Next
    BY <2>1, <2>3, DecryptStep DEF Next
  <2> QED
    BY <2>2, <2>3
<1>3. Inv => StreamSurvives
  BY DEF StreamSurvives, Decrypt!StreamSurvives, DecryptInv, Careful
<1> QED
  BY <1>1, <1>2, <1>3, PTL DEF Spec

-----------------------------------------------------------------------------

(* Where the fragments of a period are: each that was taken was delivered  *)
(* or has cost an error.                                                   *)
Paid == pc = "fragment" => f - 1 <= Len(delivered) + download_errors
Placed ==
  pc = "fragment" => p \in DOMAIN manifest /\ f \in 1..(Len(manifest[p].contents) + 1)

SubtitleInv ==
  /\ manifest \in Manifests
  /\ p \in Nat \ {0} /\ f \in Nat
  /\ delivered \in Seq(Nat) /\ download_errors \in Nat
  /\ Placed /\ Paid
  /\ Subtitle!MissingBounded

(* Nothing is missing before anything was fetched.                          *)
LEMMA SubtitleInit ==
  ASSUME Subtitle!SubtitlesAssumption, Subtitle!Init
  PROVE  SubtitleInv
  BY DEF Subtitle!SubtitlesAssumption, Subtitle!Init, SubtitleInv, Placed, Paid,
         Subtitle!MissingBounded

(* The steps before and after the fragments of a period are fetched.        *)
LEMMA SubtitleAround ==
  ASSUME Subtitle!SubtitlesAssumption, SubtitleInv,
         \/ Subtitle!PlanPeriod \/ Subtitle!SidecarFails \/ Subtitle!SidecarArrives
         \/ Subtitle!ConvertSidecar \/ Subtitle!Planned \/ Subtitle!Save \/ Subtitle!Merge
         \/ Subtitle!Done
  PROVE  SubtitleInv'
<1> USE DEF SubtitleInv, Placed, Paid, Subtitle!MissingBounded, Subtitle!Goto, Subtitle!Return,
            Subtitle!document, Subtitle!results, Subtitle!PlanNext, Subtitle!period
<1>1. CASE Subtitle!PlanPeriod
  BY <1>1 DEF Subtitle!PlanPeriod
<1>2. CASE Subtitle!SidecarFails
  BY <1>2 DEF Subtitle!SidecarFails
<1>3. CASE Subtitle!SidecarArrives
  BY <1>3 DEF Subtitle!SidecarArrives
<1>4. CASE Subtitle!ConvertSidecar \/ Subtitle!Planned \/ Subtitle!Done
  BY <1>4 DEF Subtitle!ConvertSidecar, Subtitle!Planned, Subtitle!Done
<1>5. CASE Subtitle!Save
  BY <1>5 DEF Subtitle!Save
<1>6. CASE Subtitle!Merge
  BY <1>6 DEF Subtitle!Merge
<1> QED
  BY <1>1, <1>2, <1>3, <1>4, <1>5, <1>6

(* A fragment that is taken is delivered, or costs an error, or is the     *)
(* last.                                                                   *)
LEMMA SubtitleFragment ==
  ASSUME Subtitle!SubtitlesAssumption, SubtitleInv,
         \/ Subtitle!StartPeriod \/ Subtitle!DataFragment \/ Subtitle!FragmentArrives
         \/ Subtitle!FragmentRefused \/ Subtitle!BodyFails \/ Subtitle!Close
  PROVE  SubtitleInv'
<1>0. /\ manifest \in Seq(Subtitle!Period) /\ MaxErrorCount \in Nat
      /\ \A k \in DOMAIN manifest : Len(manifest[k].contents) \in Nat
  <2>1. manifest \in Seq(Subtitle!Period) /\ MaxErrorCount \in Nat
    BY DEF Subtitle!SubtitlesAssumption, SubtitleInv
  <2>2. ASSUME NEW k \in DOMAIN manifest PROVE manifest[k].contents \in Seq(Subtitle!Content)
    <3>1. manifest[k] \in Subtitle!Period
      BY <2>1
    <3> QED
      BY <3>1 DEF Subtitle!Period
  <2> QED
    BY <2>1, <2>2
<1> USE DEF SubtitleInv, Placed, Paid, Subtitle!MissingBounded, Subtitle!Goto, Subtitle!Return,
            Subtitle!document, Subtitle!results, Subtitle!period, Subtitle!Fetching
<1>1. CASE Subtitle!StartPeriod
  BY <1>0, <1>1 DEF Subtitle!StartPeriod
<1>2. ASSUME Subtitle!Settle, Subtitle!Fetching, UNCHANGED <<manifest, p, download_errors>>
      PROVE  SubtitleInv'
  <2>1. delivered' \in Seq(Nat) /\ Len(delivered') = Len(delivered) + 1
    BY <1>2 DEF Subtitle!Settle
  <2> QED
    BY <1>0, <1>2, <2>1 DEF Subtitle!Settle
<1>3. CASE Subtitle!DataFragment
  BY <1>2, <1>3 DEF Subtitle!DataFragment
<1>4. CASE Subtitle!FragmentArrives
  BY <1>2, <1>4 DEF Subtitle!FragmentArrives
<1>5. CASE Subtitle!FragmentRefused
  BY <1>0, <1>5 DEF Subtitle!FragmentRefused
<1>6. CASE Subtitle!BodyFails
  BY <1>6 DEF Subtitle!BodyFails
<1>7. CASE Subtitle!Close
  BY <1>0, <1>7 DEF Subtitle!Close
<1> QED
  BY <1>1, <1>3, <1>4, <1>5, <1>6, <1>7

(* No period is saved that misses more subtitle fragments than there are   *)
(* errors, nor more than max_error_count (fetch.rs:4418-4427).             *)
THEOREM SubtitlesMissBounded ==
  ASSUME Subtitle!SubtitlesAssumption
  PROVE  Spec => []MissingBounded
<1> DEFINE Inv == procedure = "subtitles" => SubtitleInv
<1>1. Init => Inv
  BY SubtitleInit DEF Init
<1>2. Inv /\ [Next]_vars => Inv'
  <2> SUFFICES ASSUME Inv, [Next]_vars, procedure' = "subtitles" PROVE SubtitleInv'
    OBVIOUS
  <2>1. procedure = "subtitles" /\ SubtitleInv
    BY DEF Next, vars
  <2>2. CASE UNCHANGED vars
    BY <2>1, <2>2 DEF vars, subtitleVars, SubtitleInv, Placed, Paid, Subtitle!MissingBounded,
                      Subtitle!period
  <2>3. CASE Next
    BY <2>1, <2>3, SubtitleAround, SubtitleFragment DEF Next, Subtitle!Next
  <2> QED
    BY <2>2, <2>3
<1>3. Inv => MissingBounded
  BY DEF MissingBounded, SubtitleInv
<1> QED
  BY <1>1, <1>2, <1>3, PTL DEF Spec

-----------------------------------------------------------------------------

(* What waits to be copied is what the muxer in hand has made, only VLC's  *)
(* may lack something; nothing is at the output but by copying; and of the *)
(* muxers that failed mkvmerge alone leaves its file behind.               *)
MuxInv ==
  /\ pc = "copy" => tmpout = "whole" \/ (muxer = "vlc" /\ tmpout \in {"empty", "partial"})
  /\ Mux!OkIsWhole
  /\ ~persist => leaked \subseteq ({"mkvmerge"} \cup IF pc = "ok" THEN {muxer} ELSE {})

(* At first nothing is copied and nothing left behind.                      *)
LEMMA MuxInit == Mux!Init => MuxInv
  BY DEF Mux!Init, MuxInv, Mux!OkIsWhole

(* A muxer that fails leaves the output alone, and its file goes.           *)
LEMMA MuxStep ==
  ASSUME MuxInv, Mux!Next
  PROVE  MuxInv'
<1> USE DEF MuxInv, Mux!OkIsWhole, Mux!argVars
<1>1. CASE Mux!SameContainer \/ Mux!OtherContainer
  BY <1>1 DEF Mux!SameContainer, Mux!OtherContainer
<1>2. CASE Mux!IgnoreUnknown \/ Mux!AllFailed
  BY <1>2 DEF Mux!IgnoreUnknown, Mux!AllFailed
<1>3. CASE Mux!Stage
  BY <1>3 DEF Mux!Stage
<1>4. CASE Mux!RunOk
  BY <1>4 DEF Mux!RunOk
<1>5. CASE Mux!RunFails \/ Mux!SpawnFails
  BY <1>5 DEF Mux!RunFails, Mux!SpawnFails, Mux!Leaks, Mux!Kept
<1>6. CASE Mux!CopyOk
  BY <1>6 DEF Mux!CopyOk, Mux!Kept
<1>7. CASE Mux!CopyFails
  BY <1>7 DEF Mux!CopyFails, Mux!Leaks, Mux!Kept
<1> QED
  BY <1>1, <1>2, <1>3, <1>4, <1>5, <1>6, <1>7 DEF Mux!Next

(* The muxers' invariant holds while they run.                             *)
LEMMA MuxHolds == Spec => [](procedure = "mux" => MuxInv)
<1> DEFINE Inv == procedure = "mux" => MuxInv
<1>1. Init => Inv
  BY MuxInit DEF Init
<1>2. Inv /\ [Next]_vars => Inv'
  <2> SUFFICES ASSUME Inv, [Next]_vars, procedure' = "mux" PROVE MuxInv'
    OBVIOUS
  <2>1. procedure = "mux" /\ MuxInv
    BY DEF Next, vars
  <2>2. CASE UNCHANGED vars
    BY <2>1, <2>2 DEF vars, muxVars, packVars, MuxInv, Mux!OkIsWhole
  <2>3. CASE Next
    BY <2>1, <2>3, MuxStep DEF Next
  <2> QED
    BY <2>2, <2>3
<1> QED
  BY <1>1, <1>2, PTL DEF Spec

(* Whichever muxers there are, in whatever order they are preferred and    *)
(* however they fail: an output that is announced is what the last one     *)
(* made, and complete but for VLC's.                                       *)
THEOREM MuxersAreTidy == Spec => []MuxedIsWhole
<1>1. (procedure = "mux" => MuxInv) => MuxedIsWhole
  BY DEF MuxedIsWhole, MuxInv
<1> QED
  BY <1>1, MuxHolds, PTL

(* Temporary files that stay behind were asked for, or are mkvmerge's, or  *)
(* are those of the muxer that succeeded.                                  *)
THEOREM OnlyMkvmergeMayLeak == Spec => []OnlyMkvmergeLeaks
<1>1. (procedure = "mux" => MuxInv) => OnlyMkvmergeLeaks
  BY DEF OnlyMkvmergeLeaks, Mux!OnlyMkvmergeLeaks, MuxInv
<1> QED
  BY <1>1, MuxHolds, PTL

-----------------------------------------------------------------------------

(* What is put before a sequence leaves that at the end.                    *)
LEMMA SuffixOfConcat ==
  ASSUME NEW a \in Seq(Nat), NEW b \in Seq(Nat)
  PROVE  Concat!IsSuffix(b, a \o b)
<1> DEFINE c == a \o b
           x == Concat!Reverse(b)
           y == Concat!Reverse(c)
<1>1. c \in Seq(Nat) /\ Len(c) = Len(a) + Len(b) /\ Len(a) \in Nat /\ Len(b) \in Nat
  OBVIOUS
<1>2. \A k \in 1..Len(b) : c[Len(a) + k] = b[k]
  OBVIOUS
<1> HIDE DEF c
<1>3. x = [i \in 1..Len(b) |-> b[(Len(b) - i) + 1]] /\ y = [i \in 1..Len(c) |-> c[(Len(c) - i) + 1]]
  BY DEF Concat!Reverse
<1>4. /\ x \in Seq(Nat) /\ Len(x) = Len(b)
      /\ y \in Seq(Nat) /\ Len(y) = Len(c)
  <2>1. /\ \A i \in 1..Len(b) : b[(Len(b) - i) + 1] \in Nat
        /\ \A i \in 1..Len(c) : c[(Len(c) - i) + 1] \in Nat
    BY <1>1, SMTT(60)
  <2> HIDE DEF x, y
  <2>2. x \in [1..Len(b) -> Nat] /\ y \in [1..Len(c) -> Nat]
    BY <1>3, <2>1
  <2>3. ASSUME NEW n \in Nat, NEW f1 \in [1..n -> Nat] PROVE f1 \in Seq(Nat) /\ Len(f1) = n
    OBVIOUS
  <2>4. Len(c) \in Nat
    BY <1>1
  <2> QED
    BY <1>1, <2>2, <2>3, <2>4
<1>5. ASSUME NEW i \in 1..Len(b) PROVE x[i] = y[i]
  <2> DEFINE k == (Len(b) - i) + 1
  <2>1. k \in 1..Len(b) /\ (Len(c) - i) + 1 = Len(a) + k /\ i \in 1..Len(c)
    BY <1>1
  <2>2. x[i] = b[k] /\ y[i] = c[(Len(c) - i) + 1]
    BY <1>3, <2>1
  <2> HIDE DEF k, x, y
  <2>3. y[i] = c[Len(a) + k]
    BY <2>1, <2>2
  <2> QED
    BY <1>2, <2>1, <2>2, <2>3
<1> HIDE DEF x, y
<1>6. SubSeq(x, 1, Len(x)) = SubSeq(y, 1, Len(x))
  BY <1>1, <1>4, <1>5
<1> QED
  BY <1>1, <1>4, <1>6 DEF Concat!IsSuffix, Concat!IsPrefix, c, x, y

(* The first file and its copy are sequences of periods; until a helper    *)
(* has written to it, both are the first period.                           *)
ConcatInv ==
  /\ first \in Seq(Nat) /\ tmpout \in Seq(Nat)
  /\ pc = "run" /\ ~spoilt => tmpout = <<1>>
  /\ Concat!WholeUnlessSpoilt

(* Nothing is written before a helper runs.                                 *)
LEMMA ConcatInit == Concat!Init => ConcatInv
  BY DEF Concat!Init, ConcatInv, Concat!WholeUnlessSpoilt

(* A helper either fails, and has written or not, or appends the rest.      *)
LEMMA ConcatStep ==
  ASSUME Concat!ConcatAssumption, ConcatInv, Concat!Next
  PROVE  ConcatInv'
<1>1. Concat!Rest \in Seq(Nat) /\ << >> \in Seq(Nat) /\ <<1>> \in Seq(Nat)
  BY DEF Concat!Rest, Concat!ConcatAssumption
<1>2. CASE Concat!IgnoreUnknown \/ Concat!AllFailed
  BY <1>2 DEF Concat!IgnoreUnknown, Concat!AllFailed, ConcatInv, Concat!WholeUnlessSpoilt
<1>3. CASE Concat!Stage
  <2>1. first' = first /\ spoilt' = spoilt /\ pc # "ok" /\ pc' # "ok"
    BY <1>3 DEF Concat!Stage
  <2>2. tmpout' \in {first, << >>} /\ (pc' = "run" => tmpout' = first)
    BY <1>3 DEF Concat!Stage
  <2> QED
    BY <1>1, <2>1, <2>2 DEF ConcatInv, Concat!WholeUnlessSpoilt
<1>4. CASE Concat!Succeed
  <2>1. /\ pc = "run" /\ pc' = "ok" /\ spoilt' = spoilt
        /\ first' = tmpout \o Concat!Rest /\ tmpout' = << >>
    BY <1>4 DEF Concat!Succeed
  <2>2. first' \in Seq(Nat) /\ Concat!IsSuffix(Concat!Rest, first')
    BY <1>1, <2>1, SuffixOfConcat DEF ConcatInv
  <2>3. ~spoilt => first' = Concat!Whole
    BY <2>1 DEF ConcatInv, Concat!Whole
  <2> QED
    BY <1>1, <2>1, <2>2, <2>3 DEF ConcatInv, Concat!WholeUnlessSpoilt
<1>5. CASE Concat!Fail
  <2>1. tmpout \o Concat!Rest \in Seq(Nat)
    BY <1>1 DEF ConcatInv
  <2>2. \A q \in Concat!Prefixes(tmpout \o Concat!Rest) : q \in Seq(Nat)
    BY <2>1, SMTT(60) DEF Concat!Prefixes
  <2>3. /\ pc = "run" /\ pc' = "try" /\ tmpout' = << >>
        /\ \/ first' = first /\ spoilt' = spoilt
           \/ first' \in Concat!Prefixes(tmpout \o Concat!Rest) /\ spoilt' = TRUE
    BY <1>5 DEF Concat!Fail
  <2> QED
    BY <1>1, <2>2, <2>3 DEF ConcatInv, Concat!WholeUnlessSpoilt
<1> QED
  BY <1>2, <1>3, <1>4, <1>5 DEF Concat!Next

(* However many periods there are: a concatenation that is announced ends  *)
(* with all periods after the first one, and is all of them if no helper   *)
(* failed after it had begun to write (ffmpeg.rs:1577-1649).               *)
THEOREM LaterPeriodsSurvive ==
  ASSUME Concat!ConcatAssumption
  PROVE  Spec => []WholeUnlessSpoilt
<1> DEFINE Inv == procedure = "concat" => ConcatInv
<1>1. Init => Inv
  BY ConcatInit DEF Init
<1>2. Inv /\ [Next]_vars => Inv'
  <2> SUFFICES ASSUME Inv, [Next]_vars, procedure' = "concat" PROVE ConcatInv'
    OBVIOUS
  <2>1. procedure = "concat" /\ ConcatInv
    BY DEF Next, vars
  <2>2. CASE UNCHANGED vars
    BY <2>1, <2>2 DEF vars, concatVars, packVars, ConcatInv, Concat!WholeUnlessSpoilt
  <2>3. CASE Next
    BY <2>1, <2>3, ConcatStep DEF Next
  <2> QED
    BY <2>2, <2>3
<1>3. Inv => WholeUnlessSpoilt
  BY DEF WholeUnlessSpoilt, ConcatInv
<1> QED
  BY <1>1, <1>2, <1>3, PTL DEF Spec

-----------------------------------------------------------------------------

(* The periods whose subtitles are in the file beside the output, or were.  *)
Saved(format) ==
  {k \in Subtitle!Of(format) : k <= IF pc = "merge" THEN p ELSE p - 1}

(* That file holds the subtitles of the last of them.                       *)
LastSaved(format) ==
  \A k \in Saved(format) :
    /\ Subtitle!SavedPath(format) \in DOMAIN files
    /\ (\A l \in Saved(format) : l <= k) => {files[Subtitle!SavedPath(format)]} = docs[k]

(* The temporary file is the current period's, nothing is known of the      *)
(* periods to come, and each output has its own subtitles or none.          *)
OwnInv ==
  /\ manifest \in Manifests /\ p \in Nat \ {0}
  /\ DOMAIN docs = 1..Len(manifest) /\ DOMAIN merged = DOMAIN docs
  /\ pc \in {"fragment", "save", "merge"} => p \in DOMAIN docs
  /\ pc # "err" =>
       \A k \in DOMAIN docs :
         /\ k >= p \/ pc \in {"plan", "convert_sidecar"} => merged[k] = << >>
         /\ k > p \/ (k = p /\ pc \in {"fetch", "fragment"}) \/ pc \in {"plan", "convert_sidecar"}
              => docs[k] = {}
  /\ container = "mp4" => \A k \in DOMAIN merged : merged[k] \in {<< >>} \cup docs[k]
  /\ pc = "fragment" /\ ~have_subtitles => tmp = << >> /\ paragraphs = << >>
  /\ pc \in {"fragment", "save"} => manifest[p].mode = "fragments"
  /\ pc = "save" => docs[p] = {tmp}
  /\ pc = "merge" => tmp \in {<< >>} \cup docs[p]
  /\ pc = "ok" => p > Len(manifest)
  /\ pc \notin {"plan", "convert_sidecar", "err"} =>
       \A format \in {"stpp", "vtt"} : LastSaved(format)

(* At first there are no subtitles at all.                                  *)
LEMMA OwnInit == ASSUME Subtitle!Init PROVE OwnInv
  BY DEF Subtitle!Init, OwnInv

(* The subtitles that are saved stay what they are.                         *)
LEMMA SavedSame ==
  ASSUME UNCHANGED <<manifest, files>>, \A k \in 1..Len(manifest) : docs'[k] = docs[k],
         Saved("stpp")' = Saved("stpp"), Saved("vtt")' = Saved("vtt"),
         NEW format \in {"stpp", "vtt"}, LastSaved(format)
  PROVE  LastSaved(format)'
<1>1. Saved(format)' = Saved(format)
  OBVIOUS
<1>2. \A k \in Saved(format) : docs'[k] = docs[k]
  BY DEF Saved, Subtitle!Of
<1> QED
  BY <1>1, <1>2 DEF LastSaved, Subtitle!SavedPath

(* Before the subtitles of a period are fetched.                            *)
LEMMA OwnPlan ==
  ASSUME OwnInv,
         \/ Subtitle!PlanPeriod \/ Subtitle!SidecarFails \/ Subtitle!SidecarArrives
         \/ Subtitle!ConvertSidecar \/ Subtitle!Planned
  PROVE  OwnInv'
<1>1. /\ pc \in {"plan", "convert_sidecar"} /\ UNCHANGED <<manifest, container, docs, merged>>
      /\ pc' \in {"plan", "convert_sidecar"} \/ (pc' = "fetch" /\ p' = 1)
      /\ p' \in Nat \ {0}
  BY DEF Subtitle!PlanPeriod, Subtitle!SidecarFails, Subtitle!SidecarArrives, Subtitle!ConvertSidecar,
         Subtitle!Planned, Subtitle!PlanNext, Subtitle!Goto, Subtitle!results, OwnInv
<1>2. \A k \in DOMAIN docs : docs[k] = {} /\ merged[k] = << >>
  BY <1>1 DEF OwnInv
<1>3. \A format : Saved(format)' = {}
  BY <1>1, <1>2 DEF Saved, Subtitle!Of, OwnInv
<1>4. \A format : LastSaved(format)'
  BY <1>3 DEF LastSaved
<1> QED
  BY <1>1, <1>2, <1>4 DEF OwnInv

(* A period begins with an empty temporary file.                            *)
LEMMA OwnStart ==
  ASSUME Subtitle!SubtitlesAssumption, OwnInv, Subtitle!StartPeriod
  PROVE  OwnInv'
<1>1. /\ pc = "fetch" /\ p <= Len(manifest) /\ p' = p
      /\ UNCHANGED <<manifest, container, docs, merged, files>>
      /\ pc' \in {"fragment", "merge", "err"} /\ tmp' = << >> /\ paragraphs' = << >>
      /\ pc' = "fragment" => manifest[p].mode = "fragments"
  BY DEF Subtitle!StartPeriod, Subtitle!results, Subtitle!Goto, Subtitle!Return, Subtitle!period
<1>2. p \in DOMAIN docs /\ docs[p] = {}
  <2>1. Len(manifest) \in Nat
    BY DEF OwnInv, Subtitle!SubtitlesAssumption
  <2> QED
    BY <1>1, <2>1 DEF OwnInv
<1>3. Saved("stpp")' = Saved("stpp") /\ Saved("vtt")' = Saved("vtt")
  BY <1>1, <1>2 DEF Saved, Subtitle!Of, OwnInv
<1>4. \A format \in {"stpp", "vtt"} : LastSaved(format)'
  BY <1>1, <1>3, SavedSame DEF OwnInv
<1> QED
  BY <1>1, <1>2, <1>4 DEF OwnInv

(* Fragments go to the temporary file or to the document, and what was      *)
(* received is remembered.                                                  *)
LEMMA OwnFragment ==
  ASSUME OwnInv,
         \/ Subtitle!DataFragment \/ Subtitle!FragmentArrives \/ Subtitle!FragmentRefused
         \/ Subtitle!BodyFails
  PROVE  OwnInv'
<1>1. /\ pc = "fragment" /\ UNCHANGED <<manifest, container, p, docs, merged, files>>
      /\ pc' \in {"fragment", "err"}
      /\ have_subtitles' \/ UNCHANGED <<tmp, paragraphs, have_subtitles>>
  BY DEF Subtitle!DataFragment, Subtitle!FragmentArrives, Subtitle!FragmentRefused,
         Subtitle!BodyFails, Subtitle!Fetching, Subtitle!Settle, Subtitle!Goto, Subtitle!Return,
         Subtitle!results, Subtitle!document
<1>2. Saved("stpp")' = Saved("stpp") /\ Saved("vtt")' = Saved("vtt")
  BY <1>1 DEF Saved, Subtitle!Of
<1>3. \A format \in {"stpp", "vtt"} : LastSaved(format)'
  BY <1>1, <1>2, SavedSame DEF OwnInv
<1> QED
  BY <1>1, <1>3 DEF OwnInv

(* The document of the period is written to its temporary file.             *)
LEMMA OwnClose ==
  ASSUME Subtitle!SubtitlesAssumption, SubtitleInv, OwnInv, Subtitle!Close
  PROVE  OwnInv'
<1>1. /\ pc = "fragment" /\ UNCHANGED <<manifest, container, p, merged, files, have_subtitles>>
      /\ \/ /\ tmp' = tmp \o paragraphs
            /\ docs' = [docs EXCEPT ![p] = IF have_subtitles THEN {tmp \o paragraphs} ELSE {}]
            /\ pc' = IF have_subtitles THEN "save" ELSE "merge"
         \/ pc' = "err" /\ UNCHANGED <<tmp, docs>>
  BY DEF Subtitle!Close, Subtitle!Goto, Subtitle!Return
<1>2. /\ p \in DOMAIN docs /\ p \in Nat /\ docs[p] = {} /\ merged[p] = << >>
      /\ DOMAIN docs = 1..Len(manifest) /\ Len(manifest) \in Nat
  BY <1>1 DEF OwnInv, Subtitle!SubtitlesAssumption
<1>3. CASE pc' = "err"
  <2>1. UNCHANGED <<tmp, docs>>
    BY <1>1, <1>3
  <2> QED
    BY <1>1, <1>3, <2>1 DEF OwnInv
<1>4. CASE have_subtitles /\ pc' # "err"
  <2> DEFINE cues == tmp \o paragraphs
  <2>1. docs' = [docs EXCEPT ![p] = {cues}] /\ tmp' = cues /\ pc' = "save"
    BY <1>1, <1>4
  <2> HIDE DEF cues
  <2>2. \A format : Saved(format)' = Saved(format)
    <3>1. \A k \in 1..Len(manifest) : k # p => docs'[k] = docs[k]
      BY <1>2, <2>1
    <3> QED
      BY <1>1, <1>2, <2>1, <3>1 DEF Saved, Subtitle!Of
  <2>3. \A format \in {"stpp", "vtt"} : LastSaved(format)'
    <3>1. \A format : \A k \in Saved(format) : docs'[k] = docs[k]
      BY <1>1, <1>2, <2>1 DEF Saved, Subtitle!Of
    <3> QED
      BY <1>1, <2>2, <3>1 DEF OwnInv, LastSaved, Subtitle!SavedPath
  <2>4. manifest[p].mode = "fragments"
    BY <1>1 DEF OwnInv
  <2> QED
    BY <1>1, <1>2, <2>1, <2>3, <2>4 DEF OwnInv
<1>5. CASE ~have_subtitles /\ pc' # "err"
  <2>1. tmp = << >> /\ paragraphs = << >>
    BY <1>1, <1>5 DEF OwnInv
  <2>e. << >> \o << >> = << >>
    OBVIOUS
  <2>d. docs' = [docs EXCEPT ![p] = {}] /\ tmp' = tmp \o paragraphs /\ pc' = "merge"
    BY <1>1, <1>5
  <2>f. tmp' = << >>
    BY <2>1, <2>d, <2>e
  <2>2. DOMAIN docs' = DOMAIN docs /\ \A k \in 1..Len(manifest) : docs'[k] = docs[k]
    BY <1>2, <2>d
  <2>3. Saved("stpp")' = Saved("stpp") /\ Saved("vtt")' = Saved("vtt")
    BY <1>1, <1>2, <2>d, <2>2 DEF Saved, Subtitle!Of
  <2>4. \A format \in {"stpp", "vtt"} : LastSaved(format)'
    BY <1>1, <2>2, <2>3, SavedSame DEF OwnInv
  <2> QED
    BY <1>1, <1>2, <2>d, <2>f, <2>2, <2>4 DEF OwnInv
<1> QED
  BY <1>1, <1>3, <1>4, <1>5

(* The file of the format is the current period's from then on.             *)
LEMMA OwnSave ==
  ASSUME Subtitle!SubtitlesAssumption, OwnInv, Subtitle!Save
  PROVE  OwnInv'
<1>1. /\ pc = "save" /\ UNCHANGED <<manifest, container, p, merged, docs, tmp, have_subtitles>>
      /\ \/ pc' = "err"
         \/ /\ pc' = "merge" /\ manifest[p].format \in {"wvtt", "srt"}
            /\ files' = files \/ files' = Subtitle!Write(<<"srt", 1>>, tmp)
         \/ /\ pc' = "merge" /\ manifest[p].format \in {"stpp", "vtt"}
            /\ files' = Subtitle!Write(Subtitle!SavedPath(manifest[p].format), tmp)
  BY DEF Subtitle!Save, Subtitle!Goto, Subtitle!Return, Subtitle!document, Subtitle!period
<1>2. /\ p \in DOMAIN docs /\ p \in Nat /\ docs[p] = {tmp} /\ manifest[p].mode = "fragments"
      /\ DOMAIN docs = 1..Len(manifest) /\ Len(manifest) \in Nat /\ merged[p] = << >>
  BY <1>1 DEF OwnInv, Subtitle!SubtitlesAssumption
<1>3. CASE pc' = "err"
  BY <1>1, <1>3 DEF OwnInv
<1>4. ASSUME pc' = "merge", NEW format \in {"stpp", "vtt"} PROVE LastSaved(format)'
  <2>0. LastSaved(format)
    BY <1>1 DEF OwnInv
  <2>1. CASE manifest[p].format = format
    <3>1. files' = Subtitle!Write(Subtitle!SavedPath(format), tmp)
      BY <1>1, <1>4, <2>1
    <3>2. Subtitle!SavedPath(format) \in DOMAIN files' /\ files'[Subtitle!SavedPath(format)] = tmp
      BY <3>1 DEF Subtitle!Write
    <3>3. p \in Saved(format)'
      <4>1. /\ p \in 1..Len(manifest) /\ docs[p] # {} /\ pc' = "merge"
            /\ manifest' = manifest /\ docs' = docs /\ p' = p
        BY <1>1, <1>2, <1>4
      <4>2. p \in Subtitle!Of(format)'
        BY <1>2, <2>1, <4>1 DEF Subtitle!Of
      <4> QED
        BY <1>2, <4>1, <4>2 DEF Saved
    <3>4. \A k \in Saved(format)' : k \in Nat /\ k <= p
      BY <1>1, <1>2, <1>4 DEF Saved, Subtitle!Of
    <3>5. ASSUME NEW k \in Saved(format)', \A l \in Saved(format)' : l <= k PROVE k = p
      BY <1>2, <3>3, <3>4, <3>5
    <3> QED
      BY <1>1, <1>2, <3>2, <3>5 DEF LastSaved, Subtitle!SavedPath
  <2>2. CASE manifest[p].format # format
    <3>1. Saved(format)' = Saved(format)
      BY <1>1, <1>2, <1>4, <2>2 DEF Saved, Subtitle!Of
    <3>2. \E x, c : /\ files' = files \/ files' = Subtitle!Write(x, c)
                   /\ x # Subtitle!SavedPath(format)
      <4>1. <<"srt", 1>> # Subtitle!SavedPath(format)
        BY DEF Subtitle!SavedPath
      <4>2. manifest[p].format \in {"stpp", "vtt"}
              => Subtitle!SavedPath(manifest[p].format) # Subtitle!SavedPath(format)
        BY <2>2 DEF Subtitle!SavedPath
      <4> QED
        BY <1>1, <1>4, <4>1, <4>2
    <3>3. Subtitle!SavedPath(format) \in DOMAIN files =>
            /\ Subtitle!SavedPath(format) \in DOMAIN files'
            /\ files'[Subtitle!SavedPath(format)] = files[Subtitle!SavedPath(format)]
      BY <3>2 DEF Subtitle!Write
    <3> QED
      BY <1>1, <2>0, <3>1, <3>3 DEF LastSaved, Subtitle!SavedPath
  <2> QED
    BY <2>1, <2>2
<1>5. CASE pc' = "merge"
  BY <1>1, <1>2, <1>4, <1>5 DEF OwnInv
<1> QED
  BY <1>1, <1>3, <1>5

(* An output gets the subtitles of its period, or none.                     *)
LEMMA OwnMerge ==
  ASSUME Subtitle!SubtitlesAssumption, OwnInv, Subtitle!Merge
  PROVE  OwnInv'
<1>1. /\ pc = "merge" /\ UNCHANGED <<manifest, container, docs, files, tmp, have_subtitles>>
      /\ \/ pc' = "err" /\ UNCHANGED <<merged, p>>
         \/ /\ pc' = "fetch" /\ p' = p + 1
            /\ merged' = merged \/ \E cues \in Subtitle!Mergeable : merged' = [merged EXCEPT ![p] = cues]
  BY DEF Subtitle!Merge, Subtitle!Goto, Subtitle!Return, Subtitle!document
<1>2. /\ p \in DOMAIN docs /\ p \in Nat \ {0} /\ tmp \in {<< >>} \cup docs[p]
      /\ DOMAIN docs = 1..Len(manifest) /\ Len(manifest) \in Nat
  BY <1>1 DEF OwnInv, Subtitle!SubtitlesAssumption
<1>3. CASE pc' = "err"
  BY <1>1, <1>3 DEF OwnInv
<1>4. CASE pc' = "fetch"
  <2>1. p' = p + 1 /\ DOMAIN merged' = DOMAIN merged /\ \A k \in DOMAIN merged : k # p => merged'[k] = merged[k]
    BY <1>1, <1>4
  <2>2. container = "mp4" => \A k \in DOMAIN merged' : merged'[k] \in {<< >>} \cup docs[k]
    <3> SUFFICES ASSUME container = "mp4" PROVE merged'[p] \in {<< >>} \cup docs[p]
      BY <2>1 DEF OwnInv
    <3>1. merged[p] \in {<< >>} \cup docs[p]
      BY <1>2 DEF OwnInv
    <3>2. Subtitle!Mergeable = {tmp}
      BY DEF Subtitle!Mergeable
    <3>3. merged' = merged \/ merged' = [merged EXCEPT ![p] = tmp]
      BY <1>1, <1>4, <3>2
    <3> QED
      BY <1>2, <3>1, <3>3 DEF OwnInv
  <2>3. Saved("stpp")' = Saved("stpp") /\ Saved("vtt")' = Saved("vtt")
    BY <1>1, <1>2, <1>4, <2>1 DEF Saved, Subtitle!Of
  <2>4. \A format \in {"stpp", "vtt"} : LastSaved(format)'
    BY <1>1, <1>4, <2>3, SavedSame DEF OwnInv
  <2>5. \A k \in DOMAIN docs : k >= p + 1 => k > p /\ merged'[k] = << >> /\ docs[k] = {}
    <3> SUFFICES ASSUME NEW k \in DOMAIN docs, k >= p + 1
                 PROVE  k > p /\ merged'[k] = << >> /\ docs[k] = {}
      OBVIOUS
    <3>n. p \in Nat /\ DOMAIN docs = 1..Len(manifest) /\ Len(manifest) \in Nat
      BY <1>2
    <3>1. k \in Nat /\ k > p /\ k >= p /\ k # p
      BY <3>n
    <3>2. merged[k] = << >> /\ docs[k] = {} /\ k \in DOMAIN merged
      BY <1>1, <3>1 DEF OwnInv
    <3> QED
      BY <2>1, <3>1, <3>2
  <2> QED
    BY <1>1, <1>2, <1>4, <2>1, <2>2, <2>4, <2>5 DEF OwnInv
<1> QED
  BY <1>1, <1>3, <1>4

(* The largest of some of the first n numbers.                              *)
LEMMA Largest ==
  ASSUME NEW n \in Nat, NEW S, S \subseteq 1..n, S # {}
  PROVE  Subtitle!Max(S) \in S /\ \A k \in S : k <= Subtitle!Max(S)
<1> DEFINE T == {n - k : k \in S}
<1>1. T \subseteq Nat /\ T # {}
  <2>1. \A k \in S : n - k \in Nat
    OBVIOUS
  <2> QED
    BY <2>1
<1>2. PICK t \in T : \A u \in T : t <= u
  BY <1>1, LeastNumber
<1>3. PICK m \in S : t = n - m
  BY <1>2
<1>4. \A k \in S : m >= k
  <2>1. \A k \in S : n - m <= n - k /\ k \in Nat /\ m \in Nat
    BY <1>2, <1>3
  <2> QED
    BY <2>1
<1>5. \A k \in S : Subtitle!Max(S) \in S /\ Subtitle!Max(S) >= k
  BY <1>3, <1>4 DEF Subtitle!Max
<1> QED
  BY <1>5

(* The files beside the output are those of the last period that had        *)
(* subtitles, and no output has those of another period, for every          *)
(* manifest, limit on errors and file that was there before.                *)
THEOREM SubtitlesAreOwn ==
  ASSUME Subtitle!SubtitlesAssumption
  PROVE  Spec => []OwnSubtitles
<1> DEFINE Inv == procedure = "subtitles" => SubtitleInv /\ OwnInv
<1>1. Init => Inv
  BY SubtitleInit, OwnInit DEF Init
<1>2. Inv /\ [Next]_vars => Inv'
  <2> SUFFICES ASSUME Inv, [Next]_vars, procedure' = "subtitles" PROVE SubtitleInv' /\ OwnInv'
    OBVIOUS
  <2>1. procedure = "subtitles" /\ SubtitleInv /\ OwnInv
    BY DEF Next, vars
  <2>2. CASE UNCHANGED vars
    <3>1. SubtitleInv'
      BY <2>1, <2>2 DEF vars, subtitleVars, SubtitleInv, Placed, Paid, Subtitle!MissingBounded,
                        Subtitle!period
    <3>2. UNCHANGED <<manifest, p, pc, docs, merged, container, have_subtitles, tmp, paragraphs, files>>
      BY <2>2 DEF vars, subtitleVars
    <3>3. Saved("stpp")' = Saved("stpp") /\ Saved("vtt")' = Saved("vtt")
      BY <3>2 DEF Saved, Subtitle!Of
    <3>4. \A format \in {"stpp", "vtt"} : LastSaved(format) => LastSaved(format)'
      BY <3>2, <3>3, SavedSame
    <3>5. OwnInv'
      BY <2>1, <3>2, <3>4 DEF OwnInv
    <3> QED
      BY <3>1, <3>5
  <2>3. CASE Next
    <3>1. Subtitle!Next
      BY <2>1, <2>3 DEF Next
    <3>2. SubtitleInv'
      BY <2>1, <3>1, SubtitleAround, SubtitleFragment DEF Subtitle!Next
    <3>3. CASE Subtitle!Done
      <4>1. /\ UNCHANGED <<manifest, p, docs, merged, container, files>>
            /\ pc = "fetch" /\ pc' = "ok" /\ p > Len(manifest)
        BY <3>3 DEF Subtitle!Done, Subtitle!results, Subtitle!Goto
      <4>2. Saved("stpp")' = Saved("stpp") /\ Saved("vtt")' = Saved("vtt")
        BY <4>1 DEF Saved, Subtitle!Of
      <4>3. \A format \in {"stpp", "vtt"} : LastSaved(format)'
        BY <2>1, <4>1, <4>2, SavedSame DEF OwnInv
      <4> QED
        BY <2>1, <3>2, <4>1, <4>3 DEF OwnInv
    <3> QED
      BY <2>1, <3>1, <3>2, <3>3, OwnPlan, OwnStart, OwnFragment, OwnClose, OwnSave, OwnMerge
         DEF Subtitle!Next
  <2> QED
    BY <2>2, <2>3
<1>3. Inv => OwnSubtitles
  <2> SUFFICES ASSUME procedure = "subtitles", OwnInv PROVE Subtitle!OwnSubtitles
    BY DEF OwnSubtitles
  <2>1. ASSUME NEW format \in {"stpp", "vtt"}, pc = "ok", Subtitle!Of(format) # {}
        PROVE  {files[Subtitle!SavedPath(format)]} = docs[Subtitle!Max(Subtitle!Of(format))]
    <3>1. Len(manifest) \in Nat /\ p > Len(manifest) /\ p \in Nat
      BY <2>1 DEF OwnInv, Subtitle!SubtitlesAssumption
    <3>2. Subtitle!Of(format) \subseteq 1..Len(manifest)
      BY DEF Subtitle!Of
    <3>3. Saved(format) = Subtitle!Of(format)
      BY <2>1, <3>1, <3>2 DEF Saved
    <3>4. /\ Subtitle!Max(Subtitle!Of(format)) \in Saved(format)
          /\ \A k \in Saved(format) : k <= Subtitle!Max(Subtitle!Of(format))
      BY <2>1, <3>1, <3>2, <3>3, Largest
    <3>5. LastSaved(format)
      BY <2>1 DEF OwnInv
    <3> QED
      BY <3>4, <3>5 DEF LastSaved
  <2> QED
    BY <2>1 DEF OwnInv, Subtitle!OwnSubtitles
<1> QED
  BY <1>1, <1>2, <1>3, PTL DEF Spec

-----------------------------------------------------------------------------
(* The document that collects the fragments of a period.                    *)

(* No style is there twice, unless it has no name.                          *)
Distinct(seq) == \A k, l \in DOMAIN seq : seq[k] = seq[l] => k = l \/ seq[k] = ""
Values(seq) == {seq[k] : k \in DOMAIN seq}

(* What an appended sequence holds.                                         *)
LEMMA Appended ==
  ASSUME NEW E, NEW a \in Seq(E), NEW e \in E
  PROVE  /\ Append(a, e) \in Seq(E) /\ DOMAIN Append(a, e) = 1..(Len(a) + 1)
         /\ Append(a, e)[Len(a) + 1] = e
         /\ \A k \in 1..Len(a) : Append(a, e)[k] = a[k]
OBVIOUS

(* The styles there are after one more was found.                           *)
AfterStyle(seen, style) == IF Subtitle!New(seen, style) THEN Append(seen, style) ELSE seen

(* One style is added, if it is new.                                        *)
LEMMA StyleAdded ==
  ASSUME NEW E, NEW seen \in Seq(E), NEW style \in E, Distinct(seen)
  PROVE  LET res == AfterStyle(seen, style)
         IN  res \in Seq(E) /\ Distinct(res) /\ Values(res) = Values(seen) \cup {style}
<1> DEFINE n == Len(seen)
           res == AfterStyle(seen, style)
<1>0. res = IF Subtitle!New(seen, style) THEN Append(seen, style) ELSE seen
  BY DEF AfterStyle
<1> HIDE DEF res
<1>1. n \in Nat /\ DOMAIN seen = 1..n
  OBVIOUS
<1>2. Subtitle!New(seen, style) <=> style = "" \/ style \notin Values(seen)
  BY DEF Subtitle!New, Subtitle!Range, Values
<1>3. CASE Subtitle!New(seen, style)
  <2>1. /\ res \in Seq(E) /\ DOMAIN res = 1..(n + 1) /\ res[n + 1] = style
        /\ \A k \in 1..n : res[k] = seen[k]
    <3> DEFINE b == Append(seen, style)
    <3>1. res = b
      BY <1>0, <1>3
    <3>2. /\ b \in Seq(E) /\ DOMAIN b = 1..(n + 1) /\ b[n + 1] = style
          /\ \A k \in 1..n : b[k] = seen[k]
      BY Appended
    <3> HIDE DEF b, n
    <3> QED
      BY <3>1, <3>2
  <2>2. Values(res) = Values(seen) \cup {style}
    <3>1. ASSUME NEW k \in 1..(n + 1) PROVE k = n + 1 \/ k \in 1..n
      BY <1>1
    <3>2. n + 1 \in 1..(n + 1) /\ 1..n \subseteq 1..(n + 1)
      BY <1>1
    <3> HIDE DEF n
    <3> QED
      BY <1>1, <2>1, <3>1, <3>2 DEF Values
  <2>3. ASSUME NEW k \in 1..(n + 1), NEW l \in 1..(n + 1), res[k] = res[l]
        PROVE  k = l \/ res[k] = ""
    <3>1. CASE k \in 1..n /\ l \in 1..n
      BY <1>1, <2>1, <2>3, <3>1 DEF Distinct
    <3>2. CASE k = n + 1 /\ l = n + 1
      BY <3>2
    <3>3. CASE k = n + 1 /\ l \in 1..n
      BY <1>1, <1>2, <1>3, <2>1, <2>3, <3>3 DEF Values
    <3>4. CASE k \in 1..n /\ l = n + 1
      BY <1>1, <1>2, <1>3, <2>1, <2>3, <3>4 DEF Values
    <3>5. (k = n + 1 \/ k \in 1..n) /\ (l = n + 1 \/ l \in 1..n)
      BY <1>1
    <3> HIDE DEF n
    <3> QED
      BY <3>1, <3>2, <3>3, <3>4, <3>5, Zenon
  <2>4. DOMAIN res = 1..(n + 1)
    BY <2>1
  <2> HIDE DEF n
  <2>5. Distinct(res)
    BY <2>3, <2>4, Zenon DEF Distinct
  <2> QED
    BY <2>1, <2>2, <2>5 DEF res
<1>4. CASE ~Subtitle!New(seen, style)
  <2>1. res = seen /\ style \in Values(seen)
    BY <1>0, <1>2, <1>4
  <2>2. Values(seen) = Values(seen) \cup {style}
    BY <2>1
  <2> QED
    BY <2>1, <2>2 DEF res
<1> QED
  BY <1>3, <1>4

(* The styles of a fragment are added, but for the redundant ones.          *)
LEMMA StylesAdded ==
  ASSUME NEW E, NEW seen \in Seq(E), NEW more \in Seq(E), Distinct(seen)
  PROVE  LET res == Subtitle!AddStyles(seen, more)
         IN  res \in Seq(E) /\ Distinct(res) /\ Values(res) = Values(seen) \cup Values(more)
<1> DEFINE n == Len(more)
           After(prev, k) == IF Subtitle!New(prev, more[k]) THEN Append(prev, more[k]) ELSE prev
           Is(g, m) == g = [k \in 0..m |-> IF k = 0 THEN seen ELSE After(g[k - 1], k)]
           T == {m \in Nat : \E g : Is(g, m)}
<1>1. n \in Nat /\ DOMAIN more = 1..n /\ \A k \in 1..n : more[k] \in E
  OBVIOUS
<1> HIDE DEF After
<1>2. 0 \in T
  <2> DEFINE g == [k \in 0..0 |-> seen]
  <2>1. g = [k \in 0..0 |-> IF k = 0 THEN seen ELSE After(g[k - 1], k)]
    OBVIOUS
  <2> QED
    BY <2>1
<1>3. ASSUME NEW m \in Nat, m \in T PROVE m + 1 \in T
  <2>1. PICK g : g = [k \in 0..m |-> IF k = 0 THEN seen ELSE After(g[k - 1], k)]
    BY <1>3
  <2> DEFINE h == [k \in 0..(m + 1) |-> IF k = m + 1 THEN After(g[m], m + 1) ELSE g[k]]
  <2>2. ASSUME NEW k \in 0..(m + 1)
        PROVE  h[k] = IF k = 0 THEN seen ELSE After(h[k - 1], k)
    <3>1. CASE k = m + 1
      <4>1. k # 0 /\ k - 1 = m /\ h[k] = After(g[m], m + 1) /\ h[m] = g[m]
        BY <3>1
      <4> HIDE DEF h
      <4> QED
        BY <3>1, <4>1
    <3>2. CASE k # m + 1
      <4>1. k \in 0..m /\ h[k] = g[k]
        BY <3>2
      <4>2. k # 0 => k - 1 \in 0..(m + 1) /\ k - 1 # m + 1 /\ h[k - 1] = g[k - 1]
        BY <3>2
      <4> HIDE DEF h
      <4> QED
        BY <2>1, <4>1, <4>2
    <3> QED
      BY <3>1, <3>2
  <2>3. Is(h, m + 1)
    BY <2>2
  <2> HIDE DEF h, Is
  <2> QED
    BY <2>3
<1> HIDE DEF T
<1>4. Nat \subseteq T
  BY <1>2, <1>3, EveryNumber
<1> DEFINE A == CHOOSE g : Is(g, n)
<1>5. Subtitle!AddStyles(seen, more) = A[n]
  BY Zenon DEF Subtitle!AddStyles, After
<1>6. Is(A, n)
  <2>1. \E g : Is(g, n)
    BY <1>1, <1>4 DEF T
  <2> HIDE DEF Is
  <2> QED
    BY <2>1, Zenon
<1> HIDE DEF A, n
<1>7. A[0] = seen /\ \A k \in 1..n : A[k] = After(A[k - 1], k)
  BY <1>1, <1>6
<1> HIDE DEF Is
<1> DEFINE Good(m) == /\ A[m] \in Seq(E) /\ Distinct(A[m])
                      /\ Values(A[m]) = Values(seen) \cup {more[k] : k \in 1..m}
           U == {m \in Nat : m <= n => Good(m)}
<1>8. 0 \in U
  <2>1. 1..0 = {}
    OBVIOUS
  <2>2. {more[k] : k \in 1..0} = {}
    BY <2>1
  <2> QED
    BY <1>7, <2>2
<1>9. ASSUME NEW m \in Nat, m \in U PROVE m + 1 \in U
  <2> SUFFICES ASSUME m + 1 <= n PROVE Good(m + 1)
    OBVIOUS
  <2>1. m + 1 \in 1..n /\ (m + 1) - 1 = m /\ m <= n
    BY <1>1
  <2>2. Good(m)
    BY <1>9, <2>1
  <2> DEFINE a == A[m]
             e == more[m + 1]
             b == A[m + 1]
  <2>3. a \in Seq(E) /\ Distinct(a) /\ Values(a) = Values(seen) \cup {more[k] : k \in 1..m}
    BY <2>2
  <2>4. e \in E
    BY <1>1, <2>1
  <2>5. b = AfterStyle(a, e)
    BY <1>7, <2>1 DEF After, AfterStyle
  <2> HIDE DEF a, b, e
  <2>6. b \in Seq(E) /\ Distinct(b) /\ Values(b) = Values(a) \cup {e}
    BY <2>3, <2>4, <2>5, StyleAdded
  <2>7. {more[k] : k \in 1..(m + 1)} = {more[k] : k \in 1..m} \cup {e}
    <3>1. 1..(m + 1) = 1..m \cup {m + 1}
      OBVIOUS
    <3> QED
      BY <3>1 DEF e
  <2> QED
    BY <2>3, <2>6, <2>7 DEF b
<1> HIDE DEF U, Good
<1>10. n \in U
  BY <1>1, <1>8, <1>9, EveryNumber
<1>11. Good(n)
  BY <1>1, <1>10 DEF U
<1>12. Values(more) = {more[k] : k \in 1..n}
  BY <1>1 DEF Values
<1> QED
  BY <1>5, <1>11, <1>12 DEF Good

(* The fragments that are STPP documents among the ones delivered, their    *)
(* cues and their styles.                                                   *)
IsDocument(x) == x.source = "http" /\ x.form = "tt"
ParsedOf(c, d) == {k \in DOMAIN d : IsDocument(c[d[k]])}
CuesFrom(x) == IF IsDocument(x) THEN x.cues ELSE << >>
CuesOf(c, d) == [k \in 1..Len(d) |-> CuesFrom(c[d[k]])]
StylesFrom(x) == IF IsDocument(x) THEN Values(x.styles) ELSE {}
StylesOf(c, d) == UNION {Values(c[d[k]].styles) : k \in ParsedOf(c, d)}

(* The fragments of a list that is delivered are fragments of the period.   *)
Listed(c, d) == \A k \in 1..Len(d) : d[k] \in 1..Len(c)

(* What was delivered brought sequences of cues.                            *)
LEMMA CuesAre ==
  ASSUME NEW c \in Seq(Subtitle!Content), NEW d \in Seq(Nat), Listed(c, d)
  PROVE  CuesOf(c, d) \in Seq(Seq(Nat)) /\ Len(CuesOf(c, d)) = Len(d)
<1>1. ASSUME NEW k \in 1..Len(d) PROVE CuesFrom(c[d[k]]) \in Seq(Nat)
  <2>1. c[d[k]] \in Subtitle!Content
    BY DEF Listed
  <2> HIDE DEF Listed
  <2>2. c[d[k]].cues \in Seq(Nat) /\ << >> \in Seq(Nat)
    BY <2>1 DEF Subtitle!Content
  <2> QED
    BY <2>2 DEF CuesFrom
<1> DEFINE x == CuesOf(c, d)
           n == Len(d)
<1>2. n \in Nat
  OBVIOUS
<1>3. x = [k \in 1..n |-> CuesFrom(c[d[k]])]
  BY DEF CuesOf
<1> HIDE DEF x
<1>4. x \in [1..n -> Seq(Nat)] /\ DOMAIN x = 1..n
  BY <1>1, <1>3
<1> HIDE DEF n
<1> QED
  BY <1>2, <1>4 DEF x, n

(* The cues and styles of one more fragment are added to the others.        *)
LEMMA OneMoreDelivered ==
  ASSUME NEW c \in Seq(Subtitle!Content), NEW d \in Seq(Nat), Listed(c, d), NEW g \in 1..Len(c)
  PROVE  /\ Listed(c, Append(d, g))
         /\ FlatOf(CuesOf(c, d)) \in Seq(Nat) /\ CuesFrom(c[g]) \in Seq(Nat)
         /\ FlatOf(CuesOf(c, Append(d, g))) = FlatOf(CuesOf(c, d)) \o CuesFrom(c[g])
         /\ StylesOf(c, Append(d, g)) = StylesOf(c, d) \cup StylesFrom(c[g])
<1> DEFINE e == Append(d, g)
           n == Len(d)
           x == CuesOf(c, d)
           y == CuesOf(c, e)
           z == CuesFrom(c[g])
<1>1. /\ n \in Nat /\ e \in Seq(Nat) /\ Len(e) = n + 1 /\ e[n + 1] = g
      /\ \A k \in 1..n : e[k] = d[k]
      /\ DOMAIN d = 1..n /\ DOMAIN e = 1..(n + 1)
  OBVIOUS
<1> HIDE DEF e, n
<1>2. \A k \in 1..(n + 1) : k \in 1..n \/ k = n + 1
  BY <1>1
<1>3. 1..n \subseteq 1..(n + 1) /\ n + 1 \in 1..(n + 1)
  BY <1>1
<1>4. Listed(c, e)
  BY <1>1, <1>2 DEF Listed, n
<1>5. x \in Seq(Seq(Nat)) /\ Len(x) = n /\ y \in Seq(Seq(Nat)) /\ Len(y) = n + 1
  BY <1>1, <1>4, CuesAre DEF n
<1>6. z \in Seq(Nat)
  <2>1. c[g] \in Subtitle!Content
    OBVIOUS
  <2>2. c[g].cues \in Seq(Nat) /\ << >> \in Seq(Nat)
    BY <2>1 DEF Subtitle!Content
  <2> QED
    BY <2>2 DEF CuesFrom
<1>7. (\A k \in 1..n : y[k] = x[k]) /\ y[n + 1] = z
  BY <1>1, <1>3 DEF CuesOf, n
<1> HIDE DEF x, y, z
<1>8. y = Append(x, z)
  <2>1. /\ Append(x, z) \in Seq(Seq(Nat)) /\ Len(Append(x, z)) = n + 1
        /\ Append(x, z)[n + 1] = z /\ \A k \in 1..n : Append(x, z)[k] = x[k]
    BY <1>5, <1>6
  <2> DEFINE u == Append(x, z)
  <2> HIDE DEF u
  <2>2. u \in Seq(Seq(Nat)) /\ Len(u) = Len(y) /\ \A k \in 1..Len(y) : u[k] = y[k]
    BY <1>2, <1>5, <1>7, <2>1 DEF u
  <2> QED
    BY <1>5, <2>2, SeqEqual DEF u
<1>9. FlatOf(x) \in Seq(Nat) /\ FlatOf(Append(x, z)) = FlatOf(x) \o z
  BY <1>5, <1>6, FlatOfMore
<1>10. StylesOf(c, e) = StylesOf(c, d) \cup StylesFrom(c[g])
  <2>1. ASSUME NEW k \in 1..n PROVE k \in ParsedOf(c, e) <=> k \in ParsedOf(c, d)
    BY <1>1, <1>3 DEF ParsedOf
  <2>2. n + 1 \in ParsedOf(c, e) <=> IsDocument(c[g])
    BY <1>1, <1>3 DEF ParsedOf
  <2>3. ParsedOf(c, e) \subseteq 1..(n + 1) /\ ParsedOf(c, d) \subseteq 1..n
    BY <1>1 DEF ParsedOf
  <2>4. ASSUME NEW v PROVE v \in StylesOf(c, e) <=> v \in StylesOf(c, d) \cup StylesFrom(c[g])
    <3>1. v \in StylesOf(c, e) <=> \E k \in ParsedOf(c, e) : v \in Values(c[e[k]].styles)
      BY DEF StylesOf
    <3>2. v \in StylesOf(c, d) <=> \E k \in ParsedOf(c, d) : v \in Values(c[d[k]].styles)
      BY DEF StylesOf
    <3>3. v \in StylesFrom(c[g]) <=> IsDocument(c[g]) /\ v \in Values(c[g].styles)
      BY DEF StylesFrom
    <3> QED
      BY <1>1, <1>2, <1>3, <2>1, <2>2, <2>3, <3>1, <3>2, <3>3
  <2> QED
    BY <2>4
<1> QED
  BY <1>4, <1>6, <1>8, <1>9, <1>10 DEF e, x, y, z

(* While a period is fetched and saved: the fragments delivered so far came *)
(* in order, and the document has their cues and their styles.              *)
MergeInv ==
  pc \in {"fragment", "save"} =>
    /\ p \in DOMAIN manifest
    /\ Listed(manifest[p].contents, delivered)
    /\ \A k \in 1..Len(delivered) : delivered[k] < f
    /\ \A k, l \in 1..Len(delivered) : k < l => delivered[k] < delivered[l]
    /\ manifest[p].format = "stpp" =>
         /\ paragraphs = FlatOf(CuesOf(manifest[p].contents, delivered))
         /\ styles \in Seq(STRING) /\ Distinct(styles)
         /\ Values(styles) = StylesOf(manifest[p].contents, delivered)

(* At first nothing is delivered.                                           *)
LEMMA NothingDelivered ==
  ASSUME NEW c
  PROVE  /\ Listed(c, << >>) /\ FlatOf(CuesOf(c, << >>)) = << >>
         /\ << >> \in Seq(STRING) /\ Distinct(<< >>) /\ Values(<< >>) = StylesOf(c, << >>)
<1> DEFINE d == << >>
           x == CuesOf(c, d)
<1>1. Len(d) = 0 /\ DOMAIN d = 1..0 /\ 1..0 = {} /\ d \in Seq(STRING)
  OBVIOUS
<1>2. x = [k \in 1..0 |-> CuesFrom(c[d[k]])]
  BY <1>1 DEF CuesOf
<1>3. x = << >>
  BY <1>2
<1> HIDE DEF d
<1>4. Listed(c, d) /\ Distinct(d) /\ Values(d) = {}
  BY <1>1 DEF Listed, Distinct, Values
<1>5. StylesOf(c, d) = {}
  BY <1>1 DEF StylesOf, ParsedOf
<1> HIDE DEF x
<1>6. FlatOf(x) = x
  BY <1>3 DEF FlatOf
<1> QED
  BY <1>1, <1>3, <1>4, <1>5, <1>6 DEF d, x

(* What is in hand while fragments are fetched.                             *)
LEMMA ContentInHand ==
  ASSUME Subtitle!SubtitlesAssumption, SubtitleInv, MergeInv, Subtitle!Fetching
  PROVE  /\ manifest[p].contents \in Seq(Subtitle!Content) /\ f \in 1..Len(manifest[p].contents)
         /\ Subtitle!content = manifest[p].contents[f] /\ Subtitle!content \in Subtitle!Content
<1>1. p \in DOMAIN manifest /\ manifest \in Seq(Subtitle!Period) /\ f \in Nat \ {0}
  BY DEF SubtitleInv, Subtitle!SubtitlesAssumption, MergeInv, Subtitle!Fetching, Placed
<1>2. manifest[p] \in Subtitle!Period
  BY <1>1
<1>3. manifest[p].contents \in Seq(Subtitle!Content)
  BY <1>2 DEF Subtitle!Period
<1>4. f \in 1..Len(manifest[p].contents)
  BY <1>1, <1>3 DEF Subtitle!Fetching, Subtitle!period
<1> QED
  BY <1>3, <1>4 DEF Subtitle!content, Subtitle!period

(* A fragment is delivered, after the others, and so are its cues.          *)
LEMMA DocumentGrows ==
  ASSUME Subtitle!SubtitlesAssumption, SubtitleInv, MergeInv, Subtitle!Fetching, Subtitle!Settle,
         UNCHANGED <<manifest, p>>,
         manifest[p].format = "stpp" =>
           /\ paragraphs' = paragraphs \o CuesFrom(Subtitle!content)
           /\ styles' \in Seq(STRING) /\ Distinct(styles')
           /\ Values(styles') = Values(styles) \cup StylesFrom(Subtitle!content)
  PROVE  MergeInv'
<1> DEFINE c == manifest[p].contents
<1>1. c \in Seq(Subtitle!Content) /\ f \in 1..Len(c) /\ Subtitle!content = c[f] /\ f \in Nat
  BY ContentInHand
<1>2. /\ delivered \in Seq(Nat) /\ p \in DOMAIN manifest /\ Listed(c, delivered)
      /\ \A k \in 1..Len(delivered) : delivered[k] < f
      /\ \A k, l \in 1..Len(delivered) : k < l => delivered[k] < delivered[l]
  BY DEF SubtitleInv, MergeInv, Subtitle!Fetching
<1>3. /\ delivered' = Append(delivered, f) /\ f' = f + 1 /\ manifest' = manifest /\ p' = p
      /\ pc' = "fragment"
  BY DEF Subtitle!Settle, Subtitle!Goto
<1> HIDE DEF c
<1>4. /\ Listed(c, Append(delivered, f))
      /\ FlatOf(CuesOf(c, Append(delivered, f))) = FlatOf(CuesOf(c, delivered)) \o CuesFrom(c[f])
      /\ StylesOf(c, Append(delivered, f)) = StylesOf(c, delivered) \cup StylesFrom(c[f])
  BY <1>1, <1>2, OneMoreDelivered
<1> DEFINE n == Len(delivered)
           e == Append(delivered, f)
<1>5. /\ n \in Nat /\ Len(e) = n + 1 /\ e[n + 1] = f
      /\ \A k \in 1..n : e[k] = delivered[k] /\ delivered[k] \in Nat
  BY <1>1, <1>2
<1> HIDE DEF n, e
<1>6. \A k \in 1..(n + 1) : k \in 1..n \/ k = n + 1
  BY <1>5
<1>7. ASSUME NEW k \in 1..(n + 1) PROVE e[k] < f + 1
  <2>1. k \in 1..n => delivered[k] < f /\ delivered[k] \in Nat /\ e[k] = delivered[k]
    BY <1>2, <1>5 DEF n
  <2> QED
    BY <1>1, <1>5, <1>6, <2>1
<1>8. ASSUME NEW k \in 1..(n + 1), NEW l \in 1..(n + 1), k < l PROVE e[k] < e[l]
  <2>1. k \in 1..n
    BY <1>5, <1>8
  <2>2. CASE l \in 1..n
    BY <1>2, <1>5, <1>8, <2>1, <2>2 DEF n
  <2>3. CASE l = n + 1
    BY <1>2, <1>5, <2>1, <2>3 DEF n
  <2> QED
    BY <1>6, <2>2, <2>3
<1>9. manifest[p].format = "stpp" =>
        /\ paragraphs' = FlatOf(CuesOf(c, e))
        /\ styles' \in Seq(STRING) /\ Distinct(styles') /\ Values(styles') = StylesOf(c, e)
  <2>1. manifest[p].format = "stpp" =>
          /\ paragraphs = FlatOf(CuesOf(c, delivered)) /\ Values(styles) = StylesOf(c, delivered)
    BY DEF MergeInv, Subtitle!Fetching, c
  <2> QED
    BY <1>1, <1>4, <2>1 DEF e
<1>10. delivered' = e /\ Len(delivered') = n + 1 /\ Listed(c, e) /\ manifest'[p'].contents = c
       /\ manifest'[p'].format = manifest[p].format /\ p' \in DOMAIN manifest'
  BY <1>2, <1>3, <1>4, <1>5 DEF e, c
<1> QED
  BY <1>3, <1>7, <1>8, <1>9, <1>10 DEF MergeInv

(* What a fragment of each kind brings is added to the document.            *)
LEMMA FragmentIsAdded ==
  ASSUME Subtitle!SubtitlesAssumption, SubtitleInv, MergeInv,
         Subtitle!DataFragment \/ Subtitle!FragmentArrives
  PROVE  MergeInv'
<1> DEFINE x == Subtitle!content
           stpp == manifest[p].format = "stpp"
<1>1. Subtitle!Fetching /\ manifest' = manifest /\ p' = p
  BY DEF Subtitle!DataFragment, Subtitle!FragmentArrives
<1>2. x \in Subtitle!Content
  BY <1>1, ContentInHand
<1> HIDE DEF x
<1>3. x.styles \in Seq(STRING) /\ x.cues \in Seq(Nat)
  BY <1>2 DEF Subtitle!Content
<1>4. stpp => /\ paragraphs \in Seq(Nat)
              /\ styles \in Seq(STRING) /\ Distinct(styles)
  <2>1. /\ manifest[p].contents \in Seq(Subtitle!Content) /\ delivered \in Seq(Nat)
        /\ f \in 1..Len(manifest[p].contents)
    BY <1>1, ContentInHand DEF SubtitleInv
  <2>2. /\ Listed(manifest[p].contents, delivered)
        /\ stpp => /\ paragraphs = FlatOf(CuesOf(manifest[p].contents, delivered))
                   /\ styles \in Seq(STRING) /\ Distinct(styles)
    BY <1>1 DEF MergeInv, Subtitle!Fetching
  <2>3. FlatOf(CuesOf(manifest[p].contents, delivered)) \in Seq(Nat)
    BY <2>1, <2>2, OneMoreDelivered
  <2> QED
    BY <2>2, <2>3
<1> DEFINE Added ==
             stpp => /\ paragraphs' = paragraphs \o CuesFrom(x)
                     /\ styles' \in Seq(STRING) /\ Distinct(styles')
                     /\ Values(styles') = Values(styles) \cup StylesFrom(x)
<1>5. ASSUME ~IsDocument(x), UNCHANGED <<paragraphs, styles>> PROVE Added
  <2>1. CuesFrom(x) = << >> /\ StylesFrom(x) = {}
    BY <1>5 DEF CuesFrom, StylesFrom
  <2>2. stpp => paragraphs \o << >> = paragraphs
    BY <1>4
  <2> HIDE DEF stpp
  <2> QED
    BY <1>4, <1>5, <2>1, <2>2
<1>6. ASSUME IsDocument(x), styles' = Subtitle!AddStyles(styles, x.styles),
             paragraphs' = paragraphs \o x.cues
      PROVE  Added
  <2>1. CuesFrom(x) = x.cues /\ StylesFrom(x) = Values(x.styles)
    BY <1>6 DEF CuesFrom, StylesFrom
  <2> SUFFICES ASSUME stpp PROVE /\ paragraphs' = paragraphs \o CuesFrom(x)
                                 /\ styles' \in Seq(STRING) /\ Distinct(styles')
                                 /\ Values(styles') = Values(styles) \cup StylesFrom(x)
    OBVIOUS
  <2>2. styles \in Seq(STRING) /\ Distinct(styles)
    BY <1>4
  <2> DEFINE more == x.styles
             all == Subtitle!AddStyles(styles, more)
  <2>3. more \in Seq(STRING)
    BY <1>3
  <2> HIDE DEF more
  <2>4. all \in Seq(STRING) /\ Distinct(all) /\ Values(all) = Values(styles) \cup Values(more)
    BY <2>2, <2>3, StylesAdded
  <2> HIDE DEF all
  <2>5. styles' = all
    BY <1>6 DEF all, more
  <2> QED
    BY <1>6, <2>1, <2>4, <2>5 DEF more
<1>7. ASSUME Subtitle!Settle, Added PROVE MergeInv'
  BY <1>1, <1>7, DocumentGrows DEF x
<1> HIDE DEF Added
<1>8. CASE Subtitle!DataFragment
  <2>1. ~IsDocument(x)
    BY <1>8 DEF Subtitle!DataFragment, IsDocument, x
  <2>2. CASE x.type # "video"
    <3>1. pc' = "err"
      BY <1>8, <2>2 DEF Subtitle!DataFragment, Subtitle!Return, x
    <3> QED
      BY <3>1 DEF MergeInv
  <2>3. CASE x.type = "video"
    <3>1. Subtitle!Settle /\ UNCHANGED <<paragraphs, styles>>
      BY <1>8, <2>3 DEF Subtitle!DataFragment, x
    <3> QED
      BY <1>5, <1>7, <2>1, <3>1
  <2> QED
    BY <2>2, <2>3
<1>9. CASE Subtitle!FragmentArrives
  <2>1. CASE Subtitle!Settle
    <3>1. CASE stpp
      <4>1. /\ pc' # "err" /\ x.source = "http" /\ Subtitle!period.format = "stpp"
        BY <1>9, <2>1, <3>1 DEF Subtitle!FragmentArrives, Subtitle!Settle, Subtitle!Goto, x,
                                Subtitle!period
      <4>2. /\ x.form = "tt" => /\ styles' = Subtitle!AddStyles(styles, x.styles)
                                /\ paragraphs' = paragraphs \o x.cues
            /\ x.form # "tt" => UNCHANGED <<styles, paragraphs>>
        BY <1>9, <4>1 DEF Subtitle!FragmentArrives, Subtitle!Return, x
      <4> QED
        BY <1>5, <1>6, <1>7, <2>1, <4>1, <4>2 DEF IsDocument
    <3>2. CASE ~stpp
      BY <1>7, <2>1, <3>2 DEF Added
    <3> QED
      BY <3>1, <3>2
  <2>2. CASE pc' = "err"
    BY <2>2 DEF MergeInv
  <2> QED
    BY <1>9, <2>1, <2>2 DEF Subtitle!FragmentArrives, Subtitle!Return
<1> QED
  BY <1>8, <1>9

(* Every other step leaves the document alone, or begins or leaves it.      *)
LEMMA DocumentKept ==
  ASSUME Subtitle!SubtitlesAssumption, SubtitleInv, MergeInv,
         \/ Subtitle!PlanPeriod \/ Subtitle!SidecarFails \/ Subtitle!SidecarArrives
         \/ Subtitle!ConvertSidecar \/ Subtitle!Planned \/ Subtitle!StartPeriod
         \/ Subtitle!FragmentRefused \/ Subtitle!BodyFails
         \/ Subtitle!Close \/ Subtitle!Save \/ Subtitle!Merge \/ Subtitle!Done
  PROVE  MergeInv'
<1> USE DEF Subtitle!Goto, Subtitle!Return
<1>1. CASE \/ Subtitle!PlanPeriod \/ Subtitle!SidecarFails \/ Subtitle!SidecarArrives
           \/ Subtitle!ConvertSidecar \/ Subtitle!Planned \/ Subtitle!BodyFails
           \/ Subtitle!Save \/ Subtitle!Merge \/ Subtitle!Done
  <2>1. pc' \notin {"fragment", "save"}
    BY <1>1 DEF Subtitle!PlanPeriod, Subtitle!SidecarFails, Subtitle!SidecarArrives,
                Subtitle!ConvertSidecar, Subtitle!Planned, Subtitle!BodyFails, Subtitle!Save,
                Subtitle!Merge, Subtitle!Done, Subtitle!PlanNext
  <2> QED
    BY <2>1 DEF MergeInv
<1>2. CASE Subtitle!StartPeriod
  <2> SUFFICES ASSUME pc' = "fragment" PROVE MergeInv'
    BY <1>2 DEF MergeInv, Subtitle!StartPeriod
  <2>1. /\ manifest' = manifest /\ p' = p /\ delivered' = << >> /\ styles' = << >>
        /\ paragraphs' = << >> /\ p \in Nat \ {0} /\ p <= Len(manifest)
        /\ manifest \in Seq(Subtitle!Period)
    BY <1>2 DEF Subtitle!StartPeriod, SubtitleInv, Subtitle!SubtitlesAssumption
  <2>2. p \in DOMAIN manifest /\ Len(<< >>) = 0 /\ 1..0 = {}
    BY <2>1
  <2>3. /\ Listed(manifest[p].contents, << >>) /\ Distinct(<< >>)
        /\ FlatOf(CuesOf(manifest[p].contents, << >>)) = << >> /\ << >> \in Seq(STRING)
        /\ Values(<< >>) = StylesOf(manifest[p].contents, << >>)
    BY NothingDelivered
  <2> QED
    BY <2>1, <2>2, <2>3 DEF MergeInv
<1>3. CASE Subtitle!FragmentRefused
  <2>1. /\ manifest' = manifest /\ p' = p /\ delivered' = delivered /\ styles' = styles
        /\ paragraphs' = paragraphs /\ pc = "fragment"
        /\ pc' = "err" \/ f' = f + 1
    BY <1>3 DEF Subtitle!FragmentRefused, Subtitle!Fetching
  <2>2. f \in Nat /\ \A k \in 1..Len(delivered) : delivered[k] \in Nat
    BY DEF SubtitleInv
  <2>3. \A k \in 1..Len(delivered) : delivered[k] < f + 1
    BY <2>1, <2>2 DEF MergeInv
  <2> QED
    BY <2>1, <2>3 DEF MergeInv
<1>4. CASE Subtitle!Close
  <2>1. /\ manifest' = manifest /\ p' = p /\ delivered' = delivered /\ styles' = styles
        /\ paragraphs' = paragraphs /\ pc = "fragment" /\ f' = f
    BY <1>4 DEF Subtitle!Close
  <2> QED
    BY <2>1 DEF MergeInv
<1> QED
  BY <1>1, <1>2, <1>3, <1>4

(* The document that is saved has the cues and the styles it should.        *)
LEMMA MergedDocumentHolds ==
  ASSUME Subtitle!SubtitlesAssumption, SubtitleInv, MergeInv
  PROVE  Subtitle!MergedDocument
<1> SUFFICES ASSUME pc = "save", Subtitle!period.format = "stpp"
             PROVE  /\ paragraphs = Subtitle!FlattenSeq(Subtitle!Cues)
                    /\ \A k, l \in DOMAIN delivered : k < l => delivered[k] < delivered[l]
                    /\ \A k, l \in DOMAIN styles : styles[k] = styles[l] => k = l \/ styles[k] = ""
                    /\ Subtitle!Range(styles) =
                         UNION {Subtitle!Range(Subtitle!Came(k).styles) : k \in Subtitle!Parsed}
  BY DEF Subtitle!MergedDocument
<1> DEFINE c == manifest[p].contents
<1>1. /\ paragraphs = FlatOf(CuesOf(c, delivered)) /\ Distinct(styles)
      /\ Values(styles) = StylesOf(c, delivered)
      /\ \A k, l \in 1..Len(delivered) : k < l => delivered[k] < delivered[l]
  BY DEF MergeInv, Subtitle!period
<1>2. DOMAIN delivered = 1..Len(delivered)
  BY DEF SubtitleInv
<1>3. \A k : Subtitle!Came(k) = c[delivered[k]]
  BY DEF Subtitle!Came, Subtitle!period
<1> HIDE DEF c
<1>4. Subtitle!Parsed = ParsedOf(c, delivered)
  BY <1>3 DEF Subtitle!Parsed, ParsedOf, IsDocument
<1>5. Subtitle!Cues = CuesOf(c, delivered)
  <2>1. ASSUME NEW k \in 1..Len(delivered)
        PROVE  (IF k \in Subtitle!Parsed THEN Subtitle!Came(k).cues ELSE << >>)
                 = CuesFrom(c[delivered[k]])
    BY <1>2, <1>3, <1>4 DEF ParsedOf, CuesFrom
  <2> QED
    BY <1>2, <2>1 DEF Subtitle!Cues, CuesOf
<1>6. \A a : Subtitle!FlattenSeq(a) = FlatOf(a)
  BY Zenon DEF Subtitle!FlattenSeq, FlatOf, IsFlat
<1>7. \A a : Subtitle!Range(a) = Values(a)
  BY DEF Subtitle!Range, Values
<1>8. UNION {Subtitle!Range(Subtitle!Came(k).styles) : k \in Subtitle!Parsed} = StylesOf(c, delivered)
  BY <1>3, <1>4, <1>7 DEF StylesOf
<1>9. \A k, l \in DOMAIN styles : styles[k] = styles[l] => k = l \/ styles[k] = ""
  BY <1>1 DEF Distinct
<1> QED
  BY <1>1, <1>2, <1>5, <1>6, <1>7, <1>8, <1>9

(* The document of a period has the cues of the fragments that came, in     *)
(* order and none twice, and one definition of every style they use         *)
(* (stpp.rs:140-190).                                                       *)
THEOREM DocumentsAreMerged ==
  ASSUME Subtitle!SubtitlesAssumption
  PROVE  Spec => []MergedDocument
<1> DEFINE Inv == procedure = "subtitles" => SubtitleInv /\ MergeInv
<1>1. Init => Inv
  BY SubtitleInit DEF Init, Subtitle!Init, MergeInv
<1>2. Inv /\ [Next]_vars => Inv'
  <2> SUFFICES ASSUME Inv, [Next]_vars, procedure' = "subtitles" PROVE SubtitleInv' /\ MergeInv'
    OBVIOUS
  <2>1. procedure = "subtitles" /\ SubtitleInv /\ MergeInv
    BY DEF Next, vars
  <2>2. CASE UNCHANGED vars
    <3>1. UNCHANGED <<manifest, p, f, pc, delivered, paragraphs, styles, download_errors>>
      BY <2>2 DEF vars, subtitleVars
    <3> QED
      BY <2>1, <3>1 DEF SubtitleInv, Placed, Paid, Subtitle!MissingBounded, Subtitle!period, MergeInv
  <2>3. CASE Next
    <3>1. Subtitle!Next
      BY <2>1, <2>3 DEF Next
    <3>2. SubtitleInv'
      BY <2>1, <3>1, SubtitleAround, SubtitleFragment DEF Subtitle!Next
    <3>3. MergeInv'
      BY <2>1, <3>1, FragmentIsAdded, DocumentKept DEF Subtitle!Next
    <3> QED
      BY <3>2, <3>3
  <2> QED
    BY <2>2, <2>3
<1>3. Inv => MergedDocument
  BY MergedDocumentHolds DEF MergedDocument
<1> QED
  BY <1>1, <1>2, <1>3, PTL DEF Spec
=============================================================================
