------------------------------- MODULE XLink --------------------------------
(***************************************************************************)
(* Resolving the remote elements of a manifest: parse_resolving_xlinks and *)
(* resolve_xlink_references (src/src/fetch.rs).  Each round collects the   *)
(* elements that have an xlink:href, and replaces them one by one with     *)
(* what is fetched from there, which may have links of its own.            *)
(*                                                                         *)
(* The elements are those of one level, say the Periods of a manifest; the *)
(* stylesheets applied to the result are the user's and not modelled.      *)
(***************************************************************************)
EXTENDS Integers, Sequences, SequencesExt

CONSTANTS
  Documents,          (* Manifests: sequences of elements.                 *)
  Hrefs,              (* What links may point to.                          *)
  Remote              (* The elements found there.                         *)

(* Links that are not fetched: resolve-to-zero, and an empty one.          *)
Unfetched == {"none", "zero", "empty"}
Element == [id : STRING, href : Unfetched \cup Hrefs]

XLinkAssumption ==
  /\ Hrefs \cap Unfetched = {}
  /\ Documents \subseteq Seq(Element) /\ Remote \in [Hrefs -> Seq(Element)]

VARIABLES
  document,           (* The manifest as received.                         *)
  before, after,      (* Its elements up to the link in hand and from it   *)
                      (* on: those inserted in this round are in before.   *)
  round,
  pc, fault

vars == <<document, before, after, round, pc, fault>>

Rounds == 4           (* for _ in 1..5                                     *)

Init ==
  /\ document \in Documents /\ before = << >> /\ after = document
  /\ round = 1 /\ pc = "resolve" /\ fault = "none"

link == Head(after)
Resolving == pc = "resolve" /\ round <= Rounds /\ after # << >>

(* No xlink:href, or one that is neither fetched nor removed.              *)
Keep ==
  /\ Resolving /\ link.href \in {"none", "empty"}
  /\ before' = Append(before, link) /\ after' = Tail(after)
  /\ UNCHANGED <<document, round, pc, fault>>

ResolveToZero ==
  /\ Resolving /\ link.href = "zero"
  /\ after' = Tail(after)
  /\ UNCHANGED <<document, before, round, pc, fault>>

(* Mutant of Inserted: only the first element received is used.            *)
Inserted_First(elements) == IF elements = << >> THEN << >> ELSE <<Head(elements)>>

(* Every element received is inserted right after the link: the last one   *)
(* comes first.  Then the link is removed.                                 *)
Inserted(elements) == Reverse(elements)

Fetch ==
  /\ Resolving /\ link.href \in Hrefs
  /\ before' = before \o Inserted(Remote[link.href]) /\ after' = Tail(after)
  /\ UNCHANGED <<document, round, pc, fault>>

(* A request that fails, or content that is no XML, ends the download.     *)
FetchFails ==
  /\ Resolving /\ link.href \in Hrefs
  /\ pc' = "err" /\ fault' \in {"Network", "Parsing"}
  /\ UNCHANGED <<document, before, after, round>>

(* The result of a round is parsed again and looked through for links.     *)
NextRound ==
  /\ pc = "resolve" /\ round <= Rounds /\ after = << >>
  /\ round' = round + 1
  /\ after' = before /\ before' = << >>
  /\ UNCHANGED <<document, pc, fault>>

(* The elements that remain are read into the library's data structures.   *)
Parse ==
  /\ pc = "resolve" /\ round > Rounds
  /\ \/ pc' = "ok" /\ UNCHANGED fault
     \/ pc' = "err" /\ fault' = "Parsing"
  /\ UNCHANGED <<document, before, after, round>>

Next == Keep \/ ResolveToZero \/ Fetch \/ FetchFails \/ NextRound \/ Parse

Spec == Init /\ [][Next]_vars

-----------------------------------------------------------------------------
(* The document after n rounds, as one reads it: what a link stands for is *)
(* in the link's place and in its own order.                               *)
Meaning(element) ==
  IF element.href \in Hrefs THEN Remote[element.href]
  ELSE IF element.href = "zero" THEN << >> ELSE <<element>>
Resolved(elements) == FlattenSeq([k \in DOMAIN elements |-> Meaning(elements[k])])
Expanded[n \in 0..Rounds] == IF n = 0 THEN document ELSE Resolved(Expanded[n - 1])

Count(element, seq) == Cardinality({k \in DOMAIN seq : seq[k] = element})
SameBag(seq1, seq2) ==
  /\ Len(seq1) = Len(seq2)
  /\ \A k \in DOMAIN seq1 : Count(seq1[k], seq1) = Count(seq1[k], seq2)

(* However links nest and insertions shift what follows, the manifest that *)
(* is parsed has just the elements of four rounds of resolution, each as   *)
(* many times (fetch.rs:2120-2231, 2259-2261), though several that replace *)
(* one link come in reverse order.                                         *)
SameElements == pc = "ok" => SameBag(after, Expanded[Rounds])
=============================================================================
