--------------------------- MODULE OrderedDelivery ---------------------------
(***************************************************************************)
(* What the stream fetchers of src/src/fetch.rs (fetch_period_audio and    *)
(* fetch_period_video) promise their caller, without retries or requests:  *)
(* the fragments of one period are settled one after the other in the      *)
(* order of the manifest; each is delivered to the output, lost, or        *)
(* discarded; losing one is paid for from a budget that all the streams of *)
(* the download share; a stream completes only when every fragment is      *)
(* settled, and may fail at any time.                                      *)
(***************************************************************************)
EXTENDS Integers, Sequences

CONSTANTS
  Positions,        (* Places a fragment may have in its plan.             *)
  LossCost,         (* Errors paid for one lost fragment.                  *)
  Budget,           (* Errors that the whole download may spend.           *)
  MayDiscard        (* Are fragments of the wrong content type dropped?    *)

VARIABLES
  wanted,           (* Positions of the fragments of the stream in hand.   *)
  settled,          (* Those of them already delivered, lost or discarded. *)
  out,              (* The positions written to the output, in order.      *)
  losses,           (* Fragments lost by all the streams so far.           *)
  status

vars == <<wanted, settled, out, losses, status>>

Init ==
  /\ wanted = {}
  /\ settled = {}
  /\ out = << >>
  /\ losses = 0
  /\ status = "idle"

(* A new stream starts; earlier streams completed.                         *)
Begin ==
  /\ status \in {"idle", "complete"}
  /\ wanted' \in SUBSET Positions
  /\ settled' = {}
  /\ out' = << >>
  /\ status' = "running"
  /\ UNCHANGED losses

(* The next fragment in manifest order is dealt with.                      *)
Settle(p) ==
  /\ status = "running"
  /\ p \in wanted \ settled
  /\ \A q \in wanted \ settled : p <= q
  /\ settled' = settled \cup {p}
  /\ UNCHANGED <<wanted, status>>

Deliver == \E p \in wanted : Settle(p) /\ out' = Append(out, p) /\ UNCHANGED losses

Lose ==
  /\ \E p \in wanted : Settle(p)
  /\ losses' = losses + 1
  /\ losses' * LossCost <= Budget
  /\ UNCHANGED out

Discard == MayDiscard /\ (\E p \in wanted : Settle(p)) /\ UNCHANGED <<out, losses>>

Complete ==
  /\ status = "running"
  /\ settled = wanted
  /\ status' = "complete"
  /\ UNCHANGED <<wanted, settled, out, losses>>

Fail ==
  /\ status = "running"
  /\ status' = "failed"
  /\ UNCHANGED <<wanted, settled, out, losses>>

Next == Begin \/ Deliver \/ Lose \/ Discard \/ Complete \/ Fail

Spec == Init /\ [][Next]_vars
=============================================================================
