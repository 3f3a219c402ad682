----------------------------- MODULE MCStreamHttp -----------------------------
EXTENDS StreamHttp

(* Fragments of the period in hand and of another one before, between and  *)
(* after them; embedded in the manifest, as they should be or not; and two *)
(* of the same period in a row.                                            *)
Http(per) == [period |-> per, source |-> "http"]
Data(per) == [period |-> per, source |-> "data"]
Alien(per) == [period |-> per, source |-> "alien"]
MCPlans ==
  {<<Http(1), Http(1)>>, <<Data(1), Http(2), Http(1)>>, <<Http(2), Http(2), Http(1)>>,
   <<Http(1), Alien(1)>>}

DistinctNames == [p \in 1..3 |-> <<"a", "b", "c">>[p]]
=============================================================================
