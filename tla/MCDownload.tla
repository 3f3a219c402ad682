------------------------------ MODULE MCDownload ------------------------------
EXTENDS Download

P(audio, video, subs) ==
  [audio |-> audio, video |-> video, subs |-> subs, stpp |-> subs > 0, short |-> FALSE]
Short(p) == [p EXCEPT !.short = TRUE]

O(fetch, keep, persist, concatenate) ==
  [fetch |-> fetch, keep |-> keep, persist |-> persist, concatenate |-> concatenate,
   mkvmerge |-> FALSE, checked |-> FALSE]
Mkvmerge(o) == [o EXCEPT !.mkvmerge = TRUE]
Checked(o) == [o EXCEPT !.checked = TRUE]

AVOnly == {"audio", "video"}

(* The longest manifest the u8 counter stands, and the first one that it   *)
(* does not; only the last period is long enough to be fetched.            *)
Long(n) == [k \in 1..n |-> IF k = n THEN P(0, 1, 0) ELSE Short(P(0, 1, 0))]
LongManifests == {Long(256)}

(* One, two or three periods, with and without audio, one of them skipped. *)
MCManifests ==
  {<<p, q>> : p \in {P(1, 1, 0), P(0, 2, 0), Short(P(1, 1, 0)), P(1, 0, 1)},
              q \in {P(1, 1, 0), Short(P(1, 1, 0)), P(1, 0, 1)}}
    \cup {<<P(2, 1, 1)>>, <<P(0, 1, 0), P(1, 1, 0), P(0, 1, 0)>>}
    \cup {Long(255), Long(256)}

MCOptions ==
  {O(AVOnly, {}, FALSE, c) : c \in BOOLEAN}
    \cup {Mkvmerge(O(Kinds, {"audio"}, p, TRUE)) : p \in BOOLEAN}
    \cup {O({"subs"}, {}, FALSE, FALSE), Checked(O({"video"}, {}, FALSE, FALSE))}

VideoOnly == {O({"video"}, {}, FALSE, FALSE)}
=============================================================================
