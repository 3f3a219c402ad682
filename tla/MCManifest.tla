----------------------------- MODULE MCManifest ------------------------------
(***************************************************************************)
(* What the runs request: values of ManifestFetch's constants.             *)
(***************************************************************************)
EXTENDS Integers, Sequences

LOCAL Place(server, directory) == <<server, directory, "m.mpd">>
LOCAL Here == Place("a.com", "x")
LOCAL There == Place("b.com", "y")
LOCAL Elsewhere == Place("c.com", "z")
LOCAL Disk == Place("file:", "d")

LOCAL Url(place, query) == [place |-> place, query |-> query]
LOCAL Abs(place, query) == [form |-> "absolute", place |-> place, query |-> query]
LOCAL Rel(place, query) == [form |-> "relative", place |-> place, query |-> query]
LOCAL Bad == [form |-> "malformed", place |-> << >>, query |-> "none"]

LOCAL NoStream == [adaptation |-> << >>, representation |-> << >>]
LOCAL Plain(base) == [base |-> base, streams |-> [k \in {"audio", "video", "subs"} |-> NoStream]]
LOCAL Mpd ==
  [form |-> "mpd", links |-> << >>, locations |-> << >>, dynamic |-> FALSE, base |-> << >>,
   periods |-> <<Plain(<< >>)>>]

(* A request to the first server may be redirected to the second, which    *)
(* wants a token from then on.                                             *)
MCRedirects == [p \in {Here} |-> {Url(Here, "none"), Url(There, "token")}]

(* Manifests with a Location, good or bad, found where it leads or not.    *)
LOCAL Locations ==
  {<< >>, <<Abs(Elsewhere, "t")>>, <<Abs(Here, "u"), Bad>>, <<Rel(<<"m.mpd">>, "none")>>, <<Abs(Disk, "none")>>}
LOCAL Links == {<< >>, <<Rel(<<"l", "p.xml">>, "q"), Abs(There, "none")>>, <<Bad>>}
LOCAL Relocations ==
  {[p \in {Here, There, Elsewhere, Disk} |->
      [Mpd EXCEPT !.locations = l, !.links = k, !.dynamic = (p = Elsewhere) # d,
                  !.form = IF p = Elsewhere THEN f ELSE "mpd"]] :
     l \in Locations, k \in Links, d \in BOOLEAN, f \in {"mpd", "other"}}
    \cup {[p \in {Elsewhere} |-> Mpd], [p \in {Here} |-> [Mpd EXCEPT !.form = "invalid"]]}

(* References on each of the levels, of audio and of subtitles.            *)
LOCAL Some == {<< >>, <<Rel(<<"s", "">>, "none")>>, <<Abs(<<"d.com", "v", "f">>, "k")>>}
LOCAL Others == Some \cup {<<Rel(<<"f">>, "r")>>, <<Bad>>}
LOCAL Based(top, period, adaptation, representation) ==
  [p \in {Here, There} |->
     [Mpd EXCEPT !.base = top,
        !.periods = <<[Plain(period) EXCEPT
                         !.streams.audio = [adaptation |-> adaptation, representation |-> representation],
                         !.streams.subs = [adaptation |-> representation, representation |-> adaptation]],
                      [Plain(<< >>) EXCEPT !.streams.video.representation = representation]>>]]
LOCAL Bases ==
  {Based(t, p, a, r) : t \in Others, p \in Some \cup {<<Bad>>}, a \in Some, r \in Others}

MCWebs == Relocations \cup Bases

LOCAL Call(place, styles, live, base, fetch) ==
  [url |-> Url(place, "none"), base |-> base, stylesheets |-> styles, live |-> live, fetch |-> fetch,
   persist |-> live]
LOCAL AllKinds == {"audio", "video", "subs"}
MCSettings ==
  {Call(Here, << >>, TRUE, << >>, AllKinds),
   Call(Here, <<{"dynamic"}, {"locations"}>>, FALSE, << >>, {"audio", "subs"})}
    \cup {Call(Disk, << >>, FALSE, << >>, {}),
          Call(Here, <<{"base"}>>, TRUE, <<Rel(<<"o", "">>, "none")>>, {"video", "subs"}),
          Call(Here, << >>, TRUE, <<Bad>>, {})}
=============================================================================
