----------------------------- MODULE MCSelection ------------------------------
(***************************************************************************)
(* What the runs select from: values of Selection's constant.              *)
(***************************************************************************)
EXTENDS Integers, Sequences

LOCAL None == -1

(* Representations: of audio and video by what matters to one preference.  *)
LOCAL R(id) ==
  [contentType |-> "none", mime |-> "none", codecs |-> << >>, id |-> id, width |-> None,
   height |-> None, ranking |-> None, bandwidth |-> None]
LOCAL A(mime, lang, roles, representations) ==
  [contentType |-> "none", mime |-> mime, codecs |-> << >>, text |-> FALSE, lang |-> lang,
   roles |-> roles, representations |-> representations]
LOCAL Ask(kind, adaptations) ==
  [kind |-> kind, adaptations |-> adaptations, language |-> FALSE, roles |-> <<3, 1>>,
   ids |-> {"any"}, width |-> None, height |-> None, codecs |-> << >>, quality |-> "lowest"]

Qualities == {"lowest", "intermediate", "highest"}

(* Roles are 1 alternate, 2 commentary, 3 main and 4 supplementary; the    *)
(* language of an AdaptationSet is the one wanted, at a distance, unknown  *)
(* or very far.                                                            *)
LOCAL Roles == {<< >>, <<1>>, <<3>>}
Languages ==
  {[Ask(k, <<A(m, l1, r1, <<R("x")>>), A(m, l2, r2, <<R(id)>>), A(m, 2, <<4, 2>>, s)>>)
      EXCEPT !.language = w, !.roles = p] :
     <<k, m>> \in {<<"audio", "audio">>, <<"subs", "vtt">>}, l1 \in {0, 3, None}, l2 \in {2, 300, None},
     r1 \in Roles, r2 \in Roles, id \in {"x", "y"}, s \in {<<R("z")>>, << >>}, w \in BOOLEAN,
     p \in {<< >>, <<3, 1>>, <<1, 3>>, <<3, 1, 4, 2>>}}

(* Three Representations, with and without rankings and bandwidths.        *)
LOCAL Bandwidths == {None, 1, 2, 3}
ByQuality ==
  {[Ask(k, <<A(k, None, << >>, <<[R("x") EXCEPT !.bandwidth = b1, !.ranking = q1],
                                 [R("y") EXCEPT !.bandwidth = b2, !.ranking = q2],
                                 [R("z") EXCEPT !.bandwidth = b3, !.ranking = q3]>>)>>)
      EXCEPT !.quality = q] :
     k \in {"audio", "video"}, b1 \in Bandwidths, b2 \in Bandwidths, b3 \in Bandwidths,
     q1 \in {None, 1}, q2 \in {1, 2}, q3 \in {None, 2, 3}, q \in Qualities}

(* Pictures of two AdaptationSets, of many sizes and codecs.               *)
LOCAL V(id, w, h, c, b) ==
  [R(id) EXCEPT !.width = w, !.height = h, !.codecs = c, !.bandwidth = b, !.mime = "video"]
ByPicture ==
  {[Ask("video", <<A("none", None, << >>, <<V("x1", w1, 3, c1, 2), V("x2", 6, h2, c2, 1)>>),
                   A("none", None, << >>, <<V("y1", 6, 2, <<"avc1", "64">>, 3),
                                            V("y2", 4, 4, <<"avc1", "42">>, None)>>)>>)
      EXCEPT !.width = w, !.height = h, !.codecs = c, !.ids = i, !.quality = q] :
     w1 \in {None, 4, 6}, h2 \in {None, 2, 3}, c1 \in {<< >>, <<"avc1", "42">>, <<"av01", "0">>},
     c2 \in {<<"avc1", "64">>, <<"av01", "0">>}, w \in {None, 5}, h \in {None, 2},
     c \in {<< >>, <<<<"av01">>, <<"avc1">>>>, <<<<"avc1", "64">>, <<"hev1">>>>},
     i \in {{"any"}, {"x1", "x2"}, {}}, q \in {"lowest", "highest"}}

(* Labels of every kind of AdaptationSet, in the ways that are in use.     *)
LOCAL Ways(ct, mime, codecs) ==
  {[A(m2, None, << >>, <<[R("x") EXCEPT !.codecs = c, !.contentType = t, !.mime = m]>>)
      EXCEPT !.contentType = t2] :
     t \in {"none", ct}, m \in {"none", mime}, c \in {<< >>, codecs}, t2 \in {"none", ct},
     m2 \in {"none", mime}}
Labelled ==
  UNION {Ways("audio", "audio", <<"mp4a", "40">>), Ways("video", "video", <<"avc1", "64">>),
         Ways("text", "vtt", <<"wvtt">>), Ways("text", "ttml", <<"stpp", "ttml">>)}
WebVTTInMP4 ==
  {[A(m2, None, << >>, <<[R("x") EXCEPT !.codecs = c, !.contentType = t, !.mime = m]>>)
      EXCEPT !.codecs = c2, !.text = x] :
     c \in {<< >>, <<"wvtt">>}, t \in {"none", "text"}, m \in {"none", "video"}, m2 \in {"none", "video"},
     c2 \in {<< >>, <<"wvtt">>, <<"wvtt", "x">>}, x \in BOOLEAN}
ByLabels ==
  {Ask(k, <<a, A("audio", None, << >>, <<R("y")>>)>>) :
     k \in {"audio", "video", "subs"}, a \in Labelled \cup WebVTTInMP4}

MCCalls == Languages \cup ByQuality \cup ByPicture \cup ByLabels

(* A main and an alternate AdaptationSet, and the preferences a downloader *)
(* has by default.                                                         *)
DefaultRoles ==
  {Ask("audio", <<A("audio", None, <<3>>, <<R("x")>>), A("audio", None, <<1>>, <<R("y")>>)>>)}
=============================================================================
