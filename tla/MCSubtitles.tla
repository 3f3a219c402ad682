---------------------------- MODULE MCSubtitles -----------------------------
(***************************************************************************)
(* What the runs make subtitles of: values of the constants of Subtitles.  *)
(***************************************************************************)
EXTENDS Integers, Sequences

LOCAL C(form, names, cues) ==
  [source |-> "http", type |-> "other", form |-> form, styles |-> names, cues |-> cues]
LOCAL Data(type, cues) == [C("tt", << >>, cues) EXCEPT !.source = "data", !.type = type]
LOCAL P(mode, format, contents) == [mode |-> mode, format |-> format, contents |-> contents]

LOCAL First == C("tt", <<"s", "">>, <<1, 2>>)
LOCAL Second == C("tt", <<"s", "t", "">>, <<2, 3>>)
LOCAL Odd == {C("foreign", <<"u">>, <<4>>), C("malformed", << >>, <<4>>), C("binary", << >>, <<4>>),
        Data("video", <<4>>), Data("other", <<4>>)}

LOCAL NoSubtitles == P("none", "srt", << >>)
LOCAL Fragmented == {P("fragments", x, <<First, Second>>) : x \in {"stpp", "vtt", "wvtt", "srt"}}
LOCAL OddOnes == {P("fragments", x, <<First, o, Second>>) : x \in {"stpp", "vtt"}, o \in Odd}
LOCAL Sidecars == {P("sidecar", x, <<C("tt", << >>, <<7>>)>>) : x \in {"stpp", "vtt", "wvtt", "srt"}}

MCSubtitleManifests ==
  {<<x, y>> : x \in Fragmented, y \in Fragmented \cup Sidecars \cup {NoSubtitles}}
    \cup {<<x, y>> : x \in Sidecars, y \in Fragmented} \cup {<<x>> : x \in OddOnes}
    \cup {<<P("fragments", "stpp", << >>), P("fragments", "stpp", <<First>>)>>,
          <<P("fragments", "stpp", <<First>>), P("fragments", "stpp", <<C("foreign", << >>, <<4>>)>>)>>}

LOCAL NoFiles == [x \in {} |-> << >>]
LOCAL OldSrt == [x \in {<<"srt", 1>>} |-> <<9>>]
MCLeftovers == {NoFiles, OldSrt}
MCSubtitleContainers == {"mp4", "mkv"}
=============================================================================
