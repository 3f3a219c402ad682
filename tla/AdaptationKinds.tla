--------------------------- MODULE AdaptationKinds ---------------------------
(***************************************************************************)
(* Which stream an AdaptationSet belongs to: is_audio_adaptation,          *)
(* is_video_adaptation, is_subtitle_adaptation and subtitle_type of        *)
(* src/src/lib.rs.  The same thing may be said on the AdaptationSet and on *)
(* its Representations, by three attributes, any of which may be missing.  *)
(***************************************************************************)
EXTENDS Integers, Sequences

(* A codec is its family and profile, << >> if not given: "avc1.64000d" is *)
(* <<"avc1", "64000d">>.  One audio family stands for all of them.  STPP   *)
(* may have a profile; "wvtt" stands for the formats compared as a whole.  *)
AudioCodecs == {"mp4a"}
is_audio_codec(codecs) == codecs # << >> /\ codecs[1] \in AudioCodecs
is_subtitle_codec(codecs) ==
  codecs = <<"wvtt">> \/ (codecs # << >> /\ codecs[1] = "stpp")

SubtitleMimes == {"vtt", "ttml"}
is_subtitle_mimetype(mime) == mime \in SubtitleMimes

(* What an element says of its content; "video" is any video/ MIME type.   *)
ContentTypes == {"none", "audio", "video", "text"}
MimeTypes == {"none", "audio", "video", "other"} \cup SubtitleMimes

(* An AdaptationSet a has contentType, mime and codecs, the flag text (a   *)
(* ContentComponent of type text, or a Role of subtitle), and a sequence   *)
(* of representations, which have the same labels.                         *)
SaysAudio(x) == x.contentType = "audio" \/ x.mime = "audio"

is_audio_adaptation(a) ==
  \/ is_audio_codec(a.codecs) \/ SaysAudio(a)
  \/ \E i \in DOMAIN a.representations : SaysAudio(a.representations[i])

(* Mutant of RepresentationIsVideo: the codec is not looked at.            *)
RepresentationIsVideo_AnyCodec(a, i) ==
  LET r == a.representations[i] IN r.contentType = "video" \/ r.mime = "video"

(* The Representations are looked at in order: one with a subtitle codec   *)
(* ends the search.                                                        *)
RepresentationIsVideo(a, i) ==
  LET r == a.representations[i] IN
  /\ r.contentType = "video" \/ (r.mime = "video" /\ ~is_subtitle_codec(r.codecs))
  /\ \A j \in 1..(i - 1) : ~is_subtitle_codec(a.representations[j].codecs)

is_video_adaptation(a) ==
  /\ ~is_audio_adaptation(a)
  /\ \/ a.contentType = "video" \/ a.mime = "video"
     \/ \E i \in DOMAIN a.representations : RepresentationIsVideo(a, i)

SaysSubtitles(x) == is_subtitle_mimetype(x.mime) \/ is_subtitle_codec(x.codecs)

is_subtitle_adaptation(a) ==
  \/ SaysSubtitles(a) \/ a.contentType = "text" \/ a.text
  \/ \E i \in DOMAIN a.representations : SaysSubtitles(a.representations[i])

IsOfKind(kind, a) ==
  \/ kind = "audio" /\ is_audio_adaptation(a)
  \/ kind = "video" /\ is_video_adaptation(a)
  \/ kind = "subs" /\ is_subtitle_adaptation(a)

(* The format of the first element that says one: the MIME type goes       *)
(* before the codec, the AdaptationSet before its Representations.         *)
FormatSaid(x) == IF is_subtitle_mimetype(x.mime) THEN x.mime ELSE x.codecs[1]

subtitle_type(a) ==
  LET said == {i \in DOMAIN a.representations : SaysSubtitles(a.representations[i])}
      first == CHOOSE i \in said : \A j \in said : i <= j
  IN  IF SaysSubtitles(a) THEN FormatSaid(a)
      ELSE IF said = {} THEN "unknown" ELSE FormatSaid(a.representations[first])

(* All that an element says is about one medium: WebVTT and TTML also come *)
(* in files that have the MIME type of video.                              *)
SaysOnly(medium, x) ==
  /\ x.contentType \in {"none", medium}
  /\ x.mime \in {"none", "other", medium} \cup IF medium = "text" THEN {"video"} \cup SubtitleMimes ELSE {}
  /\ x.codecs # << >> =>
       /\ is_audio_codec(x.codecs) <=> medium = "audio"
       /\ is_subtitle_codec(x.codecs) <=> medium = "text"
OneMedium(a) ==
  \E medium \in {"audio", "video", "text"} :
    /\ SaysOnly(medium, a) /\ (a.text => medium = "text")
    /\ \A i \in DOMAIN a.representations : SaysOnly(medium, a.representations[i])
=============================================================================
