------------------------------ MODULE MCHelpers -------------------------------
EXTENDS Helpers, MCSubtitles

ASSUME SubtitlesTyped == Subtitle!SubtitlesAssumption
ASSUME ConcatTyped == Concat!ConcatAssumption

(* Every decryptor and one that does not exist.                            *)
MCDecryptors ==
  {"mp4decrypt", "shaka", "shaka-container", "mp4box", "mp4box-container", "openssl"}

(* Lists with every helper, with one, and with names that are no helpers.  *)
MCMuxOrderings == {<<"default">>, <<"vlc", "gpac", "mkvmerge", "ffmpeg">>, <<"mkvmerge">>}
MCConcatOrderings ==
  {<<"default">>, <<"ffmpegdemuxer", "mkvmerge", "mp4box">>, <<"mencoder", "ffmpeg">>, <<"mencoder">>}
=============================================================================
