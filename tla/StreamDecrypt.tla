---------------------------- MODULE StreamDecrypt ----------------------------
(***************************************************************************)
(* The end of fetch_period_audio and fetch_period_video (src/src/fetch.rs) *)
(* when decryption keys are given: a helper program, run by one of the     *)
(* functions of src/src/decryption.rs, writes a decrypted copy of the      *)
(* stream's file, which then takes its place.                              *)
(*                                                                         *)
(* The exit status of a helper is logged and not acted upon: a helper is   *)
(* judged by the file it leaves.                                           *)
(***************************************************************************)
EXTENDS TLC

CONSTANTS
  Decryptors,         (* Values of decryptor_preference tried.             *)
  Inputs              (* What the stream's file may hold at the start.     *)

Known == {"mp4decrypt", "shaka", "shaka-container", "mp4box", "mp4box-container"}
InContainer == {"shaka-container", "mp4box-container"}
UsesKeyFile == {"mp4box", "mp4box-container"}

(* A file is absent, empty, the encrypted stream, a part of the decrypted  *)
(* stream or all of it.                                                    *)
Content == {"absent", "empty", "cipher", "partial", "clear"}

VARIABLES
  decryptor,          (* downloader.decryptor_preference                   *)
  keep,               (* keep_audio / keep_video: the stream's file is not *)
                      (* in the temporary directory.                       *)
  persist,            (* DASHMPD_PERSIST_FILES                             *)
  input,              (* What the stream's file holds at the start.        *)
  tmppath,            (* The stream's file.                                *)
  decrypted,          (* The temporary file for the decrypted copy.        *)
  stray,              (* A file of that name in the directory of tmppath.  *)
  key_file,           (* Is there an XML file with the keys?               *)
  produced,           (* History: what the helper wrote.                   *)
  pc, fault

files == <<tmppath, decrypted, stray>>
Args == <<decryptor, keep, persist, input>>
vars == <<Args, files, key_file, produced, pc, fault>>

(* tmp_file_path leaves an empty file behind if files persist.             *)
Init ==
  /\ decryptor \in Decryptors /\ keep \in BOOLEAN /\ persist \in BOOLEAN
  /\ input \in Inputs /\ tmppath = input
  /\ decrypted = "absent" /\ stray = "absent"
  /\ key_file = FALSE /\ produced = "absent"
  /\ pc = "prepare" /\ fault = "none"

Goto(label) == pc' = label /\ UNCHANGED fault

Stop(kind) == pc' = "err" /\ fault' = kind

Prepare ==
  /\ pc = "prepare"
  /\ decrypted' = IF persist THEN "empty" ELSE "absent"
  /\ IF decryptor \in Known
       THEN Goto(IF decryptor \in UsesKeyFile THEN "keys"
                 ELSE IF decryptor \in InContainer THEN "pull" ELSE "run")
       ELSE Stop("Decrypting")
  /\ UNCHANGED <<Args, tmppath, stray, key_file, produced>>

(* The metadata of the stream cannot be read, or no temporary file made.   *)
NoTempFile ==
  /\ pc \in {"prepare", "keys"}
  /\ Stop("Io")
  /\ UNCHANGED <<Args, files, key_file, produced>>

(* The two MP4Box helpers write the keys to a file of their own.           *)
WriteKeys ==
  /\ pc = "keys"
  /\ \/ key_file' = TRUE /\ Goto(IF decryptor \in InContainer THEN "pull" ELSE "run")
     \/ key_file' = TRUE /\ Stop("Io")       (* Written in part.           *)
  /\ UNCHANGED <<Args, files, produced>>

(* The image of the container is pulled first.                             *)
Pull ==
  /\ pc = "pull"
  /\ Goto("run") \/ Stop("Decrypting")
  /\ UNCHANGED <<Args, files, key_file, produced>>

(* A program that cannot be started is an error at once.                   *)
SpawnFails ==
  /\ pc = "run"
  /\ Stop(IF decryptor \in {"mp4decrypt", "shaka"} THEN "Io" ELSE "Decrypting")
  /\ UNCHANGED <<Args, files, key_file, produced>>

(* The helper leaves nothing, an empty file, a part or the whole.  It runs *)
(* in a container that sees the directory of tmppath: if that is not the   *)
(* temporary directory, its output is a stray file there, and MP4Box finds *)
(* no key file.                                                            *)
Elsewhere == decryptor \in InContainer /\ keep

Run ==
  /\ pc = "run"
  /\ produced' \in (IF tmppath = "empty" \/ (Elsewhere /\ decryptor \in UsesKeyFile)
                      THEN {"absent", "empty"}
                      ELSE {"absent", "empty", "partial", "clear"})
  /\ IF produced' = "absent" THEN UNCHANGED <<decrypted, stray>>
     ELSE IF Elsewhere THEN stray' = produced' /\ UNCHANGED decrypted
     ELSE decrypted' = produced' /\ UNCHANGED stray
  /\ key_file' \in (IF persist THEN {key_file} ELSE {FALSE, key_file})  (* Deleting may fail. *)
  /\ Goto("judge")
  /\ UNCHANGED <<Args, tmppath>>

(* Mutant of NoOutput: every helper is judged as shaka is.                 *)
NoOutput_AnyFile == decryptor # "shaka-container" /\ decrypted = "absent"

(* mp4decrypt and MP4Box must have left a file that is not empty, shaka a  *)
(* file; the container of shaka is not judged: no_output stays false.      *)
NoOutput ==
  CASE decryptor = "shaka-container" -> FALSE
    [] decryptor = "shaka" -> decrypted = "absent"
    [] OTHER -> decrypted \in {"absent", "empty"}

Judge ==
  /\ pc = "judge"
  /\ IF NoOutput THEN Stop("Decrypting") ELSE Goto("check")
  /\ UNCHANGED <<Args, files, key_file, produced>>

(* The caller looks for the file, deletes the encrypted one and renames.   *)
Check ==
  /\ pc = "check"
  /\ IF decrypted = "absent" THEN Stop("Decrypting") ELSE Goto("remove")
  /\ UNCHANGED <<Args, files, key_file, produced>>

Remove ==
  /\ pc = "remove"
  /\ \/ tmppath' = "absent" /\ Goto("rename")
     \/ Stop("Io") /\ UNCHANGED tmppath
  /\ UNCHANGED <<Args, decrypted, stray, key_file, produced>>

(* Fails, among others, when a kept file is on another file system.        *)
Rename ==
  /\ pc = "rename"
  /\ \/ tmppath' = decrypted /\ decrypted' = "absent" /\ Goto("ok")
     \/ Stop("Io") /\ UNCHANGED <<tmppath, decrypted>>
  /\ UNCHANGED <<Args, stray, key_file, produced>>

Next ==
  \/ Prepare \/ NoTempFile \/ WriteKeys \/ Pull \/ SpawnFails \/ Run
  \/ Judge \/ Check \/ Remove \/ Rename

Spec == Init /\ [][Next]_vars

-----------------------------------------------------------------------------

(* "Undecrypted stream left in inpath" (decryption.rs:71, 128, 258, 319,   *)
(* 384): whatever a helper did, a decryption that is reported as failed    *)
(* has not touched the encrypted stream.  Between its deletion and the     *)
(* renaming, and after either fails, the stream is somewhere: it is only   *)
(* deleted for a file with media in it.  Not so for the two shaka helpers, *)
(* whose output may be empty.                                              *)
Media == {"cipher", "partial", "clear"}
StreamSurvives ==
  /\ fault = "Decrypting" => tmppath = input
  /\ decryptor \notin {"shaka", "shaka-container"} /\ input = "cipher"
       => tmppath \in Media \/ decrypted \in Media

(* "We know that both inpath and outpath are created in the same system    *)
(* temporary directory" (decryption.rs:149): a helper that decrypted the   *)
(* whole stream is not taken for one that failed.                          *)
CleanRunAccepted == produced = "clear" => fault # "Decrypting"
=============================================================================
