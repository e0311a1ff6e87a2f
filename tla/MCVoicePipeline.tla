------------------------- MODULE MCVoicePipeline -------------------------
(***************************************************************************)
(* A small instance of VoicePipeline: the key with the local Whisper       *)
(* thread, automatic voice with remote transcription, and voice turned     *)
(* off, as it also is while the pet is hidden.                             *)
(***************************************************************************)
EXTENDS VoicePipeline

Voices == {<<"push", "local">>, <<"auto", "remote">>, <<"off", "none">>}
====
