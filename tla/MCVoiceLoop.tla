---------------------------- MODULE MCVoiceLoop ----------------------------
(* Chunks of PCM that last as long as they are, and encoded ones that do not. *)
EXTENDS VoiceLoop

MCLengths == {1, 2}
MCPcm == {1}
=============================================================================
