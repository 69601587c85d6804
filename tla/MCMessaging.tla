------------------------------ MODULE MCMessaging ------------------------------
(***************************************************************************)
(* Messaging for TLC: two messages, alone or in one batch, against a       *)
(* memory of one, so that forgetting happens; a window of one tick inside  *)
(* an entry point of two, so that each closes; one operation of two        *)
(* attempts, so that it is retried.                                        *)
(***************************************************************************)
EXTENDS Messaging

CONSTANT k1

=============================================================================
