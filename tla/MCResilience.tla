---------------------------- MODULE MCResilience ----------------------------
(***************************************************************************)
(* Three callers: two that may come back late beside a probe.              *)
(***************************************************************************)
EXTENDS Resilience

CONSTANTS c1, c2, c3
=============================================================================
