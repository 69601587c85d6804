--------------------------- MODULE MCDeliberation ---------------------------
(***************************************************************************)
(* Two sessions and one deliberator.                                       *)
(***************************************************************************)
EXTENDS Deliberation

CONSTANTS s1, s2
=============================================================================
