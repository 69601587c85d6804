-------------------------- MODULE MCSessionRegistry --------------------------
(***************************************************************************)
(* Three identifiers and room for two, so that one may be refused for want *)
(* of room and two requests meet over one of the others; three objects, so *)
(* that an identifier is served again; one abandoned thread at a time.     *)
(***************************************************************************)
EXTENDS SessionRegistry

CONSTANTS i1, i2, i3, t1, t2
=============================================================================
