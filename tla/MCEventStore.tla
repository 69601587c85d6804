---------------------------- MODULE MCEventStore ----------------------------
(***************************************************************************)
(* EventStore and a reader for TLC: two writers race on one lead with      *)
(* expectations that hold and that do not, an opt-out and an aggregate of  *)
(* another type among them.                                                *)
(***************************************************************************)
EXTENDS JournalReader, TLC

CONSTANTS w1, w2, lead, sim, other, turn, optOut

Ask(type, kind, at, expected) ==
  [lead |-> lead, type |-> type, kind |-> kind, at |-> at, expected |-> expected]

MCRequests ==
  {Ask(sim, turn, 0, AnyVersion), Ask(sim, optOut, 0, 1), Ask(other, turn, 1, 0)}

WriterSymmetry == Permutations(Writers)
=============================================================================
