--------------------------- MODULE MCDurableTurns ---------------------------
(***************************************************************************)
(* One session that is cancelled, crashes and meets faults; or two         *)
(* sessions of one buyer, one of them open in two processes.               *)
(***************************************************************************)
EXTENDS DurableTurns, TLC

CONSTANTS p1, p2, s1, s2, here, there, beside

Ask(op, text, act) == [op |-> op, text |-> text, act |-> act]

MCProcessOf == [x \in Places |-> IF x = there THEN p2 ELSE p1]
MCSessionOf == [x \in Places |-> IF x = beside THEN s2 ELSE s1]

TwoRequests == {Ask("a", "plain", "preview"), Ask("b", "abuse", "none")}
ReusedRequests == TwoRequests \cup {Ask("b", "optout", "none")}
ThreeRequests == TwoRequests \cup {Ask("c", "abuse", "none")}
=============================================================================
