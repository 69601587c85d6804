----------------------------- MODULE MCCallbacks -----------------------------
(***************************************************************************)
(* Two callbacks of one session, due at once, the first scheduled under    *)
(* two keys and canceled under two; or one callback asked for again at an  *)
(* earlier time.                                                           *)
(***************************************************************************)
EXTENDS Callbacks

CONSTANTS s1, c1, c2, k1, k2, k3, x1, x2

OwnedBy == [c \in Callbacks |-> s1]
Wants(k, c, t) == [key |-> k, callback |-> c, at |-> t]
Drops(k, c) == [key |-> k, callback |-> c]

OnceAgainAndOther == {Wants(k1, c1, 1), Wants(k2, c1, 1), Wants(k3, c2, 1)}
SoonerAgain == {Wants(k1, c1, 2), Wants(k2, c1, 1)}
CanceledTwice == {Drops(x1, c1), Drops(x2, c1)}
=============================================================================
