----------------------------- MODULE MCEvseSync -----------------------------
(* Small instances of EvseSync for TLC. *)
EXTENDS EvseSync

CONSTANTS abc, def, b1, b2

(* Two operators, taking turns in EvseID order. *)
TwoOwners == [e \in Evse |-> IF e % 2 = 1 THEN abc ELSE def]
OneOwner == [e \in Evse |-> abc]
=============================================================================
