----------------------------- MODULE MCPushSync -----------------------------
(* Small instances of PushSync for TLC. *)
EXTENDS PushSync

CONSTANTS cpo, blue, green

OneOwner == [e \in Evse |-> cpo]
=============================================================================
