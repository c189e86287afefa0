--------------------------- MODULE MCSnapshotFile ---------------------------
(* Small instances of SnapshotFile for TLC. *)
EXTENDS SnapshotFile, TLC

CONSTANTS p1, p2, one, two, tmp1, tmp2

(* Two processes, each with a snapshot and a temporary name of its own. *)
TwoPaths == (p1 :> one) @@ (p2 :> two)
TwoTmps == (one :> tmp1) @@ (two :> tmp2) @@ (tmp1 :> tmp1) @@ (tmp2 :> tmp2)

(* Any number of processes on one snapshot. *)
OnePath == [p \in Processes |-> one]
=============================================================================
