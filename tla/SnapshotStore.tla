---------------------------- MODULE SnapshotStore ----------------------------
(* What FileEvseRepository promises of the files it keeps (sync/file.rs,     *)
(* "Crash safety"): under each name there is a whole snapshot or none, and a *)
(* save replaces it, at one moment, by a later state of the same repository. *)
(* A snapshot is the number of changes it holds; 0 is no snapshot yet.       *)
EXTENDS Naturals

CONSTANTS
    Paths,          \* the snapshots that are kept
    MaxChanges      \* bound: how often a repository changes

VARIABLE stored

Init == stored = [n \in Paths |-> 0]

Save(n, changes) ==
    /\ changes > stored[n]
    /\ stored' = [stored EXCEPT ![n] = changes]

Next == \E n \in Paths, changes \in 0..MaxChanges : Save(n, changes)

Spec == Init /\ [][Next]_stored
=============================================================================
