---------------------------- MODULE SnapshotFile ----------------------------
(* FileEvseRepository (sync/file.rs) over a file system: open reads the      *)
(* snapshot, save writes a temporary file beside it and renames it over it.  *)
(* Processes die at any step; a file has an identity of its own, so that a   *)
(* process that writes one goes on writing it wherever it is renamed to.     *)
EXTENDS Integers, Sequences, FiniteSets

CONSTANTS
    Processes,      \* the processes that use a repository
    Names,          \* file names in the directory
    PathOf,         \* PathOf[p]: the snapshot the process keeps
    TmpOf,          \* TmpOf[n]: the name n with the extension "tmp"
    ReadsFail,      \* may reading a file fail?
    NoFile,         \* "there is no such file"
    Chunks,         \* into how many writes a snapshot is cut
    MaxChanges      \* bound: how often a repository changes

ASSUME NamesAssumption ==
    \A p \in Processes : PathOf[p] \in Names /\ TmpOf[PathOf[p]] \in Names
ASSUME ReadsFailAssumption == ReadsFail \in BOOLEAN
ASSUME ChunksAssumption == Chunks \in Nat \ {0}
ASSUME ProcessesAssumption == IsFiniteSet(Processes) /\ IsFiniteSet(Names)
ASSUME ChangesAssumption == MaxChanges \in Nat

VARIABLES
    entry,      \* the directory: entry[n] is a file or NoFile
    data,       \* data[f]: what the file holds, chunk by chunk
    repo,       \* repo[p]: the repository in memory: whose records, and how many changes
    dirty,      \* FileEvseRepository::dirty
    pc,         \* where the process stands
    fd, at      \* the file it is writing, and how many chunks it has written

vars == <<entry, data, repo, dirty, pc, fd, at>>

(* There are never more files than names and writers. *)
Files == 1..(Cardinality(Names) + Cardinality(Processes))
ASSUME NoFileAssumption == NoFile \notin Files

Paths == {PathOf[p] : p \in Processes}
Tmp(p) == TmpOf[PathOf[p]]

Snapshot == [path : Paths, changes : 0..MaxChanges]
Hole == [path |-> NoFile, changes |-> 0]            \* bytes no one wrote
Whole(s) == [k \in 1..Chunks |-> s]                 \* a snapshot from end to end
Fresh(p) == [path |-> PathOf[p], changes |-> 0]     \* an empty repository

TypeOK ==
    /\ entry \in [Names -> Files \cup {NoFile}]
    /\ data \in [Files -> Seq(Snapshot \cup {Hole})]
    /\ repo \in [Processes -> Snapshot]
    /\ dirty \in [Processes -> BOOLEAN]
    /\ pc \in [Processes -> {"closed", "open", "writing", "renaming"}]
    /\ fd \in [Processes -> Files \cup {NoFile}]
    /\ at \in [Processes -> 0..(Chunks - 1)]

Init ==
    /\ entry = [n \in Names |-> NoFile]
    /\ data = [f \in Files |-> << >>]
    /\ repo = [p \in Processes |-> Fresh(p)]
    /\ dirty = [p \in Processes |-> FALSE]
    /\ pc = [p \in Processes |-> "closed"]
    /\ fd = [p \in Processes |-> NoFile]
    /\ at = [p \in Processes |-> 0]

-----------------------------------------------------------------------------
(* FileEvseRepository::open: whatever stops the file from being read counts  *)
(* as a first run; what can be read but is no snapshot is refused.           *)
OpenWith(p, s) ==
    /\ pc[p] = "closed"
    /\ repo' = [repo EXCEPT ![p] = s]
    /\ dirty' = [dirty EXCEPT ![p] = FALSE]
    /\ pc' = [pc EXCEPT ![p] = "open"]
    /\ UNCHANGED <<entry, data, fd, at>>

FirstRun(p) ==
    /\ entry[PathOf[p]] = NoFile \/ ReadsFail
    /\ OpenWith(p, Fresh(p))

Load(p) ==
    /\ entry[PathOf[p]] # NoFile
    /\ \E s \in Snapshot :
          /\ data[entry[PathOf[p]]] = Whole(s)
          /\ OpenWith(p, s)

(* upsert, delete, clear and set_last_call all change the copy in memory.    *)
Change(p) ==
    /\ pc[p] = "open"
    /\ repo[p].changes < MaxChanges
    /\ repo' = [repo EXCEPT ![p].changes = @ + 1]
    /\ dirty' = [dirty EXCEPT ![p] = TRUE]
    /\ UNCHANGED <<entry, data, pc, fd, at>>

-----------------------------------------------------------------------------
(* save: std::fs::write creates the temporary file or empties the one there  *)
(* is, then writes it chunk by chunk, ...                                    *)
Used(names, writers) == {names[n] : n \in Names} \cup {writers[p] : p \in Processes}

FileFor(n, f) ==
    IF entry[n] # NoFile THEN f = entry[n]
    ELSE f \notin Used(entry, fd) /\ 1..(f - 1) \subseteq Used(entry, fd)

(* A file without a name and a writer is gone. *)
Reclaim(names, writers) ==
    data' = [f \in Files |-> IF f \in Used(names, writers) THEN data[f] ELSE << >>]

CreateInPlace(p) ==                         \* Mutant: the target itself is written
    /\ pc[p] = "open"
    /\ \E f \in Files :
          /\ FileFor(PathOf[p], f)
          /\ entry' = [entry EXCEPT ![PathOf[p]] = f]
          /\ data' = [data EXCEPT ![f] = << >>]
          /\ fd' = [fd EXCEPT ![p] = f]
    /\ pc' = [pc EXCEPT ![p] = "writing"]
    /\ UNCHANGED <<repo, dirty, at>>

Create(p) ==
    /\ pc[p] = "open"
    /\ \E f \in Files :
          /\ FileFor(Tmp(p), f)
          /\ entry' = [entry EXCEPT ![Tmp(p)] = f]
          /\ data' = [data EXCEPT ![f] = << >>]
          /\ fd' = [fd EXCEPT ![p] = f]
    /\ pc' = [pc EXCEPT ![p] = "writing"]
    /\ UNCHANGED <<repo, dirty, at>>

(* A write at the writer's own offset, past a hole if somebody emptied the file. *)
Written(content, k, s) ==
    LET length == IF Len(content) < k THEN k ELSE Len(content) IN
    [j \in 1..length |-> IF j = k THEN s
                         ELSE IF j <= Len(content) THEN content[j] ELSE Hole]

WriteChunkMore(p) ==                        \* Mutant: one write too many
    /\ pc[p] = "writing"
    /\ data' = [data EXCEPT ![fd[p]] = Written(@, at[p] + 1, repo[p])]
    /\ IF at[p] < Chunks
       THEN at' = [at EXCEPT ![p] = @ + 1] /\ UNCHANGED <<pc, fd>>
       ELSE /\ at' = [at EXCEPT ![p] = 0]
            /\ pc' = [pc EXCEPT ![p] = "renaming"]
            /\ fd' = [fd EXCEPT ![p] = NoFile]
    /\ UNCHANGED <<entry, repo, dirty>>

WriteChunkEarly(p) ==                       \* Mutant: renamed before it is all written
    /\ pc[p] = "writing"
    /\ data' = [data EXCEPT ![fd[p]] = Written(@, at[p] + 1, repo[p])]
    /\ pc' = [pc EXCEPT ![p] = "renaming"]
    /\ fd' = [fd EXCEPT ![p] = NoFile]
    /\ UNCHANGED <<entry, repo, dirty, at>>

WriteChunk(p) ==
    /\ pc[p] = "writing"
    /\ data' = [data EXCEPT ![fd[p]] = Written(@, at[p] + 1, repo[p])]
    /\ IF at[p] + 1 < Chunks
       THEN at' = [at EXCEPT ![p] = @ + 1] /\ UNCHANGED <<pc, fd>>
       ELSE /\ at' = [at EXCEPT ![p] = 0]
            /\ pc' = [pc EXCEPT ![p] = "renaming"]
            /\ fd' = [fd EXCEPT ![p] = NoFile]
    /\ UNCHANGED <<entry, repo, dirty>>

(* ... and renames it.  Any step may fail; save returns the error.           *)
SaveFailsClean(p) ==                        \* Mutant: dirty is cleared on every way out
    /\ pc[p] \in {"writing", "renaming"}
    /\ pc' = [pc EXCEPT ![p] = "open"]
    /\ fd' = [fd EXCEPT ![p] = NoFile]
    /\ dirty' = [dirty EXCEPT ![p] = FALSE]
    /\ at' = [at EXCEPT ![p] = 0]
    /\ Reclaim(entry, [fd EXCEPT ![p] = NoFile])
    /\ UNCHANGED <<entry, repo>>

SaveFails(p) ==
    /\ pc[p] \in {"writing", "renaming"}
    /\ pc' = [pc EXCEPT ![p] = "open"]
    /\ fd' = [fd EXCEPT ![p] = NoFile]
    /\ at' = [at EXCEPT ![p] = 0]
    /\ Reclaim(entry, [fd EXCEPT ![p] = NoFile])
    /\ UNCHANGED <<entry, repo, dirty>>

Rename(p) ==
    /\ pc[p] = "renaming"
    /\ entry[Tmp(p)] # NoFile
    /\ LET names == [n \in Names |-> IF n = PathOf[p] THEN entry[Tmp(p)]
                                      ELSE IF n = Tmp(p) THEN NoFile ELSE entry[n]]
       IN  entry' = names /\ Reclaim(names, fd)
    /\ dirty' = [dirty EXCEPT ![p] = FALSE]
    /\ pc' = [pc EXCEPT ![p] = "open"]
    /\ UNCHANGED <<repo, fd, at>>

(* The process ends, wherever it stands. *)
Exit(p) ==
    /\ pc[p] # "closed"
    /\ pc' = [pc EXCEPT ![p] = "closed"]
    /\ fd' = [fd EXCEPT ![p] = NoFile]
    /\ repo' = [repo EXCEPT ![p] = Fresh(p)]
    /\ dirty' = [dirty EXCEPT ![p] = FALSE]
    /\ at' = [at EXCEPT ![p] = 0]
    /\ Reclaim(entry, [fd EXCEPT ![p] = NoFile])
    /\ UNCHANGED entry

Step(p) == FirstRun(p) \/ Load(p) \/ Change(p) \/ Create(p) \/ WriteChunk(p)
           \/ SaveFails(p) \/ Rename(p) \/ Exit(p)

Next == \E p \in Processes : Step(p)

Spec == Init /\ [][Next]_vars

-----------------------------------------------------------------------------
(* The snapshot under a name is whole and its own, or there is none: a crash *)
(* mid-write leaves the previous one intact (sync/file.rs, "Crash safety").  *)
Holds(n, s) == entry[n] # NoFile /\ data[entry[n]] = Whole(s)

NeverTorn ==
    \A n \in Paths : entry[n] # NoFile => \E k \in 0..MaxChanges : Holds(n, [path |-> n, changes |-> k])

(* A repository that says it has no unsaved changes (is_dirty) is what the   *)
(* file holds, whatever crashed or failed before.                            *)
CleanIsStored ==
    \A p \in Processes :
        pc[p] # "closed" /\ ~dirty[p] =>
            \/ Holds(PathOf[p], repo[p])
            \/ entry[PathOf[p]] = NoFile /\ repo[p] = Fresh(p)

(* Files, chunks, writes and renames implement a store of whole snapshots.   *)
Stored == [n \in Paths |-> IF entry[n] = NoFile \/ data[entry[n]] = << >> THEN 0
                           ELSE data[entry[n]][1].changes]

Store == INSTANCE SnapshotStore WITH stored <- Stored

KeepsStore == Store!Spec

-----------------------------------------------------------------------------
(* Why: the inductive invariant SnapshotFile_proofs proves for processes     *)
(* that share neither a snapshot nor a temporary name.                       *)
Private ==
    \A p, q \in Processes :
        /\ p # q => PathOf[p] # PathOf[q] /\ Tmp(p) # Tmp(q)
        /\ Tmp(p) # PathOf[q]

NamesApart == \A m, n \in Names : m # n /\ entry[m] = entry[n] => entry[n] = NoFile

OwnRecords == \A p \in Processes : repo[p].path = PathOf[p]

WritesBeside ==
    \A p \in Processes :
        IF pc[p] = "writing"
        THEN /\ fd[p] # NoFile /\ entry[Tmp(p)] = fd[p]
             /\ data[fd[p]] = [k \in 1..at[p] |-> repo[p]]
        ELSE fd[p] = NoFile /\ at[p] = 0

RenamesWhole == \A p \in Processes : pc[p] = "renaming" => Holds(Tmp(p), repo[p])

NeverBehind ==
    \A p \in Processes, k \in 0..MaxChanges :
        pc[p] # "closed" /\ Holds(PathOf[p], [path |-> PathOf[p], changes |-> k])
        => k <= repo[p].changes

FileInv == /\ TypeOK /\ NamesApart /\ OwnRecords /\ WritesBeside /\ RenamesWhole
           /\ NeverTorn /\ NeverBehind /\ CleanIsStored
=============================================================================
