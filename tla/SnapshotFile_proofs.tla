------------------------- MODULE SnapshotFile_proofs -------------------------
(* Processes that share neither a snapshot nor a temporary name keep whole   *)
(* snapshots, whoever dies where, for any number of processes and chunks.    *)
EXTENDS SnapshotFile, SequenceTheorems, TLAPS

USE NamesAssumption, ChunksAssumption, NoFileAssumption, ChangesAssumption

Chunk == Snapshot \cup {Hole}

-----------------------------------------------------------------------------
(* What a write makes of a file. *)
LEMMA WrittenIsSeq ==
    ASSUME NEW content \in Seq(Chunk), NEW k \in Nat \ {0}, NEW s \in Chunk
    PROVE  Written(content, k, s) \in Seq(Chunk)
<1>. DEFINE length == IF Len(content) < k THEN k ELSE Len(content)
<1>1. Len(content) \in Nat /\ length \in Nat BY LenProperties
<1>2. \A j \in 1..Len(content) : content[j] \in Chunk BY ElementOfSeq
<1>3. Hole \in Chunk BY DEF Chunk
<1>4. Written(content, k, s) \in [1..length -> Chunk]
  BY <1>1, <1>2, <1>3 DEF Written
<1>. QED BY <1>1, <1>4, SeqDef

LEMMA WrittenGoesOn ==
    ASSUME NEW k \in Nat, NEW s \in Chunk
    PROVE  Written([j \in 1..k |-> s], k + 1, s) = [j \in 1..(k + 1) |-> s]
<1>. DEFINE content == [j \in 1..k |-> s]
<1>1. content \in Seq(Chunk) /\ DOMAIN content = 1..k
  <2>1. content \in [1..k -> Chunk] OBVIOUS
  <2>. QED BY <2>1, SeqDef
<1>2. Len(content) \in Nat /\ 1..Len(content) = 1..k
  BY <1>1, LenProperties
<1>3. Len(content) = k BY <1>2
<1>. HIDE DEF content
<1>4. Written(content, k + 1, s)
        = [j \in 1..(k + 1) |-> IF j = k + 1 THEN s
                                ELSE IF j <= k THEN content[j] ELSE Hole]
  BY <1>3 DEF Written
<1>5. \A j \in 1..k : content[j] = s BY DEF content
<1>. QED BY <1>4, <1>5 DEF content

-----------------------------------------------------------------------------
(* The part of the invariant that is about one process. *)
Own(q) ==
    /\ repo[q].path = PathOf[q]
    /\ IF pc[q] = "writing"
       THEN /\ fd[q] # NoFile /\ entry[Tmp(q)] = fd[q]
            /\ data[fd[q]] = [k \in 1..at[q] |-> repo[q]]
       ELSE fd[q] = NoFile /\ at[q] = 0
    /\ pc[q] = "renaming" => Holds(Tmp(q), repo[q])
    /\ entry[PathOf[q]] # NoFile =>
          \E k \in 0..MaxChanges : Holds(PathOf[q], [path |-> PathOf[q], changes |-> k])
    /\ \A k \in 0..MaxChanges :
          pc[q] # "closed" /\ Holds(PathOf[q], [path |-> PathOf[q], changes |-> k])
          => k <= repo[q].changes
    /\ pc[q] # "closed" /\ ~dirty[q] =>
          \/ Holds(PathOf[q], repo[q])
          \/ entry[PathOf[q]] = NoFile /\ repo[q] = Fresh(q)

Parts == TypeOK /\ NamesApart /\ \A q \in Processes : Own(q)

LEMMA FileInvIsOwn == FileInv <=> Parts
<1>1. NeverTorn <=>
        \A q \in Processes : entry[PathOf[q]] # NoFile =>
           \E k \in 0..MaxChanges : Holds(PathOf[q], [path |-> PathOf[q], changes |-> k])
  BY DEF NeverTorn, Paths
<1>2. NeverBehind <=>
        \A q \in Processes : \A k \in 0..MaxChanges :
           pc[q] # "closed" /\ Holds(PathOf[q], [path |-> PathOf[q], changes |-> k])
           => k <= repo[q].changes
  BY DEF NeverBehind
<1>. HIDE DEF Holds
<1>. QED BY <1>1, <1>2, Zenon
         DEF Parts, FileInv, Own, OwnRecords, WritesBeside, RenamesWhole, CleanIsStored

(* What another process does not touch stays as it was. *)
LEMMA Frame ==
    ASSUME NEW q \in Processes, Own(q),
           pc'[q] = pc[q], fd'[q] = fd[q], at'[q] = at[q], repo'[q] = repo[q],
           dirty'[q] = dirty[q],
           entry'[PathOf[q]] = entry[PathOf[q]], entry'[Tmp(q)] = entry[Tmp(q)],
           entry[PathOf[q]] # NoFile => data'[entry[PathOf[q]]] = data[entry[PathOf[q]]],
           entry[Tmp(q)] # NoFile => data'[entry[Tmp(q)]] = data[entry[Tmp(q)]]
    PROVE  Own(q)'
<1>1. Holds(PathOf[q], repo[q])' <=> Holds(PathOf[q], repo[q]) BY DEF Holds
<1>2. Holds(Tmp(q), repo[q])' <=> Holds(Tmp(q), repo[q]) BY DEF Holds
<1>3. \A k \in 0..MaxChanges :
         Holds(PathOf[q], [path |-> PathOf[q], changes |-> k])'
         <=> Holds(PathOf[q], [path |-> PathOf[q], changes |-> k])
  BY DEF Holds
<1>4. Fresh(q)' = Fresh(q) BY DEF Fresh
<1>. QED BY <1>1, <1>2, <1>3, <1>4 DEF Own

LEMMA WholeOnce == \A r, s : Whole(r) = Whole(s) => r = s
<1>1. \A r : Whole(r)[1] = r BY DEF Whole
<1>. QED BY <1>1

LEMMA NamesOf ==
    ASSUME NEW p \in Processes
    PROVE  PathOf[p] \in Names /\ Tmp(p) \in Names /\ Fresh(p) \in Snapshot
BY DEF Tmp, Fresh, Snapshot, Paths

(* The temporary file is nobody else's, and not the snapshot. *)
LEMMA CreateKeeps ==
    ASSUME Private, Parts, NEW p \in Processes, Create(p)
    PROVE  Parts'
<1>. USE NamesOf DEF Parts
<1>1. PICK f \in Files : /\ FileFor(Tmp(p), f)
                         /\ entry' = [entry EXCEPT ![Tmp(p)] = f]
                         /\ data' = [data EXCEPT ![f] = << >>]
                         /\ fd' = [fd EXCEPT ![p] = f]
  BY DEF Create
<1>2. /\ pc[p] = "open" /\ pc' = [pc EXCEPT ![p] = "writing"]
      /\ UNCHANGED <<repo, dirty, at>>
  BY DEF Create
<1>3. \A n \in Names : n # Tmp(p) => entry[n] # f
  <2>1. CASE entry[Tmp(p)] # NoFile BY <1>1, <2>1 DEF FileFor, NamesApart
  <2>2. CASE entry[Tmp(p)] = NoFile BY <1>1, <2>2 DEF FileFor, Used
  <2>. QED BY <2>1, <2>2
<1>4. TypeOK'
  <2>1. << >> \in Seq(Chunk) BY EmptySeq
  <2>. QED BY <1>1, <1>2, <2>1 DEF TypeOK, Chunk
<1>5. NamesApart'
  BY <1>1, <1>3 DEF NamesApart, TypeOK
<1>6. ASSUME NEW q \in Processes, q # p PROVE Own(q)'
  <2>2. PathOf[q] # Tmp(p) /\ Tmp(q) # Tmp(p) BY <1>6 DEF Private
  <2>3. /\ entry'[PathOf[q]] = entry[PathOf[q]] /\ entry'[Tmp(q)] = entry[Tmp(q)]
        /\ entry[PathOf[q]] # f /\ entry[Tmp(q)] # f
    BY <1>1, <1>3, <2>2 DEF TypeOK
  <2>4. /\ entry[PathOf[q]] # NoFile => data'[entry[PathOf[q]]] = data[entry[PathOf[q]]]
        /\ entry[Tmp(q)] # NoFile => data'[entry[Tmp(q)]] = data[entry[Tmp(q)]]
    BY <1>1, <2>3 DEF TypeOK
  <2>5. pc'[q] = pc[q] /\ fd'[q] = fd[q] /\ at'[q] = at[q] /\ repo'[q] = repo[q] /\ dirty'[q] = dirty[q]
    BY <1>1, <1>2, <1>6 DEF TypeOK
  <2>. QED BY <2>3, <2>4, <2>5, Frame
<1>7. Own(p)'
  <2>2. entry'[PathOf[p]] = entry[PathOf[p]] /\ entry[PathOf[p]] # f
    BY <1>1, <1>3 DEF Private, TypeOK
  <2>3. entry[PathOf[p]] # NoFile => data'[entry[PathOf[p]]] = data[entry[PathOf[p]]]
    BY <1>1, <2>2 DEF TypeOK
  <2>4. \A s : Holds(PathOf[p], s)' <=> Holds(PathOf[p], s)
    BY <2>2, <2>3 DEF Holds
  <2>5. Own(p) /\ at[p] = 0 BY <1>2 DEF Own
  <2>6. /\ pc'[p] = "writing" /\ fd'[p] = f /\ entry'[Tmp(p)] = f /\ data'[f] = << >>
        /\ at'[p] = 0 /\ f # NoFile
    BY <1>1, <1>2, <2>5 DEF TypeOK
  <2>7. data'[fd'[p]] = [k \in 1..at'[p] |-> repo'[p]]
    <3>1. [k \in 1..0 |-> repo'[p]] = << >> OBVIOUS
    <3>. QED BY <2>6, <3>1
  <2>. QED BY <1>2, <2>2, <2>4, <2>5, <2>6, <2>7 DEF Own, Fresh
<1>. QED BY <1>4, <1>5, <1>6, <1>7

(* Steps that leave the directory and the files alone. *)
LEMMA QuietOthers ==
    ASSUME Parts, NEW p \in Processes, NEW q \in Processes, q # p, UNCHANGED <<entry, data>>,
           pc'[q] = pc[q], fd'[q] = fd[q], at'[q] = at[q], repo'[q] = repo[q],
           dirty'[q] = dirty[q]
    PROVE  Own(q)'
BY Frame DEF Parts

LEMMA OpenKeeps ==
    ASSUME Parts, NEW p \in Processes, NEW s \in Snapshot, OpenWith(p, s),
           \/ entry[PathOf[p]] = NoFile /\ s = Fresh(p)
           \/ Holds(PathOf[p], s)
    PROVE  Parts'
<1>. USE NamesOf DEF Parts
<1>1. /\ pc[p] = "closed" /\ UNCHANGED <<entry, data, fd, at>>
      /\ repo' = [repo EXCEPT ![p] = s] /\ dirty' = [dirty EXCEPT ![p] = FALSE]
      /\ pc' = [pc EXCEPT ![p] = "open"]
  BY DEF OpenWith
<1>2. TypeOK' BY <1>1 DEF TypeOK
<1>3. NamesApart' BY <1>1 DEF NamesApart
<1>4. \A q \in Processes : q # p => Own(q)'
  BY <1>1, QuietOthers DEF TypeOK
<1>5. Own(p)'
  <2>1. Own(p) /\ fd'[p] = NoFile /\ at'[p] = 0 BY <1>1 DEF Own
  <2>2. pc'[p] = "open" /\ repo'[p] = s BY <1>1 DEF TypeOK
  <2>3. \A n, r : Holds(n, r)' <=> Holds(n, r) BY <1>1 DEF Holds
  <2>4. \A r \in Snapshot : Holds(PathOf[p], r) /\ Holds(PathOf[p], s) => r = s
    BY WholeOnce DEF Holds
  <2>5. \A k \in 0..MaxChanges : [path |-> PathOf[p], changes |-> k] \in Snapshot
    BY DEF Snapshot, Paths
  <2>6. CASE entry[PathOf[p]] = NoFile /\ s = Fresh(p)
    <3>1. Fresh(p)' = Fresh(p) /\ s.path = PathOf[p] BY <2>6 DEF Fresh
    <3>2. \A r : ~ Holds(PathOf[p], r) BY <2>6 DEF Holds
    <3>. QED BY <1>1, <2>1, <2>2, <2>3, <2>6, <3>1, <3>2 DEF Own
  <2>7. CASE Holds(PathOf[p], s)
    <3>1. PICK k \in 0..MaxChanges : Holds(PathOf[p], [path |-> PathOf[p], changes |-> k])
      BY <2>1, <2>7 DEF Own, Holds
    <3>2. s = [path |-> PathOf[p], changes |-> k] BY <2>4, <2>5, <2>7, <3>1
    <3>3. \A j \in 0..MaxChanges :
             Holds(PathOf[p], [path |-> PathOf[p], changes |-> j]) => j = k
      BY <2>4, <2>5, <3>1, <3>2
    <3>. QED BY <1>1, <2>1, <2>2, <2>3, <2>7, <3>1, <3>2, <3>3 DEF Own
  <2>. QED BY <2>6, <2>7
<1>. QED BY <1>2, <1>3, <1>4, <1>5

LEMMA ChangeKeeps ==
    ASSUME Parts, NEW p \in Processes, Change(p)
    PROVE  Parts'
<1>. USE NamesOf DEF Parts
<1>1. /\ pc[p] = "open" /\ UNCHANGED <<entry, data, fd, at, pc>>
      /\ repo' = [repo EXCEPT ![p].changes = @ + 1] /\ dirty' = [dirty EXCEPT ![p] = TRUE]
      /\ repo[p].changes < MaxChanges
  BY DEF Change
<1>2. /\ repo'[p].path = repo[p].path /\ repo'[p].changes = repo[p].changes + 1
      /\ repo' \in [Processes -> Snapshot] /\ \A q \in Processes : q # p => repo'[q] = repo[q]
  <2>1. repo \in [Processes -> Snapshot] BY DEF TypeOK
  <2>2. repo[p].path \in Paths /\ repo[p].changes \in 0..MaxChanges BY <2>1 DEF Snapshot
  <2>3. repo'[p] = [repo[p] EXCEPT !.changes = @ + 1] BY <1>1, <2>1
  <2>4. repo[p] = [path |-> repo[p].path, changes |-> repo[p].changes] BY <2>1 DEF Snapshot
  <2>5. repo'[p] = [path |-> repo[p].path, changes |-> repo[p].changes + 1] BY <2>3, <2>4
  <2>6. repo[p].changes + 1 \in 0..MaxChanges BY <1>1, <2>2
  <2>7. repo'[p] \in Snapshot BY <2>2, <2>5, <2>6 DEF Snapshot
  <2>8. \A q \in Processes : q # p => repo'[q] = repo[q] BY <1>1, <2>1
  <2>9. repo' \in [Processes -> Snapshot]
    <3>1. repo' = [repo EXCEPT ![p] = [repo[p] EXCEPT !.changes = @ + 1]] BY <1>1
    <3>2. repo' = [repo EXCEPT ![p] = repo'[p]] BY <2>1, <2>3, <3>1
    <3>. QED BY <2>1, <2>7, <3>2
  <2>. QED BY <2>5, <2>8, <2>9
<1>3. TypeOK' BY <1>1, <1>2 DEF TypeOK
<1>4. NamesApart' BY <1>1 DEF NamesApart
<1>5. \A q \in Processes : q # p => Own(q)'
  BY <1>1, <1>2, QuietOthers DEF TypeOK
<1>6. Own(p)'
  <2>1. Own(p) /\ dirty'[p] = TRUE /\ repo[p].changes \in Nat BY <1>1 DEF TypeOK, Snapshot
  <2>2. \A n, r : Holds(n, r)' <=> Holds(n, r) BY <1>1 DEF Holds
  <2>. QED BY <1>1, <1>2, <2>1, <2>2 DEF Own
<1>. QED BY <1>3, <1>4, <1>5, <1>6

(* A write adds a chunk to a file only its writer can reach. *)
LEMMA WriteChunkKeeps ==
    ASSUME Private, Parts, NEW p \in Processes, WriteChunk(p)
    PROVE  Parts'
<1>. USE NamesOf DEF Parts
<1>. DEFINE f == fd[p]
            content == [k \in 1..(at[p] + 1) |-> repo[p]]
<1>1. /\ pc[p] = "writing" /\ f \in Files /\ entry[Tmp(p)] = f
      /\ data[f] = [k \in 1..at[p] |-> repo[p]]
      /\ at[p] \in 0..(Chunks - 1) /\ repo[p] \in Snapshot
  <2>1. pc[p] = "writing" /\ Own(p) BY DEF WriteChunk
  <2>2. /\ f # NoFile /\ entry[Tmp(p)] = f
        /\ data[f] = [k \in 1..at[p] |-> repo[p]]
    BY <2>1 DEF Own
  <2>3. f \in Files \cup {NoFile} /\ at[p] \in 0..(Chunks - 1) /\ repo[p] \in Snapshot
    BY DEF TypeOK
  <2>. QED BY <2>1, <2>2, <2>3
<1>2. Written(data[f], at[p] + 1, repo[p]) = content
  <2>1. PICK k \in Nat : k = at[p] BY <1>1
  <2>2. PICK s \in Chunk : s = repo[p] BY <1>1 DEF Chunk
  <2>3. data[f] = [j \in 1..k |-> s] BY <1>1, <2>1, <2>2
  <2>4. content = [j \in 1..(k + 1) |-> s] BY <2>1, <2>2
  <2>5. Written([j \in 1..k |-> s], k + 1, s) = [j \in 1..(k + 1) |-> s] BY WrittenGoesOn
  <2>. QED BY <2>1, <2>2, <2>3, <2>4, <2>5
<1>3. /\ data' = [data EXCEPT ![f] = content]
      /\ UNCHANGED <<entry, repo, dirty>>
      /\ \/ /\ at[p] + 1 < Chunks
            /\ at' = [at EXCEPT ![p] = at[p] + 1] /\ UNCHANGED <<pc, fd>>
         \/ /\ ~(at[p] + 1 < Chunks)
            /\ at' = [at EXCEPT ![p] = 0]
            /\ pc' = [pc EXCEPT ![p] = "renaming"]
            /\ fd' = [fd EXCEPT ![p] = NoFile]
  BY <1>2 DEF WriteChunk
<1>4. TypeOK'
  <2>1. content \in Seq(Chunk)
    <3>1. content \in [1..(at[p] + 1) -> Chunk] BY <1>1 DEF Chunk
    <3>. QED BY <1>1, <3>1, SeqDef
  <2>2. data' \in [Files -> Seq(Chunk)] BY <1>3, <2>1 DEF TypeOK, Chunk
  <2>3. at' \in [Processes -> 0..(Chunks - 1)] BY <1>1, <1>3 DEF TypeOK
  <2>. HIDE DEF content
  <2>4. /\ pc' \in [Processes -> {"closed", "open", "writing", "renaming"}]
        /\ fd' \in [Processes -> Files \cup {NoFile}]
    BY <1>3 DEF TypeOK
  <2>. QED BY <1>3, <2>2, <2>3, <2>4 DEF TypeOK, Chunk
<1>. HIDE DEF content
<1>5. NamesApart' BY <1>3 DEF NamesApart
<1>6. \A n \in Names : n # Tmp(p) => entry[n] # f
  BY <1>1 DEF NamesApart
<1>7. ASSUME NEW q \in Processes, q # p PROVE Own(q)'
  <2>1. PathOf[q] # Tmp(p) /\ Tmp(q) # Tmp(p) BY <1>7 DEF Private
  <2>2. /\ entry[PathOf[q]] # NoFile => data'[entry[PathOf[q]]] = data[entry[PathOf[q]]]
        /\ entry[Tmp(q)] # NoFile => data'[entry[Tmp(q)]] = data[entry[Tmp(q)]]
    BY <1>3, <1>6, <2>1 DEF TypeOK
  <2>3. pc'[q] = pc[q] /\ fd'[q] = fd[q] /\ at'[q] = at[q]
    BY <1>3, <1>7 DEF TypeOK
  <2>. QED BY <1>3, <2>2, <2>3, Frame
<1>8. Own(p)'
  <2>1. Own(p) OBVIOUS
  <2>2. entry[PathOf[p]] # f BY <1>6 DEF Private
  <2>3. \A s : Holds(PathOf[p], s)' <=> Holds(PathOf[p], s)
    BY <1>3, <2>2 DEF Holds, TypeOK
  <2>4. data'[f] = content BY <1>1, <1>3 DEF TypeOK
  <2>5. CASE at[p] + 1 < Chunks
    <3>1. at'[p] = at[p] + 1 /\ pc'[p] = "writing" /\ fd'[p] = f
      BY <1>1, <1>3, <2>5 DEF TypeOK
    <3>2. data'[fd'[p]] = [k \in 1..at'[p] |-> repo'[p]]
      BY <1>3, <2>4, <3>1 DEF content
    <3>. QED BY <1>1, <1>3, <2>1, <2>3, <3>1, <3>2 DEF Own, Fresh
  <2>6. CASE ~(at[p] + 1 < Chunks)
    <3>1. at'[p] = 0 /\ pc'[p] = "renaming" /\ fd'[p] = NoFile
      BY <1>3, <2>6 DEF TypeOK
    <3>2. content = Whole(repo[p])
      <4>1. at[p] + 1 = Chunks BY <1>1, <2>6
      <4>. QED BY <4>1 DEF content, Whole
    <3>3. Holds(Tmp(p), repo[p])'
      BY <1>1, <1>3, <2>4, <3>2 DEF Holds
    <3>. QED BY <1>1, <1>3, <2>1, <2>3, <3>1, <3>3 DEF Own, Fresh
  <2>. QED BY <2>5, <2>6
<1>. QED BY <1>4, <1>5, <1>7, <1>8

(* What is reclaimed has no name. *)
LEMMA ReclaimSpares ==
    ASSUME TypeOK, NEW names \in [Names -> Files \cup {NoFile}], NEW writers,
           Reclaim(names, writers)
    PROVE  /\ data' \in [Files -> Seq(Chunk)]
           /\ \A n \in Names : names[n] # NoFile => data'[names[n]] = data[names[n]]
<1>1. << >> \in Seq(Chunk) BY EmptySeq
<1>. QED BY <1>1 DEF Reclaim, Used, TypeOK, Chunk

LEMMA SaveFailsKeeps ==
    ASSUME Parts, NEW p \in Processes, SaveFails(p)
    PROVE  Parts'
<1>. USE NamesOf DEF Parts
<1>1. /\ pc[p] \in {"writing", "renaming"} /\ pc' = [pc EXCEPT ![p] = "open"]
      /\ fd' = [fd EXCEPT ![p] = NoFile] /\ at' = [at EXCEPT ![p] = 0]
      /\ UNCHANGED <<entry, repo, dirty>>
  BY DEF SaveFails
<1>2. /\ data' \in [Files -> Seq(Chunk)]
      /\ \A n \in Names : entry[n] # NoFile => data'[entry[n]] = data[entry[n]]
  BY ReclaimSpares DEF SaveFails, TypeOK
<1>3. TypeOK' BY <1>1, <1>2 DEF TypeOK, Chunk
<1>4. NamesApart' BY <1>1 DEF NamesApart
<1>5. ASSUME NEW q \in Processes, q # p PROVE Own(q)'
  <2>1. pc'[q] = pc[q] /\ fd'[q] = fd[q] /\ at'[q] = at[q] BY <1>1, <1>5 DEF TypeOK
  <2>. QED BY <1>1, <1>2, <2>1, Frame
<1>6. Own(p)'
  <2>1. Own(p) /\ pc'[p] = "open" /\ fd'[p] = NoFile /\ at'[p] = 0 BY <1>1 DEF TypeOK
  <2>2. \A s : Holds(PathOf[p], s)' <=> Holds(PathOf[p], s) BY <1>1, <1>2 DEF Holds
  <2>. QED BY <1>1, <2>1, <2>2 DEF Own, Fresh
<1>. QED BY <1>3, <1>4, <1>5, <1>6

LEMMA ExitKeeps ==
    ASSUME Parts, NEW p \in Processes, Exit(p)
    PROVE  Parts'
<1>. USE NamesOf DEF Parts
<1>1. /\ pc' = [pc EXCEPT ![p] = "closed"] /\ repo' = [repo EXCEPT ![p] = Fresh(p)]
      /\ fd' = [fd EXCEPT ![p] = NoFile] /\ at' = [at EXCEPT ![p] = 0]
      /\ dirty' = [dirty EXCEPT ![p] = FALSE] /\ UNCHANGED entry
  BY DEF Exit
<1>2. /\ data' \in [Files -> Seq(Chunk)]
      /\ \A n \in Names : entry[n] # NoFile => data'[entry[n]] = data[entry[n]]
  BY ReclaimSpares DEF Exit, TypeOK
<1>3. TypeOK' BY <1>1, <1>2 DEF TypeOK, Chunk
<1>4. NamesApart' BY <1>1 DEF NamesApart
<1>5. ASSUME NEW q \in Processes, q # p PROVE Own(q)'
  <2>1. /\ pc'[q] = pc[q] /\ fd'[q] = fd[q] /\ at'[q] = at[q]
        /\ repo'[q] = repo[q] /\ dirty'[q] = dirty[q]
    BY <1>1, <1>5 DEF TypeOK
  <2>. QED BY <1>1, <1>2, <2>1, Frame
<1>6. Own(p)'
  <2>1. Own(p) /\ pc'[p] = "closed" /\ fd'[p] = NoFile /\ at'[p] = 0 /\ repo'[p] = Fresh(p)
    BY <1>1 DEF TypeOK
  <2>2. \A s : Holds(PathOf[p], s)' <=> Holds(PathOf[p], s) BY <1>1, <1>2 DEF Holds
  <2>3. repo'[p].path = PathOf[p] BY <2>1 DEF Fresh
  <2>. QED BY <1>1, <2>1, <2>2, <2>3 DEF Own
<1>. QED BY <1>3, <1>4, <1>5, <1>6

(* The rename puts a whole snapshot of the process's own under the name. *)
LEMMA RenameKeeps ==
    ASSUME Private, Parts, NEW p \in Processes, Rename(p)
    PROVE  Parts'
<1>. USE NamesOf DEF Parts
<1>. DEFINE names == [n \in Names |-> IF n = PathOf[p] THEN entry[Tmp(p)]
                                     ELSE IF n = Tmp(p) THEN NoFile ELSE entry[n]]
<1>1. /\ pc[p] = "renaming" /\ entry[Tmp(p)] # NoFile
      /\ entry' = names /\ Reclaim(names, fd)
      /\ dirty' = [dirty EXCEPT ![p] = FALSE]
      /\ pc' = [pc EXCEPT ![p] = "open"]
      /\ UNCHANGED <<repo, fd, at>>
  BY DEF Rename
<1>2. PathOf[p] # Tmp(p) BY DEF Private
<1>3. names \in [Names -> Files \cup {NoFile}] BY DEF TypeOK
<1>4. /\ data' \in [Files -> Seq(Chunk)]
      /\ \A n \in Names : names[n] # NoFile => data'[names[n]] = data[names[n]]
  BY <1>1, <1>3, ReclaimSpares
<1>5. TypeOK' BY <1>1, <1>3, <1>4 DEF TypeOK, Chunk
<1>6. NamesApart' BY <1>1, <1>2 DEF NamesApart
<1>7. ASSUME NEW q \in Processes, q # p PROVE Own(q)'
  <2>1. /\ PathOf[q] # Tmp(p) /\ Tmp(q) # Tmp(p)
        /\ PathOf[q] # PathOf[p] /\ Tmp(q) # PathOf[p]
    BY <1>7 DEF Private
  <2>2. names[PathOf[q]] = entry[PathOf[q]] /\ names[Tmp(q)] = entry[Tmp(q)]
    BY <2>1
  <2>3. /\ entry[PathOf[q]] # NoFile => data'[entry[PathOf[q]]] = data[entry[PathOf[q]]]
        /\ entry[Tmp(q)] # NoFile => data'[entry[Tmp(q)]] = data[entry[Tmp(q)]]
    BY <1>4, <2>2
  <2>4. pc'[q] = pc[q] /\ dirty'[q] = dirty[q]
    BY <1>1, <1>7 DEF TypeOK
  <2>. HIDE DEF names
  <2>. QED BY <1>1, <2>2, <2>3, <2>4, Frame
<1>8. Own(p)'
  <2>1. Own(p) /\ repo[p] \in Snapshot BY DEF TypeOK
  <2>2. Holds(Tmp(p), repo[p]) /\ repo[p].path = PathOf[p] /\ fd[p] = NoFile /\ at[p] = 0
    BY <1>1, <2>1 DEF Own
  <2>3. entry'[PathOf[p]] = entry[Tmp(p)] BY <1>1
  <2>4. Holds(PathOf[p], repo[p])'
    BY <1>1, <1>4, <2>2, <2>3 DEF Holds
  <2>5. \A s : Holds(PathOf[p], s)' => s = repo[p]
    BY <1>1, <2>4, WholeOnce DEF Holds
  <2>6. repo[p] = [path |-> PathOf[p], changes |-> repo[p].changes]
        /\ repo[p].changes \in 0..MaxChanges
    BY <2>1, <2>2 DEF Snapshot
  <2>7. \A k \in 0..MaxChanges :
           Holds(PathOf[p], [path |-> PathOf[p], changes |-> k])' => k = repo[p].changes
    BY <2>5, <2>6
  <2>8. pc'[p] = "open" /\ repo'[p] = repo[p] /\ fd'[p] = NoFile /\ at'[p] = 0
    BY <1>1, <2>2 DEF TypeOK
  <2>9. \E k \in 0..MaxChanges : Holds(PathOf[p], [path |-> PathOf[p], changes |-> k])'
    <3>1. PICK k \in 0..MaxChanges : k = repo[p].changes BY <2>6
    <3>2. PICK r : r = repo[p] BY Zenon
    <3>3. r = [path |-> PathOf[p], changes |-> k] BY <2>6, <3>1, <3>2
    <3>4. Holds(PathOf[p], r)' BY <2>4, <3>2, <1>1 DEF Holds
    <3>. QED BY <3>3, <3>4
  <2>. HIDE DEF names
  <2>. QED BY <2>2, <2>4, <2>6, <2>7, <2>8, <2>9 DEF Own
<1>. QED BY <1>5, <1>6, <1>7, <1>8

LEMMA PartsInit == Init => Parts
<1>. SUFFICES ASSUME Init PROVE Parts
  OBVIOUS
<1>1. TypeOK
  <2>1. << >> \in Seq(Snapshot \cup {Hole}) BY EmptySeq
  <2>. QED BY <2>1, NamesOf DEF Init, TypeOK
<1>2. NamesApart BY DEF Init, NamesApart
<1>3. \A q \in Processes : Own(q)
  BY NamesOf DEF Init, Own, Fresh, Holds
<1>. QED BY <1>1, <1>2, <1>3 DEF Parts

LEMMA PartsNext ==
    ASSUME Private, ~ReadsFail, Parts, [Next]_vars
    PROVE  Parts'
<1>1. ASSUME NEW p \in Processes, Step(p) PROVE Parts'
  <2>1. CASE FirstRun(p)
    BY <2>1, OpenKeeps, NamesOf DEF FirstRun
  <2>2. CASE Load(p)
    <3>1. PICK s \in Snapshot : data[entry[PathOf[p]]] = Whole(s) /\ OpenWith(p, s)
      BY <2>2 DEF Load
    <3>2. Holds(PathOf[p], s) BY <2>2, <3>1 DEF Load, Holds
    <3>. QED BY <3>1, <3>2, OpenKeeps
  <2>3. CASE Change(p) BY <2>3, ChangeKeeps
  <2>4. CASE Create(p) BY <2>4, CreateKeeps
  <2>5. CASE WriteChunk(p) BY <2>5, WriteChunkKeeps
  <2>6. CASE SaveFails(p) BY <2>6, SaveFailsKeeps
  <2>7. CASE Rename(p) BY <2>7, RenameKeeps
  <2>8. CASE Exit(p) BY <2>8, ExitKeeps
  <2>. QED BY <1>1, <2>1, <2>2, <2>3, <2>4, <2>5, <2>6, <2>7, <2>8 DEF Step
<1>2. ASSUME UNCHANGED vars PROVE Parts'
  <2>1. UNCHANGED <<entry, data, repo, dirty, pc, fd, at>> BY <1>2 DEF vars
  <2>2. TypeOK' BY <2>1 DEF Parts, TypeOK
  <2>3. NamesApart' BY <2>1 DEF Parts, NamesApart
  <2>4. \A q \in Processes : Own(q)' BY <2>1, Frame DEF Parts
  <2>. QED BY <2>2, <2>3, <2>4 DEF Parts
<1>. QED BY <1>1, <1>2 DEF Next

(* Snapshots under their names are whole (FileEvseRepository::save), if no   *)
(* two processes share a snapshot or a temporary name, no snapshot is its    *)
(* own temporary file, and a file that is there can be read.                 *)
THEOREM SnapshotsAreWhole ==
    ASSUME Private, ~ReadsFail
    PROVE  Spec => []NeverTorn
<1>1. Parts /\ [Next]_vars => Parts' BY PartsNext
<1>2. Parts => NeverTorn BY FileInvIsOwn DEF FileInv
<1>. QED BY PartsInit, <1>1, <1>2, PTL DEF Spec

(* Under the same conditions, a repository that says it is clean is what its *)
(* file holds (FileEvseRepository::is_dirty).                                *)
THEOREM CleanIsOnDisk ==
    ASSUME Private, ~ReadsFail
    PROVE  Spec => []CleanIsStored
<1>1. Parts /\ [Next]_vars => Parts' BY PartsNext
<1>2. Parts => CleanIsStored BY FileInvIsOwn DEF FileInv
<1>. QED BY PartsInit, <1>1, <1>2, PTL DEF Spec

(* The types, under the same conditions. *)
THEOREM FilesTypeCorrect ==
    ASSUME Private, ~ReadsFail
    PROVE  Spec => []TypeOK
<1>1. Parts /\ [Next]_vars => Parts' BY PartsNext
<1>2. Parts => TypeOK BY DEF Parts
<1>. QED BY PartsInit, <1>1, <1>2, PTL DEF Spec

-----------------------------------------------------------------------------
(* What the store sees of a snapshot that is there. *)
StoredHeld ==
    \A n \in Paths, k \in 0..MaxChanges :
        Holds(n, [path |-> n, changes |-> k]) => Stored[n] = k

LEMMA StoredIsHeld == StoredHeld
<1>. SUFFICES ASSUME NEW n \in Paths, NEW k \in 0..MaxChanges,
                     Holds(n, [path |-> n, changes |-> k])
              PROVE  Stored[n] = k
  BY DEF StoredHeld
<1>. DEFINE s == [path |-> n, changes |-> k]
<1>1. entry[n] # NoFile /\ data[entry[n]] = Whole(s) BY DEF Holds
<1>2. Whole(s)[1] = s /\ Whole(s) # << >>
  <2>1. DOMAIN Whole(s) = 1..Chunks /\ 1 \in 1..Chunks BY DEF Whole
  <2>2. DOMAIN << >> = {} OBVIOUS
  <2>. QED BY <2>1, <2>2 DEF Whole
<1>3. Stored[n] = data[entry[n]][1].changes BY <1>1, <1>2 DEF Stored
<1>. QED BY <1>1, <1>2, <1>3

(* Every step but a rename leaves what is stored under the snapshots' names. *)
LEMMA OnlyRenameStores ==
    ASSUME Private, Parts, NEW p \in Processes, Step(p), ~Rename(p)
    PROVE  Stored' = Stored
<1>. USE NamesOf DEF Parts
<1>1. ASSUME NEW q \in Processes
      PROVE  /\ entry'[PathOf[q]] = entry[PathOf[q]]
             /\ entry[PathOf[q]] # NoFile => data'[entry[PathOf[q]]] = data[entry[PathOf[q]]]
  <2>1. CASE UNCHANGED <<entry, data>> BY <2>1
  <2>2. CASE Create(p)
    <3>1. PICK f \in Files : /\ FileFor(Tmp(p), f)
                             /\ entry' = [entry EXCEPT ![Tmp(p)] = f]
                             /\ data' = [data EXCEPT ![f] = << >>]
      BY <2>2 DEF Create
    <3>2. PathOf[q] # Tmp(p) BY DEF Private
    <3>3. entry[PathOf[q]] # f
      <4>1. CASE entry[Tmp(p)] # NoFile BY <3>1, <3>2, <4>1 DEF FileFor, NamesApart
      <4>2. CASE entry[Tmp(p)] = NoFile BY <3>1, <4>2 DEF FileFor, Used
      <4>. QED BY <4>1, <4>2
    <3>. QED BY <3>1, <3>2, <3>3 DEF TypeOK
  <2>3. CASE WriteChunk(p)
    <3>1. /\ entry' = entry
          /\ data' = [data EXCEPT ![fd[p]] = Written(data[fd[p]], at[p] + 1, repo[p])]
      BY <2>3 DEF WriteChunk
    <3>2. pc[p] = "writing" /\ Own(p) BY <2>3 DEF WriteChunk
    <3>3. fd[p] # NoFile /\ entry[Tmp(p)] = fd[p] BY <3>2 DEF Own
    <3>4. PathOf[q] # Tmp(p) BY DEF Private
    <3>5. entry[PathOf[q]] # fd[p] BY <3>3, <3>4 DEF NamesApart
    <3>. QED BY <3>1, <3>5 DEF TypeOK
  <2>4. CASE SaveFails(p) \/ Exit(p)
    <3>1. entry' = entry BY <2>4 DEF SaveFails, Exit
    <3>2. \A n \in Names : entry[n] # NoFile => data'[entry[n]] = data[entry[n]]
      BY <2>4, ReclaimSpares DEF SaveFails, Exit, TypeOK
    <3>. QED BY <3>1, <3>2
  <2>. QED BY <2>1, <2>2, <2>3, <2>4
           DEF Step, FirstRun, Load, OpenWith, Change
<1>2. \A n \in Paths : /\ entry'[n] = entry[n]
                       /\ entry[n] # NoFile => data'[entry[n]] = data[entry[n]]
  BY <1>1 DEF Paths
<1>. QED BY <1>2 DEF Stored

(* A rename stores what its process has, which is never behind. *)
LEMMA RenameStores ==
    ASSUME Private, Parts, Parts', NEW p \in Processes, Rename(p)
    PROVE  \/ Stored' = Stored
           \/ /\ repo[p].changes > Stored[PathOf[p]]
              /\ Stored' = [Stored EXCEPT ![PathOf[p]] = repo[p].changes]
<1>. USE NamesOf DEF Parts
<1>. DEFINE n == PathOf[p]
            k == repo[p].changes
<1>1. n \in Paths /\ k \in 0..MaxChanges BY DEF TypeOK, Snapshot, Paths
<1>2. pc[p] = "renaming" /\ pc'[p] = "open" /\ repo'[p] = repo[p] /\ dirty'[p] = FALSE
  BY DEF Rename, TypeOK
<1>3. entry'[n] # NoFile
  BY DEF Rename
<1>4. Stored'[n] = k
  <2>1. PICK j \in 0..MaxChanges : Holds(n, [path |-> n, changes |-> j])'
    BY <1>3 DEF Own
  <2>2. Stored'[n] = j
    <3>1. StoredHeld' BY StoredIsHeld, PTL
    <3>2. \A m \in Paths, i \in 0..MaxChanges :
             Holds(m, [path |-> m, changes |-> i])' => Stored'[m] = i
      BY <3>1 DEF StoredHeld
    <3>. HIDE DEF n
    <3>. QED BY <1>1, <2>1, <3>2
  <2>3. Holds(n, repo[p])'
    <3>1. Own(p)' OBVIOUS
    <3>. QED BY <1>2, <1>3, <3>1 DEF Own
  <2>4. repo[p] = [path |-> n, changes |-> j] BY <1>2, <2>1, <2>3, WholeOnce DEF Holds
  <2>. QED BY <2>2, <2>4
<1>5. \A m \in Paths : m # n => Stored'[m] = Stored[m]
  <2>1. \A m \in Paths : m \in Names /\ m # Tmp(p) BY DEF Paths, Private
  <2>2. \A m \in Paths : m # n => entry'[m] = entry[m]
    BY <2>1 DEF Rename
  <2>3. \A m \in Names : entry'[m] # NoFile => data'[entry'[m]] = data[entry'[m]]
    <3>. DEFINE names == [m \in Names |-> IF m = PathOf[p] THEN entry[Tmp(p)]
                                         ELSE IF m = Tmp(p) THEN NoFile ELSE entry[m]]
    <3>1. names \in [Names -> Files \cup {NoFile}] BY DEF TypeOK
    <3>2. entry' = names /\ Reclaim(names, fd) BY DEF Rename
    <3>. HIDE DEF names
    <3>. QED BY <3>1, <3>2, ReclaimSpares
  <2>. QED BY <2>1, <2>2, <2>3 DEF Stored
<1>6. Stored[n] \in 0..k
  <2>1. CASE entry[n] = NoFile BY <1>1, <2>1 DEF Stored
  <2>2. CASE entry[n] # NoFile
    <3>1. PICK j \in 0..MaxChanges : Holds(n, [path |-> n, changes |-> j])
      BY <2>2 DEF Own
    <3>2. Stored[n] = j BY <1>1, <3>1, StoredIsHeld DEF StoredHeld
    <3>3. j <= k BY <1>2, <3>1 DEF Own
    <3>. QED BY <1>1, <3>2, <3>3
  <2>. QED BY <2>1, <2>2
<1>7. DOMAIN Stored = Paths /\ DOMAIN Stored' = Paths BY DEF Stored
<1>8. Stored' = [Stored EXCEPT ![n] = k]
  <2>1. Stored = [m \in Paths |-> Stored[m]] /\ Stored' = [m \in Paths |-> Stored'[m]]
    BY DEF Stored
  <2>. HIDE DEF n, k
  <2>. QED BY <1>1, <1>4, <1>5, <2>1
<1>9. CASE k > Stored[n] BY <1>8, <1>9
<1>10. CASE ~(k > Stored[n])
  <2>1. Stored[n] = k BY <1>1, <1>6, <1>10
  <2>2. Stored = [m \in Paths |-> Stored[m]] BY DEF Stored
  <2>. QED BY <1>1, <1>8, <2>1, <2>2
<1>. QED BY <1>9, <1>10

(* Files, chunks and renames implement a store of whole snapshots            *)
(* (FileEvseRepository, "Crash safety"), under the conditions above.         *)
THEOREM FilesKeepStore ==
    ASSUME Private, ~ReadsFail
    PROVE  Spec => KeepsStore
<1>1. Init => Store!Init
  BY DEF Init, Store!Init, Stored, Paths, Init
<1>2. Parts /\ [Next]_vars => Parts' BY PartsNext
<1>3. ASSUME Parts, Parts', [Next]_vars PROVE Store!Next \/ Stored' = Stored
  <2>1. ASSUME NEW p \in Processes, Step(p) PROVE Store!Next \/ Stored' = Stored
    <3>1. CASE Rename(p)
      <4>1. PathOf[p] \in Paths /\ repo[p].changes \in 0..MaxChanges
        BY <1>3 DEF Parts, TypeOK, Snapshot, Paths
      <4>2. PICK k \in 0..MaxChanges : k = repo[p].changes BY <4>1
      <4>3. Stored' = Stored \/ Store!Save(PathOf[p], k)
        BY <1>3, <3>1, <4>2, RenameStores DEF Store!Save
      <4>. QED BY <4>1, <4>3 DEF Store!Next
    <3>2. CASE ~Rename(p) BY <1>3, <2>1, <3>2, OnlyRenameStores
    <3>. QED BY <3>1, <3>2
  <2>2. CASE UNCHANGED vars BY <2>2 DEF vars, Stored
  <2>. QED BY <1>3, <2>1, <2>2 DEF Next
<1>4. Parts /\ Parts' /\ [Next]_vars => [Store!Next]_Stored BY <1>3
<1>. QED BY PartsInit, <1>1, <1>2, <1>4, PTL DEF Spec, KeepsStore, Store!Spec
=============================================================================
