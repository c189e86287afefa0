---------------------------- MODULE DeltaEngine -----------------------------
(* The EMP's side of a pull: the planner, the copy it keeps and the          *)
(* watermark, from sync/planner.rs, sync/mod.rs (apply), sync/repository.rs  *)
(* and the crawl loop of bin/oicp.rs.                                        *)
(*                                                                           *)
(* Where the copy lives decides what an abandoned crawl leaves behind:       *)
(*   "database"  an EvseRepository that writes through: whatever was applied *)
(*   "file"      FileEvseRepository as the CLI uses it: saved only after the *)
(*               commit, so an abandoned crawl leaves the copy it started on *)
(*   "memory"    InMemoryEvseRepository: an error leaves what was applied, a *)
(*               restart leaves nothing                                      *)
EXTENDS EvseData

CONSTANTS
    Storage,            \* "database", "file" or "memory"
    NoMark,             \* "no watermark": nothing has been pulled yet
    Guard,              \* PlannerConfig::clock_skew_guard
    MaxDeltaAge,        \* PlannerConfig::max_delta_age
    MayForce,           \* may a caller ask for a re-baseline (force_full)?
    MaxFailures         \* bound: how many crawls are abandoned

ASSUME StorageAssumption == Storage \in {"database", "file", "memory"}
ASSUME NoMarkAssumption == NoMark \notin Int
ASSUME DurationAssumption == Guard \in Nat /\ MaxDeltaAge \in Nat
ASSUME MayForceAssumption == MayForce \in BOOLEAN
ASSUME FailureBoundAssumption == MaxFailures \in Nat

VARIABLES
    copy,       \* copy[e]: the EMP's record, or NoRecord
    lastCall,   \* the watermark, on the EMP's clock
    phase,      \* "idle", "asking" (a page is wanted), "applying", "finished"
    plan,       \* the crawl's plan: [full, since, mark, offset]
    answer,     \* the page last received: [records, last]
    base,       \* the copy when the running crawl began: what the file still holds
    failures    \* how many crawls were abandoned

engineVars == <<copy, lastCall, phase, plan, answer, base, failures>>

Copies == [Evse -> Held]
EmptyCopy == [e \in Evse |-> NoRecord]
NoPlan == [full |-> FALSE, since |-> NoMark, mark |-> 0, offset |-> 0]
NoAnswer == [records |-> << >>, last |-> FALSE]

EngineTypeOK ==
    /\ copy \in Copies
    /\ lastCall \in Int \cup {NoMark}
    /\ phase \in {"idle", "asking", "applying", "finished"}
    /\ plan \in [full : BOOLEAN, since : Int \cup {NoMark}, mark : Int, offset : Nat]
    /\ DOMAIN answer = {"records", "last"}
    /\ DOMAIN answer.records \subseteq Evse
    /\ \A e \in DOMAIN answer.records : answer.records[e] \in PullRecord
    /\ answer.last \in BOOLEAN
    /\ base \in Copies
    /\ failures \in Nat

EngineInit ==
    /\ copy = EmptyCopy
    /\ lastCall = NoMark
    /\ phase = "idle"
    /\ plan = NoPlan
    /\ answer = NoAnswer
    /\ base = EmptyCopy
    /\ failures = 0

-----------------------------------------------------------------------------
(* Why a pull must be a full one.  The first disjunct that holds is the      *)
(* reason; which one it was is only logged.                                  *)
NeedsFull(force, clock) ==
    \/ force                                \* Requested
    \/ lastCall = NoMark                    \* NoWatermark
    \/ copy = EmptyCopy                     \* EmptyRepository
    \/ clock < lastCall                     \* WatermarkInFuture
    \/ clock - lastCall > MaxDeltaAge       \* WatermarkTooOld

Guarded(clock) == clock - Guard

(* Planner::begin: decide, and empty the copy for a full pull.  The          *)
(* watermark to commit later is taken now, before the first page.            *)
Begin(force, clock) ==
    LET full == NeedsFull(force, clock) IN
    /\ phase = "idle"
    /\ phase' = "asking"
    /\ plan' = [full |-> full, since |-> lastCall, mark |-> Guarded(clock), offset |-> 0]
    /\ copy' = IF full THEN EmptyCopy ELSE copy
    /\ base' = copy
    /\ UNCHANGED <<lastCall, answer, failures>>

(* A page arrives. *)
Receive(page) ==
    /\ phase = "asking"
    /\ phase' = "applying"
    /\ answer' = page
    /\ UNCHANGED <<copy, lastCall, plan, base, failures>>

AppliedTombstones(keys) ==                  \* Mutant: a delete is upserted
    [e \in Evse |-> IF e \in keys THEN answer.records[e].body ELSE copy[e]]

(* sync::apply on the records of the page whose keys are given: a delete     *)
(* removes, anything else is the record, whatever its tag says.              *)
Taken(e) == IF answer.records[e].tag = "Delete" THEN NoRecord ELSE answer.records[e].body

Applied(keys) == [e \in Evse |-> IF e \in keys THEN Taken(e) ELSE copy[e]]

(* Apply a whole page and go on to the next one, if there is one. *)
ApplyPageCommitting ==                      \* Mutant: the watermark moves page by page
    /\ phase = "applying"
    /\ copy' = Applied(DOMAIN answer.records)
    /\ phase' = IF answer.last THEN "finished" ELSE "asking"
    /\ plan' = [plan EXCEPT !.offset = IF answer.last THEN @ ELSE @ + PageSize]
    /\ answer' = NoAnswer
    /\ lastCall' = plan.mark
    /\ UNCHANGED <<base, failures>>

ApplyPageAgain ==                           \* Mutant: the page number never advances
    /\ phase = "applying"
    /\ copy' = Applied(DOMAIN answer.records)
    /\ phase' = IF answer.last THEN "finished" ELSE "asking"
    /\ answer' = NoAnswer
    /\ UNCHANGED <<lastCall, plan, base, failures>>

ApplyPage ==
    /\ phase = "applying"
    /\ copy' = Applied(DOMAIN answer.records)
    /\ phase' = IF answer.last THEN "finished" ELSE "asking"
    /\ plan' = [plan EXCEPT !.offset = IF answer.last THEN @ ELSE @ + PageSize]
    /\ answer' = NoAnswer
    /\ UNCHANGED <<lastCall, base, failures>>

(* Planner::commit, and for the CLI the save that follows it.                *)
Commit ==
    /\ phase = "finished"
    /\ lastCall' = plan.mark
    /\ phase' = "idle"
    /\ plan' = NoPlan
    /\ base' = EmptyCopy
    /\ UNCHANGED <<copy, answer, failures>>

(* The pages are applied record by record in EvseID order, so a crawl can    *)
(* stop after any of them.                                                   *)
PartlyApplied ==
    IF phase = "applying"
    THEN {Applied({e \in DOMAIN answer.records : e < stop}) : stop \in 1..NumEvse}
    ELSE {copy}

Abandon ==
    /\ phase # "idle"
    /\ failures < MaxFailures
    /\ failures' = failures + 1
    /\ phase' = "idle"
    /\ plan' = NoPlan
    /\ answer' = NoAnswer
    /\ base' = EmptyCopy

(* The caller gives the crawl up: a page request or the repository failed.   *)
(* For the CLI the process ends here and the file is as it was.              *)
Fail ==
    /\ Abandon
    /\ \/ Storage = "file" /\ copy' = base
       \/ Storage # "file" /\ copy' \in PartlyApplied
    /\ UNCHANGED lastCall

(* The process dies in the middle of a crawl and is started again. *)
Crash ==
    /\ Abandon
    /\ \/ Storage = "database" /\ copy' \in PartlyApplied /\ UNCHANGED lastCall
       \/ Storage = "file" /\ copy' = base /\ UNCHANGED lastCall
       \/ Storage = "memory" /\ copy' = EmptyCopy /\ lastCall' = NoMark
=============================================================================
