------------------------------ MODULE PushSync ------------------------------
(* A CPO keeps the broker's copy of its fleet in step (sync/push.rs,         *)
(* CpoClient::push_evse_data_plan): it plans the pushes from the last        *)
(* snapshot to the current fleet, sends them one after the other, and stops  *)
(* at the first that fails.                                                  *)
EXTENDS HubjectEvse

CONSTANTS
    Cpo,            \* the operator
    Habits,         \* what a job may be written to do after a failed plan: see Goal
    Late,           \* may a request arrive after its attempt was given up?
    MaxChanges,     \* bound: how often the fleet changes
    MaxFailures     \* bound: how many attempts fail

ASSUME CpoAssumption == Cpo \in Operators /\ FullLoadsWithdraw
ASSUME HabitsAssumption == Habits \subseteq {"replan", "repeat", "rebaseline"}
ASSUME LateAssumption == Late \in BOOLEAN
ASSUME PushBoundsAssumption == MaxChanges \in Nat /\ MaxFailures \in Nat

VARIABLES
    afterFailure, \* what this job does
    fleet,      \* the CPO's own records
    snapshot,   \* the fleet as the last plan that succeeded left it
    target,     \* the fleet the last plan was made for
    plan,       \* plan[a]: the points the requests of action a still have to carry
    phase,      \* where push_evse_data_plan stands
    answered,   \* has the request waited for been acknowledged?
    owed,       \* did a plan fail since the last that succeeded?
    wire,       \* requests sent and neither delivered nor lost
    sends, changes, failures

cpoVars == <<afterFailure, fleet, snapshot, target, plan, phase, answered, owed,
             sends, changes, failures>>
vars == <<brokerVars, cpoVars, wire>>

Mine == Fleet(Cpo)
Records == [Mine -> Held]
Actions == {"FullLoad", "Insert", "Update", "Delete"}
Request == [id : Nat, action : Actions, keys : SUBSET Mine, bodies : Records]
NothingToSend == [a \in Actions |-> {}]

TypeOK ==
    /\ BrokerTypeOK
    /\ afterFailure \in Habits
    /\ fleet \in Records /\ snapshot \in Records /\ target \in Records
    /\ plan \in [Actions -> SUBSET Mine]
    /\ phase \in {"idle", "send", "waiting", "failed"}
    /\ answered \in BOOLEAN /\ owed \in BOOLEAN
    /\ wire \in SUBSET Request
    /\ sends \in Nat /\ changes \in Nat /\ failures \in Nat

Init ==
    /\ BrokerInit
    /\ afterFailure \in Habits
    /\ fleet = [e \in Mine |-> NoRecord]
    /\ snapshot = fleet /\ target = fleet
    /\ plan = NothingToSend
    /\ phase = "idle"
    /\ answered = FALSE /\ owed = FALSE
    /\ wire = {}
    /\ sends = 0 /\ changes = 0 /\ failures = 0

-----------------------------------------------------------------------------
(* PushPlanner::plan: what to send to turn one set of records into another.  *)
Inserts(before, after) == {e \in Mine : before[e] = NoRecord /\ after[e] # NoRecord}
Updates(before, after) == {e \in Mine : /\ before[e] # NoRecord /\ after[e] # NoRecord
                                        /\ before[e] # after[e]}
DeletesOfChanged(before, after) ==          \* Mutant: a changed point is taken off first
    {e \in Mine : before[e] # NoRecord /\ before[e] # after[e]}

Deletes(before, after) == {e \in Mine : before[e] # NoRecord /\ after[e] = NoRecord}

Plan(before, after) ==
    [a \in Actions |-> CASE a = "FullLoad" -> {}
                         [] a = "Insert" -> Inserts(before, after)
                         [] a = "Update" -> Updates(before, after)
                         [] a = "Delete" -> Deletes(before, after)]

(* PushPlanner::full_load, for the records there are. *)
FullLoadOf(after) == [NothingToSend EXCEPT !["FullLoad"] = {e \in Mine : after[e] # NoRecord}]

(* PushPlan::into_requests: inserts, updates, deletions, and none that is empty. *)
BeforeDeletesFirst(a) ==                    \* Mutant: deletions first
    CASE a = "FullLoad" -> {}
      [] a = "Delete" -> {"FullLoad"}
      [] a = "Insert" -> {"FullLoad", "Delete"}
      [] a = "Update" -> {"FullLoad", "Delete", "Insert"}

Before(a) == CASE a = "FullLoad" -> {}
               [] a = "Insert" -> {"FullLoad"}
               [] a = "Update" -> {"FullLoad", "Insert"}
               [] a = "Delete" -> {"FullLoad", "Insert", "Update"}

Due(a) == plan[a] # {} /\ \A b \in Before(a) : plan[b] = {}

-----------------------------------------------------------------------------
(* The CPO's charging points change under it. *)
ChangeFleet(e, body) ==
    /\ changes < MaxChanges
    /\ fleet[e] # body
    /\ fleet' = [fleet EXCEPT ![e] = body]
    /\ changes' = changes + 1
    /\ UNCHANGED <<brokerVars, afterFailure, snapshot, target, plan, phase, answered, owed, wire, sends, failures>>

(* The job that plans pushes is its user's.  After a failed plan it can plan *)
(* again for the fleet there is now, first finish what it began, or start    *)
(* over with a fullLoad.                                                     *)
Goal == IF owed /\ afterFailure = "repeat" THEN target ELSE fleet

StartPlan ==
    /\ phase = "idle"
    /\ owed \/ Goal # snapshot
    /\ target' = Goal
    /\ plan' = IF owed /\ afterFailure = "rebaseline" THEN FullLoadOf(Goal) ELSE Plan(snapshot, Goal)
    /\ IF plan' # NothingToSend
       THEN phase' = "send" /\ UNCHANGED <<snapshot, owed>>
       ELSE /\ afterFailure # "rebaseline"              \* an empty fullLoad is refused
            /\ snapshot' = Goal /\ owed' = FALSE
            /\ UNCHANGED phase
    /\ UNCHANGED <<brokerVars, afterFailure, fleet, answered, wire, sends, changes, failures>>

(* Send a request, or send it again: whether the client retries is its policy's. *)
SendRequest(a) ==
    /\ phase \in {"send", "failed"}
    /\ Due(a)
    /\ wire' = wire \cup {[id |-> sends, action |-> a, keys |-> plan[a], bodies |-> target]}
    /\ sends' = sends + 1
    /\ phase' = "waiting"
    /\ answered' = FALSE
    /\ UNCHANGED <<brokerVars, afterFailure, fleet, snapshot, target, plan, owed, changes, failures>>

(* The broker applies a request. *)
Deliver(r) ==
    /\ \/ r.action = "Delete" /\ PushDelete(Cpo, r.keys)
       \/ r.action = "FullLoad" /\ PushFullLoad(Cpo, r.keys, r.bodies)
       \/ r.action \in {"Insert", "Update"} /\ PushUpsert(Cpo, r.keys, r.bodies)
    /\ wire' = wire \ {r}
    /\ answered' = (answered \/ (phase = "waiting" /\ r.id = sends - 1))
    /\ UNCHANGED <<afterFailure, fleet, snapshot, target, plan, phase, owed, sends, changes, failures>>

(* The acknowledgement arrives; after the last one the plan has succeeded.   *)
Acknowledge ==
    /\ phase = "waiting" /\ answered
    /\ \E a \in Actions :
          /\ Due(a)
          /\ plan' = [plan EXCEPT ![a] = {}]
          /\ IF plan' = NothingToSend
             THEN phase' = "idle" /\ snapshot' = target /\ owed' = FALSE
             ELSE phase' = "send" /\ UNCHANGED <<snapshot, owed>>
    /\ UNCHANGED <<brokerVars, afterFailure, fleet, target, answered, wire, sends, changes, failures>>

(* The attempt fails: its answer is lost, or the request is, or it is late.  *)
AttemptFails ==
    /\ phase = "waiting"
    /\ failures < MaxFailures
    /\ failures' = failures + 1
    /\ phase' = "failed"
    /\ wire' = IF Late THEN wire ELSE {}
    /\ UNCHANGED <<brokerVars, afterFailure, fleet, snapshot, target, plan, answered, owed, sends, changes>>

GiveUpForgetting ==                         \* Mutant: the snapshot moves on anyway
    /\ phase = "failed"
    /\ phase' = "idle"
    /\ plan' = NothingToSend
    /\ snapshot' = target /\ owed' = FALSE
    /\ UNCHANGED <<brokerVars, afterFailure, fleet, target, answered, wire, sends, changes, failures>>

(* push_evse_data_plan returns the error: nobody learns what was sent.       *)
GiveUp ==
    /\ phase = "failed"
    /\ phase' = "idle"
    /\ plan' = NothingToSend
    /\ owed' = TRUE
    /\ UNCHANGED <<brokerVars, afterFailure, fleet, snapshot, target, answered, wire, sends, changes, failures>>

CpoStep == StartPlan \/ (\E a \in Actions : SendRequest(a)) \/ Acknowledge

Next ==
    \/ \E e \in Mine, body \in Held : ChangeFleet(e, body)
    \/ CpoStep
    \/ \E r \in wire : Deliver(r)
    \/ AttemptFails
    \/ GiveUp

Spec == Init /\ [][Next]_vars

(* The CPO's job runs on a schedule and tries until it succeeds; a request   *)
(* that is not lost is served.                                               *)
FairSpec == Spec /\ WF_vars(CpoStep) /\ WF_vars(\E r \in wire : Deliver(r))

-----------------------------------------------------------------------------
(* When no failed plan is outstanding, the broker holds exactly what the     *)
(* last plan was for: push_evse_data_plan "brings Hubject's copy up to date". *)
InStep ==
    phase = "idle" /\ ~owed => \A e \in Mine : world[e] = snapshot[e]

(* While a plan runs, nothing is withdrawn before all that is new or changed *)
(* is there: PushPlan, "inserts and updates first, deletions last".          *)
DeletesLast ==
    phase # "idle" /\ plan["FullLoad"] = {} =>
        \A e, f \in Mine :
            (snapshot[e] # NoRecord /\ target[e] = NoRecord /\ world[e] = NoRecord)
            => world[f] = target[f] \/ target[f] = NoRecord

StaysUp ==
    \A e \in Mine : (/\ snapshot[e] # NoRecord /\ target[e] # NoRecord
                    /\ world[e] # NoRecord) => world'[e] # NoRecord

(* A point that is in the fleet before and after is never off the roaming    *)
(* network in between, whatever fails.                                       *)
NeverBlinks == [][StaysUp]_vars

(* Why the broker ends in step: the inductive invariant PushSync_proofs      *)
(* proves.  A request on the wire is the one that is due; a running plan has *)
(* brought every point it will not touch again to its target; and no point   *)
(* is ever anything but what it was or what it is to be.                     *)
Incremental == phase # "idle" /\ plan["FullLoad"] = {}
Resuming == phase = "idle" /\ owed /\ afterFailure = "repeat"
ToSend == UNION {plan[a] : a \in Actions}

WireIsDue ==
    /\ phase = "idle" => plan = NothingToSend
    /\ \A r \in wire : /\ phase = "waiting" /\ ~answered /\ wire = {r}
                       /\ Due(r.action)
                       /\ r.keys = plan[r.action] /\ r.bodies = target

PlanFits ==
    /\ \A e \in plan["Insert"] \cup plan["Update"] : target[e] # NoRecord
    /\ \A e \in plan["Delete"] : target[e] = NoRecord
    /\ plan["FullLoad"] # {} =>
          /\ afterFailure = "rebaseline"
          /\ plan["FullLoad"] = {e \in Mine : target[e] # NoRecord}
          /\ \A a \in Actions \ {"FullLoad"} : plan[a] = {}

AnsweredIsDone ==
    phase = "waiting" /\ answered =>
        \A a \in Actions : Due(a) =>
            \A e \in Mine : (e \in plan[a] \/ a = "FullLoad") => world[e] = target[e]

OldOrNew ==
    /\ Incremental \/ Resuming => \A e \in Mine : world[e] \in {snapshot[e], target[e]}
    /\ Incremental => \A e \in Mine \ ToSend : world[e] = target[e]

PushInv == TypeOK /\ WireIsDue /\ PlanFits /\ AnsweredIsDone /\ OldOrNew /\ InStep

(* And why deletions come last, over a plan and its repetitions.             *)
UpsertsFirst ==
    Incremental \/ Resuming =>
        \A e, f \in Mine :
            (snapshot[e] # NoRecord /\ target[e] = NoRecord /\ world[e] = NoRecord)
            => world[f] = target[f] \/ target[f] = NoRecord

(* Once the fleet stays as it is, the broker comes to hold it; but a job     *)
(* that starts over with a fullLoad is stuck with a fleet that has become    *)
(* empty, since full_load refuses to send nothing.                           *)
EventuallyInStep ==
    <>[](\/ \A e \in Mine : world[e] = fleet[e]
         \/ owed /\ afterFailure = "rebaseline" /\ \A e \in Mine : fleet[e] = NoRecord)
=============================================================================
