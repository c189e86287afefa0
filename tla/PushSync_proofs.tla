--------------------------- MODULE PushSync_proofs ---------------------------
(* A fleet pushed by plans ends in step with the broker, for any fleet, any  *)
(* changes and any failures, provided the job behind it finishes what it     *)
(* began or starts over, and no request outlives its attempt.                *)
EXTENDS PushSync, TLAPS

USE CpoAssumption, BodiesAssumption, NumEvseAssumption

(* At most one action's requests are due at a time.                          *)
LEMMA OneIsDue ==
    ASSUME NEW a \in Actions, NEW b \in Actions, Due(a), Due(b)
    PROVE  a = b
BY DEF Actions, Due, Before

(* A plan of nothing is a plan between equals.                               *)
LEMMA PlansAgree ==
    ASSUME NEW before \in Records, NEW after \in Records,
           Plan(before, after) = NothingToSend
    PROVE  before = after
<1>1. \A e \in Mine : before[e] = after[e]
  <2>1. /\ Plan(before, after)["Insert"] = {}
        /\ Plan(before, after)["Update"] = {}
        /\ Plan(before, after)["Delete"] = {}
    BY DEF NothingToSend, Actions
  <2>2. Inserts(before, after) = {} /\ Updates(before, after) = {} /\ Deletes(before, after) = {}
    BY <2>1 DEF Plan, Actions
  <2>. QED BY <2>2 DEF Inserts, Updates, Deletes
<1>. QED BY <1>1 DEF Records

(* What a plan is made of. *)
LEMMA PlanShape ==
    ASSUME NEW before \in Records, NEW after \in Records
    PROVE  /\ Plan(before, after) \in [Actions -> SUBSET Mine]
           /\ Plan(before, after)["FullLoad"] = {}
           /\ Plan(before, after)["Insert"] = Inserts(before, after)
           /\ Plan(before, after)["Update"] = Updates(before, after)
           /\ Plan(before, after)["Delete"] = Deletes(before, after)
<1>1. /\ Inserts(before, after) \subseteq Mine
      /\ Updates(before, after) \subseteq Mine
      /\ Deletes(before, after) \subseteq Mine
  BY DEF Inserts, Updates, Deletes
<1>. QED BY <1>1 DEF Plan, Actions

LEMMA FullLoadShape ==
    ASSUME NEW after \in Records
    PROVE  /\ FullLoadOf(after) \in [Actions -> SUBSET Mine]
           /\ FullLoadOf(after)["FullLoad"] = {e \in Mine : after[e] # NoRecord}
           /\ \A a \in Actions \ {"FullLoad"} : FullLoadOf(after)[a] = {}
BY DEF FullLoadOf, NothingToSend, Actions

-----------------------------------------------------------------------------
LEMMA MineAreEvse == Mine \subseteq Evse /\ NoRecord \in Held
BY DEF Mine, Fleet, Held

(* A push of the CPO's own points leaves the broker's types as they were.    *)
LEMMA BrokerStaysTyped ==
    ASSUME TypeOK, NEW r \in wire, Deliver(r)
    PROVE  BrokerTypeOK'
<1>1. r \in Request /\ r.keys \subseteq Mine /\ r.bodies \in Records /\ r.action \in Actions
  BY DEF TypeOK, Request
<1>2. BrokerTypeOK BY DEF TypeOK
<1>3. \A e \in r.keys : UpsertTag(world[e]) \in DeltaTags BY DEF UpsertTag, DeltaTags
<1>4. ASSUME NEW keys, keys \subseteq Mine, NEW tag, \A e \in keys : tag[e] \in DeltaTags,
             Stamp(keys, tag)
      PROVE  history' \in [Evse -> [tag : DeltaTags \cup {"none"}, at : Nat]]
  BY <1>2, <1>4 DEF Stamp, BrokerTypeOK
<1>5. CASE r.action = "Delete"
  <2>1. PushDelete(Cpo, r.keys) BY <1>5 DEF Deliver
  <2>2. Stamp(r.keys, [e \in r.keys |-> "Delete"]) BY <2>1 DEF PushDelete
  <2>3. \A e \in r.keys : [k \in r.keys |-> "Delete"][e] \in DeltaTags BY DEF DeltaTags
  <2>4. history' \in [Evse -> [tag : DeltaTags \cup {"none"}, at : Nat]]
    BY <1>1, <1>4, <2>2, <2>3
  <2>. QED BY <1>2, <2>1, <2>4, MineAreEvse DEF PushDelete, Pushing, BrokerTypeOK
<1>6. CASE r.action = "FullLoad"
  <2>1. PushFullLoad(Cpo, r.keys, r.bodies) BY <1>6 DEF Deliver
  <2>2. Stamp(r.keys, [e \in r.keys |-> "Insert"]) BY <2>1 DEF PushFullLoad
  <2>3. \A e \in r.keys : [k \in r.keys |-> "Insert"][e] \in DeltaTags BY DEF DeltaTags
  <2>4. history' \in [Evse -> [tag : DeltaTags \cup {"none"}, at : Nat]]
    BY <1>1, <1>4, <2>2, <2>3
  <2>. QED BY <1>1, <1>2, <2>1, <2>4, MineAreEvse DEF PushFullLoad, Pushing, BrokerTypeOK, Records
<1>7. CASE r.action \in {"Insert", "Update"}
  <2>1. PushUpsert(Cpo, r.keys, r.bodies) BY <1>7 DEF Deliver
  <2>2. Stamp(r.keys, [e \in r.keys |-> UpsertTag(world[e])]) BY <2>1 DEF PushUpsert
  <2>3. \A e \in r.keys : [k \in r.keys |-> UpsertTag(world[k])][e] \in DeltaTags BY <1>3
  <2>4. history' \in [Evse -> [tag : DeltaTags \cup {"none"}, at : Nat]]
    BY <1>1, <1>4, <2>2, <2>3
  <2>. QED BY <1>1, <1>2, <2>1, <2>4, MineAreEvse DEF PushUpsert, Pushing, BrokerTypeOK, Records
<1>. QED BY <1>1, <1>5, <1>6, <1>7 DEF Actions

LEMMA GoalIsRecords == TypeOK => Goal \in Records
BY DEF TypeOK, Goal

LEMMA TypeInit == Init => TypeOK
<1>. SUFFICES ASSUME Init PROVE TypeOK
  OBVIOUS
<1>1. BrokerTypeOK
  BY TimeAssumption, MineAreEvse DEF Init, BrokerInit, BrokerTypeOK
<1>2. fleet \in Records
  BY MineAreEvse DEF Init, Records
<1>3. plan \in [Actions -> SUBSET Mine]
  BY DEF Init, NothingToSend
<1>. QED BY <1>1, <1>2, <1>3 DEF Init, TypeOK

LEMMA TypeNext == TypeOK /\ [Next]_vars => TypeOK'
<1>. SUFFICES ASSUME TypeOK, [Next]_vars PROVE TypeOK'
  OBVIOUS
<1>. USE DEF TypeOK
<1>1. CASE \E e \in Mine, body \in Held : ChangeFleet(e, body)
  BY <1>1 DEF ChangeFleet, BrokerTypeOK, brokerVars, Records
<1>2. CASE StartPlan
  <2>1. plan' \in [Actions -> SUBSET Mine]
    BY <1>2, GoalIsRecords, PlanShape, FullLoadShape DEF StartPlan
  <2>2. snapshot' \in Records /\ target' \in Records /\ owed' \in BOOLEAN
    BY <1>2, GoalIsRecords DEF StartPlan
  <2>3. phase' \in {"idle", "send", "waiting", "failed"}
    BY <1>2 DEF StartPlan
  <2>. QED BY <1>2, <2>1, <2>2, <2>3 DEF StartPlan, BrokerTypeOK, brokerVars
<1>3. CASE \E a \in Actions : SendRequest(a)
  <2>1. PICK a \in Actions : SendRequest(a) BY <1>3
  <2>2. [id |-> sends, action |-> a, keys |-> plan[a], bodies |-> target] \in Request
    BY DEF Request
  <2>3. wire' \in SUBSET Request
    BY <2>1, <2>2 DEF SendRequest
  <2>4. phase' = "waiting" /\ sends' = sends + 1 /\ answered' = FALSE
    BY <2>1, Zenon DEF SendRequest
  <2>5. /\ BrokerTypeOK'
        /\ UNCHANGED <<afterFailure, fleet, snapshot, target, plan, owed, changes, failures>>
    BY <2>1 DEF SendRequest, BrokerTypeOK, brokerVars
  <2>6. phase' \in {"idle", "send", "waiting", "failed"} /\ sends' \in Nat
    BY <2>4
  <2>7. answered' \in BOOLEAN BY <2>4
  <2>. QED BY <2>3, <2>5, <2>6, <2>7
<1>4. CASE Acknowledge
  <2>1. plan' \in [Actions -> SUBSET Mine] BY <1>4 DEF Acknowledge
  <2>. QED BY <1>4, <2>1 DEF Acknowledge, BrokerTypeOK, brokerVars
<1>5. CASE \E r \in wire : Deliver(r)
  <2>1. PICK r \in wire : Deliver(r) BY <1>5
  <2>2. BrokerTypeOK' BY <2>1, BrokerStaysTyped
  <2>. QED BY <2>1, <2>2 DEF Deliver
<1>6. CASE AttemptFails
  BY <1>6 DEF AttemptFails, BrokerTypeOK, brokerVars
<1>7. CASE GiveUp
  BY <1>7 DEF GiveUp, BrokerTypeOK, brokerVars, NothingToSend
<1>8. CASE UNCHANGED vars
  BY <1>8 DEF vars, cpoVars, brokerVars, BrokerTypeOK
<1>. QED BY <1>1, <1>2, <1>3, <1>4, <1>5, <1>6, <1>7, <1>8 DEF Next, CpoStep

(* The types, for any job and any network. *)
THEOREM PushTypeCorrect == Spec => []TypeOK
BY TypeInit, TypeNext, PTL DEF Spec

-----------------------------------------------------------------------------
(* What a delivery does to the points of the CPO: the ones its request       *)
(* carries, or all of them after a fullLoad, are as the plan wants them.     *)
LEMMA DeliveryBringsTarget ==
    ASSUME TypeOK, PlanFits, WireIsDue, NEW r \in wire, Deliver(r)
    PROVE  \A e \in Mine : world'[e] = IF e \in plan[r.action] \/ r.action = "FullLoad"
                                       THEN target[e] ELSE world[e]
<1>1. r \in Request /\ r.action \in Actions BY DEF TypeOK, Request
<1>2. r.keys = plan[r.action] /\ r.bodies = target BY DEF WireIsDue
<1>3. Due(r.action) /\ plan[r.action] # {} BY DEF WireIsDue, Due
<1>4. Mine \subseteq Evse BY MineAreEvse
<1>5. CASE r.action = "Delete"
  <2>1. world' = [e \in Evse |-> IF e \in plan["Delete"] THEN NoRecord ELSE world[e]]
    BY <1>2, <1>5 DEF Deliver, PushDelete
  <2>2. \A e \in plan["Delete"] : target[e] = NoRecord BY DEF PlanFits
  <2>. QED BY <1>4, <1>5, <2>1, <2>2
<1>6. CASE r.action = "FullLoad"
  <2>1. world' = [e \in Evse |-> IF e \in plan["FullLoad"] THEN target[e]
                                 ELSE IF e \in Mine THEN NoRecord ELSE world[e]]
    BY <1>2, <1>6 DEF Deliver, PushFullLoad, Mine
  <2>2. plan["FullLoad"] = {e \in Mine : target[e] # NoRecord} BY <1>3, <1>6 DEF PlanFits
  <2>. QED BY <1>4, <1>6, <2>1, <2>2
<1>7. CASE r.action \in {"Insert", "Update"}
  <2>1. world' = [e \in Evse |-> IF e \in plan[r.action] THEN target[e] ELSE world[e]]
    BY <1>2, <1>7 DEF Deliver, PushUpsert
  <2>. QED BY <1>4, <1>7, <2>1
<1>. QED BY <1>1, <1>5, <1>6, <1>7 DEF Actions

(* Nothing is sent while the planner plans, and nothing is on the wire but   *)
(* the request a call is waiting for.                                        *)
LEMMA WireIsEmpty == WireIsDue /\ (phase # "waiting" \/ answered) => wire = {}
BY DEF WireIsDue

LEMMA PushInvInit == Init => PushInv
<1>. SUFFICES ASSUME Init PROVE PushInv
  OBVIOUS
<1>1. TypeOK BY TypeInit
<1>2. plan = NothingToSend /\ wire = {} /\ phase = "idle" /\ ~answered /\ ~owed BY DEF Init
<1>3. \A a \in Actions : plan[a] = {} BY <1>2 DEF NothingToSend
<1>4. PlanFits BY <1>3 DEF PlanFits, Actions
<1>5. \A e \in Mine : world[e] = snapshot[e] BY MineAreEvse DEF Init, BrokerInit
<1>. QED BY <1>1, <1>2, <1>4, <1>5
      DEF PushInv, WireIsDue, AnsweredIsDone, OldOrNew, Incremental, Resuming, InStep

(* A new plan starts from a copy that is in step, or resumes the old one.    *)
LEMMA StartPlanKeeps ==
    ASSUME "replan" \notin Habits, PushInv, StartPlan
    PROVE  WireIsDue' /\ PlanFits' /\ AnsweredIsDone' /\ OldOrNew' /\ InStep'
<1>. USE DEF PushInv
<1>1. TypeOK /\ phase = "idle" /\ wire = {} /\ wire' = {} /\ world' = world
  BY WireIsEmpty DEF StartPlan, brokerVars
<1>2. snapshot \in Records /\ Goal \in Records /\ target' = Goal
  BY <1>1, GoalIsRecords DEF TypeOK, StartPlan
<1>3. phase' = "send" \/ (phase' = "idle" /\ plan' = NothingToSend)
  BY <1>1 DEF StartPlan
<1>4. WireIsDue' /\ AnsweredIsDone'
  BY <1>1, <1>3 DEF WireIsDue, AnsweredIsDone, StartPlan
<1>5. CASE owed /\ afterFailure = "rebaseline"
  <2>1. plan' = FullLoadOf(Goal) /\ phase' = "send"
    BY <1>5 DEF StartPlan
  <2>2. /\ plan'["FullLoad"] = {e \in Mine : target'[e] # NoRecord}
        /\ \A a \in Actions \ {"FullLoad"} : plan'[a] = {}
    BY <1>2, <2>1, FullLoadShape
  <2>3. afterFailure' = "rebaseline" BY <1>5 DEF StartPlan
  <2>4. PlanFits' BY <2>3, <2>2 DEF PlanFits, Actions
  <2>5. plan'["FullLoad"] # {}
    BY <2>1, <2>2 DEF StartPlan, NothingToSend, FullLoadOf, Actions
  <2>. QED BY <1>4, <2>1, <2>5, <2>4 DEF OldOrNew, Incremental, Resuming, InStep
<1>6. CASE ~(owed /\ afterFailure = "rebaseline")
  <2>1. plan' = Plan(snapshot, Goal) BY <1>6 DEF StartPlan
  <2>2. /\ plan'["FullLoad"] = {}
        /\ plan'["Insert"] = Inserts(snapshot, Goal)
        /\ plan'["Update"] = Updates(snapshot, Goal)
        /\ plan'["Delete"] = Deletes(snapshot, Goal)
    BY <1>2, <2>1, PlanShape
  <2>3. PlanFits' BY <1>2, <2>2 DEF PlanFits, Inserts, Updates, Deletes
  <2>4. \A e \in Mine : world[e] \in {snapshot[e], Goal[e]}
    <3>1. CASE owed
      <4>1. afterFailure = "repeat" BY <1>6, <3>1, HabitsAssumption DEF TypeOK
      <4>2. Resuming /\ Goal = target BY <1>1, <3>1, <4>1 DEF Resuming, Goal
      <4>. QED BY <4>2 DEF OldOrNew
    <3>2. CASE ~owed BY <1>1, <3>2 DEF InStep
    <3>. QED BY <3>1, <3>2
  <2>5. \A e \in Mine : snapshot[e] # Goal[e]
            => e \in plan'["Insert"] \cup plan'["Update"] \cup plan'["Delete"]
    BY <2>2 DEF Inserts, Updates, Deletes
  <2>6. \A e \in Mine \ ToSend' : world[e] = Goal[e]
    BY <2>4, <2>5 DEF ToSend, Actions
  <2>7. CASE phase' = "send"
    <3>1. snapshot' = snapshot BY <1>1, <2>7 DEF StartPlan
    <3>. QED BY <1>1, <1>2, <1>4, <2>3, <2>4, <2>6, <2>7, <3>1
             DEF OldOrNew, Incremental, Resuming, InStep
  <2>8. CASE phase' = "idle"
    <3>1. snapshot' = Goal /\ owed' = FALSE /\ plan' = NothingToSend
      BY <1>1, <2>8 DEF StartPlan
    <3>2. snapshot = Goal BY <1>2, <2>1, <3>1, PlansAgree
    <3>3. \A e \in Mine : world'[e] = snapshot'[e] BY <1>1, <2>4, <3>1, <3>2
    <3>. QED BY <1>4, <2>3, <2>8, <3>1, <3>3 DEF OldOrNew, Incremental, Resuming, InStep
  <2>. QED BY <1>3, <2>7, <2>8
<1>. QED BY <1>5, <1>6

(* Sending puts the request that is due on an empty wire. *)
LEMMA SendKeeps ==
    ASSUME PushInv, NEW a \in Actions, SendRequest(a)
    PROVE  WireIsDue' /\ PlanFits' /\ AnsweredIsDone' /\ OldOrNew' /\ InStep'
<1>. DEFINE request == [id |-> sends, action |-> a, keys |-> plan[a], bodies |-> target]
<1>1. /\ wire' = {request} /\ phase' = "waiting" /\ answered' = FALSE
      /\ phase \in {"send", "failed"} /\ Due(a)
      /\ UNCHANGED <<afterFailure, world, snapshot, target, plan, owed>>
  BY WireIsEmpty DEF SendRequest, PushInv, brokerVars
<1>2. request.action = a /\ request.keys = plan[a] /\ request.bodies = target
  OBVIOUS
<1>3. WireIsDue' BY <1>1, <1>2 DEF WireIsDue, Due
<1>4. PlanFits' BY <1>1 DEF PushInv, PlanFits
<1>5. OldOrNew'
  BY <1>1 DEF PushInv, OldOrNew, Incremental, Resuming, ToSend
<1>. QED BY <1>1, <1>3, <1>4, <1>5 DEF AnsweredIsDone, InStep

(* A delivery is the delivery of what is due, and leaves the wire empty.     *)
LEMMA DeliveryKeeps ==
    ASSUME PushInv, NEW r \in wire, Deliver(r)
    PROVE  WireIsDue' /\ PlanFits' /\ AnsweredIsDone' /\ OldOrNew' /\ InStep'
<1>. USE DEF PushInv
<1>1. /\ phase = "waiting" /\ wire = {r} /\ wire' = {} /\ Due(r.action)
      /\ UNCHANGED <<afterFailure, snapshot, target, plan, phase, owed>>
  BY DEF WireIsDue, Deliver
<1>2. r.action \in Actions BY DEF TypeOK, Request
<1>3. \A e \in Mine : world'[e] = IF e \in plan[r.action] \/ r.action = "FullLoad"
                                 THEN target[e] ELSE world[e]
  BY DeliveryBringsTarget
<1>4. WireIsDue' BY <1>1 DEF WireIsDue
<1>5. PlanFits' BY <1>1 DEF PlanFits
<1>6. AnsweredIsDone'
  <2>1. ASSUME NEW a \in Actions, Due(a)' PROVE a = r.action
    <3>1. Due(a) BY <1>1, <2>1 DEF Due
    <3>. QED BY <1>1, <1>2, <3>1, OneIsDue
  <2>. QED BY <1>1, <1>3, <2>1 DEF AnsweredIsDone
<1>7. OldOrNew' BY <1>1, <1>3 DEF OldOrNew, Incremental, Resuming, ToSend
<1>. QED BY <1>1, <1>4, <1>5, <1>6, <1>7 DEF InStep

(* An acknowledgement is for what is done; the last one ends the plan.       *)
LEMMA AcknowledgeKeeps ==
    ASSUME PushInv, Acknowledge
    PROVE  WireIsDue' /\ PlanFits' /\ AnsweredIsDone' /\ OldOrNew' /\ InStep'
<1>. USE DEF PushInv
<1>1. /\ phase = "waiting" /\ answered /\ wire = {} /\ wire' = {}
      /\ UNCHANGED <<afterFailure, world, target>>
  BY WireIsEmpty DEF Acknowledge, brokerVars
<1>2. PICK a \in Actions :
        /\ Due(a)
        /\ plan' = [plan EXCEPT ![a] = {}]
        /\ IF plan' = NothingToSend
           THEN phase' = "idle" /\ snapshot' = target /\ owed' = FALSE
           ELSE phase' = "send" /\ UNCHANGED <<snapshot, owed>>
  BY DEF Acknowledge
<1>3. plan \in [Actions -> SUBSET Mine] BY DEF TypeOK
<1>4. plan'[a] = {} /\ \A b \in Actions \ {a} : plan'[b] = plan[b] BY <1>2, <1>3
<1>5. \A e \in Mine : (e \in plan[a] \/ a = "FullLoad") => world[e] = target[e]
  BY <1>1, <1>2 DEF AnsweredIsDone
<1>6. WireIsDue' BY <1>1, <1>2 DEF WireIsDue
<1>7. PlanFits' BY <1>1, <1>4 DEF PlanFits, Actions
<1>8. AnsweredIsDone' BY <1>2 DEF AnsweredIsDone
<1>9. a # "FullLoad" => plan["FullLoad"] = {} /\ plan'["FullLoad"] = {}
  BY <1>2, <1>4 DEF Due, Before, Actions
<1>10. a # "FullLoad" => \A e \in Mine \ ToSend' : world[e] = target[e]
  <2>1. ASSUME a # "FullLoad", NEW e \in Mine \ ToSend' PROVE world[e] = target[e]
    <3>1. CASE e \in plan[a] BY <1>5, <3>1
    <3>2. CASE e \notin plan[a]
      <4>1. e \notin ToSend BY <1>4, <2>1, <3>2 DEF ToSend
      <4>. QED BY <1>1, <1>9, <2>1, <4>1 DEF OldOrNew, Incremental
    <3>. QED BY <3>1, <3>2
  <2>. QED BY <2>1
<1>11. a = "FullLoad" => plan' = NothingToSend
  BY <1>2, <1>3, <1>4 DEF PlanFits, NothingToSend, Actions, Due
<1>12. CASE plan' = NothingToSend
  <2>1. ToSend' = {} BY <1>12 DEF ToSend, NothingToSend
  <2>2. \A e \in Mine : world'[e] = snapshot'[e] BY <1>1, <1>2, <1>5, <1>10, <1>12, <2>1
  <2>. QED BY <1>2, <1>6, <1>7, <1>8, <1>12, <2>2
           DEF OldOrNew, Incremental, Resuming, InStep
<1>13. CASE plan' # NothingToSend
  <2>1. a # "FullLoad" /\ phase' = "send" /\ snapshot' = snapshot BY <1>2, <1>11, <1>13
  <2>2. \A e \in Mine : world[e] \in {snapshot[e], target[e]}
    BY <1>1, <1>9, <2>1 DEF OldOrNew, Incremental
  <2>. QED BY <1>1, <1>6, <1>7, <1>8, <1>10, <2>1, <2>2
           DEF OldOrNew, Incremental, Resuming, InStep
<1>. QED BY <1>12, <1>13

(* A plan that is given up leaves every point as it was or as it was to be.  *)
LEMMA GiveUpKeeps ==
    ASSUME PushInv, GiveUp
    PROVE  WireIsDue' /\ PlanFits' /\ AnsweredIsDone' /\ OldOrNew' /\ InStep'
<1>. USE DEF PushInv
<1>1. /\ phase = "failed" /\ phase' = "idle" /\ plan' = NothingToSend /\ owed' = TRUE
      /\ wire' = {} /\ UNCHANGED <<afterFailure, world, snapshot, target>>
  BY WireIsEmpty DEF GiveUp, brokerVars
<1>2. \A a \in Actions : plan'[a] = {} BY <1>1 DEF NothingToSend
<1>3. PlanFits' BY <1>2 DEF PlanFits, Actions
<1>4. OldOrNew'
  BY <1>1 DEF OldOrNew, Incremental, Resuming, PlanFits
<1>. QED BY <1>1, <1>3, <1>4 DEF WireIsDue, AnsweredIsDone, InStep

LEMMA PushInvNext ==
    ASSUME ~Late, "replan" \notin Habits, PushInv, [Next]_vars
    PROVE  PushInv'
<1>1. TypeOK' BY TypeNext DEF PushInv
<1>2. CASE \E e \in Mine, body \in Held : ChangeFleet(e, body)
  <2>1. UNCHANGED <<afterFailure, world, snapshot, target, plan, phase, answered, owed, wire>>
    BY <1>2 DEF ChangeFleet, brokerVars
  <2>. QED BY <1>1, <2>1 DEF PushInv, WireIsDue, PlanFits, AnsweredIsDone, OldOrNew,
                             Incremental, Resuming, ToSend, InStep, Due
<1>3. CASE StartPlan BY <1>1, <1>3, StartPlanKeeps DEF PushInv
<1>4. CASE \E a \in Actions : SendRequest(a) BY <1>1, <1>4, SendKeeps DEF PushInv
<1>5. CASE Acknowledge BY <1>1, <1>5, AcknowledgeKeeps DEF PushInv
<1>6. CASE \E r \in wire : Deliver(r) BY <1>1, <1>6, DeliveryKeeps DEF PushInv
<1>7. CASE AttemptFails
  <2>1. /\ wire' = {} /\ phase = "waiting" /\ phase' = "failed"
        /\ UNCHANGED <<afterFailure, world, snapshot, target, plan, owed>>
    BY <1>7 DEF AttemptFails, brokerVars
  <2>. QED BY <1>1, <2>1 DEF PushInv, WireIsDue, PlanFits, AnsweredIsDone, OldOrNew,
                             Incremental, Resuming, ToSend, InStep
<1>8. CASE GiveUp BY <1>1, <1>8, GiveUpKeeps DEF PushInv
<1>9. CASE UNCHANGED vars
  <2>1. UNCHANGED <<afterFailure, world, snapshot, target, plan, phase, answered, owed, wire>>
    BY <1>9 DEF vars, brokerVars, cpoVars
  <2>. QED BY <1>1, <2>1 DEF PushInv, WireIsDue, PlanFits, AnsweredIsDone, OldOrNew,
                             Incremental, Resuming, ToSend, InStep, Due
<1>. QED BY <1>2, <1>3, <1>4, <1>5, <1>6, <1>7, <1>8, <1>9 DEF Next, CpoStep

(* Whatever the fleet does and whatever fails, when no failed plan is        *)
(* outstanding the broker holds what the last plan was for                   *)
(* (CpoClient::push_evse_data_plan), if requests do not outlive their        *)
(* attempts and the job does not plan again from a snapshot a failed plan    *)
(* has made untrue.                                                          *)
THEOREM PlansBringInStep ==
    ASSUME ~Late, "replan" \notin Habits
    PROVE  Spec => []InStep
<1>1. PushInv /\ [Next]_vars => PushInv' BY PushInvNext
<1>2. PushInv => InStep BY DEF PushInv
<1>. QED BY PushInvInit, <1>1, <1>2, PTL DEF Spec

(* No step of any plan, fullLoads included, takes a point off the roaming    *)
(* network that was in the fleet and is to stay in it (sync/push.rs, "exists *)
(* throughout").                                                             *)
THEOREM PlansNeverBlink ==
    ASSUME ~Late, "replan" \notin Habits
    PROVE  Spec => NeverBlinks
<1>1. PushInv /\ [Next]_vars => PushInv' BY PushInvNext
<1>2. ASSUME PushInv, [Next]_vars PROVE StaysUp
  <2>1. CASE \E r \in wire : Deliver(r)
    <3>1. PICK r \in wire : Deliver(r) BY <2>1
    <3>2. \A e \in Mine : world'[e] \in {target[e], world[e]}
      BY <1>2, <3>1, DeliveryBringsTarget DEF PushInv
    <3>. QED BY <3>2 DEF StaysUp
  <2>2. CASE ~ \E r \in wire : Deliver(r)
    <3>1. world' = world
      BY <1>2, <2>2 DEF Next, vars, brokerVars, CpoStep, ChangeFleet, StartPlan, SendRequest,
                        Acknowledge, AttemptFails, GiveUp
    <3>. QED BY <3>1 DEF StaysUp
  <2>. QED BY <2>1, <2>2
<1>3. PushInv /\ [Next]_vars => StaysUp BY <1>2
<1>. QED BY PushInvInit, <1>1, <1>3, PTL DEF Spec, NeverBlinks

-----------------------------------------------------------------------------
(* A delivery withdraws a point only when all insertions and updates of its  *)
(* plan are done.                                                            *)
LEMMA DeliveryDeletesLast ==
    ASSUME PushInv, UpsertsFirst, NEW r \in wire, Deliver(r)
    PROVE  UpsertsFirst'
<1>. USE DEF PushInv
<1>1. /\ phase = "waiting" /\ Due(r.action)
      /\ UNCHANGED <<afterFailure, snapshot, target, plan, phase, owed>>
  BY DEF WireIsDue, Deliver
<1>2. r.action \in Actions BY DEF TypeOK, Request
<1>3. \A e \in Mine : world'[e] = IF e \in plan[r.action] \/ r.action = "FullLoad"
                                 THEN target[e] ELSE world[e]
  BY DeliveryBringsTarget
<1>. SUFFICES ASSUME plan["FullLoad"] = {}, NEW e \in Mine, NEW f \in Mine,
                     snapshot[e] # NoRecord, target[e] = NoRecord, world'[e] = NoRecord
              PROVE  world'[f] = target[f] \/ target[f] = NoRecord
  BY <1>1 DEF UpsertsFirst, Incremental, Resuming
<1>4. Incremental /\ r.action # "FullLoad" BY <1>1 DEF Incremental, Due
<1>5. CASE r.action \in {"Insert", "Update"}
  <2>1. e \notin plan[r.action] BY <1>5 DEF PlanFits
  <2>2. world[e] = NoRecord BY <1>3, <1>4, <2>1
  <2>3. world[f] = target[f] \/ target[f] = NoRecord BY <1>4, <2>2 DEF UpsertsFirst
  <2>. QED BY <1>3, <2>3
<1>6. CASE r.action = "Delete"
  <2>1. plan["Insert"] = {} /\ plan["Update"] = {} BY <1>1, <1>6 DEF Due, Before, Actions
  <2>2. CASE f \in plan["Delete"] BY <2>2 DEF PlanFits
  <2>3. CASE f \notin plan["Delete"]
    <3>1. f \notin ToSend BY <2>1, <2>3 DEF ToSend, Actions
    <3>2. world[f] = target[f] BY <1>4, <3>1 DEF OldOrNew
    <3>. QED BY <1>3, <3>2
  <2>. QED BY <2>2, <2>3
<1>. QED BY <1>2, <1>4, <1>5, <1>6 DEF Actions

LEMMA UpsertsFirstNext ==
    ASSUME ~Late, "replan" \notin Habits, PushInv, UpsertsFirst, [Next]_vars
    PROVE  UpsertsFirst'
<1>. USE DEF PushInv
<1>1. ASSUME Incremental' \/ Resuming' => Incremental \/ Resuming,
             Incremental' \/ Resuming' => UNCHANGED <<snapshot, target>>, world' = world
      PROVE  UpsertsFirst'
  BY <1>1 DEF UpsertsFirst
<1>2. ASSUME UNCHANGED <<afterFailure, world, snapshot, target, plan, owed>>,
             (phase # "idle" /\ phase' # "idle") \/ phase' = phase
      PROVE  UpsertsFirst'
  BY <1>2 DEF UpsertsFirst, Incremental, Resuming
<1>3. CASE \E e \in Mine, body \in Held : ChangeFleet(e, body)
  BY <1>2, <1>3 DEF ChangeFleet, brokerVars
<1>4. CASE StartPlan
  <2>1. world' = world /\ phase = "idle" /\ target' = Goal BY <1>4 DEF StartPlan, brokerVars
  <2>2. (phase' = "send" /\ UNCHANGED <<snapshot, owed>>) \/ (phase' = "idle" /\ owed' = FALSE)
    BY <1>4, <2>1 DEF StartPlan
  <2>3. CASE phase' = "idle" /\ owed' = FALSE
    BY <2>3 DEF UpsertsFirst, Incremental, Resuming
  <2>4. CASE phase' = "send" /\ UNCHANGED snapshot /\ ~owed
    <3>1. \A e \in Mine : world[e] = snapshot[e] BY <2>1, <2>4 DEF InStep
    <3>. QED BY <2>1, <2>4, <3>1 DEF UpsertsFirst
  <2>5. CASE phase' = "send" /\ UNCHANGED snapshot /\ owed /\ afterFailure = "repeat"
    <3>1. Resuming /\ target' = target BY <2>1, <2>5 DEF Resuming, Goal
    <3>. QED BY <1>1, <2>1, <2>5, <3>1
  <2>6. CASE phase' = "send" /\ owed /\ afterFailure = "rebaseline"
    <3>1. plan' = FullLoadOf(Goal) /\ plan' # NothingToSend BY <1>4, <2>6 DEF StartPlan
    <3>2. plan'["FullLoad"] # {}
      BY <3>1, <2>1, GoalIsRecords, FullLoadShape DEF NothingToSend, FullLoadOf, Actions
    <3>. QED BY <2>6, <3>2 DEF UpsertsFirst, Incremental, Resuming
  <2>. QED BY <2>2, <2>3, <2>4, <2>5, <2>6, HabitsAssumption DEF TypeOK
<1>5. CASE \E a \in Actions : SendRequest(a)
  BY <1>2, <1>5 DEF SendRequest, brokerVars
<1>6. CASE Acknowledge
  <2>1. world' = world /\ target' = target /\ phase = "waiting" /\ answered
    BY <1>6 DEF Acknowledge, brokerVars
  <2>2. PICK a \in Actions :
          /\ Due(a)
          /\ plan' = [plan EXCEPT ![a] = {}]
          /\ IF plan' = NothingToSend
             THEN phase' = "idle" /\ snapshot' = target /\ owed' = FALSE
             ELSE phase' = "send" /\ UNCHANGED <<snapshot, owed>>
    BY <1>6 DEF Acknowledge
  <2>3. plan \in [Actions -> SUBSET Mine] BY DEF TypeOK
  <2>4. CASE plan' = NothingToSend BY <2>2, <2>4 DEF UpsertsFirst, Incremental, Resuming
  <2>5. CASE plan' # NothingToSend
    <3>1. a # "FullLoad"
      <4>1. a = "FullLoad" => plan' = NothingToSend
        BY <2>2, <2>3 DEF PlanFits, NothingToSend, Actions, Due
      <4>. QED BY <2>5, <4>1
    <3>2. plan["FullLoad"] = {} BY <2>2, <3>1 DEF Due, Before, Actions
    <3>. QED BY <1>1, <2>1, <2>2, <2>5, <3>2 DEF Incremental, Resuming
  <2>. QED BY <2>4, <2>5
<1>7. CASE \E r \in wire : Deliver(r) BY <1>7, DeliveryDeletesLast
<1>8. CASE AttemptFails BY <1>2, <1>8 DEF AttemptFails, brokerVars
<1>9. CASE GiveUp
  BY <1>1, <1>9 DEF GiveUp, brokerVars, PlanFits, Incremental, Resuming
<1>10. CASE UNCHANGED vars BY <1>2, <1>10 DEF vars, brokerVars, cpoVars
<1>. QED BY <1>3, <1>4, <1>5, <1>6, <1>7, <1>8, <1>9, <1>10 DEF Next, CpoStep

(* While a plan runs, and while it is repeated after a failure, no point is  *)
(* withdrawn before all that is new or changed is there (PushPlan: "inserts  *)
(* and updates first, deletions last").                                      *)
THEOREM PlansDeleteLast ==
    ASSUME ~Late, "replan" \notin Habits
    PROVE  Spec => []DeletesLast
<1>. DEFINE Inv == PushInv /\ UpsertsFirst
<1>1. Init => Inv
  <2>1. Init => ~Incremental /\ ~Resuming BY DEF Init, Incremental, Resuming
  <2>. QED BY <2>1, PushInvInit DEF UpsertsFirst
<1>2. Inv /\ [Next]_vars => Inv' BY PushInvNext, UpsertsFirstNext
<1>3. Inv => DeletesLast BY DEF UpsertsFirst, DeletesLast, Incremental
<1>. HIDE DEF Inv
<1>. QED BY <1>1, <1>2, <1>3, PTL DEF Spec
=============================================================================
