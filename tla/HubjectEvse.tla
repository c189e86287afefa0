---------------------------- MODULE HubjectEvse -----------------------------
(* The broker's EVSE data: what operators push, what a pull returns.         *)
(* Modelled from testkit/mock.rs.  Every operation runs under one lock, so   *)
(* each is one step.                                                         *)
EXTENDS EvseData

CONSTANTS
    Operators,              \* the CPOs that push
    Owner,                  \* Owner[e]: the operator an EvseID names
    FullLoadsWithdraw,      \* may a fullLoad leave out a live charging point?
    Retention,              \* how long the broker remembers a change, at least
    MaxPushes,              \* bound: how many pushes a behaviour has
    StartTime, MaxTime      \* bound: the broker's clock runs from one to the other

ASSUME OwnerAssumption == Owner \in [Evse -> Operators]
ASSUME FullLoadsAssumption == FullLoadsWithdraw \in BOOLEAN
ASSUME RetentionAssumption == Retention \in Nat
ASSUME PushBoundAssumption == MaxPushes \in Nat
ASSUME TimeAssumption == StartTime \in Nat /\ MaxTime \in Nat

VARIABLES
    world,      \* world[e]: the live record, or NoRecord
    history,    \* history[e]: when e last changed and how; tag "none" if never
    now,        \* the broker's clock
    pushes      \* how many pushes there have been

brokerVars == <<world, history, now, pushes>>

Fleet(op) == {e \in Evse : Owner[e] = op}
Live == {e \in Evse : world[e] # NoRecord}

BrokerTypeOK ==
    /\ world \in [Evse -> Held]
    /\ history \in [Evse -> [tag : DeltaTags \cup {"none"}, at : Nat]]
    /\ now \in Nat
    /\ pushes \in Nat

BrokerInit ==
    /\ world = [e \in Evse |-> NoRecord]
    /\ history = [e \in Evse |-> [tag |-> "none", at |-> 0]]
    /\ now = StartTime
    /\ pushes = 0

-----------------------------------------------------------------------------
(* The tag an upserted record gets: Insert exactly when the map held none.   *)
UpsertTag(held) == IF held = NoRecord THEN "Insert" ELSE "Update"

(* Every push stamps all of its records with one reading of the clock, taken *)
(* under the lock after they are applied.                                    *)
Stamp(keys, tag) ==
    history' = [e \in Evse |-> IF e \in keys THEN [tag |-> tag[e], at |-> now] ELSE history[e]]

(* A push of zero records changes nothing, so only other ones are steps. *)
Pushing(keys) ==
    /\ pushes < MaxPushes
    /\ keys # {}
    /\ pushes' = pushes + 1
    /\ UNCHANGED now

(* actionType insert and update: the broker upserts either way. *)
PushUpsert(op, keys, bodyOf) ==
    /\ Pushing(keys)
    /\ keys \subseteq Fleet(op)
    /\ world' = [e \in Evse |-> IF e \in keys THEN bodyOf[e] ELSE world[e]]
    /\ Stamp(keys, [e \in keys |-> UpsertTag(world[e])])

PushDeleteAsUpdate(op, keys) ==             \* Mutant: a withdrawn point stays, without its fields
    /\ Pushing(keys)
    /\ keys \subseteq Fleet(op)
    /\ world' = [e \in Evse |-> IF e \in keys THEN Husk ELSE world[e]]
    /\ Stamp(keys, [e \in keys |-> "Delete"])

(* actionType delete: a key the broker does not hold leaves a tombstone too. *)
PushDelete(op, keys) ==
    /\ Pushing(keys)
    /\ keys \subseteq Fleet(op)
    /\ world' = [e \in Evse |-> IF e \in keys THEN NoRecord ELSE world[e]]
    /\ Stamp(keys, [e \in keys |-> "Delete"])

PushFullLoadMerging(op, keys, bodyOf) ==    \* Mutant: the operator's map is not cleared
    /\ Pushing(keys)
    /\ keys \subseteq Fleet(op)
    /\ world' = [e \in Evse |-> IF e \in keys THEN bodyOf[e] ELSE world[e]]
    /\ Stamp(keys, [e \in keys |-> "Insert"])

(* actionType fullLoad: the operator's map is cleared first, so every record *)
(* is an Insert, and what is not sent again leaves no trace in the history.  *)
(* An empty fullLoad is refused.                                             *)
PushFullLoad(op, keys, bodyOf) ==
    /\ Pushing(keys)
    /\ keys \subseteq Fleet(op)
    /\ FullLoadsWithdraw \/ Fleet(op) \cap Live \subseteq keys
    /\ world' = [e \in Evse |-> IF e \in keys THEN bodyOf[e]
                                ELSE IF e \in Fleet(op) THEN NoRecord ELSE world[e]]
    /\ Stamp(keys, [e \in keys |-> "Insert"])

(* Hubject documents no retention for its delta history: a change that is    *)
(* old enough may be forgotten.  The mock forgets nothing.                   *)
Forget(e) ==
    /\ history[e].tag # "none"
    /\ now - history[e].at > Retention
    /\ history' = [history EXCEPT ![e] = [tag |-> "none", at |-> 0]]
    /\ UNCHANGED <<world, now, pushes>>

Tick == /\ now < MaxTime
        /\ now' = now + 1
        /\ UNCHANGED <<world, history, pushes>>

-----------------------------------------------------------------------------
(* What a pull lists: a delta the keys whose last change is strictly after   *)
(* LastCall, a full pull the live ones.                                      *)
ChangedAfter(since) == {e \in Evse : history[e].tag # "none" /\ history[e].at > since}

Listing(full, since) == IF full THEN Live ELSE ChangedAfter(since)

Tombstone == [tag |-> "Delete", body |-> Husk]

DeltaRecord(e) == IF history[e].tag = "Delete" \/ world[e] = NoRecord
                  THEN Tombstone
                  ELSE [tag |-> history[e].tag, body |-> world[e]]

PulledRecord(full, e) == IF full THEN [tag |-> "none", body |-> world[e]] ELSE DeltaRecord(e)

(* One page: the records of one slice of the listing as it is at this moment *)
(* (nothing remembers the listing an earlier page was cut from).             *)
Page(full, since, offset) ==
    LET listing == Listing(full, since) IN
    [records |-> [e \in PageKeys(listing, offset) |-> PulledRecord(full, e)],
     last    |-> LastPage(listing, offset)]
=============================================================================
