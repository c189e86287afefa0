----------------------------- MODULE EvseSync -------------------------------
(* One EMP keeping its copy of the EVSE world in step with the broker while  *)
(* operators push, the two clocks disagree, and crawls are abandoned.        *)
(* Composes HubjectEvse (the broker) and DeltaEngine (the EMP).              *)
EXTENDS HubjectEvse, DeltaEngine

CONSTANTS
    MaxSkew,            \* the EMP's clock is at most this far from the broker's
    ClockMoves,         \* may that distance change while the EMP runs?
    QuietFullCrawls     \* do operators withdraw nothing while a full crawl runs?

(* PlannerConfig::clock_skew_guard: "more than any clock a partner is likely *)
(* to run against NTP".                                                      *)
ASSUME SkewAssumption == MaxSkew \in Nat /\ MaxSkew < Guard
(* mod.rs, rule 4: a watermark the planner still uses is never one the       *)
(* broker may have forgotten changes after.                                  *)
ASSUME RetentionCoversAge == MaxDeltaAge + MaxSkew <= Retention
ASSUME ClockMovesAssumption == ClockMoves \in BOOLEAN
ASSUME QuietAssumption == QuietFullCrawls \in BOOLEAN

VARIABLE skew       \* the EMP's clock minus the broker's

vars == <<brokerVars, engineVars, skew>>

EmpClock == now + skew

TypeOK == BrokerTypeOK /\ EngineTypeOK /\ skew \in -MaxSkew..MaxSkew

Init == BrokerInit /\ EngineInit /\ skew \in -MaxSkew..MaxSkew

-----------------------------------------------------------------------------
FullCrawlRuns == phase # "idle" /\ plan.full
DeltaCrawlRuns == phase # "idle" /\ ~plan.full

(* What a push may do to the listing a full crawl is walking through. *)
WithdrawsAtAWrongTime(keys) == QuietFullCrawls /\ FullCrawlRuns /\ keys \cap Live # {}

Upsert(op) ==
    /\ \E keys \in SUBSET Fleet(op) : \E bodyOf \in [keys -> Bodies] : PushUpsert(op, keys, bodyOf)
    /\ UNCHANGED <<engineVars, skew>>

Withdraw(op) ==
    /\ \E keys \in SUBSET Fleet(op) : ~WithdrawsAtAWrongTime(keys) /\ PushDelete(op, keys)
    /\ UNCHANGED <<engineVars, skew>>

FullLoad(op) ==
    /\ \E keys \in SUBSET Fleet(op) : \E bodyOf \in [keys -> Bodies] :
            /\ ~WithdrawsAtAWrongTime(Fleet(op) \ keys)
            /\ PushFullLoad(op, keys, bodyOf)
    /\ UNCHANGED <<engineVars, skew>>

(* The broker forgets an old change, but not one a running delta still lists. *)
Expire ==
    /\ \E e \in Evse : ~(DeltaCrawlRuns /\ history[e].at > plan.since) /\ Forget(e)
    /\ UNCHANGED <<engineVars, skew>>

Time == Tick /\ UNCHANGED <<engineVars, skew>>

(* The EMP's clock is stepped (NTP, a suspended laptop, a migrated guest). *)
AdjustClock ==
    /\ ClockMoves
    /\ skew' \in -MaxSkew..MaxSkew
    /\ UNCHANGED <<brokerVars, engineVars>>

BeginPull(force) == Begin(force, EmpClock) /\ UNCHANGED <<brokerVars, skew>>

(* The broker answers with a page of the listing as it is when the request   *)
(* gets the lock.                                                            *)
PullPage == Receive(Page(plan.full, plan.since, plan.offset)) /\ UNCHANGED <<brokerVars, skew>>

Forces == IF MayForce THEN BOOLEAN ELSE {FALSE}

Operator(op) == Upsert(op) \/ Withdraw(op) \/ FullLoad(op)

Pull == \/ \E force \in Forces : BeginPull(force)
        \/ PullPage
        \/ ApplyPage /\ UNCHANGED <<brokerVars, skew>>
        \/ Commit /\ UNCHANGED <<brokerVars, skew>>

Trouble == (Fail \/ Crash) /\ UNCHANGED <<brokerVars, skew>>

Next == \/ \E op \in Operators : Operator(op)
        \/ Expire \/ Time \/ AdjustClock
        \/ Pull \/ Trouble

Spec == Init /\ [][Next]_vars

(* The EMP keeps pulling: the pull is run on a schedule.  Nothing is assumed *)
(* of operators, clocks or failures.                                         *)
FairSpec == Spec /\ WF_vars(Pull)

-----------------------------------------------------------------------------
(* The copy is right about e, or a delta from `since` will report e. *)
Covered(e, since) ==
    \/ copy[e] = world[e]
    \/ history[e].tag # "none" /\ history[e].at > since

(* Nothing is lost: between crawls, if the next pull would be a delta, then  *)
(* that delta reports every charging point the copy is wrong about.          *)
(* planner.rs: "changes made during it are picked up next time rather than   *)
(* lost"; repository.rs: a crash "costs a repeat, not a corruption".         *)
NothingLost ==
    phase = "idle" /\ ~NeedsFull(FALSE, EmpClock) => \A e \in Evse : Covered(e, lastCall)

(* A finished crawl is a snapshot: what the copy is wrong about when the     *)
(* last page has been applied was pushed after the crawl began, and comes    *)
(* with the next delta, which starts at the mark (unless the crawl took so   *)
(* long that the mark is too old already, and the next pull is a full one).  *)
CrawlIsSnapshot ==
    phase = "finished" /\ EmpClock - plan.mark <= MaxDeltaAge
        => \A e \in Evse : Covered(e, plan.mark)

(* The EMP gets back in step again and again: whenever the operators stop    *)
(* pushing, the next completed pull makes the copy the broker's world.       *)
InStep == phase = "idle" /\ copy = world
Converges == []<>InStep

-----------------------------------------------------------------------------
(* Why NothingLost holds: the inductive invariant EvseSync_proofs proves.    *)

After(e, m) == history[e].tag # "none" /\ history[e].at > m

(* A watermark so old that no reading of the EMP's clock allows a delta. *)
PossibleSkews == IF ClockMoves THEN -MaxSkew..MaxSkew ELSE {skew}
Hopeless(m) == \A s \in PossibleSkews : (now + s) - m > MaxDeltaAge

(* The copy c can be repaired by a delta from m, or m will not be used. *)
Right(c, m) == (\A e \in Evse : c[e] = world[e] \/ After(e, m)) \/ Hopeless(m)

PageRight(m) ==
    (\A e \in DOMAIN answer.records : Taken(e) = world[e] \/ After(e, m)) \/ Hopeless(m)

(* e is still to come: the page of the listing that holds it was not asked. *)
Ahead(e, offset) ==
    /\ e \in Listing(plan.full, plan.since)
    /\ offset <= Rank(Listing(plan.full, plan.since), e)

ClockInv ==
    /\ lastCall # NoMark => lastCall < now /\ (~ClockMoves => lastCall <= EmpClock)
    /\ phase # "idle" => plan.mark < now /\ (~ClockMoves => plan.mark <= EmpClock)

TagInv == \A e \in Evse : history[e].tag = "Delete" => world[e] = NoRecord

SinceInv == DeltaCrawlRuns => plan.since = lastCall /\ lastCall # NoMark

(* What survives if the crawl is abandoned is repairable from the watermark. *)
Kept == IF Storage = "file" /\ phase # "idle" THEN base ELSE copy
KeptInv == lastCall # NoMark => Right(Kept, lastCall)

PageInv == phase = "applying" => /\ PageRight(plan.mark)
                                 /\ lastCall # NoMark => PageRight(lastCall)

(* What a running crawl is wrong about is still to come, or was pushed after *)
(* the crawl began.                                                          *)
AskingInv == phase = "asking" =>
    \/ Hopeless(plan.mark)
    \/ \A e \in Evse : copy[e] = world[e] \/ After(e, plan.mark) \/ Ahead(e, plan.offset)

ApplyingInv == phase = "applying" =>
    \/ Hopeless(plan.mark)
    \/ \A e \in Evse : \/ copy[e] = world[e] \/ After(e, plan.mark)
                       \/ e \in DOMAIN answer.records
                       \/ ~answer.last /\ Ahead(e, plan.offset + PageSize)

FinishedInv == phase = "finished" => Right(copy, plan.mark)

IInv == /\ TypeOK /\ ClockInv /\ TagInv /\ SinceInv
        /\ KeptInv /\ PageInv /\ AskingInv /\ ApplyingInv /\ FinishedInv

(* The conditions under which nothing is lost. *)
Careful == /\ QuietFullCrawls
           /\ ~FullLoadsWithdraw
           /\ Storage = "file" \/ (~MayForce /\ ~ClockMoves)
=============================================================================
