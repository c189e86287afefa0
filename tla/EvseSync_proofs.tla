-------------------------- MODULE EvseSync_proofs ---------------------------
(* Proofs about EvseSync: type correctness, and that nothing is lost, for    *)
(* every number of charging points, page size, clock distance and bound.     *)
EXTENDS EvseSync, FiniteSetTheorems, TLAPS

-----------------------------------------------------------------------------
(* Listings and ranks.                                                       *)

LEMMA SubsetsAreFinite ==
    ASSUME NEW S \in SUBSET Evse
    PROVE  IsFiniteSet(S) /\ Cardinality(S) \in Nat
<1>1. IsFiniteSet(Evse)
  BY FS_Interval, NumEvseAssumption DEF Evse
<1> QED
  BY <1>1, FS_Subset, FS_CardinalityType

(* The rank of a charging point in a listing is a number. *)
LEMMA RankType ==
    ASSUME NEW S \in SUBSET Evse, NEW e
    PROVE  Rank(S, e) \in Nat
<1>1. {k \in S : k < e} \in SUBSET Evse
  OBVIOUS
<1> QED
  BY <1>1, SubsetsAreFinite DEF Rank

(* A listing that gains entries pushes the others back, never forward. *)
LEMMA RankGrows ==
    ASSUME NEW S \in SUBSET Evse, NEW T \in SUBSET Evse, S \subseteq T, NEW e
    PROVE  Rank(S, e) <= Rank(T, e)
<1>1. {k \in S : k < e} \subseteq {k \in T : k < e}
  OBVIOUS
<1>2. IsFiniteSet({k \in T : k < e})
  BY SubsetsAreFinite
<1> QED
  BY <1>1, <1>2, FS_Subset DEF Rank

(* An entry of a listing ranks below the listing's length, so a page that    *)
(* reaches the length reaches every entry.                                   *)
LEMMA RankBelowLength ==
    ASSUME NEW S \in SUBSET Evse, NEW e \in S
    PROVE  Rank(S, e) < Cardinality(S)
<1> DEFINE Below == {k \in S : k < e}
<1>1. IsFiniteSet(S) /\ Cardinality(S) \in Nat
  BY SubsetsAreFinite
<1>2. Below \subseteq S /\ e \notin Below
  BY NumEvseAssumption DEF Evse
<1>3. Cardinality(Below) <= Cardinality(S) /\ (Cardinality(S) = Cardinality(Below) => S = Below)
  BY <1>1, <1>2, FS_Subset
<1>4. Cardinality(Below) \in Nat
  BY <1>1, <1>2, FS_Subset, FS_CardinalityType
<1> QED
  BY <1>1, <1>2, <1>3, <1>4 DEF Rank

-----------------------------------------------------------------------------
(* Type correctness.                                                         *)

LEMMA InitTypeOK == Init => TypeOK
BY TimeAssumption, SkewAssumption
   DEF Init, BrokerInit, EngineInit, TypeOK, BrokerTypeOK, EngineTypeOK, EmptyCopy, Copies,
       NoPlan, NoAnswer, Held, DeltaTags

LEMMA PushTypeOK ==
    ASSUME TypeOK, NEW op \in Operators, Operator(op)
    PROVE  TypeOK'
<1> USE DEF TypeOK, BrokerTypeOK
<1>1. EngineTypeOK' /\ (skew \in -MaxSkew..MaxSkew)'
  BY DEF Operator, Upsert, Withdraw, FullLoad, engineVars, EngineTypeOK
<1>2. now' = now /\ pushes' = pushes + 1
  BY DEF Operator, Upsert, Withdraw, FullLoad, PushUpsert, PushDelete, PushFullLoad, Pushing
<1>3. world' \in [Evse -> Held]
  <2>1. CASE Upsert(op)
    BY <2>1 DEF Upsert, PushUpsert, Held
  <2>2. CASE Withdraw(op)
    BY <2>2 DEF Withdraw, PushDelete, Held
  <2>3. CASE FullLoad(op)
    BY <2>3 DEF FullLoad, PushFullLoad, Held
  <2> QED BY <2>1, <2>2, <2>3 DEF Operator
<1>4. history' \in [Evse -> [tag : DeltaTags \cup {"none"}, at : Nat]]
  <2>1. CASE Upsert(op)
    BY <2>1 DEF Upsert, PushUpsert, Stamp, UpsertTag, DeltaTags
  <2>2. CASE Withdraw(op)
    BY <2>2 DEF Withdraw, PushDelete, Stamp, DeltaTags
  <2>3. CASE FullLoad(op)
    BY <2>3 DEF FullLoad, PushFullLoad, Stamp, DeltaTags
  <2> QED BY <2>1, <2>2, <2>3 DEF Operator
<1> QED
  BY <1>1, <1>2, <1>3, <1>4

(* The records of a page are well formed: a tombstone carries nothing that   *)
(* could be taken for a charging point.                                      *)
LEMMA PageTypeOK ==
    ASSUME TypeOK, NEW e \in Listing(plan.full, plan.since)
    PROVE  e \in Evse /\ PulledRecord(plan.full, e) \in PullRecord
<1>1. e \in Evse
  BY DEF Listing, Live, ChangedAfter
<1>2. CASE plan.full
  BY <1>1, <1>2 DEF Listing, Live, PulledRecord, PullRecord, TypeOK, BrokerTypeOK, Held
<1>3. CASE ~plan.full
  BY <1>1, <1>3 DEF PulledRecord, DeltaRecord, Tombstone, PullRecord, TypeOK, BrokerTypeOK, Held,
                    DeltaTags
<1> QED
  BY <1>1, <1>2, <1>3

LEMMA TakenType ==
    ASSUME EngineTypeOK, NEW e \in DOMAIN answer.records
    PROVE  Taken(e) \in Held
BY DEF EngineTypeOK, Taken, PullRecord, Held

LEMMA AppliedType ==
    ASSUME EngineTypeOK, NEW keys \in SUBSET DOMAIN answer.records
    PROVE  Applied(keys) \in Copies
BY TakenType DEF EngineTypeOK, Applied, Copies

LEMMA PartlyAppliedType ==
    ASSUME EngineTypeOK, NEW c \in PartlyApplied
    PROVE  c \in Copies
BY AppliedType DEF PartlyApplied, EngineTypeOK

LEMMA PullTypeOK ==
    ASSUME TypeOK, Pull
    PROVE  TypeOK'
<1> USE DEF TypeOK
<1>1. BrokerTypeOK' /\ (skew \in -MaxSkew..MaxSkew)'
  BY DEF Pull, BeginPull, PullPage, brokerVars, BrokerTypeOK
<1>2. ASSUME NEW force \in Forces, BeginPull(force) PROVE EngineTypeOK'
  <2>1. EmpClock \in Int /\ Guarded(EmpClock) \in Int
    BY SkewAssumption, DurationAssumption DEF EmpClock, Guarded, BrokerTypeOK
  <2>2. EmptyCopy \in Copies
    BY DEF EmptyCopy, Copies, Held
  <2>3. NeedsFull(force, EmpClock) \in BOOLEAN
    BY DEF NeedsFull
  <2> QED
    BY <1>2, <2>1, <2>2, <2>3 DEF BeginPull, Begin, EngineTypeOK
<1>3. CASE PullPage
  <2> DEFINE page == Page(plan.full, plan.since, plan.offset)
  <2>1. DOMAIN page = {"records", "last"} /\ page.last \in BOOLEAN
    BY DEF Page, LastPage
  <2>2. DOMAIN page.records = PageKeys(Listing(plan.full, plan.since), plan.offset)
    BY DEF Page
  <2>3. \A e \in DOMAIN page.records : e \in Evse /\ page.records[e] \in PullRecord
    BY <2>2, PageTypeOK DEF Page, PageKeys
  <2> HIDE DEF page
  <2> QED
    BY <1>1, <1>3, <2>1, <2>3 DEF PullPage, Receive, EngineTypeOK, page
<1>4. CASE ApplyPage
  <2>1. copy' \in Copies
    BY <1>4, AppliedType DEF ApplyPage
  <2>2. plan' \in [full : BOOLEAN, since : Int \cup {NoMark}, mark : Int, offset : Nat]
    BY <1>4, PageSizeAssumption DEF ApplyPage, EngineTypeOK
  <2> QED
    BY <1>1, <1>4, <2>1, <2>2 DEF ApplyPage, EngineTypeOK, NoAnswer
<1>5. CASE Commit
  BY <1>1, <1>5, NoMarkAssumption DEF Commit, EngineTypeOK, NoPlan, EmptyCopy, Copies, Held
<1> QED
  BY <1>1, <1>2, <1>3, <1>4, <1>5 DEF Pull

LEMMA TroubleTypeOK ==
    ASSUME TypeOK, Trouble
    PROVE  TypeOK'
<1> USE DEF TypeOK
<1>1. BrokerTypeOK' /\ (skew \in -MaxSkew..MaxSkew)'
  BY DEF Trouble, brokerVars, BrokerTypeOK
<1>2. copy' \in Copies /\ lastCall' \in Int \cup {NoMark}
  BY PartlyAppliedType DEF Trouble, Fail, Crash, EngineTypeOK, EmptyCopy, Copies, Held
<1>3. Abandon
  BY DEF Trouble, Fail, Crash
<1> QED
  BY <1>1, <1>2, <1>3 DEF Abandon, EngineTypeOK, NoPlan, NoAnswer, EmptyCopy, Copies, Held

LEMMA NextTypeOK == TypeOK /\ [Next]_vars => TypeOK'
<1> SUFFICES ASSUME TypeOK, [Next]_vars PROVE TypeOK'
  OBVIOUS
<1> USE DEF TypeOK, BrokerTypeOK, EngineTypeOK
<1>1. ASSUME NEW op \in Operators, Operator(op) PROVE TypeOK'
  BY <1>1, PushTypeOK
<1>2. CASE Expire
  BY <1>2 DEF Expire, Forget, engineVars
<1>3. CASE Time
  BY <1>3 DEF Time, Tick, engineVars
<1>4. CASE AdjustClock
  BY <1>4 DEF AdjustClock, brokerVars, engineVars
<1>5. CASE Pull
  BY <1>5, PullTypeOK
<1>6. CASE Trouble
  BY <1>6, TroubleTypeOK
<1>7. CASE UNCHANGED vars
  BY <1>7 DEF vars, brokerVars, engineVars
<1> QED
  BY <1>1, <1>2, <1>3, <1>4, <1>5, <1>6, <1>7 DEF Next

(* Type correctness: what the EMP stores is a record or nothing, never the   *)
(* leftovers of a tombstone.                                                 *)
THEOREM TypeCorrect == Spec => []TypeOK
<1>1. Init => TypeOK
  BY InitTypeOK
<1>2. TypeOK /\ [Next]_vars => TypeOK'
  BY NextTypeOK
<1> QED
  BY <1>1, <1>2, PTL DEF Spec

-----------------------------------------------------------------------------
(* Nothing is lost.  First the steps that are not the EMP's: they leave what *)
(* the EMP knows alone, and they disturb no promise about a watermark m that *)
(* lies in the past.                                                         *)

Environment == \/ \E op \in Operators : Operator(op)
               \/ Expire \/ Time \/ AdjustClock

AfterNext(e, m) == history'[e].tag # "none" /\ history'[e].at > m
HopelessNext(m) == \A s \in PossibleSkews' : (now' + s) - m > MaxDeltaAge

LEMMA EnvironmentIsNotTheEmp == Environment => UNCHANGED engineVars
BY DEF Environment, Operator, Upsert, Withdraw, FullLoad, Expire, Time, AdjustClock

LEMMA EnvironmentClocks ==
    ASSUME TypeOK, Environment
    PROVE  now' \in Int /\ now <= now' /\ (~ClockMoves => skew' = skew)
<1> USE DEF TypeOK, BrokerTypeOK
<1>1. ASSUME NEW op \in Operators, Operator(op) PROVE now' = now /\ skew' = skew
  BY <1>1 DEF Operator, Upsert, Withdraw, FullLoad, PushUpsert, PushDelete, PushFullLoad, Pushing
<1>2. CASE Expire
  BY <1>2 DEF Expire, Forget
<1>3. CASE Time
  BY <1>3 DEF Time, Tick
<1>4. CASE AdjustClock
  BY <1>4 DEF AdjustClock, brokerVars
<1> QED
  BY <1>1, <1>2, <1>3, <1>4 DEF Environment

(* A watermark too old to be used stays too old. *)
LEMMA HopelessStays ==
    ASSUME TypeOK, Environment, NEW m \in Int, Hopeless(m)
    PROVE  HopelessNext(m)
<1>1. TypeOK'
  BY NextTypeOK DEF Environment, Next
<1>2. PossibleSkews' = PossibleSkews
  BY EnvironmentClocks, ClockMovesAssumption DEF PossibleSkews
<1>3. PossibleSkews \subseteq Int
  BY SkewAssumption DEF PossibleSkews, TypeOK
<1> QED
  BY <1>2, <1>3, EnvironmentClocks, DurationAssumption DEF Hopeless, HopelessNext, TypeOK, BrokerTypeOK

(* A push reports what it changes: whoever held a watermark from before it   *)
(* is told.                                                                  *)
LEMMA PushesAreReported ==
    ASSUME TypeOK, Careful, NEW op \in Operators, Operator(op),
           NEW m \in Int, m < now, NEW e \in Evse
    PROVE  /\ world'[e] = world[e] \/ AfterNext(e, m)
           /\ After(e, m) => AfterNext(e, m)
<1> USE DEF TypeOK, BrokerTypeOK, AfterNext, After
<1>1. CASE Upsert(op)
  BY <1>1 DEF Upsert, PushUpsert, Stamp, UpsertTag
<1>2. CASE Withdraw(op)
  BY <1>2 DEF Withdraw, PushDelete, Stamp
<1>3. CASE FullLoad(op)
  BY <1>3 DEF FullLoad, PushFullLoad, Stamp, Careful, Live
<1> QED
  BY <1>1, <1>2, <1>3 DEF Operator

(* A change the broker forgets is one no usable watermark needs. *)
LEMMA ForgottenIsHopeless ==
    ASSUME TypeOK, NEW e \in Evse, Forget(e), skew' = skew, NEW m \in Int, After(e, m)
    PROVE  HopelessNext(m)
<1>1. history[e].at \in Nat /\ now \in Nat /\ now' = now
  BY DEF TypeOK, BrokerTypeOK, Forget
<1>2. now - m > MaxDeltaAge + MaxSkew
  BY <1>1, RetentionCoversAge, RetentionAssumption, DurationAssumption, SkewAssumption DEF Forget, After
<1>3. \A s \in PossibleSkews' : s \in Int /\ -MaxSkew <= s
  BY SkewAssumption DEF PossibleSkews, TypeOK
<1> QED
  BY <1>1, <1>2, <1>3, DurationAssumption, SkewAssumption DEF HopelessNext

LEMMA EnvironmentReports ==
    ASSUME TypeOK, Careful, Environment, NEW m \in Int, m < now, NEW e \in Evse
    PROVE  /\ world'[e] = world[e] \/ AfterNext(e, m)
           /\ After(e, m) => AfterNext(e, m) \/ HopelessNext(m)
<1>1. ASSUME NEW op \in Operators, Operator(op)
      PROVE  /\ world'[e] = world[e] \/ AfterNext(e, m)
             /\ After(e, m) => AfterNext(e, m)
  BY <1>1, PushesAreReported
<1>2. CASE Expire
  <2>1. PICK f \in Evse : Forget(f)
    BY <1>2 DEF Expire
  <2>2. world' = world /\ skew' = skew
    BY <1>2, <2>1 DEF Expire, Forget
  <2>3. CASE e = f
    BY <2>1, <2>2, <2>3, ForgottenIsHopeless
  <2>4. CASE e # f
    BY <2>1, <2>2, <2>4 DEF Forget, After, AfterNext, TypeOK, BrokerTypeOK
  <2> QED BY <2>3, <2>4
<1>3. CASE Time \/ AdjustClock
  BY <1>3 DEF Time, Tick, AdjustClock, brokerVars, After, AfterNext
<1> QED
  BY <1>1, <1>2, <1>3 DEF Environment

(* While a crawl runs its listing only gains entries: a delta's because a    *)
(* push is stamped later than the watermark, a full pull's because nothing   *)
(* is withdrawn.                                                             *)
LEMMA ListingGrows ==
    ASSUME IInv, Careful, Environment, phase # "idle"
    PROVE  Listing(plan.full, plan.since) \subseteq Listing(plan.full, plan.since)'
<1> USE DEF IInv
<1>1. plan' = plan /\ phase' = phase
  BY EnvironmentIsNotTheEmp DEF engineVars
<1>2. CASE plan.full
  <2>1. Live \subseteq Live'
    <3>1. ASSUME NEW op \in Operators, Operator(op) PROVE Live \subseteq Live'
      <4>1. CASE Upsert(op)
        BY <4>1, BodiesAssumption DEF Upsert, PushUpsert, Live, TypeOK, BrokerTypeOK
      <4>2. CASE Withdraw(op)
        BY <1>2, <4>2 DEF Withdraw, PushDelete, WithdrawsAtAWrongTime, FullCrawlRuns, Careful, Live,
                          TypeOK, BrokerTypeOK
      <4>3. CASE FullLoad(op)
        BY <4>3, BodiesAssumption DEF FullLoad, PushFullLoad, Careful, Live, TypeOK, BrokerTypeOK
      <4> QED BY <3>1, <4>1, <4>2, <4>3 DEF Operator
    <3>2. CASE Expire \/ Time \/ AdjustClock
      BY <3>2 DEF Expire, Forget, Time, Tick, AdjustClock, brokerVars, Live
    <3> QED BY <3>1, <3>2 DEF Environment
  <2> QED
    BY <1>1, <1>2, <2>1 DEF Listing
<1>3. CASE ~plan.full
  <2>1. plan.since \in Int /\ plan.since < now
    BY <1>3 DEF SinceInv, DeltaCrawlRuns, ClockInv, TypeOK, EngineTypeOK
  <2>2. ASSUME NEW e \in ChangedAfter(plan.since)
        PROVE  e \in Evse /\ AfterNext(e, plan.since)
    <3>1. e \in Evse /\ After(e, plan.since)
      BY DEF ChangedAfter, After
    <3>2. CASE Expire
      BY <1>3, <3>1, <3>2 DEF Expire, Forget, DeltaCrawlRuns, After, AfterNext, TypeOK, BrokerTypeOK
    <3>3. ASSUME NEW op \in Operators, Operator(op) PROVE AfterNext(e, plan.since)
      BY <2>1, <3>1, <3>3, PushesAreReported
    <3>4. CASE Time \/ AdjustClock
      BY <3>1, <3>4 DEF Time, Tick, AdjustClock, brokerVars, After, AfterNext
    <3> QED BY <3>1, <3>2, <3>3, <3>4 DEF Environment
  <2> QED
    BY <1>1, <1>3, <2>2 DEF Listing, ChangedAfter, AfterNext
<1> QED
  BY <1>2, <1>3

AheadNext(e, offset) ==
    /\ e \in Listing(plan.full, plan.since)'
    /\ offset <= Rank(Listing(plan.full, plan.since)', e)

LEMMA AheadStays ==
    ASSUME IInv, Careful, Environment, phase # "idle", NEW e \in Evse, NEW o \in Nat, Ahead(e, o)
    PROVE  AheadNext(e, o)
<1> DEFINE S == Listing(plan.full, plan.since)
           T == Listing(plan.full, plan.since)'
<1>1. S \subseteq T
  BY ListingGrows
<1>2. S \in SUBSET Evse /\ T \in SUBSET Evse
  BY DEF Listing, Live, ChangedAfter
<1>3. Rank(S, e) <= Rank(T, e) /\ Rank(S, e) \in Nat /\ Rank(T, e) \in Nat
  <2> HIDE DEF S, T
  <2> QED BY <1>1, <1>2, RankGrows, RankType
<1>4. e \in S /\ o <= Rank(S, e)
  BY DEF Ahead
<1>5. e \in T /\ o <= Rank(T, e)
  <2> HIDE DEF S, T
  <2> QED BY <1>1, <1>3, <1>4
<1> QED
  BY <1>5 DEF AheadNext

LEMMA SumGrows ==
    ASSUME NEW a \in Int, NEW b \in Int, NEW c \in Int, a <= b
    PROVE  a + c \in Int /\ b + c \in Int /\ a + c <= b + c
OBVIOUS

(* The steps that are not the EMP's preserve the invariant. *)
LEMMA EnvironmentKeepsIInv ==
    ASSUME IInv, Careful, Environment
    PROVE  IInv'
<1> USE DEF IInv
<1>1. TypeOK'
  BY NextTypeOK DEF Environment, Next
<1>2. UNCHANGED <<copy, lastCall, phase, plan, answer, base, failures>>
  BY EnvironmentIsNotTheEmp DEF engineVars
<1>3. lastCall \in Int \cup {NoMark} /\ plan.mark \in Int /\ plan.offset \in Nat /\ NoMark \notin Int
  BY NoMarkAssumption DEF TypeOK, EngineTypeOK
<1>4. now \in Int /\ now' \in Int /\ now <= now' /\ (~ClockMoves => skew' = skew)
  BY EnvironmentClocks DEF TypeOK, BrokerTypeOK
<1>5. ClockInv'
  <2>1. skew \in Int /\ skew' \in Int
    BY <1>1, SkewAssumption DEF TypeOK
  <2>2. CASE ClockMoves
    BY <1>2, <1>3, <1>4, <2>2 DEF ClockInv
  <2>3. CASE ~ClockMoves
    <3>1. skew' = skew
      BY <1>4, <2>3
    <3>2. EmpClock \in Int /\ EmpClock' \in Int /\ EmpClock <= EmpClock'
      BY <1>4, <2>1, <3>1, SumGrows DEF EmpClock
    <3> QED
      BY <1>2, <1>3, <1>4, <3>2 DEF ClockInv
  <2> QED BY <2>2, <2>3
<1>6. TagInv'
  <2>1. ASSUME NEW op \in Operators, Operator(op) PROVE TagInv'
    <3> USE DEF TagInv, TypeOK, BrokerTypeOK
    <3>1. CASE Upsert(op)
      BY <3>1 DEF Upsert, PushUpsert, Stamp, UpsertTag
    <3>2. CASE Withdraw(op)
      BY <3>2 DEF Withdraw, PushDelete, Stamp
    <3>3. CASE FullLoad(op)
      BY <3>3 DEF FullLoad, PushFullLoad, Stamp
    <3> QED BY <2>1, <3>1, <3>2, <3>3 DEF Operator
  <2>2. CASE Expire
    BY <2>2 DEF Expire, Forget, TagInv, TypeOK, BrokerTypeOK
  <2>3. CASE Time \/ AdjustClock
    BY <2>3 DEF Time, Tick, AdjustClock, brokerVars, TagInv
  <2> QED BY <2>1, <2>2, <2>3 DEF Environment
<1>7. SinceInv'
  BY <1>2 DEF SinceInv, DeltaCrawlRuns
<1> DEFINE Reported(m) ==
               /\ Hopeless(m) => HopelessNext(m)
               /\ \A e \in Evse :
                     /\ world'[e] = world[e] \/ AfterNext(e, m)
                     /\ After(e, m) => AfterNext(e, m) \/ HopelessNext(m)
<1>8. ASSUME NEW m \in Int, m < now PROVE Reported(m)
  BY <1>8, HopelessStays, EnvironmentReports
<1>a. phase # "idle" => Reported(plan.mark)
  <2> HIDE DEF Reported
  <2> QED BY <1>3, <1>8 DEF ClockInv
<1>b. lastCall # NoMark => Reported(lastCall)
  <2> HIDE DEF Reported
  <2> QED BY <1>3, <1>8 DEF ClockInv
<1>9. KeptInv'
  <2> SUFFICES ASSUME lastCall # NoMark
               PROVE  (\A e \in Evse : Kept[e] = world'[e] \/ AfterNext(e, lastCall))
                        \/ HopelessNext(lastCall)
    BY <1>2 DEF KeptInv, Kept, Right, After, AfterNext, Hopeless, HopelessNext
  <2>1. Right(Kept, lastCall)
    BY DEF KeptInv
  <2> QED
    BY <1>b, <2>1 DEF Right
<1>10. PageInv'
  <2> SUFFICES ASSUME phase = "applying"
               PROVE  /\ PageRight(plan.mark)'
                      /\ lastCall # NoMark => PageRight(lastCall)'
    BY <1>2 DEF PageInv
  <2>1. DOMAIN answer.records \subseteq Evse
    BY DEF TypeOK, EngineTypeOK
  <2>2. PageRight(plan.mark)'
    <3>1. (\A e \in DOMAIN answer.records : Taken(e) = world'[e] \/ AfterNext(e, plan.mark))
            \/ HopelessNext(plan.mark)
      BY <1>a, <2>1 DEF PageInv, PageRight
    <3> QED
      BY <1>2, <3>1 DEF PageRight, Taken, After, AfterNext, Hopeless, HopelessNext
  <2>3. ASSUME lastCall # NoMark PROVE PageRight(lastCall)'
    <3>1. (\A e \in DOMAIN answer.records : Taken(e) = world'[e] \/ AfterNext(e, lastCall))
            \/ HopelessNext(lastCall)
      BY <1>b, <2>1, <2>3 DEF PageInv, PageRight
    <3> QED
      BY <1>2, <3>1 DEF PageRight, Taken, After, AfterNext, Hopeless, HopelessNext
  <2> QED BY <2>2, <2>3
<1>11. ASSUME phase # "idle", NEW e \in Evse, NEW o \in Nat, Ahead(e, o)
       PROVE  AheadNext(e, o)
  BY <1>11, AheadStays
<1>12. AskingInv'
  <2> SUFFICES ASSUME phase = "asking"
               PROVE  \/ HopelessNext(plan.mark)
                      \/ \A e \in Evse : \/ copy[e] = world'[e] \/ AfterNext(e, plan.mark)
                                         \/ AheadNext(e, plan.offset)
    BY <1>2 DEF AskingInv, After, AfterNext, Hopeless, HopelessNext, Ahead, AheadNext
  <2> QED
    BY <1>3, <1>a, <1>11 DEF AskingInv
<1>13. ApplyingInv'
  <2> SUFFICES ASSUME phase = "applying"
               PROVE  \/ HopelessNext(plan.mark)
                      \/ \A e \in Evse : \/ copy[e] = world'[e] \/ AfterNext(e, plan.mark)
                                         \/ e \in DOMAIN answer.records
                                         \/ ~answer.last /\ AheadNext(e, plan.offset + PageSize)
    BY <1>2 DEF ApplyingInv, After, AfterNext, Hopeless, HopelessNext, Ahead, AheadNext
  <2>1. plan.offset + PageSize \in Nat
    BY <1>3, PageSizeAssumption
  <2> QED
    BY <1>a, <1>11, <2>1 DEF ApplyingInv
<1>14. FinishedInv'
  <2> SUFFICES ASSUME phase = "finished"
               PROVE  (\A e \in Evse : copy[e] = world'[e] \/ AfterNext(e, plan.mark))
                        \/ HopelessNext(plan.mark)
    BY <1>2 DEF FinishedInv, Right, After, AfterNext, Hopeless, HopelessNext
  <2> QED
    BY <1>a DEF FinishedInv, Right
<1> QED
  BY <1>1, <1>5, <1>6, <1>7, <1>9, <1>10, <1>12, <1>13, <1>14

-----------------------------------------------------------------------------
(* The EMP's own steps.                                                      *)

LEMMA BeginKeepsIInv ==
    ASSUME IInv, Careful, NEW force \in Forces, BeginPull(force)
    PROVE  IInv'
<1> USE DEF IInv
<1> DEFINE full == NeedsFull(force, EmpClock)
<1>1. TypeOK'
  BY NextTypeOK DEF Pull, Next
<1>2. /\ phase = "idle" /\ phase' = "asking" /\ lastCall' = lastCall /\ base' = copy
      /\ world' = world /\ history' = history /\ now' = now /\ skew' = skew
  BY DEF BeginPull, Begin, brokerVars
<1>3. /\ plan' = [full |-> full, since |-> lastCall, mark |-> EmpClock - Guard, offset |-> 0]
      /\ copy' = IF full THEN EmptyCopy ELSE copy
  BY DEF BeginPull, Begin, Guarded
<1>4. lastCall \in Int \cup {NoMark} /\ now \in Int /\ skew \in Int /\ skew <= MaxSkew /\ NoMark \notin Int
  BY NoMarkAssumption, SkewAssumption DEF TypeOK, BrokerTypeOK, EngineTypeOK
<1>5. /\ EmpClock - Guard \in Int /\ EmpClock - Guard < now /\ EmpClock - Guard <= EmpClock
      /\ EmpClock \in Int
  BY <1>4, SkewAssumption, DurationAssumption DEF EmpClock
<1>6. ClockInv'
  <2>1. EmpClock' = EmpClock
    BY <1>2 DEF EmpClock
  <2>2. plan'.mark = EmpClock - Guard
    BY <1>3
  <2> QED
    BY <1>2, <1>5, <2>1, <2>2 DEF ClockInv
<1>7. TagInv'
  BY <1>2 DEF TagInv
<1>8. SinceInv'
  BY <1>2, <1>3 DEF SinceInv, DeltaCrawlRuns, NeedsFull
<1>9. KeptInv'
  <2> SUFFICES ASSUME lastCall # NoMark PROVE Right(Kept', lastCall)
    BY <1>2 DEF KeptInv, Right, After, Hopeless, PossibleSkews
  <2>1. Right(copy, lastCall)
    BY <1>2 DEF KeptInv, Kept
  <2>2. CASE Storage = "file"
    BY <1>2, <2>1, <2>2 DEF Kept
  <2>3. CASE Storage # "file"
    <3>1. Kept' = copy'
      BY <2>3 DEF Kept
    <3>2. force = FALSE /\ ~ClockMoves
      BY <2>3 DEF Careful, Forces
    <3>3. CASE copy' = copy
      BY <2>1, <3>1, <3>3
    <3>4. CASE EmpClock - lastCall > MaxDeltaAge
      BY <3>2, <3>4 DEF Right, Hopeless, PossibleSkews, EmpClock
    <3>5. ~(EmpClock < lastCall)
      BY <1>4, <1>5, <3>2 DEF ClockInv
    <3>6. copy' = copy \/ EmpClock - lastCall > MaxDeltaAge
      BY <1>3, <3>2, <3>5 DEF NeedsFull
    <3> QED BY <3>3, <3>4, <3>6
  <2> QED BY <2>2, <2>3
<1>10. PageInv' /\ ApplyingInv' /\ FinishedInv'
  BY <1>2 DEF PageInv, ApplyingInv, FinishedInv
<1>11. AskingInv'
  <2> DEFINE S == Listing(plan.full, plan.since)'
  <2>1. S \in SUBSET Evse
    BY DEF Listing, Live, ChangedAfter
  <2>2. \A e \in S : 0 <= Rank(S, e)
    <3> HIDE DEF S
    <3> QED BY <2>1, RankType
  <2>3. \A e \in S : Ahead(e, plan.offset)'
    <3>1. plan'.offset = 0
      BY <1>3
    <3> QED
      BY <2>2, <3>1 DEF Ahead
  <2>4. CASE full
    <3>1. S = Live
      BY <1>2, <1>3, <2>4 DEF Listing, Live
    <3>2. \A e \in Evse : copy'[e] = world'[e] \/ e \in S
      BY <1>2, <1>3, <2>4, <3>1 DEF EmptyCopy, Live
    <3> QED
      BY <2>3, <3>2 DEF AskingInv
  <2>5. CASE ~full
    <3>1. copy' = copy /\ lastCall \in Int /\ ~(EmpClock - lastCall > MaxDeltaAge)
      BY <1>3, <1>4, <1>5, <2>5, DurationAssumption DEF NeedsFull
    <3>2. ~Hopeless(lastCall)
      <4>1. skew \in PossibleSkews
        BY DEF PossibleSkews, TypeOK
      <4>2. ~((now + skew) - lastCall > MaxDeltaAge)
        BY <3>1 DEF EmpClock
      <4> QED BY <4>1, <4>2 DEF Hopeless
    <3>3. S = ChangedAfter(lastCall)
      BY <1>2, <1>3, <2>5 DEF Listing, ChangedAfter
    <3>4. \A e \in Evse : copy[e] = world[e] \/ After(e, lastCall)
      BY <1>2, <1>4, <3>1, <3>2 DEF KeptInv, Kept, Right
    <3>5. \A e \in Evse : copy'[e] = world'[e] \/ e \in S
      BY <1>2, <3>1, <3>3, <3>4 DEF ChangedAfter, After
    <3> QED
      BY <2>3, <3>5 DEF AskingInv
  <2> QED BY <2>4, <2>5
<1> QED
  BY <1>1, <1>6, <1>7, <1>8, <1>9, <1>10, <1>11

LEMMA PullPageKeepsIInv ==
    ASSUME IInv, PullPage
    PROVE  IInv'
<1> USE DEF IInv
<1> DEFINE S == Listing(plan.full, plan.since)
           keys == PageKeys(S, plan.offset)
<1>1. TypeOK'
  BY NextTypeOK DEF Pull, Next
<1>2. /\ phase = "asking" /\ phase' = "applying"
      /\ UNCHANGED <<world, history, now, skew, copy, lastCall, plan, base>>
  BY DEF PullPage, Receive, brokerVars
<1>3. /\ answer'.records = [e \in keys |-> PulledRecord(plan.full, e)]
      /\ answer'.last = LastPage(S, plan.offset)
  BY DEF PullPage, Receive, Page
<1>4. ClockInv' /\ TagInv' /\ SinceInv' /\ KeptInv' /\ AskingInv' /\ FinishedInv'
  BY <1>2 DEF ClockInv, EmpClock, TagInv, SinceInv, DeltaCrawlRuns, KeptInv, Kept, AskingInv,
              FinishedInv, Right, After, Hopeless, PossibleSkews
<1>5. keys \subseteq S /\ S \in SUBSET Evse
  BY DEF PageKeys, Listing, Live, ChangedAfter
<1>6. \A e \in DOMAIN answer'.records : Taken(e)' = world'[e]
  <2> SUFFICES ASSUME NEW e \in keys PROVE Taken(e)' = world[e]
    BY <1>2, <1>3
  <2>1. answer'.records[e] = PulledRecord(plan.full, e)
    BY <1>3
  <2>2. e \in Evse /\ e \in S
    BY <1>5
  <2>3. CASE plan.full
    BY <2>1, <2>3 DEF Taken, PulledRecord
  <2>4. CASE ~plan.full
    <3>1. answer'.records[e] = DeltaRecord(e)
      BY <2>1, <2>4 DEF PulledRecord
    <3>2. CASE history[e].tag = "Delete" \/ world[e] = NoRecord
      BY <2>2, <3>1, <3>2 DEF Taken, DeltaRecord, Tombstone, TagInv
    <3>3. CASE ~(history[e].tag = "Delete" \/ world[e] = NoRecord)
      BY <3>1, <3>3 DEF Taken, DeltaRecord
    <3> QED BY <3>2, <3>3
  <2> QED BY <2>3, <2>4
<1>7. PageInv'
  BY <1>6 DEF PageInv, PageRight
<1>8. ApplyingInv'
  <2>1. ASSUME NEW e \in Evse, Ahead(e, plan.offset)
        PROVE  \/ e \in DOMAIN answer'.records
               \/ ~answer'.last /\ Ahead(e, plan.offset + PageSize)
    <3>1. e \in S /\ plan.offset <= Rank(S, e)
      BY <2>1 DEF Ahead
    <3>2. Rank(S, e) \in Nat /\ Rank(S, e) < Cardinality(S) /\ Cardinality(S) \in Nat
      <4> HIDE DEF S
      <4> QED BY <1>5, <3>1, RankType, RankBelowLength, SubsetsAreFinite
    <3>3. plan.offset \in Nat /\ plan.offset + PageSize \in Nat
      BY PageSizeAssumption DEF TypeOK, EngineTypeOK
    <3>4. CASE Rank(S, e) < plan.offset + PageSize
      BY <1>3, <3>1, <3>4 DEF PageKeys
    <3>5. CASE plan.offset + PageSize <= Rank(S, e)
      <4>1. ~(Cardinality(S) <= plan.offset + PageSize)
        <5> HIDE DEF S
        <5> QED BY <3>2, <3>3, <3>5
      <4> QED BY <1>3, <3>1, <3>5, <4>1 DEF LastPage, Ahead
    <3>6. Rank(S, e) < plan.offset + PageSize \/ plan.offset + PageSize <= Rank(S, e)
      <4> HIDE DEF S
      <4> QED BY <3>2, <3>3
    <3> QED BY <3>4, <3>5, <3>6
  <2>2. \A e \in Evse : Ahead(e, plan.offset + PageSize) => Ahead(e, plan.offset + PageSize)'
    BY <1>2 DEF Ahead, Listing, Live, ChangedAfter
  <2>3. Hopeless(plan.mark) => Hopeless(plan.mark)'
    BY <1>2 DEF Hopeless, PossibleSkews
  <2>4. \A e \in Evse : After(e, plan.mark) => After(e, plan.mark)'
    BY <1>2 DEF After
  <2> QED
    BY <1>2, <2>1, <2>2, <2>3, <2>4 DEF ApplyingInv, AskingInv
<1> QED
  BY <1>1, <1>4, <1>7, <1>8

(* What stopping between two records of a page leaves behind. *)
LEMMA PartlyAppliedIsSafe ==
    ASSUME TypeOK, NEW m, Right(copy, m), phase = "applying" => PageRight(m), NEW c \in PartlyApplied
    PROVE  (\A e \in Evse : c[e] = world[e] \/ After(e, m)) \/ Hopeless(m)
<1>1. CASE phase = "applying"
  <2>1. PICK stop \in 1..NumEvse : c = Applied({e \in DOMAIN answer.records : e < stop})
    BY <1>1 DEF PartlyApplied
  <2>2. \A e \in Evse : c[e] = copy[e] \/ (e \in DOMAIN answer.records /\ c[e] = Taken(e))
    BY <2>1 DEF Applied
  <2> QED
    BY <1>1, <2>2 DEF Right, PageRight
<1>2. CASE phase # "applying"
  BY <1>2 DEF PartlyApplied, Right
<1> QED BY <1>1, <1>2

LEMMA ApplyPageKeepsIInv ==
    ASSUME IInv, ApplyPage, UNCHANGED <<brokerVars, skew>>
    PROVE  IInv'
<1> USE DEF IInv
<1>1. TypeOK'
  BY NextTypeOK DEF Pull, Next
<1>2. /\ phase = "applying" /\ phase' = IF answer.last THEN "finished" ELSE "asking"
      /\ UNCHANGED <<world, history, now, skew, lastCall, base>>
  BY DEF ApplyPage, brokerVars
<1>3. /\ plan'.full = plan.full /\ plan'.since = plan.since /\ plan'.mark = plan.mark
      /\ ~answer.last => plan'.offset = plan.offset + PageSize
  BY DEF ApplyPage, TypeOK, EngineTypeOK
<1>4. \A e \in Evse : IF e \in DOMAIN answer.records THEN copy'[e] = Taken(e) ELSE copy'[e] = copy[e]
  BY DEF ApplyPage, Applied
<1>5. ClockInv' /\ TagInv' /\ SinceInv' /\ PageInv' /\ ApplyingInv'
  BY <1>2, <1>3 DEF ClockInv, EmpClock, TagInv, SinceInv, DeltaCrawlRuns, PageInv, ApplyingInv
<1>6. KeptInv'
  <2> SUFFICES ASSUME lastCall # NoMark PROVE Right(Kept', lastCall)
    BY <1>2 DEF KeptInv, Right, After, Hopeless, PossibleSkews
  <2>1. CASE Storage = "file"
    BY <1>2, <2>1 DEF Kept, KeptInv
  <2>2. CASE Storage # "file"
    <3>1. Kept' = copy' /\ Kept = copy
      BY <2>2 DEF Kept
    <3> QED
      BY <1>2, <1>4, <3>1 DEF KeptInv, PageInv, PageRight, Right
  <2> QED BY <2>1, <2>2
<1>7. \/ Hopeless(plan.mark)
      \/ \A e \in Evse : \/ copy'[e] = world[e] \/ After(e, plan.mark)
                         \/ ~answer.last /\ Ahead(e, plan.offset + PageSize)
  BY <1>2, <1>4 DEF ApplyingInv, PageInv, PageRight
<1>8. /\ Hopeless(plan.mark) => Hopeless(plan.mark)'
      /\ \A e \in Evse : After(e, plan.mark) => After(e, plan.mark)'
  BY <1>2, <1>3 DEF Hopeless, PossibleSkews, After
<1>9. CASE answer.last
  <2>1. FinishedInv'
    BY <1>2, <1>3, <1>7, <1>9 DEF FinishedInv, Right, Hopeless, PossibleSkews, After
  <2>2. AskingInv'
    BY <1>2, <1>9 DEF AskingInv
  <2> QED BY <1>1, <1>5, <1>6, <2>1, <2>2
<1>10. CASE ~answer.last
  <2>1. FinishedInv'
    BY <1>2, <1>10 DEF FinishedInv
  <2>2. \A e \in Evse : Ahead(e, plan.offset + PageSize) => Ahead(e, plan.offset)'
    BY <1>2, <1>3, <1>10 DEF Ahead, Listing, Live, ChangedAfter
  <2>3. AskingInv'
    BY <1>2, <1>7, <1>8, <1>10, <2>2 DEF AskingInv
  <2> QED BY <1>1, <1>5, <1>6, <2>1, <2>3
<1> QED BY <1>9, <1>10

LEMMA CommitKeepsIInv ==
    ASSUME IInv, Commit, UNCHANGED <<brokerVars, skew>>
    PROVE  IInv'
<1> USE DEF IInv
<1>1. TypeOK'
  BY NextTypeOK DEF Pull, Next
<1>2. /\ phase = "finished" /\ phase' = "idle" /\ lastCall' = plan.mark
      /\ UNCHANGED <<world, history, now, skew, copy>>
  BY DEF Commit, brokerVars
<1>3. ClockInv' /\ TagInv' /\ SinceInv' /\ PageInv' /\ AskingInv' /\ ApplyingInv' /\ FinishedInv'
  BY <1>2 DEF ClockInv, EmpClock, TagInv, SinceInv, DeltaCrawlRuns, PageInv, AskingInv, ApplyingInv,
              FinishedInv
<1>4. KeptInv'
  BY <1>2 DEF KeptInv, Kept, FinishedInv, Right, After, Hopeless, PossibleSkews
<1> QED BY <1>1, <1>3, <1>4

LEMMA TroubleKeepsIInv ==
    ASSUME IInv, Trouble
    PROVE  IInv'
<1> USE DEF IInv
<1>1. TypeOK'
  BY NextTypeOK DEF Next
<1>2. /\ phase # "idle" /\ phase' = "idle"
      /\ UNCHANGED <<world, history, now, skew>>
  BY DEF Trouble, Fail, Crash, Abandon, brokerVars
<1>3. \/ lastCall' = NoMark
      \/ /\ lastCall' = lastCall
         /\ \/ Storage = "file" /\ copy' = base
            \/ Storage # "file" /\ copy' \in PartlyApplied
  BY DEF Trouble, Fail, Crash
<1>4. ClockInv'
  BY <1>2, <1>3 DEF ClockInv, EmpClock
<1>5. TagInv' /\ SinceInv' /\ PageInv' /\ AskingInv' /\ ApplyingInv' /\ FinishedInv'
  BY <1>2 DEF TagInv, SinceInv, DeltaCrawlRuns, PageInv, AskingInv, ApplyingInv, FinishedInv
<1>6. KeptInv'
  <2> SUFFICES ASSUME lastCall' # NoMark PROVE Right(copy', lastCall)
    BY <1>2, <1>3 DEF KeptInv, Kept, Right, After, Hopeless, PossibleSkews
  <2>1. lastCall # NoMark /\ Right(Kept, lastCall)
    BY <1>3 DEF KeptInv
  <2>2. CASE Storage = "file"
    BY <1>2, <1>3, <2>1, <2>2 DEF Kept
  <2>3. CASE Storage # "file"
    <3>1. copy' \in PartlyApplied /\ Right(copy, lastCall)
      BY <1>3, <2>1, <2>3 DEF Kept
    <3> QED
      BY <2>1, <3>1, PartlyAppliedIsSafe DEF PageInv, Right
  <2> QED BY <2>2, <2>3
<1> QED BY <1>1, <1>4, <1>5, <1>6

-----------------------------------------------------------------------------
LEMMA InitIInv == Init => IInv
<1> SUFFICES ASSUME Init PROVE IInv
  OBVIOUS
<1>1. TypeOK
  BY InitTypeOK
<1>2. phase = "idle" /\ lastCall = NoMark /\ \A e \in Evse : history[e].tag = "none"
  BY DEF Init, BrokerInit, EngineInit
<1> QED
  BY <1>1, <1>2 DEF IInv, ClockInv, TagInv, SinceInv, DeltaCrawlRuns, KeptInv, PageInv, AskingInv,
                    ApplyingInv, FinishedInv

LEMMA NextIInv ==
    ASSUME IInv, Careful, [Next]_vars
    PROVE  IInv'
<1>1. CASE Environment
  BY <1>1, EnvironmentKeepsIInv
<1>2. ASSUME NEW force \in Forces, BeginPull(force) PROVE IInv'
  BY <1>2, BeginKeepsIInv
<1>3. CASE PullPage
  BY <1>3, PullPageKeepsIInv
<1>4. CASE ApplyPage /\ UNCHANGED <<brokerVars, skew>>
  BY <1>4, ApplyPageKeepsIInv
<1>5. CASE Commit /\ UNCHANGED <<brokerVars, skew>>
  BY <1>5, CommitKeepsIInv
<1>6. CASE Trouble
  BY <1>6, TroubleKeepsIInv
<1>7. CASE UNCHANGED vars
  BY <1>7 DEF vars, brokerVars, engineVars, IInv, TypeOK, BrokerTypeOK, EngineTypeOK, ClockInv, EmpClock,
     TagInv, SinceInv, DeltaCrawlRuns, KeptInv, Kept, PageInv, PageRight, Taken, AskingInv, ApplyingInv,
     FinishedInv, Right, After, Hopeless, PossibleSkews, Ahead, Listing, Live, ChangedAfter
<1> QED
  BY <1>1, <1>2, <1>3, <1>4, <1>5, <1>6, <1>7 DEF Next, Environment, Pull

LEMMA IInvNothingLost == IInv => NothingLost
<1> SUFFICES ASSUME IInv, phase = "idle", ~NeedsFull(FALSE, EmpClock), NEW e \in Evse
             PROVE  Covered(e, lastCall)
  BY DEF NothingLost
<1> USE DEF IInv
<1>1. lastCall # NoMark /\ ~(EmpClock - lastCall > MaxDeltaAge)
  BY DEF NeedsFull
<1>2. skew \in PossibleSkews
  BY DEF PossibleSkews, TypeOK
<1>3. ~Hopeless(lastCall)
  BY <1>1, <1>2 DEF Hopeless, EmpClock
<1> QED
  BY <1>1, <1>3 DEF KeptInv, Kept, Right, Covered, After

LEMMA IInvCrawlIsSnapshot == IInv => CrawlIsSnapshot
<1> SUFFICES ASSUME IInv, phase = "finished", EmpClock - plan.mark <= MaxDeltaAge, NEW e \in Evse
             PROVE  Covered(e, plan.mark)
  BY DEF CrawlIsSnapshot
<1> USE DEF IInv
<1>1. skew \in PossibleSkews
  BY DEF PossibleSkews, TypeOK
<1>2. now \in Int /\ skew \in Int /\ plan.mark \in Int
  BY SkewAssumption DEF TypeOK, BrokerTypeOK, EngineTypeOK
<1>3. EmpClock - plan.mark \in Int
  BY <1>2 DEF EmpClock
<1>4. ~(EmpClock - plan.mark > MaxDeltaAge)
  BY <1>3, DurationAssumption
<1>5. ~Hopeless(plan.mark)
  BY <1>1, <1>4 DEF Hopeless, EmpClock
<1> QED
  BY <1>5 DEF FinishedInv, Right, Covered, After

(* Nothing is lost, for every fleet, page size, clock distance below the     *)
(* guard and any number of failures, when a full crawl meets no withdrawal,  *)
(* no fullLoad drops a live charging point, and either an abandoned crawl    *)
(* leaves nothing behind or nobody forces a re-baseline or steps the clock.  *)
THEOREM NothingIsLost == ASSUME Careful PROVE Spec => []NothingLost
<1>1. Init => IInv
  BY InitIInv
<1>2. IInv /\ [Next]_vars => IInv'
  BY NextIInv
<1>3. IInv => NothingLost
  BY IInvNothingLost
<1> QED
  BY <1>1, <1>2, <1>3, PTL DEF Spec

(* Every finished crawl is a snapshot of the moment it began, under the same *)
(* conditions: pages cut by offset from a listing that moves meanwhile skip  *)
(* nothing that the next delta does not report.                              *)
THEOREM CrawlsAreSnapshots == ASSUME Careful PROVE Spec => []CrawlIsSnapshot
<1>1. Init => IInv
  BY InitIInv
<1>2. IInv /\ [Next]_vars => IInv'
  BY NextIInv
<1>3. IInv => CrawlIsSnapshot
  BY IInvCrawlIsSnapshot
<1> QED
  BY <1>1, <1>2, <1>3, PTL DEF Spec
=============================================================================
