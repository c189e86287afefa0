------------------------- MODULE Settlement_proofs -------------------------
(* That the figures of a session arrive: what an operator was acknowledged   *)
(* for is on the broker's books, the provider gets what is there, and it is  *)
(* something that can have happened.  The proofs rest on what a trip over    *)
(* JSON does: a second trip changes nothing, and the first nothing that      *)
(* validation has not reported.                                              *)
EXTENDS Settlement, WellFoundedInduction, TLAPS

-----------------------------------------------------------------------------
(* A trip over JSON.                                                         *)

(* Every number has a nearest float, since distances are natural numbers.    *)
LEMMA NearestExists ==
    ASSUME NEW n \in Int
    PROVE  /\ NearestFloat(n) \in Floats
           /\ \A g \in Floats : Distance(NearestFloat(n), n) =< Distance(g, n)
<1> DEFINE D == {Distance(f, n) : f \in Floats}
<1>1. D \subseteq Nat
  <2> SUFFICES ASSUME NEW f \in Floats PROVE Distance(f, n) \in Nat
    OBVIOUS
  <2>1. f \in Int
    BY WireAssumption
  <2> QED BY <2>1 DEF Distance
<1>2. D # {}
  BY WireAssumption
<1> HIDE DEF D
<1>3. PICK d \in D : \A e \in D : ~(<<e, d>> \in OpToRel(<, Nat))
  BY <1>1, <1>2, WFMin, NatLessThanWellFounded
<1>4. \A e \in D : d =< e
  <2> TAKE e \in D
  <2>1. d \in Nat /\ e \in Nat
    BY <1>1
  <2>2. ~(<<e, d>> \in {ss \in Nat \X Nat : ss[1] < ss[2]})
    BY <1>3 DEF OpToRel
  <2> QED BY <2>1, <2>2
<1>5. PICK f \in Floats : d = Distance(f, n)
  BY DEF D
<1>6. \A g \in Floats : Distance(f, n) =< Distance(g, n)
  BY <1>4, <1>5 DEF D
<1> QED BY <1>6 DEF NearestFloat

(* The nearest float of a float is itself.                                   *)
LEMMA NearestOfFloat ==
    ASSUME NEW n \in Floats
    PROVE  NearestFloat(n) = n
<1>1. n \in Int
  BY WireAssumption
<1>2. NearestFloat(n) \in Floats /\ Distance(NearestFloat(n), n) =< Distance(n, n)
  BY <1>1, NearestExists
<1>3. NearestFloat(n) \in Int
  BY <1>2, WireAssumption
<1> QED BY <1>1, <1>2, <1>3 DEF Distance

(* An amount is still an amount on the wire, and one that is left out is     *)
(* still left out.                                                           *)
LEMMA OnWireType ==
    /\ \A n \in Int : OnWire(n) \in Int
    /\ OnWire(Absent) = Absent
    /\ \A n \in Int : OnWire(n) # Absent
<1>1. \A n \in Int : OnWire(n) \in Int
  <2> SUFFICES ASSUME NEW n \in Int PROVE OnWire(n) \in Int
    OBVIOUS
  <2>1. NearestFloat(n) \in Int
    BY NearestExists, WireAssumption
  <2> QED BY <2>1 DEF OnWire
<1> QED BY <1>1, WireAssumption DEF OnWire

(* A number that survives the trip is what it was, and after one trip every  *)
(* number does.                                                              *)
LEMMA OnWireKeeps ==
    ASSUME NEW n \in Int, JsonRoundTrips(n)
    PROVE  OnWire(n) = n
BY NearestOfFloat DEF OnWire, JsonRoundTrips

LEMMA OnWireTwice ==
    ASSUME NEW n \in Int \cup {Absent}
    PROVE  OnWire(OnWire(n)) = OnWire(n)
<1>1. CASE n = Absent
  BY <1>1, OnWireType
<1>2. CASE n \in Int /\ IsInteger(n)
  BY <1>2, WireAssumption DEF OnWire
<1>3. CASE n \in Int /\ ~IsInteger(n)
  <2>1. OnWire(n) = NearestFloat(n)
    BY <1>3, WireAssumption DEF OnWire
  <2>2. NearestFloat(n) \in Floats /\ NearestFloat(n) \in Int
    BY <1>3, NearestExists, WireAssumption
  <2>3. OnWire(NearestFloat(n)) = NearestFloat(n)
    BY <2>2, OnWireKeeps DEF JsonRoundTrips
  <2> QED BY <2>1, <2>3
<1> QED BY <1>1, <1>2, <1>3

-----------------------------------------------------------------------------
(* A message as its receiver reads it.                                       *)

LEMMA DecodedFields ==
    ASSUME NEW x, IsMessage(x)
    PROVE  LET m == Decoded(x) IN
           /\ m = [x EXCEPT !.kind = m.kind, !.times = m.times, !.amounts = m.amounts,
                            !.duration = m.duration]
           /\ m.kind = x.type /\ m.type = x.type
           /\ m.times \in [TimeFields -> Int \cup {Absent, Illegible}]
           /\ m.amounts \in [AmountFields -> Int \cup {Absent}]
           /\ \A f \in TimeFields :
                m.times[f] = IF f \in TimesOf[x.type] THEN x.times[f] ELSE Absent
           /\ \A f \in AmountFields :
                m.amounts[f] = IF f \in AmountsOf[x.type] THEN OnWire(x.amounts[f]) ELSE Absent
           /\ m.duration = IF x.type = "Progress" THEN x.duration ELSE Absent
<1> DEFINE m == Decoded(x)
<1> DEFINE T == [f \in TimeFields |-> IF f \in TimesOf[x.type] THEN x.times[f] ELSE Absent]
<1> DEFINE A == [f \in AmountFields |->
                   IF f \in AmountsOf[x.type] THEN OnWire(x.amounts[f]) ELSE Absent]
<1>1. T \in [TimeFields -> Int \cup {Absent, Illegible}]
  BY DEF IsMessage
<1>2. A \in [AmountFields -> Int \cup {Absent}]
  BY OnWireType DEF IsMessage
<1> DEFINE d == IF x.type = "Progress" THEN x.duration ELSE Absent
<1>3. m = [x EXCEPT !.kind = x.type, !.times = T, !.amounts = A, !.duration = d]
  BY DEF Decoded
<1> HIDE DEF T, A, d, m
<1>4. /\ m.kind = x.type /\ m.type = x.type /\ m.times = T /\ m.amounts = A /\ m.duration = d
      /\ m = [x EXCEPT !.kind = m.kind, !.times = m.times, !.amounts = m.amounts,
                       !.duration = m.duration]
  BY <1>3 DEF IsMessage
<1> QED BY <1>1, <1>2, <1>4 DEF T, A, d, m

LEMMA DecodedIsMessage ==
    ASSUME NEW x, IsMessage(x)
    PROVE  IsMessage(Decoded(x))
<1> DEFINE m == Decoded(x)
<1>1. x.kind \in Kinds /\ x.type \in Kinds /\ (x.type \in Notifications \/ x.type = x.kind)
  BY DEF IsMessage, Kinds
<1>2. /\ m.kind = x.type /\ m.type = x.type
      /\ m.times \in [TimeFields -> Int \cup {Absent, Illegible}]
      /\ m.amounts \in [AmountFields -> Int \cup {Absent}]
      /\ \A f \in TimeFields \ TimesOf[m.kind] : m.times[f] = Absent
      /\ \A f \in AmountFields \ AmountsOf[m.kind] : m.amounts[f] = Absent
  BY DecodedFields
<1>3. m.duration \in Int \cup {Absent} /\ (m.kind # "Progress" => m.duration = Absent)
  <2>1. m.duration = IF x.type = "Progress" THEN x.duration ELSE Absent
    BY DecodedFields
  <2>2. x.duration \in Int \cup {Absent}
    BY DEF IsMessage
  <2> HIDE DEF m
  <2> QED BY <1>2, <2>1, <2>2
<1>4. m = [kind |-> m.kind, type |-> m.type, session |-> m.session, evse |-> m.evse,
           operator |-> m.operator, identification |-> m.identification, times |-> m.times,
           amounts |-> m.amounts, duration |-> m.duration, signed |-> m.signed,
           verification |-> m.verification, product |-> m.product, wordy |-> m.wordy]
  <2>1. m = [x EXCEPT !.kind = m.kind, !.times = m.times, !.amounts = m.amounts,
                      !.duration = m.duration]
    BY DecodedFields
  <2>2. x = [kind |-> x.kind, type |-> x.type, session |-> x.session, evse |-> x.evse,
             operator |-> x.operator, identification |-> x.identification, times |-> x.times,
             amounts |-> x.amounts, duration |-> x.duration, signed |-> x.signed,
             verification |-> x.verification, product |-> x.product, wordy |-> x.wordy]
    BY DEF IsMessage
  <2> HIDE DEF m
  <2> QED BY <2>1, <2>2
<1>5. m.evse = x.evse /\ m.signed = x.signed
  BY DEF Decoded, IsMessage
<1> HIDE DEF m
<1>6. /\ m.kind = "Record" => m.evse # Absent
      /\ m.signed = Absent \/ m.signed \in Seq({m.signed[i] : i \in DOMAIN m.signed})
  <2>1. m.kind = "Record" => x.kind = "Record"
    BY <1>1, <1>2 DEF Notifications
  <2> QED BY <1>5, <2>1 DEF IsMessage
<1>7. m.type \in IF m.kind \in Notifications THEN Notifications ELSE {m.kind}
  BY <1>1, <1>2
<1>8. IsMessage(m)
  BY <1>1, <1>2, <1>3, <1>4, <1>6, <1>7 DEF IsMessage
<1> QED BY <1>8 DEF m

(* Two messages with the same fields are the same.                           *)
LEMMA SameMessage ==
    ASSUME NEW x, NEW y, IsMessage(x), IsMessage(y),
           y = [x EXCEPT !.kind = y.kind, !.times = y.times, !.amounts = y.amounts,
                         !.duration = y.duration],
           x.kind = y.kind, x.duration = y.duration,
           \A f \in TimeFields : x.times[f] = y.times[f],
           \A f \in AmountFields : x.amounts[f] = y.amounts[f]
    PROVE  x = y
<1>1. x.times = y.times
  BY DEF IsMessage
<1>2. x.amounts = y.amounts
  BY DEF IsMessage
<1>3. x = [x EXCEPT !.kind = x.kind, !.times = x.times, !.amounts = x.amounts,
                    !.duration = x.duration]
  BY DEF IsMessage
<1> QED BY <1>1, <1>2, <1>3

(* The second trip changes nothing.                                          *)
LEMMA DecodedTwice ==
    ASSUME NEW x, IsMessage(x)
    PROVE  Decoded(Decoded(x)) = Decoded(x)
<1> DEFINE m == Decoded(x)
           n == Decoded(m)
<1>1. IsMessage(m) /\ IsMessage(n)
  BY DecodedIsMessage
<1>2. /\ m.kind = x.type /\ m.type = x.type /\ n.kind = m.kind
      /\ m.duration = IF x.type = "Progress" THEN x.duration ELSE Absent
      /\ n.duration = IF m.type = "Progress" THEN m.duration ELSE Absent
  BY <1>1, DecodedFields
<1>3. n = [m EXCEPT !.kind = n.kind, !.times = n.times, !.amounts = n.amounts,
                    !.duration = n.duration]
  BY <1>1, DecodedFields
<1>4. \A f \in TimeFields : m.times[f] = n.times[f]
  <2> SUFFICES ASSUME NEW f \in TimeFields PROVE m.times[f] = n.times[f]
    OBVIOUS
  <2>1. /\ m.times[f] = IF f \in TimesOf[x.type] THEN x.times[f] ELSE Absent
        /\ n.times[f] = IF f \in TimesOf[x.type] THEN m.times[f] ELSE Absent
    BY <1>1, <1>2, DecodedFields
  <2> HIDE DEF m, n
  <2> QED BY <2>1
<1>5. \A f \in AmountFields : m.amounts[f] = n.amounts[f]
  <2> SUFFICES ASSUME NEW f \in AmountFields PROVE m.amounts[f] = n.amounts[f]
    OBVIOUS
  <2>1. /\ m.amounts[f] = IF f \in AmountsOf[x.type] THEN OnWire(x.amounts[f]) ELSE Absent
        /\ n.amounts[f] = IF f \in AmountsOf[x.type] THEN OnWire(m.amounts[f]) ELSE Absent
    BY <1>1, <1>2, DecodedFields
  <2>2. x.amounts[f] \in Int \cup {Absent}
    BY DEF IsMessage
  <2> HIDE DEF m, n
  <2> QED BY <2>1, <2>2, OnWireTwice
<1> HIDE DEF m, n
<1>6. m = n
  BY <1>1, <1>2, <1>3, <1>4, <1>5, SameMessage
<1> QED BY <1>6 DEF m, n

(* What a kind of message must have is among what it has.                    *)
LEMMA RequiredFields ==
    ASSUME NEW k \in Kinds, NEW f \in Required[k]
    PROVE  f \in TimesOf[k] \cup AmountsOf[k] \/ (f = "ErrorType" /\ k = "Error")
BY DEF Kinds, Notifications, Required, TimesOf, AmountsOf

LEMMA FieldNames ==
    /\ \A k \in Kinds : TimesOf[k] \subseteq TimeFields /\ AmountsOf[k] \subseteq AmountFields
    /\ TimeFields \cap AmountFields = {}
    /\ "ErrorType" \notin TimeFields \cup AmountFields
BY DEF Kinds, Notifications, TimesOf, AmountsOf, TimeFields, AmountFields

(* What could be decoded can be decoded again.                               *)
LEMMA DecodableTwice ==
    ASSUME NEW x, IsMessage(x), Decodable(x)
    PROVE  Decodable(Decoded(x))
<1> DEFINE m == Decoded(x)
<1>1. m.kind = x.type /\ m.type = x.type /\ x.type \in Kinds
  BY DecodedFields DEF IsMessage, Kinds
<1> SUFFICES ASSUME NEW f \in Required[x.type] PROVE f \in Present(m)
  BY <1>1 DEF Decodable
<1>2. f \in Present(x)
  BY DEF Decodable
<1>3. CASE f \in TimesOf[x.type]
  <2>1. f \in TimeFields /\ x.times[f] # Absent
    BY <1>1, <1>2, <1>3, FieldNames DEF Present
  <2>2. m.times[f] = x.times[f]
    BY <1>3, <2>1, DecodedFields
  <2> QED BY <2>1, <2>2 DEF Present
<1>4. CASE f \in AmountsOf[x.type]
  <2>1. f \in AmountFields /\ x.amounts[f] # Absent
    BY <1>1, <1>2, <1>4, FieldNames DEF Present
  <2>2. m.amounts[f] = OnWire(x.amounts[f])
    BY <1>4, <2>1, DecodedFields
  <2>3. x.amounts[f] \in Int
    BY <2>1 DEF IsMessage
  <2> QED BY <2>1, <2>2, <2>3, OnWireType DEF Present
<1>5. CASE f = "ErrorType" /\ x.type = "Error"
  BY <1>1, <1>5 DEF Present
<1> QED BY <1>1, <1>3, <1>4, <1>5, RequiredFields


-----------------------------------------------------------------------------
(* What validation has nothing to say of.                                    *)

LEMMA NothingReported ==
    ASSUME NEW broken \in BOOLEAN, NEW at, NEW code, Report(broken, at, code) = {}
    PROVE  ~broken
BY DEF Report

LEMMA ConformantRules ==
    ASSUME NEW x, IsMessage(x), Conformant(x)
    PROVE  /\ x.type = x.kind
           /\ RulesOf(x) = {}
           /\ \A f \in TimeFields : x.times[f] # Illegible
           /\ \A f \in AmountFields : x.amounts[f] = Absent \/ JsonRoundTrips(x.amounts[f])
<1>1. Report(x.kind \in Notifications /\ x.type # x.kind, "Type", "Inconsistent") = {}
  BY DEF Conformant, Violations
<1>2. x.type = x.kind
  BY <1>1, NothingReported DEF IsMessage
<1>3. RulesOf(x) = {} /\ FieldViolations(x) = {}
  BY DEF Conformant, Violations
<1> DEFINE W == UNION {Report(TRUE, f, "TooLong") : f \in x.wordy}
           T(f) == Report(x.times[f] = Illegible, f, "PatternMismatch")
           A(f) == Report(x.amounts[f] # Absent /\ ~JsonRoundTrips(x.amounts[f]), f, "Imprecise")
           Ts == {T(f) : f \in TimeFields}
           As == {A(f) : f \in AmountFields}
<1>4. W \cup (UNION Ts) \cup (UNION As) = {}
  BY <1>3 DEF FieldViolations
<1>5. (\A f \in TimeFields : T(f) = {}) /\ (\A f \in AmountFields : A(f) = {})
  <2> HIDE DEF W, T, A
  <2>1. (\A f \in TimeFields : T(f) \in Ts) /\ (\A f \in AmountFields : A(f) \in As)
    OBVIOUS
  <2> HIDE DEF Ts, As
  <2> QED BY <1>4, <2>1
<1>6. \A f \in TimeFields : x.times[f] # Illegible
  <2> SUFFICES ASSUME NEW f \in TimeFields PROVE x.times[f] # Illegible
    OBVIOUS
  <2> QED BY <1>5, NothingReported
<1>7. \A f \in AmountFields : x.amounts[f] = Absent \/ JsonRoundTrips(x.amounts[f])
  <2> SUFFICES ASSUME NEW f \in AmountFields
               PROVE  x.amounts[f] = Absent \/ JsonRoundTrips(x.amounts[f])
    OBVIOUS
  <2>1. Report(x.amounts[f] # Absent /\ ~JsonRoundTrips(x.amounts[f]), f, "Imprecise") = {}
    BY <1>5
  <2> QED BY <2>1, NothingReported
<1> QED BY <1>2, <1>3, <1>6, <1>7

(* A message nothing is wrong with is read as it was written.                *)
LEMMA ConformantReadsBack ==
    ASSUME NEW x, IsMessage(x), Conformant(x)
    PROVE  Decoded(x) = x
<1> DEFINE m == Decoded(x)
<1>1. x.type = x.kind
  BY ConformantRules
<1>2. IsMessage(m)
  BY DecodedIsMessage
<1>3. /\ m.kind = x.kind
      /\ m.duration = IF x.type = "Progress" THEN x.duration ELSE Absent
  BY <1>1, DecodedFields
<1>4. x.kind # "Progress" => x.duration = Absent
  BY DEF IsMessage
<1>5. m = [x EXCEPT !.kind = m.kind, !.times = m.times, !.amounts = m.amounts,
                    !.duration = m.duration]
  BY DecodedFields
<1>6. \A f \in TimeFields : x.times[f] = m.times[f]
  <2> SUFFICES ASSUME NEW f \in TimeFields PROVE x.times[f] = m.times[f]
    OBVIOUS
  <2>1. m.times[f] = IF f \in TimesOf[x.type] THEN x.times[f] ELSE Absent
    BY DecodedFields
  <2>2. f \notin TimesOf[x.kind] => x.times[f] = Absent
    BY DEF IsMessage
  <2> HIDE DEF m
  <2> QED BY <1>1, <2>1, <2>2
<1>7. \A f \in AmountFields : x.amounts[f] = m.amounts[f]
  <2> SUFFICES ASSUME NEW f \in AmountFields PROVE x.amounts[f] = m.amounts[f]
    OBVIOUS
  <2>1. m.amounts[f] = IF f \in AmountsOf[x.type] THEN OnWire(x.amounts[f]) ELSE Absent
    BY DecodedFields
  <2>2. f \notin AmountsOf[x.kind] => x.amounts[f] = Absent
    BY DEF IsMessage
  <2>3. OnWire(x.amounts[f]) = x.amounts[f]
    <3>1. x.amounts[f] \in Int \cup {Absent}
      BY DEF IsMessage
    <3>2. x.amounts[f] = Absent \/ JsonRoundTrips(x.amounts[f])
      BY ConformantRules
    <3> QED BY <3>1, <3>2, OnWireKeeps, OnWireType
  <2> HIDE DEF m
  <2> QED BY <1>1, <2>1, <2>2, <2>3
<1> HIDE DEF m
<1>8. x = m
  BY <1>1, <1>2, <1>3, <1>4, <1>5, <1>6, <1>7, SameMessage
<1> QED BY <1>8 DEF m

(* What a receiver finds nothing wrong with its own receivers will read as   *)
(* it does, and find nothing wrong with either.                              *)
LEMMA ConformantIsStable ==
    ASSUME NEW x, IsMessage(x), Decodable(x), Conformant(Decoded(x))
    PROVE  Stable(Decoded(x))
BY DecodedIsMessage, DecodedTwice, DecodableTwice DEF Stable


(* A record nothing is wrong with can have happened.                         *)
LEMMA RecordsArePossible ==
    ASSUME Instants = Int, Readings = Int,
           NEW m, IsMessage(m), m.kind = "Record", Conformant(m), Decodable(m)
    PROVE  Possible(m)
<1>1. /\ m.type = "Record" /\ RecordViolations(m) = {}
      /\ \A f \in TimeFields : m.times[f] # Illegible
  BY ConformantRules DEF RulesOf
<1>2. \A f \in Required["Record"] : f \in Present(m)
  BY <1>1 DEF Decodable
<1>3. \A f \in Span : m.times[f] \in Int
  <2> SUFFICES ASSUME NEW f \in Span PROVE m.times[f] \in Int
    OBVIOUS
  <2>1. f \in Required["Record"] /\ f \in TimeFields
    BY DEF Required, TimesOf, Span, TimeFields
  <2>2. m.times[f] # Absent
    BY <1>2, <2>1, FieldNames DEF Present
  <2>3. m.times[f] \in Int \cup {Absent, Illegible}
    BY <2>1 DEF IsMessage
  <2> QED BY <1>1, <2>1, <2>2, <2>3
<1>4. m.amounts["ConsumedEnergy"] \in Int
  <2>1. m.amounts["ConsumedEnergy"] # Absent
    BY <1>2, FieldNames DEF Present, Required, AmountFields
  <2> QED BY <2>1 DEF IsMessage, AmountFields
<1> DEFINE T(p) == Report(Before(m.times[p[2]], m.times[p[1]]), p[2], "Inconsistent")
           Ts == {T(p) : p \in Ordering}
           S == Report(m.signed # Absent /\ Len(m.signed) > MaxSigned,
                       "SignedMeteringValues", "TooManyItems")
<1>5. EnergyViolations(m) = {} /\ \A p \in Ordering : T(p) = {}
  <2>1. EnergyViolations(m) \cup (UNION Ts) \cup S = {}
    BY <1>1 DEF RecordViolations
  <2>2. \A p \in Ordering : T(p) \in Ts
    OBVIOUS
  <2> HIDE DEF T, Ts, S
  <2> QED BY <2>1, <2>2
<1>6. \A p \in Ordering : m.times[p[1]] =< m.times[p[2]]
  <2> SUFFICES ASSUME NEW p \in Ordering PROVE m.times[p[1]] =< m.times[p[2]]
    OBVIOUS
  <2>1. ~Before(m.times[p[2]], m.times[p[1]])
    BY <1>5, NothingReported DEF Before, Readable
  <2>2. p[1] \in Span /\ p[2] \in Span
    BY DEF Ordering, Span
  <2>3. m.times[p[1]] \in Int /\ m.times[p[2]] \in Int
    BY <1>3, <2>2
  <2> QED BY <2>1, <2>3, WireAssumption DEF Before, Readable
<1>7. \E t \in Schedules : TellsWhen(m, t)
  <2> DEFINE t == [f \in Span |-> m.times[f]]
  <2>1. t \in [Span -> Int]
    BY <1>3
  <2>2. /\ m.times["SessionStart"] =< m.times["ChargingStart"]
        /\ m.times["ChargingStart"] =< m.times["ChargingEnd"]
        /\ m.times["ChargingEnd"] =< m.times["SessionEnd"]
    BY <1>6 DEF Ordering
  <2>3. t \in Schedules
    BY <2>1, <2>2 DEF Schedules, Span
  <2>4. TellsWhen(m, t)
    BY DEF TellsWhen
  <2> QED BY <2>3, <2>4
<1>8. \E r \in Runs : TellsHowMuch(m, r)
  <2> DEFINE start == m.amounts["MeterValueStart"]
             end == m.amounts["MeterValueEnd"]
             energy == m.amounts["ConsumedEnergy"]
  <2>1. start \in Int \cup {Absent} /\ end \in Int \cup {Absent}
    BY DEF IsMessage, AmountFields
  <2>2. energy >= 0
    <3>1. ~(energy < 0)
      BY <1>5, NothingReported DEF EnergyViolations
    <3> QED BY <1>4, <3>1
  <2>3. ASSUME start # Absent, end # Absent PROVE energy = end - start /\ start =< end
    <3>1. MeteredEnergy(m) = end - start /\ MeteredEnergy(m) \in Int
      BY <2>1, <2>3 DEF MeteredEnergy
    <3>2. ~(MeteredEnergy(m) # Absent /\ MeteredEnergy(m) # energy)
      BY <1>5, NothingReported DEF EnergyViolations
    <3> QED BY <1>4, <2>1, <2>2, <2>3, <3>1, <3>2, WireAssumption
  <2> DEFINE from == IF start # Absent THEN start
                     ELSE IF end # Absent THEN end - energy ELSE 0
             r == [start |-> from, end |-> from + energy]
  <2> HIDE DEF start, end, energy
  <2>4. from \in Int /\ r \in Runs
    BY <1>4, <2>1, <2>2 DEF Runs, energy
  <2>5. start \in {Absent, r.start} /\ end \in {Absent, r.end} /\ energy = r.end - r.start
    BY <1>4, <2>1, <2>3 DEF energy
  <2>6. TellsHowMuch(m, r)
    BY <2>5 DEF TellsHowMuch, start, end, energy
  <2> QED BY <2>4, <2>6
<1> QED BY <1>7, <1>8 DEF Possible

-----------------------------------------------------------------------------
(* The inductive invariant.                                                  *)

LEMMA DraftsAreMessages == \A m \in Drafts : IsMessage(m)
BY SettlementAssumption

LEMMA DraftsAreComplete ==
    \A m \in Drafts : /\ Required[m.kind] \subseteq Present(m)
                      /\ m.kind = "Authorize" => m.session \in Sessions
BY SettlementAssumption

LEMMA UnderwayInit == Init => Underway
BY DEF Init, Underway

LEMMA AnswerIsHeard == ASSUME Underway, answer # Absent PROVE outcome = "open" /\ draft \in Drafts
BY DEF Underway

LEMMA UnderwayStep ==
    ASSUME Underway, [Next]_vars
    PROVE  Underway'
<1> USE DEF Underway
<1>1. ASSUME NEW m \in Drafts, Compose(m) PROVE Underway'
  BY <1>1 DEF Compose, brokerVars
<1>2. ASSUME NEW p, Check(p) PROVE Underway'
  BY <1>2 DEF Check, brokerVars
<1>3. ASSUME Post PROVE Underway'
  <2>1. /\ calls' = calls + 1 /\ draft' = draft /\ answer' = answer /\ answer = Absent
        /\ draft \in Drafts /\ draft # Absent
        /\ outcome' \in {"open", "Invalid"}
        /\ requests' \in {requests, requests \cup {[call |-> calls', m |-> draft]}}
    BY <1>3 DEF Post
  <2>2. ASSUME NEW r \in requests'
        PROVE  r.m \in Drafts /\ r.call \in 1 .. calls' /\ (r.call = calls' => r.m = draft)
    <3>1. CASE r \in requests
      BY <2>1, <3>1
    <3>2. CASE r = [call |-> calls', m |-> draft]
      BY <2>1, <3>2
    <3> QED BY <2>1, <3>1, <3>2
  <2> QED BY <2>1, <2>2
<1>4. ASSUME Hear PROVE Underway'
  BY <1>4 DEF Hear, brokerVars
<1>5. ASSUME GiveUp PROVE Underway'
  BY <1>5 DEF GiveUp, brokerVars
<1>6. ASSUME NEW r \in requests, NEW code, Answered(r, code) PROVE Underway'
  BY <1>6 DEF Answered, operatorVars
<1>7. ASSUME NEW r \in requests, RejectBody(r) \/ Refuse(r) \/ Open(r) \/ Book(r) PROVE Underway'
  BY <1>6, <1>7 DEF RejectBody, Refuse, Open, Book
<1>8. ASSUME NEW b \in forwarded, Receive(b) PROVE Underway'
  BY <1>8 DEF Receive, operatorVars
<1>9. CASE UNCHANGED vars
  BY <1>9 DEF vars
<1> QED BY <1>1, <1>2, <1>3, <1>4, <1>5, <1>7, <1>8, <1>9 DEF Next


LEMMA KeptInit == Init => Kept
<1> SUFFICES ASSUME Init PROVE Kept
  OBVIOUS
<1>1. booked = {} /\ filed = {} /\ forwarded = {} /\ received = {} /\ answer = Absent
  BY DEF Init
<1>2. answer # "Success"
  BY <1>1, SettlementAssumption DEF Outcomes
<1> QED BY <1>1, <1>2 DEF Kept, FiledIsBooked, BooksAgree

(* Whatever is left alone by a step that gives no answer of success is kept.  *)
LEMMA KeptUnchanged ==
    ASSUME Kept, booked' = booked, filed' = filed,
           forwarded' \cup received' = forwarded \cup received,
           answer' = "Success" => answer' = answer /\ calls' = calls /\ draft' = draft
    PROVE  Kept'
BY DEF Kept, FiledIsBooked, BooksAgree, OnTheBooks

(* A request whose answer is awaited carries what was composed.              *)
LEMMA AnswerIsOurs ==
    ASSUME Underway, NEW r \in requests, NEW code \in Outcomes, Answered(r, code),
           answer' = "Success", answer' # answer
    PROVE  /\ code = "Success" /\ r.call = calls /\ r.m = draft
           /\ calls' = calls /\ draft' = draft
BY DEF Underway, Answered, operatorVars

(* What the broker books it has found nothing wrong with.                    *)
LEMMA BookedIsConformant ==
    ASSUME NEW m, m.kind \in Kinds, m.kind # "Authorize", CodeOf(m) = "Success"
    PROVE  Conformant(m)
<1>1. CASE m.kind = "Record"
  <2>1. RecordCode(m) = "Success"
    BY <1>1 DEF CodeOf
  <2> QED BY <2>1 DEF RecordCode
<1>2. CASE m.kind # "Record"
  <2>1. NotifyCode(m) = "Success"
    BY <1>2 DEF CodeOf
  <2> QED BY <2>1 DEF NotifyCode
<1> QED BY <1>1, <1>2

LEMMA KeptBook ==
    ASSUME Underway, Kept, NEW r \in requests, Book(r)
    PROVE  Kept'
<1> DEFINE m == Decoded(r.m)
           b == [call |-> r.call, m |-> m]
<1>1. /\ Decodable(r.m) /\ m.kind # "Authorize" /\ CodeOf(m) = "Success"
      /\ booked' = booked \cup {b} /\ forwarded' = forwarded \cup {b}
      /\ Answered(r, "Success")
  BY DEF Book
<1>2. /\ filed' = filed /\ received' = received /\ calls' = calls /\ draft' = draft
  BY <1>1 DEF Answered, operatorVars
<1>3. IsMessage(r.m)
  BY DraftsAreMessages DEF Underway
<1>4. m.kind \in Kinds
  BY <1>3, DecodedIsMessage DEF IsMessage
<1>5. Stable(m)
  <2>1. Conformant(m)
    BY <1>1, <1>4, BookedIsConformant
  <2> QED BY <1>1, <1>3, <2>1, ConformantIsStable
<1>6. m = r.m \/ ~Conformant(r.m)
  BY <1>3, ConformantReadsBack
<1> HIDE DEF m
<1>7. \A e \in booked' : e = [call |-> e.call, m |-> e.m] /\ Stable(e.m)
  BY <1>1, <1>5 DEF Kept
<1>8. answer' = "Success" /\ draft'.kind # "Authorize" => OnTheBooks(calls, draft)'
  <2> SUFFICES ASSUME answer' = "Success", draft.kind # "Authorize"
               PROVE  \E e \in booked' : e.call = calls /\ (e.m = draft \/ ~Conformant(draft))
    BY <1>2 DEF OnTheBooks
  <2>1. CASE answer' = answer
    BY <1>1, <2>1 DEF Kept, OnTheBooks
  <2>2. CASE answer' # answer
    <3>1. r.call = calls /\ r.m = draft
      BY <1>1, <2>2, AnswerIsOurs DEF Outcomes
    <3>2. b \in booked' /\ b.call = calls /\ b.m = m
      BY <1>1, <3>1
    <3>3. m = draft \/ ~Conformant(draft)
      BY <1>6, <3>1
    <3> HIDE DEF b
    <3> QED BY <3>2, <3>3
  <2> QED BY <2>1, <2>2
<1>9. FiledIsBooked'
  BY <1>1, <1>2 DEF Kept, FiledIsBooked, OnTheBooks
<1>10. BooksAgree'
  BY <1>1, <1>2 DEF Kept, BooksAgree
<1> QED BY <1>7, <1>8, <1>9, <1>10 DEF Kept

LEMMA KeptReceive ==
    ASSUME Kept, NEW b \in forwarded, Receive(b)
    PROVE  Kept'
<1>1. b \in booked
  BY DEF Kept, BooksAgree
<1>2. b = [call |-> b.call, m |-> b.m] /\ Stable(b.m)
  BY <1>1 DEF Kept
<1>3. Accepts(b.m) /\ [b EXCEPT !.m = Decoded(b.m)] = b
  BY <1>2 DEF Accepts, Stable
<1>4. forwarded' = forwarded \ {b} /\ received' = received \cup {b}
  BY <1>3 DEF Receive
<1>5. booked' = booked /\ filed' = filed /\ answer' = answer /\ calls' = calls /\ draft' = draft
  BY DEF Receive, operatorVars, brokerVars
<1> QED BY <1>4, <1>5, KeptUnchanged

LEMMA KeptStep ==
    ASSUME Underway, Kept, [Next]_vars
    PROVE  Kept'
<1>0. Absent # "Success"
  BY SettlementAssumption DEF Outcomes
<1>1. ASSUME NEW m \in Drafts, Compose(m) PROVE Kept'
  <2>1. answer' = Absent
    BY <1>1 DEF Compose, Underway
  <2> QED BY <1>0, <1>1, <2>1, KeptUnchanged DEF Compose, brokerVars
<1>2. ASSUME NEW p, Check(p) PROVE Kept'
  BY <1>2, KeptUnchanged DEF Check, brokerVars
<1>3. ASSUME Post PROVE Kept'
  <2>1. answer' = Absent
    BY <1>3 DEF Post, Underway
  <2> QED BY <1>0, <1>3, <2>1, KeptUnchanged DEF Post, brokerVars
<1>4. ASSUME Hear PROVE Kept'
  <2>1. /\ answer' = Absent /\ booked' = booked /\ forwarded' = forwarded
        /\ received' = received
        /\ filed' = IF answer = "Success"
                    THEN filed \cup {[call |-> calls, m |-> draft, checked |-> checked]} ELSE filed
    BY <1>4 DEF Hear, brokerVars
  <2>2. FiledIsBooked'
    <3> SUFFICES ASSUME NEW f \in filed', f.m.kind # "Authorize" PROVE OnTheBooks(f.call, f.m)
      BY <2>1 DEF FiledIsBooked, OnTheBooks
    <3>1. CASE f \in filed
      BY <3>1 DEF Kept, FiledIsBooked
    <3>2. CASE answer = "Success" /\ f = [call |-> calls, m |-> draft, checked |-> checked]
      BY <3>2 DEF Kept
    <3> QED BY <2>1, <3>1, <3>2
  <2> QED BY <1>0, <2>1, <2>2 DEF Kept, BooksAgree
<1>5. ASSUME GiveUp PROVE Kept'
  BY <1>0, <1>5, KeptUnchanged DEF GiveUp, brokerVars
<1>6. ASSUME NEW r \in requests, NEW code \in Outcomes \ {"Success"}, Answered(r, code),
             booked' = booked, forwarded' = forwarded
      PROVE  Kept'
  <2>1. answer' = "Success" => answer' = answer
    BY <1>6, AnswerIsOurs
  <2> QED BY <1>6, <2>1, KeptUnchanged DEF Answered, operatorVars
<1>7. ASSUME NEW r \in requests, RejectBody(r) PROVE Kept'
  BY <1>6, <1>7 DEF RejectBody, brokerVars, Outcomes
<1>8. ASSUME NEW r \in requests, Refuse(r) PROVE Kept'
  <2>1. CodeOf(Decoded(r.m)) \in Outcomes \ {"Success"}
    BY <1>8 DEF Refuse, CodeOf, AuthorizeCode, RecordCode, NotifyCode, Outcomes
  <2> QED BY <1>6, <1>8, <2>1 DEF Refuse, brokerVars
<1>9. ASSUME NEW r \in requests, Open(r) PROVE Kept'
  <2>1. /\ Decoded(r.m).kind = "Authorize" /\ Answered(r, "Success")
        /\ booked' = booked /\ forwarded' = forwarded
    BY <1>9 DEF Open
  <2>2. r.m.kind = "Authorize"
    <3>1. IsMessage(r.m)
      BY DraftsAreMessages DEF Underway
    <3>2. r.m.type = "Authorize"
      BY <2>1, <3>1, DecodedFields
    <3> QED BY <3>1, <3>2 DEF IsMessage, Kinds, Notifications
  <2>3. answer' = "Success" /\ answer' # answer => draft.kind = "Authorize"
    BY <2>1, <2>2, AnswerIsOurs DEF Outcomes
  <2>4. filed' = filed /\ received' = received /\ calls' = calls /\ draft' = draft
    BY <2>1 DEF Answered, operatorVars
  <2> QED BY <2>1, <2>3, <2>4 DEF Kept, FiledIsBooked, BooksAgree, OnTheBooks
<1>10. CASE UNCHANGED vars
  BY <1>10, KeptUnchanged DEF vars
<1> QED BY <1>1, <1>2, <1>3, <1>4, <1>5, <1>7, <1>8, <1>9, <1>10, KeptBook, KeptReceive DEF Next

-----------------------------------------------------------------------------
LEMMA Invariance == Spec => [](Underway /\ Kept)
<1>1. Init => Underway /\ Kept
  BY UnderwayInit, KeptInit
<1>2. Underway /\ Kept /\ [Next]_vars => (Underway /\ Kept)'
  BY UnderwayStep, KeptStep
<1> QED BY <1>1, <1>2, PTL DEF Spec

(* An operator that was told its record or notification is accepted can rely *)
(* on the broker's books having it, as it wrote it unless its own validation *)
(* had something to say.                                                     *)
THEOREM DeliveredIsBooked == Spec => []FiledIsBooked
<1>1. Kept => FiledIsBooked
  BY DEF Kept
<1> QED BY <1>1, Invariance, PTL

(* What the broker booked the provider gets, as it was booked.               *)
THEOREM ProviderHasTheBooks == Spec => []BooksAgree
<1>1. Kept => BooksAgree
  BY DEF Kept
<1> QED BY <1>1, Invariance, PTL

(* Without bounds on times and readings: the rules of a charge detail record *)
(* are strong enough that one that keeps them can have happened.             *)
THEOREM BooksArePossible ==
    ASSUME Instants = Int, Readings = Int
    PROVE  Spec => []BookedIsPossible
<1>1. Kept => BookedIsPossible
  <2> SUFFICES ASSUME Kept, NEW b \in booked, b.m.kind = "Record" PROVE Possible(b.m)
    BY DEF BookedIsPossible
  <2> QED BY RecordsArePossible DEF Kept, Stable
<1> QED BY <1>1, Invariance, PTL

-----------------------------------------------------------------------------
(* Refusals and checks.                                                      *)

(* A session the broker has keeps its charging point.                        *)
Grows == /\ DOMAIN sessions \subseteq DOMAIN sessions'
         /\ \A s \in DOMAIN sessions : sessions'[s].evse = sessions[s].evse

(* What the broker keeps of a session.                                       *)
Session == [evse : {m.evse : m \in Drafts}, settled : BOOLEAN]

SessionsTyped == DOMAIN sessions \subseteq Sessions /\ sessions \in [DOMAIN sessions -> Session]

LEMMA OpenedTyped ==
    ASSUME NEW m \in Drafts
    PROVE  Opened(m) \in Session /\ Decoded(m).evse = m.evse /\ Opened(Decoded(m)) \in Session
<1>1. IsMessage(m)
  BY DraftsAreMessages
<1>2. Decoded(m).evse = m.evse
  BY <1>1 DEF Decoded, IsMessage
<1>3. Opened(m) \in Session /\ Opened(Decoded(m)) \in Session
  BY <1>2 DEF Opened, Session
<1> QED BY <1>2, <1>3

LEMMA SessionsStep ==
    ASSUME SessionsTyped, Underway, [Next]_vars
    PROVE  SessionsTyped' /\ Grows
<1>1. CASE sessions' = sessions
  BY <1>1 DEF SessionsTyped, Grows
<1>2. ASSUME NEW r \in requests, Open(r) PROVE SessionsTyped' /\ Grows
  <2> DEFINE o == Opened(Decoded(r.m))
  <2>1. PICK s \in Sessions \ DOMAIN sessions :
           sessions' = [t \in DOMAIN sessions \cup {s} |-> IF t = s THEN o ELSE sessions[t]]
    BY <1>2 DEF Open
  <2>2. o \in Session
    BY OpenedTyped DEF Underway
  <2> HIDE DEF o
  <2> QED BY <2>1, <2>2 DEF SessionsTyped, Grows
<1>3. ASSUME NEW r \in requests, Book(r) PROVE SessionsTyped' /\ Grows
  <2> DEFINE m == Decoded(r.m)
  <2>1. CASE m.kind = "Record"
    <3>1. sessions' = [sessions EXCEPT ![m.session].settled = TRUE]
      BY <1>3, <2>1 DEF Book
    <3> HIDE DEF m
    <3>2. \A s \in DOMAIN sessions : sessions'[s] \in Session /\ sessions'[s].evse = sessions[s].evse
      BY <3>1 DEF SessionsTyped, Session
    <3>3. sessions' \in [DOMAIN sessions -> Session]
      BY <3>1 DEF SessionsTyped, Session
    <3> QED BY <3>2, <3>3 DEF SessionsTyped, Grows
  <2>2. CASE m.kind # "Record"
    BY <1>1, <1>3, <2>2 DEF Book
  <2> QED BY <2>1, <2>2
<1>4. ASSUME NEW r \in requests, RejectBody(r) \/ Refuse(r) PROVE sessions' = sessions
  BY <1>4 DEF RejectBody, Refuse, brokerVars
<1>5. ASSUME NEW b \in forwarded, Receive(b) PROVE sessions' = sessions
  BY <1>5 DEF Receive, brokerVars
<1>6. ASSUME \/ \E m \in Drafts : Compose(m)
             \/ \E p \in DOMAIN Points \cup {Absent} : Check(p)
             \/ Post \/ Hear \/ GiveUp \/ UNCHANGED vars
      PROVE  sessions' = sessions
  BY <1>6 DEF Compose, Check, Post, Hear, GiveUp, brokerVars, vars
<1> QED BY <1>1, <1>2, <1>3, <1>4, <1>5, <1>6 DEF Next

(* Blame stays where it is put.                                              *)
LEMMA BlameStays ==
    ASSUME Grows, NEW m, Blamed(m)
    PROVE  Blamed(m)'
BY DEF Grows, Blamed, AtItsPoint

(* A refusal of the broker for the content of a message has its reason.      *)
LEMMA RefusalIsBlamed ==
    ASSUME NEW m \in Drafts, CodeOf(Decoded(m)) \in ContentRefusals
    PROVE  Blamed(m)
<1> SUFFICES ASSUME m.kind # "Authorize", Conformant(m)
             PROVE  ~AtItsPoint(m)
  BY DEF Blamed
<1>1. IsMessage(m)
  BY DraftsAreMessages
<1>2. CodeOf(m) \in ContentRefusals
  BY <1>1, ConformantReadsBack
<1>3. CASE m.kind = "Record"
  <2>1. RecordCode(m) \in ContentRefusals
    BY <1>2, <1>3 DEF CodeOf
  <2> QED BY <2>1 DEF RecordCode, ContentRefusals, AtItsPoint
<1>4. CASE m.kind # "Record"
  <2>1. NotifyCode(m) \in ContentRefusals
    BY <1>2, <1>4, <1>1 DEF CodeOf
  <2> QED BY <2>1 DEF NotifyCode, ContentRefusals
<1> QED BY <1>3, <1>4

LEMMA HeldInit == Init => Held /\ TypeOK
<1> SUFFICES ASSUME Init PROVE Held /\ TypeOK
  OBVIOUS
<1>1. /\ draft = Absent /\ checked = Absent /\ calls = 0 /\ outcome = "none" /\ answer = Absent
      /\ filed = {} /\ booked = {} /\ forwarded = {} /\ received = {} /\ requests = {}
      /\ validates \in BOOLEAN /\ lenient \in BOOLEAN
  BY DEF Init
<1>2. SessionsTyped
  <2>1. CASE sessions = [s \in {} |-> Absent]
    BY <2>1 DEF SessionsTyped
  <2>2. ASSUME NEW m \in Drafts, m.kind = "Authorize",
               sessions = [s \in {m.session} |-> Opened(m)]
        PROVE  SessionsTyped
    <3> DEFINE o == Opened(m)
    <3>1. m.session \in Sessions
      BY <2>2, DraftsAreComplete
    <3>2. o \in Session /\ sessions = [s \in {m.session} |-> o]
      BY <2>2, OpenedTyped
    <3> HIDE DEF o
    <3> QED BY <2>2, <3>1, <3>2 DEF SessionsTyped
  <2>3. \/ sessions = [s \in {} |-> Absent]
        \/ \E m \in Drafts : m.kind = "Authorize" /\ sessions = [s \in {m.session} |-> Opened(m)]
    BY DEF Init
  <2> QED BY <2>1, <2>2, <2>3
<1>3. answer \notin ContentRefusals /\ outcome \notin ContentRefusals
  BY <1>1, SettlementAssumption DEF ContentRefusals, Outcomes
<1> QED BY <1>1, <1>2, <1>3, SettlementAssumption 
    DEF Held, TypeOK, CheckedAs, Outcomes, SessionsTyped, Session

(* What the broker answers is an outcome.                                    *)
LEMMA CodesAreOutcomes ==
    ASSUME NEW m
    PROVE  CodeOf(m) \in Outcomes \ {"none", "open"}
BY DEF CodeOf, AuthorizeCode, RecordCode, NotifyCode, Outcomes

LEMMA TypeStep ==
    ASSUME TypeOK, Underway, Kept, Held, [Next]_vars
    PROVE  TypeOK'
<1>1. SessionsTyped'
  <2>1. SessionsTyped
    BY DEF TypeOK, SessionsTyped, Session
  <2> QED BY <2>1, SessionsStep
<1> DEFINE Rest ==
       /\ validates \in BOOLEAN /\ lenient \in BOOLEAN
       /\ draft \in Drafts \cup {Absent} /\ calls \in 0 .. MaxCalls /\ outcome \in Outcomes
       /\ \A r \in requests : r.call \in Calls /\ r.m \in Drafts
       /\ answer \in (Outcomes \ {"none", "open"}) \cup {Absent}
       /\ \A b \in filed : b.call \in Calls /\ b.m \in Drafts
       /\ \A b \in booked \cup forwarded \cup received :
             b.call \in Calls /\ b.m.kind \in Kinds
<1> SUFFICES Rest'
  BY <1>1 DEF TypeOK, SessionsTyped, Session
<1>2. Rest
  BY DEF TypeOK
<1>3. ASSUME NEW m \in Drafts, Compose(m) PROVE Rest'
  BY <1>2, <1>3 DEF Compose, brokerVars, Outcomes
<1>4. ASSUME NEW p, Check(p) PROVE Rest'
  BY <1>2, <1>4 DEF Check, brokerVars
<1>5. ASSUME Post PROVE Rest'
  <2>1. /\ calls' = calls + 1 /\ calls < MaxCalls /\ draft \in Drafts
        /\ outcome' \in {"open", "Invalid"}
        /\ requests' \in {requests, requests \cup {[call |-> calls', m |-> draft]}}
    BY <1>2, <1>5 DEF Post
  <2>2. calls' \in Calls /\ calls' \in 0 .. MaxCalls
    BY <1>2, <2>1, SettlementAssumption DEF Calls
  <2>3. \A r \in requests' : r.call \in Calls /\ r.m \in Drafts
    BY <1>2, <2>1, <2>2
  <2>4. outcome' \in Outcomes
    BY <2>1 DEF Outcomes
  <2>5. UNCHANGED <<validates, lenient, draft, filed, answer, forwarded, received, booked>>
    BY <1>5 DEF Post, brokerVars
  <2> QED BY <1>2, <2>2, <2>3, <2>4, <2>5
<1>6. ASSUME Hear PROVE Rest'
  <2>1. answer \in Outcomes \ {"none", "open"} /\ outcome = "open"
    BY <1>2, <1>6 DEF Hear
  <2>2. draft \in Drafts /\ calls \in Calls
    BY <1>2, <2>1, SettlementAssumption DEF Held, Calls
  <2>3. \A b \in filed' : b.call \in Calls /\ b.m \in Drafts
    BY <1>2, <1>6, <2>2 DEF Hear
  <2>4. /\ outcome' = answer /\ answer' = Absent
        /\ UNCHANGED <<validates, lenient, draft, calls, requests, booked, forwarded, received>>
    BY <1>6 DEF Hear, brokerVars
  <2> QED BY <1>2, <2>1, <2>3, <2>4
<1>7. ASSUME GiveUp PROVE Rest'
  BY <1>2, <1>7 DEF GiveUp, brokerVars, Outcomes
<1>8. ASSUME NEW r \in requests, NEW code \in Outcomes \ {"none", "open"}, Answered(r, code),
             booked' = booked, forwarded' = forwarded
      PROVE  Rest'
  BY <1>2, <1>8 DEF Answered, operatorVars
<1>9. ASSUME NEW r \in requests, RejectBody(r) PROVE Rest'
  BY <1>8, <1>9 DEF RejectBody, brokerVars, Outcomes
<1>10. ASSUME NEW r \in requests, Refuse(r) PROVE Rest'
  <2>1. CodeOf(Decoded(r.m)) \in Outcomes \ {"none", "open"}
    BY CodesAreOutcomes
  <2> QED BY <1>8, <1>10, <2>1 DEF Refuse, brokerVars
<1>11. ASSUME NEW r \in requests, Open(r) PROVE Rest'
  BY <1>8, <1>11 DEF Open, Outcomes
<1>12. ASSUME NEW r \in requests, Book(r) PROVE Rest'
  <2> DEFINE b == [call |-> r.call, m |-> Decoded(r.m)]
  <2>1. IsMessage(r.m) /\ r.call \in Calls
    BY <1>2, DraftsAreMessages
  <2>2. b.call \in Calls /\ b.m.kind \in Kinds
    BY <2>1, DecodedIsMessage DEF IsMessage
  <2>3. booked' = booked \cup {b} /\ forwarded' = forwarded \cup {b} /\ Answered(r, "Success")
    BY <1>12 DEF Book
  <2> HIDE DEF b
  <2>4. /\ requests' \subseteq requests /\ answer' \in {answer, "Success"}
        /\ UNCHANGED <<validates, lenient, draft, calls, outcome, filed, received>>
    BY <2>3 DEF Answered, operatorVars
  <2>5. "Success" \in Outcomes \ {"none", "open"}
    BY DEF Outcomes
  <2> QED BY <1>2, <2>2, <2>3, <2>4, <2>5
<1>13. ASSUME NEW b \in forwarded, Receive(b) PROVE Rest'
  <2>1. b = [call |-> b.call, m |-> b.m] /\ Stable(b.m)
    BY DEF Kept, BooksAgree
  <2>2. [b EXCEPT !.m = Decoded(b.m)] = b
    BY <2>1 DEF Stable
  <2>3. forwarded' \subseteq forwarded /\ received' \subseteq received \cup {b}
    BY <1>13, <2>2 DEF Receive
  <2>4. UNCHANGED <<validates, lenient, draft, calls, outcome, filed, booked, requests, answer>>
    BY <1>13 DEF Receive, operatorVars, brokerVars
  <2> QED BY <1>2, <2>3, <2>4
<1>14. CASE UNCHANGED vars
  BY <1>2, <1>14 DEF vars
<1> HIDE DEF Rest
<1> QED BY <1>3, <1>4, <1>5, <1>6, <1>7, <1>9, <1>10, <1>11, <1>12, <1>13, <1>14 DEF Next

(* A draft that stays is blamed for what it was.                             *)
LEMMA DraftStaysBlamed ==
    ASSUME Grows, draft' = draft, Blamed(draft)
    PROVE  Blamed(draft)'
BY DEF Grows, Blamed, AtItsPoint

LEMMA CheckStays ==
    ASSUME draft' = draft, checked' = checked, CheckedAs(draft, checked)
    PROVE  CheckedAs(draft, checked)'
BY DEF CheckedAs

LEMMA HeldStep ==
    ASSUME TypeOK, Underway, Held, [Next]_vars
    PROVE  Held'
<1>0. Absent \notin ContentRefusals /\ "none" \notin ContentRefusals /\ "open" \notin ContentRefusals
      /\ "Success" \notin ContentRefusals
  BY SettlementAssumption DEF ContentRefusals, Outcomes
<1>1. Grows
  <2>1. SessionsTyped
    BY DEF TypeOK, SessionsTyped, Session
  <2> QED BY <2>1, SessionsStep
<1>2. ASSUME NEW m \in Drafts, Compose(m) PROVE Held'
  <2>1. answer' = Absent /\ outcome' = "none" /\ checked' = Absent /\ filed' = filed
    BY <1>2 DEF Compose, Underway
  <2> QED BY <1>0, <2>1 DEF Held, CheckedAs
<1>3. ASSUME NEW p, Check(p) PROVE Held'
  <2>1. /\ draft \in Drafts /\ draft.kind = "Record" /\ outcome = "none" /\ answer = Absent
        /\ checked' = [against |-> p, findings |-> Findings(draft, p)]
        /\ draft' = draft /\ outcome' = outcome /\ answer' = answer /\ filed' = filed
    BY <1>3 DEF Check, TypeOK, Underway
  <2>2. CheckedAs(draft, checked)'
    BY <2>1 DEF CheckedAs
  <2> QED BY <1>0, <2>1, <2>2 DEF Held
<1>4. ASSUME Post PROVE Held'
  <2>1. /\ draft \in Drafts /\ answer = Absent /\ answer' = answer /\ calls' = calls + 1
        /\ draft' = draft /\ checked' = checked /\ filed' = filed
        /\ outcome' \in {"open", "Invalid"} /\ (outcome' = "Invalid" => ~Conformant(draft))
    BY <1>4 DEF Post, TypeOK, Underway
  <2>2. calls' # 0
    BY <2>1 DEF Underway
  <2>3. outcome' \in ContentRefusals => Blamed(draft)'
    BY <1>0, <2>1 DEF Blamed
  <2>4. CheckedAs(draft, checked)'
    BY <2>1, CheckStays DEF Held
  <2> QED BY <1>0, <2>1, <2>2, <2>3, <2>4 DEF Held
<1>5. ASSUME Hear PROVE Held'
  <2>1. /\ answer # Absent /\ draft \in Drafts /\ outcome' = answer /\ answer' = Absent
        /\ draft' = draft /\ checked' = checked /\ outcome = "open"
        /\ filed' \subseteq filed \cup {[call |-> calls, m |-> draft, checked |-> checked]}
    BY <1>5 DEF Hear, Held
  <2>2. outcome' \in ContentRefusals => Blamed(draft)'
    BY <1>1, <2>1, DraftStaysBlamed DEF Held
  <2>3. CheckedAs(draft, checked)'
    BY <2>1, CheckStays DEF Held
  <2>4. \A f \in filed' : f.m \in Drafts /\ CheckedAs(f.m, f.checked)
    BY <2>1 DEF Held
  <2>5. outcome' # "open"
    BY <2>1 DEF TypeOK
  <2> QED BY <1>0, <2>1, <2>2, <2>3, <2>4, <2>5 DEF Held
<1>6. ASSUME GiveUp PROVE Held'
  <2>1. /\ draft \in Drafts /\ outcome' = "Transport" /\ answer' = Absent
        /\ draft' = draft /\ checked' = checked /\ filed' = filed
    BY <1>6 DEF GiveUp, Held
  <2>2. CheckedAs(draft, checked)'
    BY <2>1, CheckStays DEF Held
  <2> QED BY <1>0, <2>1, <2>2 DEF Held, ContentRefusals
<1>7. ASSUME NEW r \in requests, NEW code, Answered(r, code), code \in ContentRefusals => Blamed(r.m)
      PROVE  Held'
  <2>1. /\ draft' = draft /\ checked' = checked /\ outcome' = outcome /\ filed' = filed
        /\ calls' = calls
        /\ answer' = answer \/ (answer' = code /\ outcome = "open" /\ r.call = calls)
    BY <1>7 DEF Answered, operatorVars
  <2>2. answer' \in ContentRefusals => Blamed(draft)'
    <3>1. CASE answer' = answer
      BY <1>1, <2>1, <3>1, DraftStaysBlamed DEF Held
    <3>2. CASE answer' = code /\ outcome = "open" /\ r.call = calls
      <4>1. r.m = draft
        BY <3>2 DEF Underway
      <4> QED BY <1>1, <1>7, <2>1, <3>2, <4>1, DraftStaysBlamed
    <3> QED BY <2>1, <3>1, <3>2
  <2>3. outcome' \in ContentRefusals => Blamed(draft)'
    BY <1>1, <2>1, DraftStaysBlamed DEF Held
  <2>4. CheckedAs(draft, checked)'
    BY <2>1, CheckStays DEF Held
  <2> QED BY <2>1, <2>2, <2>3, <2>4 DEF Held
<1>8. ASSUME NEW r \in requests, RejectBody(r) PROVE Held'
  <2>1. Blamed(r.m) /\ Answered(r, "BadRequest")
    BY <1>8 DEF RejectBody, Blamed
  <2> QED BY <1>7, <2>1
<1>9. ASSUME NEW r \in requests, Refuse(r) PROVE Held'
  <2>1. Answered(r, CodeOf(Decoded(r.m))) /\ r.m \in Drafts
    BY <1>9 DEF Refuse, Underway
  <2>2. CodeOf(Decoded(r.m)) \in ContentRefusals => Blamed(r.m)
    BY <2>1, RefusalIsBlamed
  <2> QED BY <1>7, <2>1, <2>2
<1>10. ASSUME NEW r \in requests, Open(r) \/ Book(r) PROVE Held'
  BY <1>0, <1>7, <1>10 DEF Open, Book
<1>11. ASSUME NEW b \in forwarded, Receive(b) PROVE Held'
  <2>1. UNCHANGED <<draft, checked, calls, outcome, filed, answer>>
    BY <1>11 DEF Receive, operatorVars
  <2>2. Blamed(draft) => Blamed(draft)'
    BY <1>1, <2>1, DraftStaysBlamed
  <2>3. CheckedAs(draft, checked)'
    BY <2>1, CheckStays DEF Held
  <2> QED BY <2>1, <2>2, <2>3 DEF Held
<1>12. CASE UNCHANGED vars
  <2>1. UNCHANGED <<draft, checked, calls, outcome, filed, answer>>
    BY <1>12 DEF vars
  <2>2. Blamed(draft) => Blamed(draft)'
    BY <1>1, <2>1, DraftStaysBlamed
  <2>3. CheckedAs(draft, checked)'
    BY <2>1, CheckStays DEF Held
  <2> QED BY <2>1, <2>2, <2>3 DEF Held
<1> QED BY <1>2, <1>3, <1>4, <1>5, <1>6, <1>8, <1>9, <1>10, <1>11, <1>12 DEF Next

LEMMA HeldInvariance == Spec => [](TypeOK /\ Held)
<1>1. Init => TypeOK /\ Held
  BY HeldInit
<1>2. (TypeOK /\ Held) /\ (Underway /\ Kept) /\ [Next]_vars => (TypeOK /\ Held)'
  BY TypeStep, HeldStep
<1> QED BY <1>1, <1>2, Invariance, PTL DEF Spec

(* No variable leaves its type, and no call is answered beyond its number.   *)
THEOREM SettlementTypeCorrect == Spec => []TypeOK
BY HeldInvariance, PTL

-----------------------------------------------------------------------------
(* The truth is nothing to complain of.                                      *)

LEMMA NothingToReport ==
    ASSUME NEW broken, ~broken, NEW at, NEW code
    PROVE  Report(broken, at, code) = {}
BY DEF Report

(* What a draft must have it has, and its other times and amounts are those   *)
(* of its kind.                                                              *)
LEMMA RequiredIsThere ==
    ASSUME NEW m \in Drafts, NEW f \in Required[m.kind]
    PROVE  /\ f \in TimeFields => m.times[f] # Absent
           /\ f \in AmountFields => m.amounts[f] # Absent
BY DraftsAreComplete, FieldNames DEF Present

(* Nothing is wrong with the fields of a plain message whose times are those *)
(* of a process.                                                             *)
LEMMA PlainFields ==
    ASSUME NEW m, IsMessage(m), Plain(m), \A f \in TimeFields : m.times[f] # Illegible
    PROVE  FieldViolations(m) = {}
<1>1. m.wordy = {} /\ \A f \in AmountFields : m.amounts[f] = Absent \/ JsonRoundTrips(m.amounts[f])
  BY DEF Plain
<1>2. \A f \in TimeFields : Report(m.times[f] = Illegible, f, "PatternMismatch") = {}
  BY DEF Report
<1>3. \A f \in AmountFields :
         Report(m.amounts[f] # Absent /\ ~JsonRoundTrips(m.amounts[f]), f, "Imprecise") = {}
  BY <1>1 DEF Report
<1>4. UNION {Report(TRUE, f, "TooLong") : f \in m.wordy} = {}
  BY <1>1
<1>5. UNION {Report(m.times[f] = Illegible, f, "PatternMismatch") : f \in TimeFields} = {}
  BY <1>2
<1>6. UNION {Report(m.amounts[f] # Absent /\ ~JsonRoundTrips(m.amounts[f]), f, "Imprecise") :
               f \in AmountFields} = {}
  BY <1>3
<1>7. Report(m.kind = "Record" /\ HasUnknownStatus(m.signed), "SignedMeteringValues",
             "PatternMismatch") = {}
  BY NothingToReport DEF Plain
<1> QED BY <1>4, <1>5, <1>6, <1>7 DEF FieldViolations

(* What a message says of a process is a number.                             *)
LEMMA ToldTimes ==
    ASSUME Instants \subseteq Int, NEW m, IsMessage(m), NEW t \in Schedules, TellsWhen(m, t)
    PROVE  /\ t \in [Span -> Int]
           /\ t["SessionStart"] =< t["ChargingStart"] /\ t["ChargingStart"] =< t["ChargingEnd"]
           /\ t["ChargingEnd"] =< t["SessionEnd"]
           /\ \A f \in Span : m.times[f] \in {Absent, t[f]} /\ m.times[f] # Illegible
           /\ m.times["EventOccurred"] # Illegible
<1>1. t \in [Span -> Int]
  BY DEF Schedules
<1>2. \A f \in Span : t[f] \in Int
  BY <1>1
<1>3. \A f \in Span : m.times[f] \in {Absent, t[f]} /\ m.times[f] # Illegible
  <2> SUFFICES ASSUME NEW f \in Span PROVE m.times[f] \in {Absent, t[f]} /\ m.times[f] # Illegible
    OBVIOUS
  <2>1. m.times[f] \in {Absent, t[f]}
    BY DEF TellsWhen
  <2> QED BY <1>2, <2>1, WireAssumption
<1>4. m.times["EventOccurred"] # Illegible
  <2>1. CASE m.kind = "Progress"
    <3>1. m.times["EventOccurred"] \in t["ChargingStart"] .. t["ChargingEnd"]
      BY <2>1 DEF TellsWhen
    <3> QED BY <1>2, <3>1, WireAssumption DEF Span
  <2>2. CASE m.kind # "Progress"
    <3>1. "EventOccurred" \in TimeFields \ TimesOf[m.kind]
      BY <2>2 DEF IsMessage, TimeFields, TimesOf, Kinds, Notifications
    <3>2. m.times["EventOccurred"] = Absent
      BY <3>1 DEF IsMessage
    <3> QED BY <3>2, WireAssumption
  <2> QED BY <2>1, <2>2
<1> QED BY <1>1, <1>3, <1>4 DEF Schedules

(* The rules of each kind find nothing in what a process can have been.      *)
LEMMA TruthKeepsRules ==
    ASSUME Instants \subseteq Int, Readings \subseteq Int,
           NEW m \in Drafts, Plain(m), Possible(m)
    PROVE  RulesOf(m) = {}
<1>1. IsMessage(m) /\ m.kind \in Kinds \ {"Authorize"}
  BY DraftsAreMessages DEF Plain, IsMessage
<1>2. PICK t \in Schedules : TellsWhen(m, t)
  BY DEF Possible
<1>3. PICK r \in Runs : TellsHowMuch(m, r)
  BY DEF Possible
<1> DEFINE from == m.amounts["MeterValueStart"]
           to == m.amounts["MeterValueEnd"]
           energy == m.amounts["ConsumedEnergy"]
<1>4. /\ t["SessionStart"] \in Int /\ t["ChargingStart"] \in Int
      /\ t["ChargingEnd"] \in Int /\ t["SessionEnd"] \in Int
      /\ t["SessionStart"] =< t["ChargingStart"] /\ t["ChargingStart"] =< t["ChargingEnd"]
      /\ t["ChargingEnd"] =< t["SessionEnd"]
      /\ \A f \in Span : m.times[f] \in {Absent, t[f]}
  <2>1. t \in [Span -> Int]
    BY <1>1, <1>2, ToldTimes
  <2> QED BY <1>1, <1>2, <2>1, ToldTimes DEF Span
<1>5. /\ r.start \in Int /\ r.end \in Int /\ r.start =< r.end
      /\ from \in {Absent, r.start} /\ to \in {Absent, r.end}
      /\ m.kind # "Progress" => energy \in {Absent, r.end - r.start}
  BY <1>3 DEF Runs, TellsHowMuch
<1>6. ASSUME m.kind # "Progress"
      PROVE  MeteredEnergy(m) # Absent /\ energy # Absent =>
                MeteredEnergy(m) = energy /\ energy >= 0
  BY <1>5, <1>6, WireAssumption DEF MeteredEnergy
<1>7. ASSUME NEW f \in Span, NEW g \in Span, t[f] \in Int, t[g] \in Int, t[f] =< t[g]
      PROVE  ~Before(m.times[g], m.times[f])
  <2>1. m.times[f] \in {Absent, t[f]} /\ m.times[g] \in {Absent, t[g]}
    BY <1>4
  <2> QED BY <1>7, <2>1 DEF Before, Readable
<1>8. CASE m.kind = "Record"
  <2>1. energy # Absent
    BY <1>8, RequiredIsThere DEF Required, AmountFields
  <2>2. energy \in Int /\ energy >= 0
    BY <1>5, <1>8, <2>1
  <2>3. ~(MeteredEnergy(m) # Absent /\ MeteredEnergy(m) # energy) /\ ~(energy < 0)
        /\ ~(MeteredEnergy(m) # Absent /\ MeteredEnergy(m) < 0)
    BY <1>6, <1>8, <2>1, <2>2
  <2>4. EnergyViolations(m) = {}
    BY <2>3, NothingToReport DEF EnergyViolations
  <2> DEFINE T(p) == Report(Before(m.times[p[2]], m.times[p[1]]), p[2], "Inconsistent")
  <2>5. \A p \in Ordering : T(p) = {}
    <3>1. /\ ~Before(m.times["ChargingStart"], m.times["SessionStart"])
          /\ ~Before(m.times["ChargingEnd"], m.times["ChargingStart"])
          /\ ~Before(m.times["SessionEnd"], m.times["ChargingEnd"])
      BY <1>4, <1>7 DEF Span
    <3> QED BY <3>1 DEF Ordering, Report
  <2>6. UNION {T(p) : p \in Ordering} = {}
    <3> HIDE DEF T
    <3> QED BY <2>5
  <2>7. Report(m.signed # Absent /\ Len(m.signed) > MaxSigned,
               "SignedMeteringValues", "TooManyItems") = {}
    <3>1. ~(m.signed # Absent /\ Len(m.signed) > MaxSigned)
      BY <1>1, WireAssumption DEF Plain, IsMessage
    <3> QED BY <3>1, NothingToReport
  <2>8. RecordViolations(m) = {}
    BY <2>4, <2>6, <2>7 DEF RecordViolations
  <2> QED BY <1>8, <2>8 DEF RulesOf
<1>9. CASE m.kind = "Start"
  <2>1. ~Before(m.times["ChargingStart"], m.times["SessionStart"])
    BY <1>4, <1>7 DEF Span
  <2>2. StartViolations(m) = {}
    BY <2>1, NothingToReport DEF StartViolations
  <2> QED BY <1>9, <2>2 DEF RulesOf
<1>10. CASE m.kind = "End"
  <2>1. ~Before(m.times["ChargingEnd"], m.times["ChargingStart"])
    BY <1>4, <1>7 DEF Span
  <2>2. ~(MeteredEnergy(m) # Absent /\ energy # Absent /\ MeteredEnergy(m) # energy)
    BY <1>6, <1>10
  <2>3. EndViolations(m) = {}
    BY <2>1, <2>2, NothingToReport DEF EndViolations
  <2> QED BY <1>10, <2>3 DEF RulesOf
<1>11. CASE m.kind = "Error"
  BY <1>11 DEF RulesOf
<1>12. CASE m.kind = "Progress"
  <2> DEFINE event == m.times["EventOccurred"]
             start == m.times["ChargingStart"]
  <2>1. start = t["ChargingStart"]
    <3>1. start # Absent
      BY <1>12, RequiredIsThere DEF Required, TimeFields
    <3> QED BY <1>4, <3>1 DEF Span
  <2>2. /\ event \in t["ChargingStart"] .. t["ChargingEnd"]
        /\ m.duration # Absent =>
             m.duration >= 0 /\ Distance(m.duration, event - t["ChargingStart"]) =< Slack
    BY <1>2, <1>12 DEF TellsWhen
  <2>3. event \in Int /\ Readable(event) /\ Readable(start)
    BY <1>4, <2>1, <2>2, WireAssumption DEF Readable
  <2>4. ImpliedDuration(m) = event - t["ChargingStart"]
    BY <2>1, <2>3 DEF ImpliedDuration
  <2>5. m.duration # Absent => m.duration \in Int /\ Distance(m.duration, ImpliedDuration(m)) \in Int
    BY <1>1, <1>4, <2>3, <2>4 DEF IsMessage, Distance
  <2>6. /\ ~(m.duration = Absent /\ energy = Absent)
        /\ ~(m.duration # Absent /\ ImpliedDuration(m) # Absent
             /\ Distance(m.duration, ImpliedDuration(m)) > Slack)
        /\ ~(m.duration # Absent /\ m.duration < 0)
    <3>1. m.duration # Absent \/ energy # Absent
      BY <1>12 DEF Plain
    <3> HIDE DEF event, start
    <3> QED BY <2>2, <2>4, <2>5, <3>1, WireAssumption
  <2>7. ProgressViolations(m) = {}
    BY <2>6, NothingToReport DEF ProgressViolations
  <2> QED BY <1>12, <2>7 DEF RulesOf
<1> QED BY <1>1, <1>8, <1>9, <1>10, <1>11, <1>12 DEF Kinds, Notifications

LEMMA TruthConforms ==
    ASSUME Instants \subseteq Int, Readings \subseteq Int,
           NEW m \in Drafts, Plain(m), Possible(m)
    PROVE  Conformant(m) /\ Decodable(m)
<1>1. IsMessage(m) /\ m.type = m.kind
  BY DraftsAreMessages DEF Plain
<1>2. RulesOf(m) = {}
  BY TruthKeepsRules
<1>3. FieldViolations(m) = {}
  <2>1. PICK t \in Schedules : TellsWhen(m, t)
    BY DEF Possible
  <2>2. \A f \in TimeFields : m.times[f] # Illegible
    BY <1>1, <2>1, ToldTimes DEF Span, TimeFields
  <2> QED BY <1>1, <2>2, PlainFields
<1>4. Report(m.kind \in Notifications /\ m.type # m.kind, "Type", "Inconsistent") = {}
  BY <1>1, NothingToReport
<1>5. m.identification # Absent => IdentificationViolations(m.identification, "Record") = {}
  <2> SUFFICES ASSUME m.identification # Absent
               PROVE  IdentificationViolations(m.identification, "Record") = {}
    OBVIOUS
  <2>1. ~(m.identification.member = "QrCode" /\ m.identification.pin /\ m.identification.hashed)
    BY DEF Plain
  <2> QED BY <2>1, NothingToReport DEF IdentificationViolations
<1>6. Conformant(m)
  BY <1>2, <1>3, <1>4, <1>5 DEF Conformant, Violations
<1>7. Decodable(m)
  BY <1>1, DraftsAreComplete DEF Decodable
<1> QED BY <1>6, <1>7

(* Nothing that tells of a process as it can have been, in numbers that JSON *)
(* carries, is refused for what it says.                                     *)
THEOREM TruthIsServed ==
    ASSUME Instants \subseteq Int, Readings \subseteq Int
    PROVE  Spec => []TruthfulIsServed
<1>1. ContentRefusals \cap {"none"} = {}
  BY DEF ContentRefusals
<1>2. Held => TruthfulIsServed
  <2> SUFFICES ASSUME Held, outcome \in ContentRefusals, Plain(draft), AtItsPoint(draft)
               PROVE  ~Possible(draft)
    BY DEF TruthfulIsServed
  <2>1. draft \in Drafts /\ Blamed(draft)
    BY <1>1 DEF Held
  <2>2. ~Conformant(draft) \/ ~Decodable(draft)
    BY <2>1 DEF Blamed, Plain
  <2> QED BY <2>1, <2>2, TruthConforms
<1> QED BY <1>2, HeldInvariance, PTL

-----------------------------------------------------------------------------
(* What a check says.                                                        *)

LEMMA FindingIsMade ==
    ASSUME NEW broken, broken, NEW at, NEW severity
    PROVE  \E v \in Finding(broken, at, severity) : v.at = at
<1>1. [at |-> at, severity |-> severity].at = at
  OBVIOUS
<1> QED BY <1>1 DEF Finding

(* A record nothing was found on breaks no rule.                             *)
LEMMA CleanConforms ==
    ASSUME NEW m, NEW p, Findings(m, p) = {}
    PROVE  Conformant(m)
<1>1. OwnFindings(m) = {}
  BY DEF Findings
<1> DEFINE F(v) == [at |-> v.at, severity |-> IF v.code = "Imprecise" THEN "Warning" ELSE "Error"]
<1>2. {F(v) : v \in Violations(m)} = {}
  BY <1>1 DEF OwnFindings
<1> HIDE DEF F
<1>3. Violations(m) = {}
  BY <1>2
<1> QED BY <1>3 DEF Conformant

(* Signed readings whose statuses are known and that have all of their        *)
(* signatures can be read as a sequence, or the check has a finding on them. *)
LEMMA SequencesAreChecked ==
    ASSUME NEW m, IsMessage(m), m.signed \notin {Absent, <<>>}, KnownStatuses(m.signed),
           ~Verifiable(m.signed)
    PROVE  \E v \in SignedFindings(m) : v.at = "SignedMeteringValues"
<1> DEFINE s == m.signed
           n == Len(s)
           W(broken) == Finding(broken, "SignedMeteringValues", "Warning")
           E(broken) == Finding(broken, "SignedMeteringValues", "Error")
<1> SUFFICES ASSUME ~(Statuses(s) # {} /\ "End" \notin Statuses(s)),
                    ~(Statuses(s) # {} /\ "Start" \notin Statuses(s)),
                    ~(\E i \in DOMAIN s : ~s[i].signature),
                    ~(OutOfOrder(s) # {})
             PROVE  FALSE
  <2>1. SignedFindings(m) = W(Statuses(s) # {} /\ "End" \notin Statuses(s))
                              \cup W(Statuses(s) # {} /\ "Start" \notin Statuses(s))
                              \cup E(\E i \in DOMAIN s : ~s[i].signature)
                              \cup W(OutOfOrder(s) # {})
    BY DEF SignedFindings
  <2>2. ASSUME NEW b, b PROVE \E v \in W(b) : v.at = "SignedMeteringValues"
    BY <2>2, FindingIsMade
  <2>3. ASSUME NEW b, b PROVE \E v \in E(b) : v.at = "SignedMeteringValues"
    BY <2>3, FindingIsMade
  <2> HIDE DEF W, E, s
  <2> QED BY <2>1, <2>2, <2>3
<1> DEFINE X == {s[i] : i \in DOMAIN s}
<1>1. s \in Seq(X) /\ s # <<>>
  BY DEF IsMessage
<1> HIDE DEF X
<1>2. DOMAIN s = 1 .. n /\ n \in Nat /\ n # 0
  BY <1>1
<1>3. \A i \in 1 .. n : s[i].status \in {"Start", "Progress", "End"}
  <2>1. s # Absent
    OBVIOUS
  <2> HIDE DEF s, n
  <2>2. KnownStatuses(s)
    BY DEF s
  <2> QED BY <1>2, <2>1, <2>2 DEF KnownStatuses, Ranks
<1> HIDE DEF s
<1>4. \A i \in 1 .. n : s[i].status # Absent
  BY <1>3, SettlementAssumption DEF Ranks
<1> HIDE DEF n
<1>5. 1 \in 1 .. n /\ n \in 1 .. n
  BY <1>2
<1>6. Statuses(s) # {}
  <2>1. 1 \in DOMAIN s /\ s[1].status # Absent
    BY <1>2, <1>4, <1>5
  <2>2. s[1].status \in Statuses(s)
    BY <2>1 DEF Statuses
  <2> QED BY <2>2
<1>7. /\ \E i \in 1 .. n : s[i].status = "Start"
      /\ \E i \in 1 .. n : s[i].status = "End"
  <2>1. "Start" \in Statuses(s) /\ "End" \in Statuses(s)
    BY <1>6
  <2> QED BY <1>2, <2>1 DEF Statuses
<1>8. \A i, j \in 1 .. n : j < i => ~(Ranks[s[i].status] < Ranks[s[j].status])
  BY <1>2, <1>3 DEF OutOfOrder, Ranked, Ranks
<1>9. Ranks["Start"] = 0 /\ Ranks["Progress"] = 1 /\ Ranks["End"] = 2
  BY DEF Ranks
<1>10. s[1].status = "Start"
  <2>1. PICK i \in 1 .. n : s[i].status = "Start"
    BY <1>7
  <2>2. CASE i = 1
    BY <2>1, <2>2
  <2>3. CASE i # 1
    <3>1. ~(Ranks[s[i].status] < Ranks[s[1].status])
      BY <1>5, <1>8, <2>3
    <3> QED BY <1>3, <1>5, <1>9, <2>1, <3>1
  <2> QED BY <2>2, <2>3
<1>11. s[n].status = "End"
  <2>1. PICK i \in 1 .. n : s[i].status = "End"
    BY <1>7
  <2>2. CASE i = n
    BY <2>1, <2>2
  <2>3. CASE i # n
    <3>1. ~(Ranks[s[n].status] < Ranks[s[i].status])
      <4>1. i < n
        BY <1>2, <2>3
      <4> QED BY <1>5, <1>8, <4>1
    <3> QED BY <1>3, <1>5, <1>9, <2>1, <3>1
  <2> QED BY <2>2, <2>3
<1>12. \A i \in DOMAIN s : s[i].signature
  OBVIOUS
<1>13. s # Absent /\ ~Verifiable(s)
  BY DEF s
<1> QED BY <1>1, <1>10, <1>11, <1>12, <1>13 DEF Verifiable, n

(* What the check says of a record is so.                                    *)
THEOREM ChecksTellTheTruth == Spec => []ChecksAreTrue
<1>1. Held => CleanIsAccepted
  <2> SUFFICES ASSUME Held, outcome \in ContentRefusals, AtItsPoint(draft), checked # Absent,
                      checked.findings = {}
               PROVE  FALSE
    BY DEF CleanIsAccepted
  <2>1. /\ draft \in Drafts /\ draft.kind = "Record"
        /\ checked = [against |-> checked.against, findings |-> Findings(draft, checked.against)]
        /\ Blamed(draft)
    BY DEF Held, CheckedAs
  <2>2. Findings(draft, checked.against) = {}
    BY <2>1
  <2>3. Conformant(draft)
    BY <2>2, CleanConforms
  <2>4. Decodable(draft)
    <3>1. draft.type = draft.kind
      BY <2>1, DraftsAreMessages DEF IsMessage, Notifications
    <3> QED BY <2>1, <3>1, DraftsAreComplete DEF Decodable
  <2> QED BY <2>1, <2>3, <2>4 DEF Blamed
<1>2. Held => UnverifiableIsTold
  <2> SUFFICES ASSUME Held, NEW f \in filed,
                      f.m.kind = "Record", KnownStatuses(f.m.signed), Points[f.m.evse].external,
                      f.checked # Absent, f.checked.against = f.m.evse,
                      ~Verifiable(f.m.signed)
               PROVE  \E v \in f.checked.findings : v.at = "SignedMeteringValues"
    BY DEF UnverifiableIsTold
  <2> DEFINE m == f.m
             p == m.evse
  <2>1. m \in Drafts /\ f.checked = [against |-> p, findings |-> Findings(m, p)]
    BY DEF Held, CheckedAs
  <2>2. f.checked.findings = Findings(m, p)
    BY <2>1
  <2>3. IsMessage(m)
    BY <2>1, DraftsAreMessages
  <2>4. p # Absent
    BY <2>3 DEF IsMessage
  <2>5. SignedFindings(m) \subseteq Findings(m, p) /\ CalibrationFindings(m, p) \subseteq Findings(m, p)
    BY <2>4 DEF Findings
  <2>6. CASE m.signed \in {Absent, <<>>}
    <3>1. CalibrationFindings(m, p) = Finding(TRUE, "SignedMeteringValues", "Error")
      BY <2>6 DEF CalibrationFindings
    <3>2. \E v \in Finding(TRUE, "SignedMeteringValues", "Error") : v.at = "SignedMeteringValues"
      BY FindingIsMade
    <3> QED BY <2>2, <2>5, <3>1, <3>2
  <2>7. CASE m.signed \notin {Absent, <<>>}
    <3>1. \E v \in SignedFindings(m) : v.at = "SignedMeteringValues"
      BY <2>3, <2>7, SequencesAreChecked
    <3> QED BY <2>2, <2>5, <3>1
  <2> QED BY <2>6, <2>7
<1>3. Held => ChecksAreTrue
  BY <1>1, <1>2 DEF ChecksAreTrue
<1> QED BY <1>3, HeldInvariance, PTL

=============================================================================
