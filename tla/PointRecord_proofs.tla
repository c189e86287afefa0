------------------------- MODULE PointRecord_proofs -------------------------
(* That a position does not drift, however often it is rewritten, and that   *)
(* no two operators hold the same charging point: for every survey and every *)
(* set of identifiers.                                                       *)
EXTENDS PointRecord, SequenceTheorems, TLAPS

-----------------------------------------------------------------------------
(* Rounding.  The two steps are spelled out, so that arithmetic is linear.    *)

LEMMA RoundingToMicro ==
    ASSUME NEW v \in Int
    PROVE  /\ RoundedTo(Micro, v) \in Int
           /\ RoundedTo(Micro, v) % Micro = 0
           /\ RoundedTo(Micro, v) - v \in -4 .. 4
           /\ v % Micro = 0 => RoundedTo(Micro, v) = v
BY DEF RoundedTo, Micro, Abs

LEMMA RoundingToCenti ==
    ASSUME NEW v \in Int
    PROVE  /\ RoundedTo(Centi, v) \in Int
           /\ RoundedTo(Centi, v) % Centi = 0
           /\ RoundedTo(Centi, v) - v \in -12 .. 12
           /\ \A w \in Int : (w % Centi = 0 /\ w - v \in -12 .. 12) => RoundedTo(Centi, v) = w
BY DEF RoundedTo, Centi, Abs

(* Degrees, minutes and hundredths of seconds are read back as the angle,    *)
(* rounded to a hundredth: the parts of an angle are whole hundredths.       *)
LEMMA DmsIsRead ==
    ASSUME NEW v \in Int
    PROVE  ParseDms(ToDms(v)) = RoundedTo(Centi, v)
<1> DEFINE a == Abs(v)
           size == (a \div Degree) * Degree + ((a % Degree) \div Minute) * Minute
                     + (RoundedTo(Centi, a % Minute) \div Centi) * Centi
<1>1. a \in Nat
  BY DEF Abs
<1>2. size = RoundedTo(Centi, a)
  BY <1>1 DEF RoundedTo, Centi, Abs, Degree, Minute
<1>3. ParseDms(ToDms(v)) = IF v < 0 THEN -size ELSE size
  BY DEF ParseDms, ToDms
<1>4. RoundedTo(Centi, v) = IF v < 0 THEN -RoundedTo(Centi, a) ELSE RoundedTo(Centi, a)
  BY <1>1 DEF RoundedTo, Centi, Abs
<1> QED BY <1>2, <1>3, <1>4

-----------------------------------------------------------------------------
(* A coordinate surveyed as s.  Composed as a decimal it is Fixed(s), in      *)
(* seconds Sexagesimal(s), and rewritten from seconds as a decimal Back(s);   *)
(* after that it only alternates between the last two.                       *)

Fixed(s) == RoundedTo(Micro, s)
Sexagesimal(s) == RoundedTo(Centi, Fixed(s))
Back(s) == RoundedTo(Micro, Sexagesimal(s))

Readings(s) == {Fixed(s), Sexagesimal(s), Back(s)}

(* How a coordinate reads that was written in a notation.                    *)
LEMMA WrittenIsRead ==
    ASSUME NEW v \in Int, NEW notation
    PROVE  Read(notation, Written(notation, v)) =
              IF notation = "DegreeMinuteSeconds" THEN RoundedTo(Centi, v) ELSE RoundedTo(Micro, v)
BY DmsIsRead DEF Read, Written, Conformal, Decimal

(* No reading is farther from the survey than three roundings.               *)
LEMMA ReadingsAreNear ==
    ASSUME NEW s \in Int
    PROVE  \A v \in Readings(s) :
              v \in Int /\ Abs(v - s) =< 2 * (Micro \div 2) + Centi \div 2
<1>1. Fixed(s) \in Int /\ Fixed(s) - s \in -4 .. 4
  BY RoundingToMicro DEF Fixed
<1>2. Sexagesimal(s) \in Int /\ Sexagesimal(s) - Fixed(s) \in -12 .. 12
  BY <1>1, RoundingToCenti DEF Sexagesimal
<1>3. Back(s) \in Int /\ Back(s) - Sexagesimal(s) \in -4 .. 4
  BY <1>2, RoundingToMicro DEF Back
<1> QED BY <1>1, <1>2, <1>3 DEF Readings, Abs, Micro, Centi

(* Rewriting a reading gives a reading: seconds that came back from a decimal *)
(* are the seconds it was made of, for a decimal is the finer of the two.    *)
LEMMA RewritingKeepsReadings ==
    ASSUME NEW s \in Int, NEW v \in Readings(s), NEW notation
    PROVE  Read(notation, Written(notation, v)) \in Readings(s)
<1>1. /\ Fixed(s) \in Int /\ Fixed(s) % Micro = 0
  BY RoundingToMicro DEF Fixed
<1>2. Sexagesimal(s) \in Int /\ Sexagesimal(s) % Centi = 0
  BY <1>1, RoundingToCenti DEF Sexagesimal
<1>3. Back(s) \in Int /\ Back(s) % Micro = 0 /\ Back(s) - Sexagesimal(s) \in -4 .. 4
  BY <1>2, RoundingToMicro DEF Back
<1>4. v \in Int
  BY <1>1, <1>2, <1>3 DEF Readings
<1>5. RoundedTo(Micro, v) \in Readings(s)
  <2>1. CASE v = Fixed(s)
    BY <2>1, <1>1, RoundingToMicro DEF Readings
  <2>2. CASE v = Sexagesimal(s)
    BY <2>2 DEF Readings, Back
  <2>3. CASE v = Back(s)
    BY <2>3, <1>3, RoundingToMicro DEF Readings
  <2> QED BY <2>1, <2>2, <2>3 DEF Readings
<1>6. RoundedTo(Centi, v) \in Readings(s)
  <2>1. CASE v = Fixed(s)
    BY <2>1 DEF Readings, Sexagesimal
  <2>2. CASE v \in {Sexagesimal(s), Back(s)}
    <3>1. Sexagesimal(s) - v \in -12 .. 12
      BY <2>2, <1>2, <1>3
    <3>2. RoundedTo(Centi, v) = Sexagesimal(s)
      BY <3>1, <1>2, <1>4, RoundingToCenti
    <3> QED BY <3>2 DEF Readings
  <2> QED BY <2>1, <2>2 DEF Readings
<1> QED BY <1>4, <1>5, <1>6, WrittenIsRead

(* A position whose coordinates read as they may.                            *)
Stays(p) ==
    /\ Latitude(p) \in Readings(site.latitude)
    /\ Longitude(p) \in Readings(site.longitude)

LEMMA ToFormatStays ==
    ASSUME site.latitude \in Int, site.longitude \in Int, NEW p, Stays(p), NEW notation
    PROVE  Stays(ToFormat(p, notation))
<1> DEFINE q == ToFormat(p, notation)
<1>1. /\ Latitude(q) = Read(notation, Written(notation, Latitude(p)))
      /\ Longitude(q) = Read(notation, Written(notation, Longitude(p)))
  BY DEF ToFormat, Latitude, Longitude
<1>2. Latitude(q) \in Readings(site.latitude)
  BY <1>1, RewritingKeepsReadings DEF Stays
<1>3. Longitude(q) \in Readings(site.longitude)
  BY <1>1, RewritingKeepsReadings DEF Stays
<1> QED BY <1>2, <1>3 DEF Stays

DriftInv ==
    /\ site.latitude \in Int /\ site.longitude \in Int
    /\ record # Nowhere => Stays(record)
    /\ copy # Nowhere => Stays(copy)

LEMMA DriftInit == Init => DriftInv
<1> SUFFICES ASSUME Init PROVE DriftInv
  OBVIOUS
<1>1. site \in Sites /\ record = Nowhere /\ copy = Nowhere
  BY DEF Init
<1>2. InRange(site.latitude, 90) /\ InRange(site.longitude, 180)
  BY <1>1, SiteAssumption
<1>3. site.latitude \in Int /\ site.longitude \in Int
  BY <1>2, SMT DEF InRange
<1> QED BY <1>1, <1>3 DEF DriftInv

LEMMA DriftNext == DriftInv /\ [Next]_vars => DriftInv'
<1> SUFFICES ASSUME DriftInv, [Next]_vars PROVE DriftInv'
  OBVIOUS
<1>1. site' = site
  BY DEF Next, vars, Compose, Push, Pull, Rewrite, Tick
<1>2. ASSUME NEW notation, Compose(notation) PROVE DriftInv'
  <2> DEFINE p == FromDecimalDegrees(site.latitude, site.longitude)
  <2>1. Stays(p)
    BY DEF FromDecimalDegrees, Conformal, Decimal, Stays, Latitude, Longitude, Read,
           Readings, Fixed
  <2> HIDE DEF p
  <2>2. Stays(ToFormat(p, notation))
    BY <2>1, ToFormatStays DEF DriftInv
  <2>3. record' = ToFormat(p, notation) /\ copy' = copy
    BY <1>2 DEF Compose, p
  <2> QED BY <1>1, <2>2, <2>3 DEF DriftInv, Stays
<1>3. ASSUME NEW notation, Rewrite(notation) PROVE DriftInv'
  <2>1. Stays(ToFormat(copy, notation))
    BY <1>3, ToFormatStays DEF DriftInv, Rewrite
  <2>2. copy' = ToFormat(copy, notation) /\ record' = record
    BY <1>3 DEF Rewrite
  <2> QED BY <1>1, <2>1, <2>2 DEF DriftInv, Stays
<1>4. ASSUME NEW o, NEW id, Push(o, id) PROVE DriftInv'
  BY <1>1, <1>4 DEF Push, DriftInv, Stays
<1>5. CASE Pull
  BY <1>1, <1>5 DEF Pull, DriftInv, Stays
<1>6. CASE Tick
  BY <1>1, <1>6 DEF Tick, DriftInv, Stays
<1>7. CASE UNCHANGED vars
  BY <1>7 DEF vars, DriftInv, Stays
<1> QED BY <1>2, <1>3, <1>4, <1>5, <1>6, <1>7 DEF Next

(* However often a position changes its notation, it stays where the site is, *)
(* give or take three roundings: for every site and any number of rewrites   *)
(* (GeoCoordinates::to_format).                                              *)
THEOREM PositionsStay == Spec => []PositionStays
<1>1. DriftInv => PositionStays
  BY ReadingsAreNear DEF DriftInv, Stays, PositionStays
<1> QED BY <1>1, DriftInit, DriftNext, PTL DEF Spec

-----------------------------------------------------------------------------
(* Identifiers.  Equality reads country, operator and instance one after the *)
(* other, so it could take one operator's identifier for another's where the *)
(* parts of one are longer; neither grammar lets that happen.                *)

IsEvse(id) == id \in EvseIds /\ EvseIsWellFormed(id)

LEMMA PartsAreSequences ==
    ASSUME NEW id, IsEvse(id)
    PROVE  /\ id.country \in Seq(Symbols) /\ id.operator \in Seq(Symbols)
           /\ id.instance \in Seq(Symbols)
           /\ Len(id.country) \in 1 .. 3 /\ Len(id.operator) = 3
           /\ id.standard = "ISO" => Len(id.country) = 2
BY IdentifierShape DEF IsEvse, EvseIsWellFormed, IsIso, IsDin, OperatorPart

(* The bytes of an operator are the first of its identifiers', and those of  *)
(* the country the first of the operator's.                                  *)
LEMMA BytesBegin ==
    ASSUME NEW id, IsEvse(id)
    PROVE  /\ OperatorBytes(id) \in Seq(Symbols)
           /\ Len(OperatorBytes(id)) = Len(id.country) + 3
           /\ \A i \in 1 .. Len(id.country) : OperatorBytes(id)[i] = id.country[i]
           /\ \A i \in 1 .. Len(OperatorBytes(id)) : EvseBytes(id)[i] = OperatorBytes(id)[i]
<1> DEFINE c == id.country
           o == id.operator
           n == id.instance
           mark == IF id.standard = "ISO" THEN <<"E">> ELSE <<>>
           All == Symbols \cup {"E"}
<1>1. c \in Seq(Symbols) /\ o \in Seq(Symbols) /\ n \in Seq(Symbols) /\ Len(o) = 3
  BY PartsAreSequences
<1>2. OperatorBytes(id) = c \o o /\ EvseBytes(id) = ((c \o o) \o mark) \o n
  BY DEF OperatorBytes, EvseBytes
<1>3. mark \in Seq(All)
  <2>1. "E" \in All
    OBVIOUS
  <2> HIDE DEF All
  <2>2. <<"E">> \in Seq(All) /\ <<>> \in Seq(All)
    BY <2>1
  <2> QED BY <2>2
<1> HIDE DEF c, o, n, mark, All
<1>4. /\ c \o o \in Seq(Symbols) /\ Len(c \o o) = Len(c) + 3
      /\ \A i \in 1 .. Len(c) : (c \o o)[i] = c[i]
  <2>1. Len(c) \in Nat
    BY <1>1
  <2>2. /\ c \o o \in Seq(Symbols) /\ Len(c \o o) = Len(c) + Len(o)
        /\ \A i \in 1 .. Len(c) + Len(o) :
              (c \o o)[i] = IF i <= Len(c) THEN c[i] ELSE o[i - Len(c)]
    BY <1>1, ConcatProperties
  <2> QED BY <1>1, <2>1, <2>2
<1>5. c \o o \in Seq(All) /\ n \in Seq(All)
  <2>1. Symbols \subseteq All
    BY DEF All
  <2> QED BY <1>1, <1>4, <2>1, SeqMonotonic
<1>6. \A i \in 1 .. Len(c \o o) : (((c \o o) \o mark) \o n)[i] = (c \o o)[i]
  BY <1>3, <1>5
<1> QED BY <1>2, <1>4, <1>6 DEF c

(* The first symbol of an identifier tells its standard.                     *)
LEMMA FirstSymbol ==
    ASSUME NEW id, IsEvse(id)
    PROVE  /\ 1 \in 1 .. Len(id.country)
           /\ IsIso(id) \/ IsDin(id)
           /\ IsIso(id) => EvseBytes(id)[1] \in Letters
           /\ IsDin(id) => EvseBytes(id)[1] \in Digits
<1>1. id.country \in Seq(Symbols) /\ Len(id.country) \in 1 .. 3
  BY PartsAreSequences
<1>2. EvseBytes(id)[1] = id.country[1]
  BY <1>1, BytesBegin
<1>3. 1 \in DOMAIN id.country
  BY <1>1
<1> QED BY <1>1, <1>2, <1>3 DEF IsEvse, EvseIsWellFormed, IsIso, IsDin, Made

(* Country codes as long begin as many symbols of equal identifiers; neither *)
(* is longer than the other, or it would begin with the other.               *)
LEMMA CountriesAsLong ==
    ASSUME NEW a, IsEvse(a), NEW b, IsEvse(b), SameEvse(a, b)
    PROVE  ~(Len(a.country) < Len(b.country))
<1> SUFFICES ASSUME Len(a.country) < Len(b.country) PROVE FALSE
  OBVIOUS
<1>1. EvseBytes(a) = EvseBytes(b)
  BY DEF SameEvse
<1>2. /\ Len(a.country) \in 1 .. 3 /\ Len(b.country) \in 1 .. 3
      /\ a.standard = "ISO" => Len(a.country) = 2
      /\ b.standard = "ISO" => Len(b.country) = 2
  BY PartsAreSequences
<1>3. \A i \in 1 .. Len(a.country) : a.country[i] = EvseBytes(a)[i]
  BY <1>2, BytesBegin
<1>4. \A i \in 1 .. Len(b.country) : b.country[i] = EvseBytes(b)[i]
  BY <1>2, BytesBegin
<1>5. \A i \in 1 .. Len(a.country) : a.country[i] = b.country[i]
  BY <1>1, <1>2, <1>3, <1>4
<1>6. CASE IsDin(a) /\ IsDin(b)
  BY <1>5, <1>6, NumberingPlan DEF IsEvse
<1>7. CASE IsIso(a) /\ IsIso(b)
  BY <1>2, <1>7 DEF IsIso
<1>8. CASE (IsIso(a) /\ IsDin(b)) \/ (IsDin(a) /\ IsIso(b))
  BY <1>1, <1>8, FirstSymbol, SymbolAssumption
<1> QED BY <1>6, <1>7, <1>8, FirstSymbol

(* An identifier has one operator, however it is spelled.                    *)
LEMMA EqualHaveOneOperator ==
    ASSUME NEW a, IsEvse(a), NEW b, IsEvse(b), SameEvse(a, b)
    PROVE  OperatorBytes(a) = OperatorBytes(b)
<1>1. EvseBytes(a) = EvseBytes(b) /\ SameEvse(b, a)
  BY DEF SameEvse
<1>2. Len(a.country) \in Nat /\ Len(b.country) \in Nat
  BY PartsAreSequences
<1>3. Len(a.country) = Len(b.country)
  BY <1>1, <1>2, CountriesAsLong
<1>4. /\ OperatorBytes(a) \in Seq(Symbols) /\ OperatorBytes(b) \in Seq(Symbols)
      /\ Len(OperatorBytes(a)) = Len(OperatorBytes(b))
  BY <1>3, BytesBegin
<1>5. \A i \in 1 .. Len(OperatorBytes(a)) : OperatorBytes(a)[i] = OperatorBytes(b)[i]
  BY <1>1, <1>4, BytesBegin
<1> QED BY <1>4, <1>5

(* Every shelf holds identifiers of the operator it is of.                   *)
Shelved ==
    /\ published \in [Shelves -> SUBSET EvseIds]
    /\ \A s \in Shelves : \A id \in published[s] : EvseIsWellFormed(id) /\ OperatorBytes(id) = s

LEMMA ShelvedInit == Init => Shelved
BY DEF Init, Shelved

LEMMA ShelvedNext == Shelved /\ [Next]_vars => Shelved'
<1> SUFFICES ASSUME Shelved, [Next]_vars PROVE Shelved'
  OBVIOUS
<1>1. ASSUME NEW o \in Envelopes, NEW id \in EvseIds, Push(o, id) PROVE Shelved'
  <2> DEFINE shelf == OperatorBytes(o)
  <2>1. shelf \in Shelves
    BY DEF Shelves
  <2>2. EvseIsWellFormed(id) /\ SameOperator(OperatorOf(id), o)
    BY <1>1 DEF Push, PushConforms, RecordConforms
  <2>3. OperatorBytes(id) = shelf
    BY <2>2 DEF SameOperator, OperatorOf, OperatorBytes
  <2>4. published' = [published EXCEPT ![shelf] = {k \in @ : ~SameEvse(k, id)} \cup {id}]
    BY <1>1 DEF Push
  <2> HIDE DEF shelf
  <2>5. published' \in [Shelves -> SUBSET EvseIds]
    BY <2>1, <2>4 DEF Shelved
  <2>6. \A s \in Shelves : published'[s] \subseteq published[s] \cup (IF s = shelf THEN {id} ELSE {})
    BY <2>1, <2>4 DEF Shelved
  <2>7. \A s \in Shelves : \A k \in published'[s] : EvseIsWellFormed(k) /\ OperatorBytes(k) = s
    BY <2>2, <2>3, <2>6 DEF Shelved
  <2> QED BY <2>5, <2>7 DEF Shelved
<1>2. ASSUME UNCHANGED published PROVE Shelved'
  BY <1>2 DEF Shelved
<1>3. ASSUME NEW notation, Compose(notation) \/ Rewrite(notation) PROVE UNCHANGED published
  BY <1>3 DEF Compose, Rewrite
<1>4. Pull \/ Tick \/ UNCHANGED vars => UNCHANGED published
  BY DEF Pull, Tick, vars
<1> QED BY <1>1, <1>2, <1>3, <1>4 DEF Next

(* No two operators hold the same charging point, whatever identifiers there *)
(* are and however they are spelled (OperatorEvseData::validate_in), if the  *)
(* country codes are those of a numbering plan.                              *)
THEOREM PointsHaveOneOperator == Spec => []OneOperatorPerPoint
<1>1. Shelved => OneOperatorPerPoint
  <2> SUFFICES ASSUME Shelved, NEW s \in Shelves, NEW t \in Shelves,
                      NEW a \in published[s], NEW b \in published[t], SameEvse(a, b)
               PROVE  s = t
    BY DEF OneOperatorPerPoint
  <2>1. IsEvse(a) /\ IsEvse(b) /\ OperatorBytes(a) = s /\ OperatorBytes(b) = t
    BY DEF Shelved, IsEvse
  <2> QED BY <2>1, EqualHaveOneOperator
<1> QED BY <1>1, ShelvedInit, ShelvedNext, PTL DEF Spec

-----------------------------------------------------------------------------
(* The shapes of the variables.                                              *)

(* What is written in a notation has the shape of the notation.              *)
LEMMA WrittenIsPosition ==
    ASSUME NEW p, Latitude(p) \in Int, Longitude(p) \in Int, NEW notation \in Notations
    PROVE  IsPosition(ToFormat(p, notation))
<1>1. ASSUME NEW v \in Int PROVE WholeParts(ToDms(v))
  <2> DEFINE n == Abs(v)
             m == n % Minute
  <2>1. n \in Nat
    BY DEF Abs
  <2>2. ToDms(v).minutes = (n % Degree) \div Minute /\ ToDms(v).hundredths = RoundedTo(Centi, m) \div Centi
    BY DEF ToDms
  <2> HIDE DEF n
  <2>3. (n % Degree) \div Minute \in 0 .. 59
    BY <2>1, SMT DEF Degree, Minute
  <2>4. m \in Nat /\ m < 150000
    BY <2>1, SMT DEF Minute
  <2> HIDE DEF m
  <2>5. RoundedTo(Centi, m) \div Centi \in 0 .. 6000
    BY <2>4, SMT DEF RoundedTo, Centi, Abs
  <2> QED BY <2>2, <2>3, <2>5 DEF WholeParts
<1>2. ASSUME NEW v \in Int PROVE WholeMicros(Conformal(v))
  BY RoundingToMicro DEF Conformal, Decimal, WholeMicros
<1>3. /\ ToFormat(p, notation).notation = notation
      /\ ToFormat(p, notation).latitude = Written(notation, Latitude(p))
      /\ ToFormat(p, notation).longitude = Written(notation, Longitude(p))
  BY DEF ToFormat
<1> DEFINE q == ToFormat(p, notation)
<1> HIDE DEF q
<1>4. CASE notation = "DegreeMinuteSeconds"
  <2>1. q.notation = notation /\ q.latitude = ToDms(Latitude(p)) /\ q.longitude = ToDms(Longitude(p))
    BY <1>3, <1>4 DEF q, Written
  <2>2. WholeParts(q.latitude) /\ WholeParts(q.longitude)
    BY <1>1, <2>1
  <2>3. IsPosition(q)
    BY <1>4, <2>1, <2>2 DEF IsPosition
  <2> QED BY <2>3 DEF q
<1>5. CASE notation # "DegreeMinuteSeconds"
  <2>1. /\ q.notation = notation
        /\ q.latitude = Conformal(Latitude(p)) /\ q.longitude = Conformal(Longitude(p))
    BY <1>3, <1>5 DEF q, Written
  <2>2. WholeMicros(q.latitude) /\ WholeMicros(q.longitude)
    BY <1>2, <2>1
  <2>3. IsPosition(q)
    BY <1>5, <2>1, <2>2 DEF IsPosition
  <2> QED BY <2>3 DEF q
<1> QED BY <1>4, <1>5

(* What the type invariant needs: nothing is published before there is a     *)
(* record, and a position always reads as a number (DriftInv).               *)
TypeInv ==
    /\ TypeOK /\ Shelved /\ DriftInv
    /\ Published # {} => record # Nowhere

LEMMA TypeInit == Init => TypeInv
<1> SUFFICES ASSUME Init PROVE TypeInv
  OBVIOUS
<1>1. Shelved /\ DriftInv
  BY ShelvedInit, DriftInit
<1>2. Published = {}
  BY DEF Init, Published
<1>3. TypeOK
  BY <1>1, <1>2, BoundAssumption DEF Init, TypeOK, Shelved
<1> QED BY <1>1, <1>2, <1>3 DEF TypeInv

LEMMA TypeNext == TypeInv /\ [Next]_vars => TypeInv'
<1> SUFFICES ASSUME TypeInv, [Next]_vars PROVE TypeInv'
  OBVIOUS
<1>1. Shelved' /\ DriftInv'
  BY ShelvedNext, DriftNext DEF TypeInv
<1>2. /\ \A id \in Published' : EvseIsWellFormed(id)
      /\ published' \in [Shelves -> SUBSET EvseIds]
  BY <1>1 DEF Shelved, Published
<1>3. \A p : Stays(p) => Latitude(p) \in Int /\ Longitude(p) \in Int
  BY ReadingsAreNear DEF Stays, TypeInv, DriftInv
<1>4. ASSUME NEW notation \in Notations, Compose(notation) PROVE TypeInv'
  <2> DEFINE p == FromDecimalDegrees(site.latitude, site.longitude)
  <2>1. Latitude(p) \in Int /\ Longitude(p) \in Int
    BY RoundingToMicro DEF FromDecimalDegrees, Conformal, Decimal, Latitude, Longitude, Read,
       TypeInv, DriftInv
  <2> HIDE DEF p
  <2>2. IsPosition(ToFormat(p, notation))
    BY <2>1, WrittenIsPosition
  <2>3. /\ record' = ToFormat(p, notation) /\ record = Nowhere
        /\ UNCHANGED <<site, published, copy, rewrites, clock, closings>>
    BY <1>4 DEF Compose, p
  <2>4. Published = {} /\ Published' = {}
    BY <2>3 DEF TypeInv, Published
  <2>5. copy = Nowhere
    BY <2>4 DEF TypeInv, TypeOK
  <2>6. TypeOK'
    BY <1>2, <2>2, <2>3, <2>5 DEF TypeInv, TypeOK
  <2> QED BY <1>1, <2>4, <2>6 DEF TypeInv
<1>5. ASSUME NEW notation \in Notations, Rewrite(notation) PROVE TypeInv'
  <2>1. IsPosition(ToFormat(copy, notation))
    BY <1>3, <1>5, WrittenIsPosition DEF Rewrite, TypeInv, DriftInv
  <2>2. /\ copy' = ToFormat(copy, notation) /\ copy # Nowhere
        /\ rewrites < MaxRewrites /\ rewrites' = rewrites + 1
        /\ UNCHANGED <<site, record, published, clock, closings>>
    BY <1>5 DEF Rewrite
  <2>3. Published' = Published
    BY <2>2 DEF Published
  <2>4. rewrites' \in 0 .. MaxRewrites /\ rewrites' # 0
    BY <2>2, BoundAssumption DEF TypeInv, TypeOK
  <2>5. TypeOK'
    BY <1>2, <2>1, <2>2, <2>3, <2>4 DEF TypeInv, TypeOK
  <2> QED BY <1>1, <2>2, <2>3, <2>5 DEF TypeInv
<1>6. ASSUME NEW o \in Envelopes, NEW id \in EvseIds, Push(o, id) PROVE TypeInv'
  <2>1. /\ record # Nowhere
        /\ published' = [published EXCEPT ![OperatorBytes(o)] = {k \in @ : ~SameEvse(k, id)} \cup {id}]
        /\ UNCHANGED <<site, record, copy, rewrites, clock, closings>>
    BY <1>6 DEF Push
  <2>2. OperatorBytes(o) \in Shelves
    BY DEF Shelves
  <2>3. id \in published'[OperatorBytes(o)]
    BY <2>1, <2>2 DEF TypeInv, Shelved
  <2>4. Published' # {}
    BY <2>2, <2>3 DEF Published
  <2>5. TypeOK'
    BY <1>2, <2>1, <2>4 DEF TypeInv, TypeOK
  <2> QED BY <1>1, <2>1, <2>5 DEF TypeInv
<1>7. CASE Pull
  <2>1. /\ copy = Nowhere /\ copy' = record /\ \E s \in Shelves : published[s] # {}
        /\ UNCHANGED <<site, record, published, rewrites, clock, closings>>
    BY <1>7 DEF Pull
  <2>2. Published' = Published /\ Published # {}
    BY <2>1 DEF Published
  <2>3. TypeOK'
    BY <1>2, <2>1, <2>2 DEF TypeInv, TypeOK
  <2> QED BY <1>1, <2>1, <2>2, <2>3 DEF TypeInv
<1>8. CASE Tick
  <2>1. /\ clock' = clock + Step /\ clock + Step =< End
        /\ \A c \in closings' : c > clock' + site.offset
        /\ UNCHANGED <<site, record, published, copy, rewrites>>
    BY <1>8 DEF Tick
  <2>2. Published' = Published
    BY <2>1 DEF Published
  <2>3. clock' \in Start .. End
    BY <2>1, BoundAssumption DEF TypeInv, TypeOK
  <2>4. TypeOK'
    BY <1>2, <2>1, <2>2, <2>3 DEF TypeInv, TypeOK
  <2> QED BY <1>1, <2>1, <2>2, <2>4 DEF TypeInv
<1>9. CASE UNCHANGED vars
  <2>1. Published' = Published
    BY <1>9 DEF vars, Published
  <2>2. TypeOK'
    BY <1>2, <1>9, <2>1 DEF vars, TypeInv, TypeOK
  <2> QED BY <1>1, <1>9, <2>1, <2>2 DEF vars, TypeInv
<1> QED BY <1>4, <1>5, <1>6, <1>7, <1>8, <1>9 DEF Next

(* The type invariant, for every site, every clock and every identifier: the *)
(* minutes of a position stay below sixty, what is published is well formed, *)
(* and nobody has a copy of what was never published.                        *)
THEOREM PointTypeCorrect == Spec => []TypeOK
<1>1. TypeInv => TypeOK
  BY DEF TypeInv
<1> QED BY <1>1, TypeInit, TypeNext, PTL DEF Spec

-----------------------------------------------------------------------------
(* Days.                                                                     *)

LEMMA DayOf ==
    ASSUME NEW t \in Int
    PROVE  /\ t \div Day \in Int /\ t % Day \in 0 .. Day - 1
           /\ t = (t \div Day) * Day + (t % Day)
<1>1. t \div Day \in Int
  BY DEF Day
<1>2. t % Day \in 0 .. Day - 1
  BY DEF Day
<1>3. t = (t \div Day) * Day + (t % Day)
  BY DEF Day
<1> QED BY <1>1, <1>2, <1>3

LEMMA DayIs ==
    ASSUME NEW d \in Int, NEW x \in 0 .. Day - 1
    PROVE  (d * Day + x) \div Day = d /\ (d * Day + x) % Day = x
BY DEF Day

LEMMA WeekdayIs ==
    ASSUME NEW d \in Int, NEW x \in 0 .. Day - 1
    PROVE  WeekdayOf(d * Day + x) = WeekdayOf(d * Day)
<1>1. (d * Day + x) \div Day = d
  BY DayIs
<1>2. (d * Day) \div Day = d
  BY DEF Day
<1> QED BY <1>1, <1>2 DEF WeekdayOf

(* A window is legible, or one of its ends is not a time of day.             *)
TimesOfWindow(p) == p.begin \in TimesOfDay /\ p.end \in TimesOfDay

LEMMA LegibleTimes ==
    ASSUME NEW s \in Sites, NEW i \in DOMAIN s.times, NEW p \in s.times[i].periods, Legible(p)
    PROVE  TimesOfWindow(p)
<1>1. {p.begin, p.end} \subseteq TimesOfDay \cup {Absent}
  BY SiteAssumption
<1> QED BY <1>1 DEF Legible, TimesOfWindow

LEMMA TimesAreMinutes == \A b \in TimesOfDay : b \in Int /\ 0 =< b /\ b =< 1440
BY DEF TimesOfDay, Day

LEMMA LastsADay ==
    ASSUME NEW p, TimesOfWindow(p)
    PROVE  /\ p.begin \in TimesOfDay /\ p.begin \in Int /\ p.end \in TimesOfDay
           /\ Lasts(p) \in 0 .. 1440
           /\ Lasts(p) = IF p.end > p.begin THEN p.end - p.begin ELSE 1440 + p.end - p.begin
<1>1. PICK b \in TimesOfDay, e \in TimesOfDay : b = p.begin /\ e = p.end
  BY DEF TimesOfWindow
<1>2. Day = 1440
  BY DEF Day
<1>3. Lasts(p) = IF e > b THEN e - b ELSE 1440 + e - b
  BY <1>1, <1>2 DEF Lasts
<1>4. (IF e > b THEN e - b ELSE 1440 + e - b) \in 0 .. 1440
  <2>1. b \in Int /\ e \in Int /\ 0 =< b /\ b =< 1440 /\ 0 =< e /\ e =< 1440
    BY TimesAreMinutes
  <2> QED BY <2>1
<1> QED BY <1>1, <1>3, <1>4, TimesAreMinutes

(* A window that is open began today or yesterday.                           *)
LEMMA TodayOrYesterday ==
    ASSUME NEW p, TimesOfWindow(p), NEW t \in Int, NEW d \in Int,
           Begins(p, d) <= t, Begins(p, d) + Lasts(p) > t
    PROVE  d \in {t \div Day, t \div Day - 1}
<1>1. PICK b \in TimesOfDay, e \in TimesOfDay : b = p.begin /\ e = p.end
  BY DEF TimesOfWindow
<1>2. PICK n \in Int : n = Lasts(p) /\ n = IF e > b THEN e - b ELSE 1440 + e - b
  BY <1>1, LastsADay
<1>3. Day = 1440
  BY DEF Day
<1> DEFINE q == t \div Day
           x == t % Day
<1>4. q \in Int /\ x \in 0 .. 1439 /\ t = q * 1440 + x
  BY <1>3, DayOf
<1> HIDE DEF q, x
<1>5. d * 1440 + b <= t /\ d * 1440 + b + n > t
  BY <1>1, <1>2, <1>3 DEF Begins
<1>6. b \in Int /\ e \in Int /\ 0 =< b /\ b =< 1440 /\ 0 =< e /\ e =< 1440
  BY TimesAreMinutes
<1>7. b + n =< 2 * 1440
  BY <1>2, <1>6
<1>8. d < q + 1 /\ d > q - 2
  BY <1>4, <1>5, <1>6, <1>7
<1>9. d \in {q, q - 1}
  BY <1>4, <1>8
<1> QED BY <1>9 DEF q

(* What opened in the last step are the windows that began in it; those that *)
(* are still open are all there.                                             *)
LEMMA OpenedBegan ==
    ASSUME NEW t \in Int, site \in Sites, NEW c \in Opened(t)
    PROVE  \E i \in DOMAIN site.times : \E p \in site.times[i].periods, d \in Int :
              /\ Legible(p) /\ DayMatches(site.times[i].on, WeekdayOf(d * Day))
              /\ t - Step < Begins(p, d) /\ Begins(p, d) <= t
              /\ c = Begins(p, d) + Lasts(p)
<1>1. PICK i \in DOMAIN site.times : \E p \in site.times[i].periods :
         /\ Legible(p) /\ (t - p.begin) % Day < Step
         /\ DayMatches(site.times[i].on, WeekdayOf(t - ((t - p.begin) % Day) - p.begin))
         /\ c = t - ((t - p.begin) % Day) + Lasts(p)
  BY DEF Opened
<1>2. PICK p \in site.times[i].periods :
         /\ Legible(p) /\ (t - p.begin) % Day < Step
         /\ DayMatches(site.times[i].on, WeekdayOf(t - ((t - p.begin) % Day) - p.begin))
         /\ c = t - ((t - p.begin) % Day) + Lasts(p)
  BY <1>1
<1>3. TimesOfWindow(p)
  BY <1>2, LegibleTimes
<1> DEFINE d == (t - p.begin) \div Day
           since == (t - p.begin) % Day
<1>4. p.begin \in Int /\ t - p.begin \in Int
  BY <1>3, LastsADay
<1>5. d \in Int /\ since \in Int /\ since >= 0 /\ t - p.begin = d * Day + since
  BY <1>4, DayOf DEF Day
<1> HIDE DEF d, since
<1>6. d * Day \in Int /\ Lasts(p) \in Int /\ Step \in Int
  <2>1. d * Day \in Int
    BY <1>5 DEF Day
  <2>2. Lasts(p) \in Int
    BY <1>3, LastsADay
  <2> QED BY <2>1, <2>2, BoundAssumption
<1>7. /\ t - since - p.begin = d * Day
      /\ t - since = Begins(p, d)
      /\ t - Step < Begins(p, d) <=> since < Step
      /\ Begins(p, d) <= t
  BY <1>4, <1>5, <1>6 DEF Begins
<1>8. /\ Legible(p) /\ since < Step /\ DayMatches(site.times[i].on, WeekdayOf(t - since - p.begin))
      /\ c = t - since + Lasts(p)
  BY <1>2 DEF since
<1> QED BY <1>5, <1>7, <1>8

LEMMA BegunIsOpened ==
    ASSUME NEW t \in Int, site \in Sites,
           NEW i \in DOMAIN site.times, NEW p \in site.times[i].periods, NEW d \in Int,
           Legible(p), DayMatches(site.times[i].on, WeekdayOf(d * Day)),
           t - Step < Begins(p, d), Begins(p, d) <= t, Begins(p, d) + Lasts(p) > t
    PROVE  Begins(p, d) + Lasts(p) \in Opened(t)
<1>1. p.begin \in Int /\ Lasts(p) \in 0 .. 1440
  BY LegibleTimes, LastsADay
<1> DEFINE since == t - Begins(p, d)
<1>2. d * Day \in Int /\ Step \in Int
  BY BoundAssumption DEF Day
<1>3. since \in 0 .. Day - 1 /\ since < Step
  BY <1>1, <1>2 DEF Begins, Day
<1>4. t - p.begin = d * Day + since
  BY <1>1, <1>2 DEF Begins
<1>5. (t - p.begin) % Day = since
  BY <1>3, <1>4, DayIs
<1>6. t - since - p.begin = d * Day /\ t - since = Begins(p, d)
  BY <1>1, <1>2 DEF Begins
<1> HIDE DEF since
<1> QED BY <1>3, <1>5, <1>6 DEF Opened

(* What is_open_at asks of a window, at its minute of the day and on two      *)
(* weekdays, is whether it began today or yesterday and still runs.          *)
LEMMA CoversIsRunning ==
    ASSUME NEW on, NEW p, TimesOfWindow(p), p.begin # p.end, NEW t \in Int
    PROVE  Covers(on, p, t) <=>
              \E d \in {t \div Day, t \div Day - 1} :
                 /\ DayMatches(on, WeekdayOf(d * Day))
                 /\ Begins(p, d) <= t /\ Begins(p, d) + Lasts(p) > t
<1>1. PICK b \in TimesOfDay, e \in TimesOfDay : b = p.begin /\ e = p.end
  BY DEF TimesOfWindow
<1>2. PICK n \in Int : n = Lasts(p) /\ n = IF e > b THEN e - b ELSE 1440 + e - b
  BY <1>1, LastsADay
<1> DEFINE q == t \div Day
           x == t % Day
<1>3. Day = 1440
  BY DEF Day
<1>4. q \in Int /\ x \in 0 .. 1439 /\ t = q * 1440 + x /\ x \in 0 .. Day - 1
  BY <1>3, DayOf
<1>5. WeekdayOf(t) = WeekdayOf(q * Day)
  <2> HIDE DEF q, x
  <2>1. WeekdayOf(q * Day + x) = WeekdayOf(q * Day)
    BY <1>4, WeekdayIs
  <2> QED BY <1>3, <1>4, <2>1
<1>6. WeekdayOf(t - Day) = WeekdayOf((q - 1) * Day)
  <2> HIDE DEF q, x
  <2>1. q - 1 \in Int /\ t - Day = (q - 1) * Day + x
    BY <1>3, <1>4
  <2>2. WeekdayOf((q - 1) * Day + x) = WeekdayOf((q - 1) * Day)
    BY <1>4, <2>1, WeekdayIs
  <2> QED BY <2>1, <2>2
<1> DEFINE today == DayMatches(on, WeekdayOf(q * Day))
           yesterday == DayMatches(on, WeekdayOf((q - 1) * Day))
<1>7. Covers(on, p, t) <=> IF b =< e THEN today /\ x >= b /\ x < e
                           ELSE (today /\ x >= b) \/ (yesterday /\ x < e)
  BY <1>1, <1>5, <1>6 DEF Covers
<1>8. /\ Begins(p, q) <= t <=> q * 1440 + b =< t
      /\ Begins(p, q) + Lasts(p) > t <=> q * 1440 + b + n > t
      /\ Begins(p, q - 1) <= t <=> (q - 1) * 1440 + b =< t
      /\ Begins(p, q - 1) + Lasts(p) > t <=> (q - 1) * 1440 + b + n > t
  BY <1>1, <1>2, <1>3 DEF Begins
<1> HIDE DEF q, x, today, yesterday
<1>9. b \in Int /\ e \in Int /\ 0 =< b /\ b =< 1440 /\ 0 =< e /\ e =< 1440 /\ b # e
  BY <1>1, TimesAreMinutes
<1>10. CASE b =< e
  <2>1. /\ (q * 1440 + b =< t /\ q * 1440 + b + n > t) <=> (x >= b /\ x < e)
        /\ ~((q - 1) * 1440 + b + n > t)
    BY <1>2, <1>4, <1>9, <1>10
  <2>2. Covers(on, p, t) <=> today /\ x >= b /\ x < e
    BY <1>7, <1>10
  <2> QED BY <1>8, <2>1, <2>2 DEF q, today
<1>11. CASE e < b
  <2>1. /\ (q * 1440 + b =< t /\ q * 1440 + b + n > t) <=> x >= b
        /\ ((q - 1) * 1440 + b =< t /\ (q - 1) * 1440 + b + n > t) <=> x < e
    BY <1>2, <1>4, <1>9, <1>11
  <2>2. Covers(on, p, t) <=> (today /\ x >= b) \/ (yesterday /\ x < e)
    BY <1>7, <1>9, <1>11
  <2> QED BY <1>8, <2>1, <2>2 DEF q, today, yesterday
<1> QED BY <1>9, <1>10, <1>11

-----------------------------------------------------------------------------
(* The gates.                                                                *)

(* The minutes a window runs from and to are whole.                          *)
LEMMA WindowMinutes ==
    ASSUME site \in Sites, NEW i \in DOMAIN site.times, NEW p \in site.times[i].periods,
           NEW d \in Int, Legible(p)
    PROVE  Begins(p, d) \in Int /\ Lasts(p) \in Int /\ Lasts(p) =< 1440 /\ TimesOfWindow(p)
<1>1. TimesOfWindow(p)
  BY LegibleTimes
<1>2. p.begin \in Int /\ Lasts(p) \in 0 .. 1440
  BY <1>1, LastsADay
<1>3. d * Day \in Int
  BY DEF Day
<1> QED BY <1>1, <1>2, <1>3 DEF Begins

LEMMA Minutes ==
    ASSUME TypeOK
    PROVE  /\ site \in Sites /\ site.offset \in Int /\ clock \in Int /\ clock >= Start
           /\ Start \in Int /\ Step \in Int /\ Step > 0
BY SiteAssumption, BoundAssumption DEF TypeOK

LEMMA GatesInit == Init => Gates
<1> SUFFICES ASSUME Init PROVE Gates
  OBVIOUS
<1>1. closings = {} /\ clock = Start /\ Published = {} /\ site \in Sites
  BY DEF Init, Published
<1>2. site.offset \in Int /\ Start \in Int
  BY <1>1, SiteAssumption, BoundAssumption
<1> DEFINE t == clock + site.offset
<1>3. t \in Int /\ t = Start + site.offset
  BY <1>1, <1>2
<1>4. t \div Day \in Int /\ t \div Day - 1 \in Int
  BY <1>3, DayOf
<1>5. ASSUME NEW i \in DOMAIN site.times, NEW p \in site.times[i].periods, NEW d \in Int
      PROVE  ~Begun(i, p, d, t)
  <2> SUFFICES ASSUME Legible(p), Start + site.offset < Begins(p, d), Begins(p, d) <= t
               PROVE  FALSE
    BY DEF Begun
  <2>1. Begins(p, d) \in Int
    BY <1>1, WindowMinutes
  <2> HIDE DEF t
  <2> QED BY <1>3, <2>1
<1> HIDE DEF t
<1>6. \A i \in DOMAIN site.times : \A p \in site.times[i].periods,
         d \in {t \div Day, t \div Day - 1} : ~Begun(i, p, d, t)
  BY <1>4, <1>5
<1> QED BY <1>1, <1>6 DEF Gates, t

LEMMA GatesUnchanged ==
    ASSUME Gates, UNCHANGED <<site, clock, closings>>,
           Published' # {} => Published # {} \/ HoursAreWellFormed(site.around, site.times)
    PROVE  Gates'
BY DEF Gates, Begun, Begins

(* When a step of the clock ends, the gates that are open are those that     *)
(* still are and those that opened in it.                                    *)
LEMMA GatesTick == ASSUME TypeOK, Gates, Tick PROVE Gates'
<1> DEFINE t == clock + site.offset
           u == clock' + site.offset
<1>1. /\ site' = site /\ published' = published /\ clock' = clock + Step
      /\ closings' = {c \in closings \cup Opened(u) : c > u}
  BY DEF Tick
<1>2. /\ site \in Sites /\ t \in Int /\ u \in Int /\ u = t + Step /\ t >= Start + site.offset
      /\ Start + site.offset \in Int /\ Step \in Int /\ Step > 0
  BY <1>1, Minutes
<1>3. Published' = Published
  BY <1>1 DEF Published
<1>4. /\ t \div Day \in Int /\ t \div Day - 1 \in Int
      /\ u \div Day \in Int /\ u \div Day - 1 \in Int
  BY <1>2, DayOf
<1> DEFINE From == {t \div Day, t \div Day - 1}
           To == {u \div Day, u \div Day - 1}
<1>5. /\ \A c \in closings : \E i \in DOMAIN site.times : \E p \in site.times[i].periods, d \in From :
            Begun(i, p, d, t) /\ c = Begins(p, d) + Lasts(p)
      /\ \A i \in DOMAIN site.times : \A p \in site.times[i].periods, d \in From :
            Begun(i, p, d, t) => Begins(p, d) + Lasts(p) \in closings
      /\ Published # {} => HoursAreWellFormed(site.around, site.times)
  BY DEF Gates
<1>6. From \subseteq Int /\ To \subseteq Int
  BY <1>4
<1> HIDE DEF t, u, From, To
<1>7. ASSUME NEW c \in closings'
      PROVE  \E i \in DOMAIN site.times : \E p \in site.times[i].periods, d \in To :
                Begun(i, p, d, u) /\ c = Begins(p, d) + Lasts(p)
  <2>1. PICK i \in DOMAIN site.times : \E p \in site.times[i].periods, d \in Int :
           /\ Legible(p) /\ DayMatches(site.times[i].on, WeekdayOf(d * Day))
           /\ Start + site.offset < Begins(p, d) /\ Begins(p, d) <= u
           /\ c = Begins(p, d) + Lasts(p)
    <3>1. CASE c \in closings
      <4>1. PICK i \in DOMAIN site.times : \E p \in site.times[i].periods, d \in From :
               Begun(i, p, d, t) /\ c = Begins(p, d) + Lasts(p)
        BY <1>5, <3>1
      <4>2. PICK p \in site.times[i].periods, d \in From :
               Begun(i, p, d, t) /\ c = Begins(p, d) + Lasts(p)
        BY <4>1
      <4>3. d \in Int
        BY <1>6
      <4>4. Begins(p, d) \in Int
        BY <1>2, <4>2, <4>3, WindowMinutes DEF Begun
      <4>5. Begins(p, d) <= t
        BY <4>2 DEF Begun
      <4>6. Begins(p, d) <= u
        BY <1>2, <4>4, <4>5
      <4> QED BY <4>2, <4>3, <4>6 DEF Begun
    <3>2. CASE c \in Opened(u)
      <4>1. PICK i \in DOMAIN site.times : \E p \in site.times[i].periods, d \in Int :
               /\ Legible(p) /\ DayMatches(site.times[i].on, WeekdayOf(d * Day))
               /\ u - Step < Begins(p, d) /\ Begins(p, d) <= u
               /\ c = Begins(p, d) + Lasts(p)
        BY <1>2, <3>2, OpenedBegan
      <4>2. PICK p \in site.times[i].periods, d \in Int :
               /\ Legible(p) /\ DayMatches(site.times[i].on, WeekdayOf(d * Day))
               /\ u - Step < Begins(p, d) /\ Begins(p, d) <= u
               /\ c = Begins(p, d) + Lasts(p)
        BY <4>1
      <4>3. Begins(p, d) \in Int
        BY <1>2, <4>2, WindowMinutes
      <4>4. Start + site.offset < Begins(p, d)
        BY <1>2, <4>2, <4>3
      <4> QED BY <4>2, <4>4
    <3> QED BY <1>1, <3>1, <3>2
  <2>2. PICK p \in site.times[i].periods, d \in Int :
           /\ Legible(p) /\ DayMatches(site.times[i].on, WeekdayOf(d * Day))
           /\ Start + site.offset < Begins(p, d) /\ Begins(p, d) <= u
           /\ c = Begins(p, d) + Lasts(p)
    BY <2>1
  <2>3. Begins(p, d) + Lasts(p) > u
    BY <1>1, <2>2
  <2>4. d \in To
    BY <1>2, <2>2, <2>3, WindowMinutes, TodayOrYesterday DEF To
  <2> QED BY <2>2, <2>3, <2>4 DEF Begun
<1>8. ASSUME NEW i \in DOMAIN site.times, NEW p \in site.times[i].periods, NEW d \in To,
             Begun(i, p, d, u)
      PROVE  Begins(p, d) + Lasts(p) \in closings'
  <2>1. d \in Int /\ Legible(p) /\ DayMatches(site.times[i].on, WeekdayOf(d * Day))
        /\ Start + site.offset < Begins(p, d) /\ Begins(p, d) <= u /\ Begins(p, d) + Lasts(p) > u
    BY <1>6, <1>8 DEF Begun
  <2>2. Begins(p, d) \in Int /\ Lasts(p) \in Int /\ TimesOfWindow(p)
    BY <1>2, <2>1, WindowMinutes
  <2>3. CASE Begins(p, d) <= t
    <3>1. Begins(p, d) + Lasts(p) > t
      BY <1>2, <2>1, <2>2
    <3>2. d \in From
      BY <1>2, <2>1, <2>2, <2>3, <3>1, TodayOrYesterday DEF From
    <3>3. Begun(i, p, d, t)
      BY <2>1, <2>3, <3>1 DEF Begun
    <3>4. Begins(p, d) + Lasts(p) \in closings
      BY <1>5, <3>2, <3>3
    <3> QED BY <1>1, <2>1, <3>4
  <2>4. CASE Begins(p, d) > t
    <3>1. u - Step < Begins(p, d)
      BY <1>2, <2>2, <2>4
    <3>2. Begins(p, d) + Lasts(p) \in Opened(u)
      BY <1>2, <2>1, <3>1, BegunIsOpened
    <3> QED BY <1>1, <2>1, <3>2
  <2> QED BY <1>2, <2>2, <2>3, <2>4
<1>9. u = (clock + site.offset)'
  BY <1>1 DEF u
<1> QED BY <1>1, <1>3, <1>5, <1>7, <1>8, <1>9 DEF Gates, Begun, Begins, To

LEMMA GatesNext == ASSUME TypeOK, Gates, [Next]_vars PROVE Gates'
<1>1. ASSUME NEW notation \in Notations, Compose(notation) \/ Rewrite(notation) PROVE Gates'
  <2>1. UNCHANGED <<site, published, clock, closings>>
    BY <1>1 DEF Compose, Rewrite
  <2> QED BY <2>1, GatesUnchanged DEF Published
<1>2. ASSUME NEW o \in Envelopes, NEW id \in EvseIds, Push(o, id) PROVE Gates'
  <2>1. HoursAreWellFormed(site.around, site.times) /\ UNCHANGED <<site, clock, closings>>
    BY <1>2 DEF Push, PushConforms, RecordConforms
  <2> QED BY <2>1, GatesUnchanged
<1>3. CASE Pull
  BY <1>3, GatesUnchanged DEF Pull, Published
<1>4. CASE UNCHANGED vars
  BY <1>4, GatesUnchanged DEF vars, Published
<1> QED BY <1>1, <1>2, <1>3, <1>4, GatesTick DEF Next

(* The offset of a record is its site's.                                     *)
LEMMA OffsetIsRead ==
    ASSUME site \in Sites, ParsesOffset(site.zone)
    PROVE  OffsetMinutes(site.zone) = site.offset
<1> DEFINE z == site.zone
<1>1. z # Absent /\ z.form = "UTC"
  BY DEF ParsesOffset
<1>2. /\ z.sign \in {-1, 1} /\ z.hours \in Nat /\ z.minutes \in Nat
      /\ z.sign * (60 * z.hours + z.minutes) = site.offset
  BY <1>1, SiteAssumption
<1> HIDE DEF z
<1>3. PICK g \in {-1, 1}, h \in Nat, m \in Nat : g = z.sign /\ h = z.hours /\ m = z.minutes
  BY <1>2
<1>4. g * h * 60 + g * m = g * (60 * h + m)
  OBVIOUS
<1> QED BY <1>2, <1>3, <1>4 DEF OffsetMinutes, z

(* What a driver is told is what the gate says: for every offset, every set  *)
(* of windows, and however long a step of the clock is.                      *)
LEMMA ToldAtTheGate == ASSUME TypeOK, Gates PROVE OpenWhenOpen
<1> SUFFICES ASSUME Published # {}, clock >= Start + Day
             PROVE  IsOpenAt(site.around, site.times, site.zone, clock) =
                       IF site.around \/ (ParsesOffset(site.zone) /\ closings # {}) THEN "Open"
                       ELSE IF ParsesOffset(site.zone) THEN "Closed" ELSE "Unknown"
  BY DEF OpenWhenOpen
<1>1. HoursAreWellFormed(site.around, site.times) /\ site \in Sites /\ site.around \in BOOLEAN
  BY SiteAssumption DEF Gates, TypeOK
<1>2. CASE site.around
  BY <1>2 DEF IsOpenAt
<1>3. CASE ~site.around /\ ~ParsesOffset(site.zone)
  BY <1>3 DEF IsOpenAt
<1>4. CASE ~site.around /\ ParsesOffset(site.zone)
  <2> DEFINE t == clock + site.offset
             From == {t \div Day, t \div Day - 1}
             asked == {i \in DOMAIN site.times : \E w \in {t, t - Day} :
                          DayMatches(site.times[i].on, WeekdayOf(w))}
  <2>1. site.times # <<>>
    BY <1>1, <1>4 DEF HoursAreWellFormed
  <2>2. ASSUME NEW i \in DOMAIN site.times, NEW p \in site.times[i].periods
        PROVE  Legible(p) /\ TimesOfWindow(p) /\ p.begin # p.end
    <3>1. PeriodIsWellFormed(p)
      BY <1>1 DEF HoursAreWellFormed
    <3>2. {p.begin, p.end} \subseteq TimesOfDay /\ p.begin # p.end
      BY <3>1 DEF PeriodIsWellFormed
    <3>3. Absent \notin TimesOfDay
      BY TimesAreMinutes, BoundAssumption
    <3> QED BY <3>2, <3>3 DEF Legible, TimesOfWindow
  <2>3. t \in Int /\ t >= Start + site.offset + 1440 /\ Start + site.offset \in Int
        /\ t \div Day \in Int /\ t \div Day - 1 \in Int
    <3>1. t \in Int /\ t >= Start + site.offset + 1440 /\ Start + site.offset \in Int
      BY Minutes DEF Day
    <3> QED BY <3>1, DayOf
  <2>4. ASSUME NEW i \in DOMAIN site.times, NEW p \in site.times[i].periods
        PROVE  Covers(site.times[i].on, p, t) <=> \E d \in From : Begun(i, p, d, t)
    <3>1. ASSUME NEW d \in From, Begins(p, d) + Lasts(p) > t
          PROVE  Start + site.offset < Begins(p, d)
      <4>1. Begins(p, d) \in Int /\ Lasts(p) \in Int /\ Lasts(p) =< 1440
        BY <1>1, <2>2, <2>3, WindowMinutes
      <4> HIDE DEF t
      <4> QED BY <2>3, <3>1, <4>1
    <3>2. Covers(site.times[i].on, p, t) <=>
             \E d \in From : /\ DayMatches(site.times[i].on, WeekdayOf(d * Day))
                             /\ Begins(p, d) <= t /\ Begins(p, d) + Lasts(p) > t
      BY <2>2, <2>3, CoversIsRunning
    <3> HIDE DEF t, From
    <3> QED BY <2>2, <3>1, <3>2 DEF Begun
  <2>5. closings # {} <=> \E i \in DOMAIN site.times : \E p \in site.times[i].periods :
           Covers(site.times[i].on, p, t)
    <3>1. /\ \A c \in closings : \E i \in DOMAIN site.times :
                \E p \in site.times[i].periods, d \in From : Begun(i, p, d, t)
          /\ \A i \in DOMAIN site.times : \A p \in site.times[i].periods, d \in From :
                Begun(i, p, d, t) => closings # {}
      BY DEF Gates
    <3> HIDE DEF t, From
    <3> QED BY <2>4, <3>1
  <2>6. ASSUME NEW i \in DOMAIN site.times, NEW p \in site.times[i].periods,
               Covers(site.times[i].on, p, t)
        PROVE  \E w \in {t, t - Day} : DayMatches(site.times[i].on, WeekdayOf(w))
    BY <2>6 DEF Covers
  <2> DEFINE entries == {site.times[i] : i \in DOMAIN site.times}
             these == {e \in entries : \E w \in {t, t - Day} : DayMatches(e.on, WeekdayOf(w))}
             Open == \E e \in these : \E p \in e.periods : Legible(p) /\ Covers(e.on, p, t)
  <2>7. IsOpenAt(site.around, site.times, site.zone, clock) =
           IF Open THEN "Open"
           ELSE IF \A e \in these : \A p \in e.periods : Legible(p) THEN "Closed" ELSE "Unknown"
    BY <1>1, <1>4, <2>1, OffsetIsRead DEF IsOpenAt
  <2>8. \A e \in these : \A p \in e.periods : Legible(p)
    BY <2>2
  <2>9. Open <=> closings # {}
    <3> HIDE DEF t
    <3> QED BY <2>2, <2>5, <2>6
  <2> HIDE DEF Open, these
  <2> QED BY <1>4, <2>7, <2>8, <2>9
<1> QED BY <1>1, <1>2, <1>3, <1>4

(* A driver who is told that a site is open finds its gate open, at any hour *)
(* of any day; and it is told that nobody knows only where the record's       *)
(* offset cannot be read.                                                    *)
THEOREM DriversAreToldTheHours == Spec => []OpenWhenOpen
<1>1. Init => Gates /\ TypeInv
  BY GatesInit, TypeInit
<1>2. (Gates /\ TypeInv) /\ [Next]_vars => (Gates /\ TypeInv)'
  BY GatesNext, TypeNext DEF TypeInv
<1>3. Gates /\ TypeInv => OpenWhenOpen
  BY ToldAtTheGate DEF TypeInv
<1> QED BY <1>1, <1>2, <1>3, PTL DEF Spec

=============================================================================
