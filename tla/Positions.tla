----------------------------- MODULE Positions -----------------------------
(* GeoCoordinates (types/geo.rs): one position in three notations, and the   *)
(* way from one to another. An angle is a whole number of the unit in which  *)
(* both the sixth decimal of a degree and the hundredth of a second are      *)
(* whole, so that every rounding of the code is one of integers.             *)
EXTENDS Integers

Degree == 9000000
Minute == 150000
Micro == 9          \* the sixth decimal of a degree
Centi == 25         \* the hundredth of a second

Notations == {"Google", "DecimalDegree", "DegreeMinuteSeconds"}

Abs(v) == IF v < 0 THEN -v ELSE v

\* Mutant: the digits beyond are cut off.
RoundedToCut(step, v) ==
    IF v < 0 THEN -((Abs(v) \div step) * step) ELSE (v \div step) * step
\* Rounding to a multiple of an odd step: there is no half-way case.
RoundedTo(step, v) ==
    LET size == ((Abs(v) + step \div 2) \div step) * step
    IN  IF v < 0 THEN -size ELSE size

\* What the text of one coordinate says. A decimal is written with or without
\* its point; degrees, minutes and hundredths of seconds stand for themselves.
Decimal(v) == [value |-> v, point |-> TRUE]
Conformal(v) == Decimal(RoundedTo(Micro, v))
\* Mutant: the minutes of the whole angle.
ToDmsTotal(v) ==
    [negative |-> v < 0,
     degrees |-> Abs(v) \div Degree,
     minutes |-> Abs(v) \div Minute,
     hundredths |-> RoundedTo(Centi, Abs(v) % Minute) \div Centi]
ToDms(v) == [negative |-> v < 0,
             degrees |-> Abs(v) \div Degree,
             minutes |-> (Abs(v) % Degree) \div Minute,
             hundredths |-> RoundedTo(Centi, Abs(v) % Minute) \div Centi]

ParseDms(t) ==
    LET size == t.degrees * Degree + t.minutes * Minute + t.hundredths * Centi
    IN  IF t.negative THEN -size ELSE size

Written(notation, v) == IF notation = "DegreeMinuteSeconds" THEN ToDms(v) ELSE Conformal(v)
Read(notation, t) == IF notation = "DegreeMinuteSeconds" THEN ParseDms(t) ELSE t.value

FromDecimalDegrees(lat, lon) ==
    [notation |-> "DecimalDegree", latitude |-> Conformal(lat), longitude |-> Conformal(lon)]

Latitude(p) == Read(p.notation, p.latitude)
Longitude(p) == Read(p.notation, p.longitude)

ToFormat(p, notation) ==
    [notation |-> notation,
     latitude |-> Written(notation, Latitude(p)),
     longitude |-> Written(notation, Longitude(p))]

\* The grammar gives the degrees as an optional 1 and one or two digits; the
\* code takes a leading 1 for the optional one and then wants digits after it.
FitsDegrees(d) == d \in 0 .. 199 \ {1}

IsDecimalDegree(t) == t.point /\ FitsDegrees(Abs(t.value) \div Degree) /\ t.value % Micro = 0
IsDms(t) == FitsDegrees(t.degrees) /\ t.minutes \in 0 .. 99 /\ t.hundredths \in 0 .. 9999

MatchesItsGrammar(p) ==
    \A t \in {p.latitude, p.longitude} :
        IF p.notation = "DegreeMinuteSeconds" THEN IsDms(t) ELSE IsDecimalDegree(t)

InRange(v, limit) == v \in -limit * Degree .. limit * Degree

IsWellFormed(p) ==
    MatchesItsGrammar(p) /\ InRange(Latitude(p), 90) /\ InRange(Longitude(p), 180)

=============================================================================
