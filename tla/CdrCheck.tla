------------------------------ MODULE CdrCheck ------------------------------
(* The check a charging point operator runs on a charge detail record before *)
(* it submits one: the record's own violations, and the rules that need the  *)
(* charging point's data and the tariffs it has published                    *)
(* (eichrecht/check.rs).  Findings are a set; the order they are sorted into *)
(* is the order they are shown in.                                           *)
EXTENDS Conformance

CONSTANTS
    Points,     \* what an operator published of each EvseID: [external, compatible, power]
    Products,   \* the tariffs the check was told of; none turns that rule off
    Margin      \* how many percent of its rated output a point may deliver: 120 in the code

Finding(broken, at, severity) ==
    IF broken THEN {[at |-> at, severity |-> severity]} ELSE {}

(* An imprecise number is a warning, every other violation an error.         *)
OwnFindings(m) ==
    {[at |-> v.at, severity |-> IF v.code = "Imprecise" THEN "Warning" ELSE "Error"] :
        v \in Violations(m)}

-----------------------------------------------------------------------------
(* Signed readings: Start, then any Progress, then End.                      *)
Ranks == [Start |-> 0, Progress |-> 1, End |-> 2]

Statuses(signed) == {signed[i].status : i \in DOMAIN signed} \ {Absent}

(* The entries whose rank is below that of one before them.  An entry whose  *)
(* status is absent or not known has no rank and no wrong place.             *)
Ranked(signed) == {i \in DOMAIN signed : signed[i].status \in DOMAIN Ranks}

OutOfOrderAtTheEnds(signed) ==              \* Mutant: only the last is held against the first
    {i \in Ranked(signed) : /\ i = Len(signed) /\ 1 \in Ranked(signed)
                            /\ Ranks[signed[i].status] < Ranks[signed[1].status]}

OutOfOrder(signed) ==
    {i \in Ranked(signed) : \E j \in Ranked(signed) :
        j < i /\ Ranks[signed[i].status] < Ranks[signed[j].status]}

SignedFindings(m) ==
    IF m.signed = Absent THEN {} ELSE
    Finding(Statuses(m.signed) # {} /\ "End" \notin Statuses(m.signed),
            "SignedMeteringValues", "Warning")
      \cup Finding(Statuses(m.signed) # {} /\ "Start" \notin Statuses(m.signed),
                   "SignedMeteringValues", "Warning")
      \cup Finding(\E i \in DOMAIN m.signed : ~m.signed[i].signature,
                   "SignedMeteringValues", "Error")
      \cup Finding(OutOfOrder(m.signed) # {}, "SignedMeteringValues", "Warning")

-----------------------------------------------------------------------------
(* The rules that need the charging point the check was run against.         *)
CalibrationFindings(m, p) ==
    IF ~Points[p].external THEN {} ELSE
    IF m.signed \in {Absent, <<>>} THEN Finding(TRUE, "SignedMeteringValues", "Error")
    ELSE Finding(~m.verification, "CalibrationLawVerificationInfo", "Warning")

(* Energy is in grains, time in Ticks, of which there are TicksPerHour.      *)
CONSTANT TicksPerHour

ChargingTicks(m) ==
    IF Readable(m.times["ChargingStart"]) /\ Readable(m.times["ChargingEnd"])
    THEN m.times["ChargingEnd"] - m.times["ChargingStart"] ELSE Absent

PlausibilityFindings(m, p) ==
    Finding(/\ ChargingTicks(m) # Absent /\ Points[p].power # Absent
            /\ ChargingTicks(m) > 0
            /\ m.amounts["ConsumedEnergy"] * TicksPerHour * 100
                 > Points[p].power * Whole * ChargingTicks(m) * Margin,
            "ConsumedEnergy", "Warning")

ProductFindings(m) ==
    IF Products = {} THEN {} ELSE
    Finding(m.product = Absent, "PartnerProductID", "Warning")
      \cup Finding(m.product # Absent /\ m.product \notin Products, "PartnerProductID", "Error")

MatchFindings(m, p) ==
    IF m.evse # p THEN Finding(TRUE, "EvseID", "Error")
    ELSE Finding(~Points[p].compatible, "EvseID", "Warning")

(* p is the charging point the check was given, Absent if it was given none. *)
Findings(m, p) ==
    OwnFindings(m) \cup SignedFindings(m) \cup ProductFindings(m)
      \cup (IF p = Absent THEN {} ELSE
              CalibrationFindings(m, p) \cup PlausibilityFindings(m, p) \cup MatchFindings(m, p))

IsSubmittable(m, p) == \A f \in Findings(m, p) : f.severity # "Error"
=============================================================================
