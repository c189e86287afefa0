---------------------------- MODULE Conformance ----------------------------
(* What a message of a charging session says, the rules validate() reports   *)
(* of it, and what a trip over JSON makes of it.  A rule is a set of          *)
(* violations, empty when the rule is kept, so that a message's violations    *)
(* are the union of its rules (types/validate.rs).                            *)
EXTENDS Integers, Sequences, FiniteSets

CONSTANTS
    Absent,     \* an optional field that is left out
    Illegible,  \* a timestamp whose text is not RFC 3339
    Whole,      \* how many grains of energy make one kWh
    Floats,     \* the amounts, in grains, that an f64 carries exactly
    OperatorOf, \* the operator whose charging point an EvseID names
    Slack,      \* how far a stated duration may be off: 60 000 ms in the code
    MaxSigned   \* how many signed readings a record may carry: 10 in the code

ASSUME WireAssumption ==
    /\ Whole \in Nat \ {0} /\ Slack \in Nat /\ MaxSigned \in Nat
    /\ Floats \subseteq Int /\ Floats # {}
    /\ Absent \notin Int /\ Illegible \notin Int /\ Absent # Illegible

Notifications == {"Start", "Progress", "End", "Error"}
Kinds == {"Authorize", "Record"} \cup Notifications

(* Which timestamps and amounts each message has, and which it must have.    *)
TimesOf == [Authorize |-> {},
            Record   |-> {"SessionStart", "ChargingStart", "ChargingEnd", "SessionEnd"},
            Start    |-> {"SessionStart", "ChargingStart"},
            Progress |-> {"SessionStart", "ChargingStart", "EventOccurred"},
            End      |-> {"SessionStart", "ChargingStart", "ChargingEnd", "SessionEnd"},
            Error    |-> {}]
AmountsOf == [Authorize |-> {},
              Record   |-> {"MeterValueStart", "MeterValueEnd", "ConsumedEnergy"},
              Start    |-> {"MeterValueStart"},
              Progress |-> {"MeterValueStart", "ConsumedEnergy"},
              End      |-> {"MeterValueStart", "MeterValueEnd", "ConsumedEnergy"},
              Error    |-> {}]
Required == [Authorize |-> {},
             Record   |-> TimesOf["Record"] \cup {"ConsumedEnergy"},
             Start    |-> {"ChargingStart"},
             Progress |-> {"ChargingStart", "EventOccurred"},
             End      |-> {"ChargingEnd"},
             Error    |-> {"ErrorType"}]

TimeFields == {"SessionStart", "ChargingStart", "ChargingEnd", "SessionEnd", "EventOccurred"}
AmountFields == {"MeterValueStart", "MeterValueEnd", "ConsumedEnergy"}

(* A message is a struct: each kind has its own timestamps, amounts and      *)
(* duration, and those it must have it has.  A timestamp that is there may   *)
(* be one nobody can read.                                                   *)
IsMessage(m) ==
    /\ m = [kind |-> m.kind, type |-> m.type, session |-> m.session, evse |-> m.evse,
            operator |-> m.operator, identification |-> m.identification, times |-> m.times,
            amounts |-> m.amounts, duration |-> m.duration, signed |-> m.signed,
            verification |-> m.verification, product |-> m.product, wordy |-> m.wordy]
    /\ m.kind \in Kinds
    /\ m.type \in IF m.kind \in Notifications THEN Notifications ELSE {m.kind}
    /\ m.times \in [TimeFields -> Int \cup {Absent, Illegible}]
    /\ m.amounts \in [AmountFields -> Int \cup {Absent}]
    /\ m.duration \in Int \cup {Absent}
    /\ \A f \in TimeFields \ TimesOf[m.kind] : m.times[f] = Absent
    /\ \A f \in AmountFields \ AmountsOf[m.kind] : m.amounts[f] = Absent
    /\ m.kind # "Progress" => m.duration = Absent
    /\ m.kind = "Record" => m.evse # Absent
    /\ m.signed = Absent \/ m.signed \in Seq({m.signed[i] : i \in DOMAIN m.signed})

Report(broken, at, code) == IF broken THEN {[at |-> at, code |-> code]} ELSE {}

-----------------------------------------------------------------------------
(* Numbers.  A whole number of kWh is written as a JSON integer; any other   *)
(* goes through an f64, which keeps it if it can and rounds it if it cannot. *)
Distance(a, b) == IF a < b THEN b - a ELSE a - b

IsInteger(n) == n % Whole = 0

JsonRoundTripsNearly(n) ==                  \* Mutant: compared within a tolerance
    IsInteger(n) \/ \E f \in Floats : Distance(f, n) =< 1

JsonRoundTrips(n) == IsInteger(n) \/ n \in Floats

NearestFloat(n) == CHOOSE f \in Floats : \A g \in Floats : Distance(f, n) =< Distance(g, n)

OnWire(n) == IF n = Absent \/ IsInteger(n) THEN n ELSE NearestFloat(n)

-----------------------------------------------------------------------------
(* Timestamps.  Only two that can be read have an order and a distance.      *)
Readable(t) == t \notin {Absent, Illegible}

Before(a, b) == Readable(a) /\ Readable(b) /\ a < b

ImpliedDuration(m) ==
    IF Readable(m.times["EventOccurred"]) /\ Readable(m.times["ChargingStart"])
    THEN m.times["EventOccurred"] - m.times["ChargingStart"] ELSE Absent

MeteredEnergy(m) ==
    IF Absent \in {m.amounts["MeterValueStart"], m.amounts["MeterValueEnd"]} THEN Absent
    ELSE m.amounts["MeterValueEnd"] - m.amounts["MeterValueStart"]

-----------------------------------------------------------------------------
(* The rules.                                                                *)
(* A signed reading may be marked Start, Progress or End, by nothing, or by  *)
(* what only its sender knows: that is kept (open_enum.rs), and reported.    *)
KnownStatus(s) == s \in {Absent, "Start", "Progress", "End"}

HasUnknownStatus(signed) ==
    signed # Absent /\ \E i \in DOMAIN signed : ~KnownStatus(signed[i].status)

(* Each field's own: a text too long or out of pattern (wordy), a timestamp  *)
(* that cannot be read, a number that a JSON round trip changes, a mark of a *)
(* signed reading that is not one of the three.                              *)
FieldViolations(m) ==
    (UNION {Report(TRUE, f, "TooLong") : f \in m.wordy})
      \cup (UNION {Report(m.times[f] = Illegible, f, "PatternMismatch") : f \in TimeFields})
      \cup (UNION {Report(m.amounts[f] # Absent /\ ~JsonRoundTrips(m.amounts[f]), f, "Imprecise") :
                     f \in AmountFields})
      \cup Report(m.kind = "Record" /\ HasUnknownStatus(m.signed),
                  "SignedMeteringValues", "PatternMismatch")

(* A QR-code identification carries one of its two PINs.  A card with its    *)
(* contract and a hashed PIN are for uploads, never for an authorization.    *)
IdentificationViolations(id, process) ==
    Report(id.member = "QrCode" /\ id.pin /\ id.hashed, "Identification", "Inconsistent")
      \cup (IF process # "Authorization" THEN {} ELSE
               Report(id.member = "Rfid", "Identification", "Inconsistent")
                 \cup Report(id.member = "QrCode" /\ id.hashed, "HashedPIN", "Inconsistent")
                 \cup Report(id.member = "QrCode" /\ ~id.pin, "PIN", "MissingConditional"))

AuthorizeViolations(m) ==
    IdentificationViolations(m.identification, "Authorization")
      \cup Report(m.evse # Absent /\ OperatorOf[m.evse] # m.operator, "EvseID", "Inconsistent")

StartViolations(m) ==
    Report(Before(m.times["ChargingStart"], m.times["SessionStart"]), "ChargingStart", "Inconsistent")

ProgressViolationsNoSlack(m) ==             \* Mutant: the two clocks must agree
    Report(m.duration = Absent /\ m.amounts["ConsumedEnergy"] = Absent, "", "MissingConditional")
      \cup Report(m.duration # Absent /\ ImpliedDuration(m) # Absent
                  /\ m.duration # ImpliedDuration(m), "ChargingDuration", "Inconsistent")
      \cup Report(m.duration # Absent /\ m.duration < 0, "ChargingDuration", "OutOfRange")

ProgressViolations(m) ==
    Report(m.duration = Absent /\ m.amounts["ConsumedEnergy"] = Absent, "", "MissingConditional")
      \cup Report(m.duration # Absent /\ ImpliedDuration(m) # Absent
                  /\ Distance(m.duration, ImpliedDuration(m)) > Slack,
                  "ChargingDuration", "Inconsistent")
      \cup Report(m.duration # Absent /\ m.duration < 0, "ChargingDuration", "OutOfRange")

EndViolations(m) ==
    Report(MeteredEnergy(m) # Absent /\ m.amounts["ConsumedEnergy"] # Absent
           /\ MeteredEnergy(m) # m.amounts["ConsumedEnergy"], "ConsumedEnergy", "Inconsistent")
      \cup Report(Before(m.times["ChargingEnd"], m.times["ChargingStart"]),
                  "ChargingEnd", "Inconsistent")

(* The four timestamps of a record have an order, checked pair by pair.      *)
Ordering == {<<"SessionStart", "ChargingStart">>, <<"ChargingStart", "ChargingEnd">>,
             <<"ChargingEnd", "SessionEnd">>}

EnergyViolationsAnySign(m) ==               \* Mutant: only the identity is checked
    Report(MeteredEnergy(m) # Absent /\ MeteredEnergy(m) # m.amounts["ConsumedEnergy"],
           "ConsumedEnergy", "Inconsistent")

EnergyViolations(m) ==
    Report(MeteredEnergy(m) # Absent /\ MeteredEnergy(m) # m.amounts["ConsumedEnergy"],
           "ConsumedEnergy", "Inconsistent")
      \cup Report(m.amounts["ConsumedEnergy"] < 0, "ConsumedEnergy", "OutOfRange")
      \cup Report(MeteredEnergy(m) # Absent /\ MeteredEnergy(m) < 0, "MeterValueEnd", "Inconsistent")

RecordViolations(m) ==
    EnergyViolations(m)
      \cup (UNION {Report(Before(m.times[p[2]], m.times[p[1]]), p[2], "Inconsistent") : p \in Ordering})
      \cup Report(m.signed # Absent /\ Len(m.signed) > MaxSigned,
                  "SignedMeteringValues", "TooManyItems")

RulesOf(m) ==
    CASE m.kind = "Authorize" -> AuthorizeViolations(m)
      [] m.kind = "Record"    -> RecordViolations(m)
      [] m.kind = "Start"     -> StartViolations(m)
      [] m.kind = "Progress"  -> ProgressViolations(m)
      [] m.kind = "End"       -> EndViolations(m)
      [] m.kind = "Error"     -> {}

Violations(m) ==
    RulesOf(m) \cup FieldViolations(m)
      \cup Report(m.kind \in Notifications /\ m.type # m.kind, "Type", "Inconsistent")
      \cup (IF m.identification = Absent THEN {}
            ELSE IdentificationViolations(m.identification, "Record"))

Conformant(m) == Violations(m) = {}

-----------------------------------------------------------------------------
(* A trip over JSON.  The Type of a notification is a member like any other  *)
(* and is what the receiver takes the body for, whatever struct it was       *)
(* written from; members the receiver's struct does not have do not reach    *)
(* its rules, and one it needs and does not find fails the decoding.         *)
Present(m) == {f \in TimeFields : m.times[f] # Absent}
                \cup {f \in AmountFields : m.amounts[f] # Absent}
                \cup (IF m.kind = "Error" THEN {"ErrorType"} ELSE {})

Decodable(m) == Required[m.type] \subseteq Present(m)

Decoded(m) ==
    [m EXCEPT !.kind = m.type,
              !.times = [f \in TimeFields |-> IF f \in TimesOf[m.type] THEN m.times[f] ELSE Absent],
              !.amounts = [f \in AmountFields |->
                             IF f \in AmountsOf[m.type] THEN OnWire(m.amounts[f]) ELSE Absent],
              !.duration = IF m.type = "Progress" THEN m.duration ELSE Absent]
=============================================================================
