----------------------------- MODULE PointRecord -----------------------------
(* The record of a charging point, from the operator's survey to the driver: *)
(* composed by the crate's constructors, accepted by the broker under the    *)
(* identifier it names, rewritten from notation to notation by the EMPs and  *)
(* hubs that hand it on, and asked at every hour whether the site is open.   *)
EXTENDS Positions, OpeningHours, Identifiers

CONSTANTS Sites,        \* what is true of a site: see SiteAssumption
          EvseIds,      \* identifiers, as they may be written
          Envelopes,    \* operators, as a push may name them
          Nowhere,      \* no position yet
          Start, End, Step,     \* the minutes the clock runs through
          MaxRewrites

ASSUME SiteAssumption ==
    \A s \in Sites :
        /\ {"latitude", "longitude", "around", "times", "zone", "offset"} \subseteq DOMAIN s
        /\ InRange(s.latitude, 90) /\ InRange(s.longitude, 180)
        /\ s.around \in BOOLEAN
        \* An operator that writes an offset writes its site's own.
        /\ ParsesOffset(s.zone) => s.zone.sign * (60 * s.zone.hours + s.zone.minutes) = s.offset
        /\ s.offset \in Int
        /\ s.zone # Absent /\ s.zone.form = "UTC" =>
              s.zone.sign \in {-1, 1} /\ s.zone.hours \in Nat /\ s.zone.minutes \in Nat
        /\ \A i \in DOMAIN s.times : \A p \in s.times[i].periods :
              {p.begin, p.end} \subseteq TimesOfDay \cup {Absent}

\* The country codes of E.164 are a prefix code: no code begins another.
ASSUME NumberingPlan ==
    \A a, b \in EvseIds :
        (IsDin(a) /\ IsDin(b) /\ Len(a.country) < Len(b.country))
            => \E i \in 1 .. Len(a.country) : a.country[i] # b.country[i]

\* An identifier is read symbol by symbol.
ASSUME IdentifierShape ==
    \A id \in EvseIds :
        {id.country, id.operator, id.instance} \subseteq Seq(Symbols) /\ id.separators \in Nat

ASSUME BoundAssumption ==
    /\ Absent \notin Int
    /\ Start \in Nat /\ End \in Nat /\ Step \in Nat \ {0} /\ Start =< End
    /\ MaxRewrites \in Nat

VARIABLES site,         \* the site, which does not change
          record,       \* its position as composed
          published,    \* operator -> identifiers the broker holds of it
          copy,         \* the position as it has come to the EMP
          rewrites,     \* how often it was rewritten on the way
          clock,        \* now, UTC
          closings      \* when the windows that are open at the site will close

vars == <<site, record, published, copy, rewrites, clock, closings>>

\* The mock keeps the operators' records apart by canonical identifier.
Shelves == {OperatorBytes(o) : o \in Envelopes}

\* How long a window is open.
Lasts(p) == IF p.end > p.begin THEN p.end - p.begin ELSE Day + p.end - p.begin

\* The ends of the windows that began in the last step before local minute t.
Opened(t) ==
    LET since(p) == (t - p.begin) % Day
        began(i) == {p \in site.times[i].periods :
                       Legible(p) /\ since(p) < Step
                       /\ DayMatches(site.times[i].on, WeekdayOf(t - since(p) - p.begin))}
    IN  UNION {{t - since(p) + Lasts(p) : p \in began(i)} : i \in DOMAIN site.times}

Init ==
    /\ site \in Sites
    /\ record = Nowhere
    /\ published = [o \in Shelves |-> {}]
    /\ copy = Nowhere
    /\ rewrites = 0
    /\ clock = Start
    /\ closings = {}

\* The operator composes the position from its survey, in a notation it likes.
Compose(notation) ==
    /\ record = Nowhere
    /\ record' = ToFormat(FromDecimalDegrees(site.latitude, site.longitude), notation)
    /\ UNCHANGED <<site, published, copy, rewrites, clock, closings>>

RecordConforms(id) ==
    /\ EvseIsWellFormed(id)
    /\ IsWellFormed(record)
    /\ ZoneIsWellFormed(site.zone)
    /\ HoursAreWellFormed(site.around, site.times)

PushConforms(o, id) ==
    OperatorIsWellFormed(o) /\ RecordConforms(id) /\ SameOperator(OperatorOf(id), o)

\* MockHubject::push_evse_data with an insert or update of one record; a push
\* that does not conform is refused and changes nothing.
Push(o, id) ==
    LET shelf == OperatorBytes(o) IN
    /\ record # Nowhere
    /\ PushConforms(o, id)
    /\ published' = [published EXCEPT ![shelf] = {k \in @ : ~SameEvse(k, id)} \cup {id}]
    /\ UNCHANGED <<site, record, copy, rewrites, clock, closings>>

\* An EMP pulls the record.
Pull ==
    /\ copy = Nowhere
    /\ \E s \in Shelves : published[s] # {}
    /\ copy' = record
    /\ UNCHANGED <<site, record, published, rewrites, clock, closings>>

\* ... and hands it on in another notation.
Rewrite(notation) ==
    /\ copy # Nowhere
    /\ rewrites < MaxRewrites
    /\ copy' = ToFormat(copy, notation)
    /\ rewrites' = rewrites + 1
    /\ UNCHANGED <<site, record, published, clock, closings>>

\* Time passes, and at the site the gates open and close.
Tick ==
    LET local == clock + Step + site.offset IN
    /\ clock + Step <= End
    /\ clock' = clock + Step
    /\ closings' = {c \in closings \cup Opened(local) : c > local}
    /\ UNCHANGED <<site, record, published, copy, rewrites>>

Next ==
    \/ \E notation \in Notations : Compose(notation) \/ Rewrite(notation)
    \/ \E o \in Envelopes, id \in EvseIds : Push(o, id)
    \/ Pull
    \/ Tick

Spec == Init /\ [][Next]_vars

-----------------------------------------------------------------------------

Published == UNION {published[s] : s \in Shelves}

WholeParts(t) == t.minutes \in 0 .. 59 /\ t.hundredths \in 0 .. 6000
WholeMicros(t) == t.value % Micro = 0
IsPosition(p) ==
    /\ p.notation \in Notations
    /\ \A t \in {p.latitude, p.longitude} :
          IF p.notation = "DegreeMinuteSeconds" THEN WholeParts(t) ELSE WholeMicros(t)

\* The shapes of the variables; what is published is well formed, and a copy is
\* the record until it is rewritten.
TypeOK ==
    /\ site \in Sites
    /\ record # Nowhere => IsPosition(record)
    /\ published \in [Shelves -> SUBSET EvseIds]
    /\ \A id \in Published : EvseIsWellFormed(id)
    /\ copy # Nowhere => Published # {} /\ IsPosition(copy)
    /\ rewrites \in 0 .. MaxRewrites
    /\ rewrites = 0 => copy \in {Nowhere, record}
    /\ clock \in Start .. End
    /\ \A c \in closings : c > clock + site.offset

\* Rewriting does not drift (GeoCoordinates::to_format): however often a position
\* changes its notation, it stays within one rounding to decimals, one to
\* hundredths of a second and one back to decimals of where the site is.
PositionStays ==
    copy # Nowhere =>
        LET drift == 2 * (Micro \div 2) + Centi \div 2 IN
        /\ Abs(Latitude(copy) - site.latitude) <= drift
        /\ Abs(Longitude(copy) - site.longitude) <= drift

\* What is_open_at answers is what a driver finds at the gate, at every hour and
\* on every day, also after midnight; it says nothing only where the record
\* carries no offset it can read.
OpenWhenOpen ==
    (Published # {} /\ clock >= Start + Day) =>
        IsOpenAt(site.around, site.times, site.zone, clock) =
            IF site.around \/ (ParsesOffset(site.zone) /\ closings # {}) THEN "Open"
            ELSE IF ParsesOffset(site.zone) THEN "Closed" ELSE "Unknown"

\* Why: a gate is open because of a window that began since the clock was
\* started, today or yesterday; and what is published has well-formed hours.
Begins(p, d) == d * Day + p.begin
Begun(i, p, d, t) ==
    /\ Legible(p) /\ DayMatches(site.times[i].on, WeekdayOf(d * Day))
    /\ Start + site.offset < Begins(p, d) /\ Begins(p, d) <= t /\ Begins(p, d) + Lasts(p) > t

Gates ==
    LET local == clock + site.offset
        days == {local \div Day, local \div Day - 1} IN
    /\ \A c \in closings : \E i \in DOMAIN site.times : \E p \in site.times[i].periods, d \in days :
          Begun(i, p, d, local) /\ c = Begins(p, d) + Lasts(p)
    /\ \A i \in DOMAIN site.times : \A p \in site.times[i].periods, d \in days :
          Begun(i, p, d, local) => Begins(p, d) + Lasts(p) \in closings
    /\ Published # {} => HoursAreWellFormed(site.around, site.times)

\* No two operators hold the same charging point (the check of
\* OperatorEvseData::validate_in, and the equality of identifiers).
OneOperatorPerPoint ==
    \A s, t \in Shelves : \A a \in published[s], b \in published[t] : SameEvse(a, b) => s = t

\* What the crate composes it accepts: "Construct strictly" applies to the crate's
\* own constructors first, says types/geo.rs.
ComposedConforms == record # Nowhere => IsWellFormed(record)

=============================================================================
