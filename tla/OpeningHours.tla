---------------------------- MODULE OpeningHours ----------------------------
(* types/opening.rs: whether a charging point is open, from the windows and  *)
(* the offset its record carries. Instants are minutes; minute 0 is a Monday *)
(* at midnight, UTC. A record without opening times has the empty list.      *)
EXTENDS Integers, Sequences

CONSTANT Absent

Day == 1440
Days == <<"Monday", "Tuesday", "Wednesday", "Thursday", "Friday", "Saturday", "Sunday">>
Weekend == {"Saturday", "Sunday"}
WeekdayOf(t) == Days[((t \div Day) % 7) + 1]

\* A time zone as written: an offset in two numbers, or a text of another form.
OtherText == [form |-> "other"]
Offset(sign, hours, minutes) ==
    [form |-> "UTC", sign |-> sign, hours |-> hours, minutes |-> minutes]

DayMatches(on, weekday) ==
    \/ on \in {weekday, "Everyday"}
    \/ on = "Workdays" /\ weekday \notin Weekend
    \/ on = "Weekend" /\ weekday \in Weekend

ParsesOffset(zone) ==
    zone # Absent /\ zone.form = "UTC" /\ zone.hours <= 14 /\ zone.minutes <= 59
OffsetMinutes(zone) == zone.sign * zone.hours * 60 + zone.sign * zone.minutes

\* A time of day that is not HH:MM reads as Absent.
Legible(period) == Absent \notin {period.begin, period.end}

\* Mutant: the half after midnight goes by the day it lands in.
CoversToday(on, period, local) ==
    LET minute == local % Day IN
    /\ DayMatches(on, WeekdayOf(local))
    /\ IF period.begin <= period.end
       THEN minute >= period.begin /\ minute < period.end
       ELSE minute >= period.begin \/ minute < period.end
\* Asked of one window and one local time: does it start today and cover this
\* minute, or did it start yesterday and still run?
Covers(on, period, local) ==
    LET today == DayMatches(on, WeekdayOf(local))
        yesterday == DayMatches(on, WeekdayOf(local - Day))
        minute == local % Day
    IN  IF period.begin <= period.end
        THEN today /\ minute >= period.begin /\ minute < period.end
        ELSE (today /\ minute >= period.begin) \/ (yesterday /\ minute < period.end)

IsOpenAt(around, times, zone, at) ==
    LET local == at + OffsetMinutes(zone)
        entries == {times[i] : i \in DOMAIN times}
        asked == {e \in entries : \E t \in {local, local - Day} : DayMatches(e.on, WeekdayOf(t))}
    IN  CASE around -> "Open"
          [] ~around /\ (times = <<>> \/ ~ParsesOffset(zone)) -> "Unknown"
          [] OTHER ->
                IF \E e \in asked : \E p \in e.periods : Legible(p) /\ Covers(e.on, p, local)
                THEN "Open"
                ELSE IF \A e \in asked : \A p \in e.periods : Legible(p) THEN "Closed" ELSE "Unknown"

\* What Validate says of the three: Address, validate_evse_common, OpeningTimes,
\* Period and HourMinute.
ZoneIsWellFormed(zone) == zone # Absent => zone.form = "UTC"
TimesOfDay == 0 .. Day           \* 24:00 is one
PeriodIsWellFormed(p) == {p.begin, p.end} \subseteq TimesOfDay /\ p.begin # p.end
HoursAreWellFormed(around, times) ==
    /\ around <=> times = <<>>
    /\ \A i \in DOMAIN times :
          times[i].periods # {} /\ \A p \in times[i].periods : PeriodIsWellFormed(p)

=============================================================================
