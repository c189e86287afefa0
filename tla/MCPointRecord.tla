--------------------------- MODULE MCPointRecord ---------------------------
(* Sites whose position, hours or offset is on some edge; identifiers of     *)
(* four operators, two of them in two spellings.                             *)
EXTENDS PointRecord

Utc == Offset(1, 0, 0)
Window(on, begin, end) == [on |-> on, periods |-> {[begin |-> begin, end |-> end]}]

Site(lat, lon, times, zone, offset) ==
    [latitude |-> lat, longitude |-> lon, around |-> times = <<>>,
     times |-> times, zone |-> zone, offset |-> offset]

\* 52.480495 N 13.356465 E, in the open unit.
Berlin == <<472324455, 120208185>>
Open(times, zone, offset) == Site(Berlin[1], Berlin[2], times, zone, offset)
At(lat, lon) == Site(lat, lon, <<>>, Utc, 0)

MCSites ==
    {At(472324455, 120208185), At(90 * Degree, -180 * Degree), At(Degree - 1, 180 * Degree - 1),
     At(-13, 14), At(33 * Degree + 12, -(Degree + Minute + 4)), At(52 * Degree, 13 * Degree - 13)}
    \cup
    {Open(<<Window("Everyday", 360, 1320)>>, Offset(-1, 4, 30), -270),
     Open(<<Window("Saturday", 1320, 120)>>, Utc, 0),
     Open(<<Window("Weekend", 1320, 360)>>, Offset(1, 3, 0), 180),
     Open(<<Window("Workdays", 1080, 60), Window("Sunday", 0, 1440)>>, Offset(1, 14, 0), 840),
     Open(<<Window("Monday", 1440, 180), Window("Weekend", 600, 720)>>, Utc, 0),
     Open(<<[on |-> "Sunday", periods |-> {[begin |-> 180, end |-> 540], [begin |-> 1200, end |-> 0]}]>>,
          Offset(-1, 10, 30), -630),
     Open(<<Window("Everyday", 600, 600)>>, Utc, 0),
     Open(<<Window("Everyday", 600, Absent)>>, Utc, 0),
     Open(<<Window("Weekend", 1320, 360)>>, Absent, 60),
     Open(<<Window("Weekend", 1320, 360)>>, OtherText, 60),
     Open(<<Window("Weekend", 1320, 360)>>, Offset(1, 15, 0), 60)}

MCLetters == {"D", "E", "A"}
MCDigits == {"1", "4", "8", "9", "0"}

Evse(standard, country, operator, instance, separators, spelling) ==
    [standard |-> standard, country |-> country, operator |-> operator,
     instance |-> instance, separators |-> separators, spelling |-> spelling]

\* One of them has only a separator for its instance part, another more than fit.
MCEvseIds ==
    {Evse("DIN", <<"4", "9">>, <<"8", "1", "0">>, <<"0", "0">>, 0, "plain"),
     Evse("DIN", <<"4", "9">>, <<"8", "1", "0">>, <<"0", "0">>, 30, "plus"),
     Evse("DIN", <<"4", "9">>, <<"8", "1">>, <<"0", "0", "0">>, 0, "plain"),
     Evse("DIN", <<"1">>, <<"4", "9", "8">>, <<"1", "0">>, 31, "plain"),
     Evse("DIN", <<"1">>, <<"4", "9", "8">>, <<>>, 1, "plain"),
     Evse("ISO", <<"D", "E">>, <<"A", "1", "E">>, <<"E", "1">>, 0, "packed"),
     Evse("ISO", <<"D", "E">>, <<"A", "1">>, <<"E", "1">>, 0, "packed")}
MCEnvelopes == {OperatorOf(id) : id \in MCEvseIds}

=============================================================================
