---------------------------- MODULE MCSettlement ----------------------------
(* One session, two charging points, and the messages of two charging        *)
(* processes, one of them with a reading no f64 holds: each as it should be, *)
(* and with any one of its fields changed.                                   *)
EXTENDS Settlement

CONSTANTS s1, e1, e2, tariff, card, opA, opB

MCSessions == {s1}
MCOperatorOf == [e \in {e1, e2} |-> opA]
MCPoints == [e \in {e1, e2} |-> [external |-> e = e1, compatible |-> e = e1, power |-> 2]]
MCProducts == {tariff}
MCFloats == {-3, -1, 0, 1, 2, 4}
MCInstants == 0 .. 3
MCReadings == 0 .. 4

Id(member, pin, hashed) == [member |-> member, pin |-> pin, hashed |-> hashed]
Ids == {Id(card, FALSE, FALSE), Id("QrCode", TRUE, FALSE), Id("QrCode", FALSE, TRUE),
        Id("QrCode", TRUE, TRUE)}

NoTimes == [f \in TimeFields |-> Absent]
NoAmounts == [f \in AmountFields |-> Absent]
Blank == [kind |-> "Error", type |-> "Error", session |-> s1, evse |-> e1, operator |-> opA,
          identification |-> Id(card, FALSE, FALSE), times |-> NoTimes, amounts |-> NoAmounts,
          duration |-> Absent, signed |-> Absent, verification |-> FALSE, product |-> tariff,
          wordy |-> {}]

Signed(statuses) == [i \in DOMAIN statuses |-> [status |-> statuses[i], signature |-> TRUE]]
Unsigned == [i \in 1 .. 2 |-> [status |-> <<"Start", "End">>[i], signature |-> i = 1]]
SignedLists == {Signed(<<"Start", "Interim", "End">>), Signed(<<"Start", "End", "Progress">>),
                Signed(<<"End", Absent, "Start">>), Signed(<<"End", "Start", "End">>),
                Signed(<<"Start", "Progress", "Progress", "End">>), Unsigned, <<>>, Absent}

Base(kind, start, now, end) ==
    LET used(f, v) == IF f \in TimesOf[kind] \cup AmountsOf[kind] THEN v ELSE Absent IN
    [Blank EXCEPT
        !.kind = kind, !.type = kind,
        !.times = [f \in TimeFields |->
                     used(f, CASE f = "SessionStart" -> 0 [] f = "ChargingStart" -> 1
                               [] f = "EventOccurred" -> 2 [] f = "ChargingEnd" -> 2
                               [] f = "SessionEnd" -> 3)],
        !.amounts = [f \in AmountFields |->
                     used(f, CASE f = "MeterValueStart" -> start [] f = "MeterValueEnd" -> end
                               [] f = "ConsumedEnergy" ->
                                    (IF kind = "Progress" THEN now ELSE end) - start)],
        !.duration = IF kind = "Progress" THEN 1 ELSE Absent,
        !.signed = IF kind = "Record" THEN Signed(<<"Start", "End">>) ELSE Absent,
        !.verification = kind = "Record"]

Optional(m, f) == IF f \in Required[m.kind] THEN {} ELSE {Absent}

Disordered == {<<"SessionStart", 3>>, <<"ChargingStart", 3>>, <<"ChargingEnd", 0>>,
               <<"SessionEnd", 0>>, <<"ChargingEnd", Illegible>>}

OtherFigures(m) ==
    {[m EXCEPT !.times[t[1]] = t[2]] : t \in Disordered}
      \cup UNION {{[m EXCEPT !.amounts[f] = n] : n \in {-1, 3} \cup Optional(m, f)} :
             f \in AmountsOf[m.kind]}

Records ==
    LET m == Base("Record", 0, 1, 2) IN
    {m, Base("Record", 0, 1, 3), Base("Record", 1, 1, 3), Base("Record", 2, 2, 1)}
      \cup OtherFigures(m)
      \cup {[m EXCEPT !.signed = l] : l \in SignedLists}
      \cup {[m EXCEPT !.product = Absent], [m EXCEPT !.evse = e2],
            [m EXCEPT !.wordy = {"PartnerProductID"}]}
      \cup {[m EXCEPT !.identification = Id("QrCode", TRUE, TRUE)]}

Notes ==
    {Base(k, 0, 1, 2) : k \in Notifications} \cup {Base("Progress", 0, 3, 3)}
      \cup {[Base("Progress", 0, 1, 2) EXCEPT !.type = t] : t \in {"Start", "Error"}}
      \cup {[Base("Start", 0, 1, 2) EXCEPT !.type = "End"]}
      \cup {[Base("End", 0, 1, 2) EXCEPT !.amounts["ConsumedEnergy"] = n] : n \in {Absent, 3}}
      \cup {[Base("End", 0, 1, 2) EXCEPT !.times["ChargingStart"] = 3]}
      \cup {[Base("Start", 0, 1, 2) EXCEPT !.times["SessionStart"] = 3]}
      \cup {[Base("Progress", 0, 1, 2) EXCEPT !.duration = d] : d \in {-1, 2, 3}}

Authorizations ==
    LET m == [Blank EXCEPT !.kind = "Authorize", !.type = "Authorize", !.session = s1] IN
    {[m EXCEPT !.identification = i] : i \in Ids \ {Id("QrCode", TRUE, FALSE)}}
      \cup {[m EXCEPT !.operator = opB], [m EXCEPT !.evse = Absent], [m EXCEPT !.evse = e2]}

MCDrafts == Records \cup Notes \cup Authorizations
=============================================================================
