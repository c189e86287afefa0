----------------------------- MODULE Settlement -----------------------------
(* How the figures of a charging session reach the party that is invoiced    *)
(* for them.  An operator composes a message, may check it, and posts it     *)
(* through a client that validates what it sends; the broker decodes it,     *)
(* validates it, holds it against the session it names and books it; what    *)
(* it booked it hands to the provider, whose server validates it once more.  *)
(* A message that was refused is corrected and posted again; requests and    *)
(* answer may be late or lost.  Repeating the same body is RoamingCalls.    *)
EXTENDS CdrCheck

CONSTANTS
    Sessions,   \* session ids, of which the broker has opened some
    Drafts,     \* the messages an operator may compose
    MaxCalls,   \* bound: how many calls an operator makes
    Instants, Readings \* bounds: when a charging process may happen, what its meter may show

(* What a call can end in, as far as its caller knows.                       *)
Outcomes == {"none", "open", "Invalid", "Transport", "BadRequest", "Success", "DataError",
             "SessionIsInvalid", "UnknownEvseId", "EvseIdNotHubjectCompatible"}

ASSUME SettlementAssumption ==
    /\ Absent \notin DOMAIN Points \cup Outcomes \cup DOMAIN Ranks /\ MaxCalls \in Nat
    /\ \A m \in Drafts : /\ IsMessage(m) /\ Required[m.kind] \subseteq Present(m)
                         /\ m.kind = "Authorize" => m.session \in Sessions

VARIABLES
    validates,  \* ClientConfig::validate_requests of the operator's client
    lenient,    \* whether the provider's on_invalid_request lets a request through
    sessions,   \* the broker's: [evse, settled] of each session it opened
    draft,      \* the message the operator has composed, Absent if none
    checked,    \* what CdrCheck found of it and against which point, Absent if it was not run
    calls,      \* how many calls were made; the number of the last one
    outcome,    \* what the operator knows of the last one: "open" while it is waiting
    requests,   \* requests on their way to the broker
    answer,     \* the answer to the open call on its way to the operator, Absent if none
    filed,      \* what the operator holds as delivered, with what CdrCheck had said of it
    booked,     \* the charge detail records and notifications the broker holds
    forwarded,  \* those on their way to the provider
    received    \* those the provider's service was given

vars == <<validates, lenient, sessions, draft, checked, calls, outcome, requests, answer,
          filed, booked, forwarded, received>>

ContentRefusals == {"Invalid", "BadRequest", "DataError"}

operatorVars == <<draft, checked, calls, outcome, filed>>
brokerVars == <<sessions, booked>>

(* The broker may have opened the first session already.                     *)
Opened(m) == [evse |-> m.evse, settled |-> FALSE]

Init ==
    /\ validates \in BOOLEAN /\ lenient \in BOOLEAN
    /\ sessions \in {[s \in {} |-> Absent]}
                      \cup {[s \in {m.session} |-> Opened(m)] :
                              m \in {d \in Drafts : /\ d.kind = "Authorize" /\ Conformant(d)
                                                    /\ d.evse \in DOMAIN Points
                                                    /\ Points[d.evse].compatible}}
    /\ draft = Absent /\ checked = Absent
    /\ calls = 0 /\ outcome = "none"
    /\ requests = {} /\ answer = Absent
    /\ filed = {} /\ booked = {} /\ forwarded = {} /\ received = {}

-----------------------------------------------------------------------------
(* The operator.  Its first message, or the next one, or the same corrected: *)
(* whatever became of the last, it is put aside.                             *)
Compose(m) ==
    /\ calls < MaxCalls
    /\ draft = Absent \/ outcome \notin {"none", "open"}
    /\ draft' = m /\ checked' = Absent /\ outcome' = "none"
    /\ UNCHANGED <<validates, lenient, calls, filed, brokerVars, requests, answer,
                   forwarded, received>>

Check(p) ==
    /\ draft # Absent /\ outcome = "none" /\ checked = Absent /\ draft.kind = "Record"
    /\ checked' = [against |-> p, findings |-> Findings(draft, p)]
    /\ UNCHANGED <<validates, lenient, draft, calls, outcome, filed, brokerVars, requests, answer,
                   forwarded, received>>

(* post(): a message that breaks a rule does not leave the client.           *)
Post ==
    /\ draft # Absent /\ outcome = "none" /\ calls < MaxCalls
    /\ calls' = calls + 1
    /\ IF validates /\ ~Conformant(draft)
       THEN outcome' = "Invalid" /\ UNCHANGED requests
       ELSE outcome' = "open" /\ requests' = requests \cup {[call |-> calls', m |-> draft]}
    /\ UNCHANGED <<validates, lenient, draft, checked, filed, brokerVars, answer, forwarded,
                   received>>

HearReadBack ==                             \* Mutant: what went out is filed, not what was composed
    /\ outcome = "open" /\ answer # Absent
    /\ outcome' = answer /\ answer' = Absent
    /\ filed' = IF answer = "Success"
                THEN filed \cup {[call |-> calls, m |-> Decoded(draft), checked |-> checked]}
                ELSE filed
    /\ UNCHANGED <<validates, lenient, draft, checked, calls, brokerVars, requests, forwarded,
                   received>>

Hear ==
    /\ outcome = "open" /\ answer # Absent
    /\ outcome' = answer /\ answer' = Absent
    /\ filed' = IF answer = "Success"
                THEN filed \cup {[call |-> calls, m |-> draft, checked |-> checked]} ELSE filed
    /\ UNCHANGED <<validates, lenient, draft, checked, calls, brokerVars, requests, forwarded,
                   received>>

(* The timeout.  What becomes of the request is not known: it may never      *)
(* arrive, or arrive when the next call is open; nobody hears its answer.    *)
GiveUp ==
    /\ outcome = "open" /\ outcome' = "Transport" /\ answer' = Absent
    /\ UNCHANGED <<validates, lenient, draft, checked, calls, filed, brokerVars, requests,
                   forwarded, received>>

-----------------------------------------------------------------------------
(* The broker.                                                               *)
AuthorizeCode(m) ==
    IF m.evse = Absent THEN "DataError"
    ELSE IF m.evse \notin DOMAIN Points THEN "UnknownEvseId"
    ELSE IF ~Points[m.evse].compatible THEN "EvseIdNotHubjectCompatible"
    ELSE IF ~Conformant(m) /\ ~lenient THEN "DataError"     \* the provider's server
    ELSE "Success"

RecordCodeUnvalidated(m) ==                 \* Mutant: submit_cdr does not validate
    IF m.session \notin DOMAIN sessions THEN "SessionIsInvalid"
    ELSE IF sessions[m.session].evse # m.evse THEN "DataError"
    ELSE IF sessions[m.session].settled THEN "SessionIsInvalid"
    ELSE "Success"

RecordCode(m) ==
    IF ~Conformant(m) THEN "DataError"
    ELSE IF m.session \notin DOMAIN sessions THEN "SessionIsInvalid"
    ELSE IF sessions[m.session].evse # m.evse THEN "DataError"
    ELSE IF sessions[m.session].settled THEN "SessionIsInvalid"
    ELSE "Success"

NotifyCode(m) ==
    IF ~Conformant(m) THEN "DataError"
    ELSE IF m.session \notin DOMAIN sessions THEN "SessionIsInvalid"
    ELSE "Success"

CodeOf(m) == CASE m.kind = "Authorize" -> AuthorizeCode(m)
               [] m.kind = "Record"    -> RecordCode(m)
               [] OTHER                -> NotifyCode(m)

Answered(r, code) ==
    /\ requests' = requests \ {r}
    /\ answer' = IF outcome = "open" /\ r.call = calls THEN code ELSE answer
    /\ UNCHANGED <<validates, lenient, operatorVars, received>>

RejectBody(r) ==
    /\ r \in requests /\ ~Decodable(r.m)
    /\ Answered(r, "BadRequest")
    /\ UNCHANGED <<brokerVars, forwarded>>

Refuse(r) ==
    LET m == Decoded(r.m) IN
    /\ r \in requests /\ Decodable(r.m) /\ CodeOf(m) # "Success"
    /\ Answered(r, CodeOf(m))
    /\ UNCHANGED <<brokerVars, forwarded>>

(* The driver was authorized: a session no other call was given is opened.   *)
Open(r) ==
    LET m == Decoded(r.m) IN
    /\ r \in requests /\ Decodable(r.m) /\ m.kind = "Authorize" /\ CodeOf(m) = "Success"
    /\ \E s \in Sessions \ DOMAIN sessions :
          sessions' = [t \in DOMAIN sessions \cup {s} |-> IF t = s THEN Opened(m) ELSE sessions[t]]
    /\ Answered(r, "Success")
    /\ UNCHANGED <<booked, forwarded>>

Book(r) ==
    LET m == Decoded(r.m)
        b == [call |-> r.call, m |-> m] IN
    /\ r \in requests /\ Decodable(r.m) /\ m.kind # "Authorize" /\ CodeOf(m) = "Success"
    /\ IF m.kind = "Record" THEN sessions' = [sessions EXCEPT ![m.session].settled = TRUE]
                            ELSE UNCHANGED sessions
    /\ booked' = booked \cup {b} /\ forwarded' = forwarded \cup {b}
    /\ Answered(r, "Success")

-----------------------------------------------------------------------------
(* The provider's server: accept() decodes and validates, and lets the       *)
(* service decide about a message that breaks a rule.                        *)
Accepts(m) == Decodable(m) /\ (Conformant(Decoded(m)) \/ lenient)

Receive(b) ==
    /\ b \in forwarded /\ forwarded' = forwarded \ {b}
    /\ received' = IF Accepts(b.m) THEN received \cup {[b EXCEPT !.m = Decoded(b.m)]} ELSE received
    /\ UNCHANGED <<validates, lenient, operatorVars, brokerVars, requests, answer>>

Next ==
    \/ \E m \in Drafts : Compose(m)
    \/ \E p \in DOMAIN Points \cup {Absent} : Check(p)
    \/ Post \/ Hear \/ GiveUp
    \/ \E r \in requests : RejectBody(r) \/ Refuse(r) \/ Open(r) \/ Book(r)
    \/ \E b \in forwarded : Receive(b)

Spec == Init /\ [][Next]_vars

-----------------------------------------------------------------------------
(* A charging process: what can have happened at a charging point, when, and *)
(* what its meter showed at the beginning and at the end.                    *)
Span == {"SessionStart", "ChargingStart", "ChargingEnd", "SessionEnd"}
Schedules == {t \in [Span -> Instants] : /\ t["SessionStart"] =< t["ChargingStart"]
                                         /\ t["ChargingStart"] =< t["ChargingEnd"]
                                         /\ t["ChargingEnd"] =< t["SessionEnd"]}
Runs == {r \in [start : Readings, end : Readings] : r.start =< r.end}

(* Message m says of a process what was the case, or leaves it out.  A       *)
(* progress report says it of an event on the way; the duration is read off  *)
(* a clock that differs by no more than Slack.                               *)
TellsWhen(m, t) ==
    LET event == m.times["EventOccurred"] IN
    /\ \A f \in Span : m.times[f] \in {Absent, t[f]}
    /\ m.kind = "Progress" =>
         /\ event \in t["ChargingStart"] .. t["ChargingEnd"]
         /\ m.duration # Absent =>
              m.duration >= 0 /\ Distance(m.duration, event - t["ChargingStart"]) =< Slack

TellsHowMuch(m, r) ==
    LET energy == m.amounts["ConsumedEnergy"] IN
    /\ m.amounts["MeterValueStart"] \in {Absent, r.start}
    /\ m.amounts["MeterValueEnd"] \in {Absent, r.end}
    /\ IF m.kind = "Progress" THEN energy = Absent \/ energy \in 0 .. r.end - r.start
                              ELSE energy \in {Absent, r.end - r.start}

Possible(m) == /\ \E t \in Schedules : TellsWhen(m, t)
               /\ \E r \in Runs : TellsHowMuch(m, r)

(* Nothing is wrong with the form of m.                                      *)
Plain(m) ==
    /\ m.wordy = {} /\ m.type = m.kind /\ m.kind # "Authorize"
    /\ m.kind = "Progress" => m.duration # Absent \/ m.amounts["ConsumedEnergy"] # Absent
    /\ m.identification = Absent \/ ~(m.identification.pin /\ m.identification.hashed)
    /\ m.signed = Absent \/ Len(m.signed) =< MaxSigned
    /\ ~HasUnknownStatus(m.signed)
    /\ \A f \in AmountFields : m.amounts[f] = Absent \/ JsonRoundTrips(m.amounts[f])

AtItsPoint(m) == m.session \in DOMAIN sessions => sessions[m.session].evse = m.evse

-----------------------------------------------------------------------------
(* Every variable keeps the shape its declaration says.                      *)
Calls == 1 .. MaxCalls
TypeOK ==
    /\ validates \in BOOLEAN /\ lenient \in BOOLEAN
    /\ DOMAIN sessions \subseteq Sessions
    /\ sessions \in [DOMAIN sessions -> [evse : {m.evse : m \in Drafts}, settled : BOOLEAN]]
    /\ draft \in Drafts \cup {Absent} /\ calls \in 0 .. MaxCalls /\ outcome \in Outcomes
    /\ \A r \in requests : r.call \in Calls /\ r.m \in Drafts
    /\ answer \in (Outcomes \ {"none", "open"}) \cup {Absent}
    /\ \A b \in filed : b.call \in Calls /\ b.m \in Drafts
    /\ \A b \in booked \cup forwarded \cup received :
          b.call \in Calls /\ b.m.kind \in Kinds

(* A record the broker holds tells of a charging process that can have       *)
(* happened: its times are in order, its meter runs forward, and its energy  *)
(* is what the meter says (cdr.rs:245-300).  Rounding on the way does not    *)
(* make an impossible record possible, nor a gap between the pairs of times. *)
BookedIsPossible ==
    \A b \in booked : b.m.kind = "Record" => Possible(b.m)

(* A message that tells the truth about some charging process in numbers     *)
(* JSON can carry is refused for its content by nobody: not by its own       *)
(* client, not by the broker that decodes it, not by the two clocks differing *)
(* within the slack (notification.rs:223).                                   *)
TruthfulIsServed ==
    outcome \in ContentRefusals /\ Plain(draft) /\ AtItsPoint(draft)
        => ~Possible(draft)

OnTheBooks(call, m) == \E b \in booked : b.call = call /\ (b.m = m \/ ~Conformant(m))

(* What an operator was acknowledged for is on the broker's books, and reads *)
(* there as it does in the operator's own, unless the operator's own         *)
(* validation has something to say of it ("this can never happen silently",  *)
(* number.rs:39): no amount is rounded and no notification taken for another *)
(* without a violation to show.  (What an authorization opens is a session.) *)
FiledIsBooked ==
    \A f \in filed : f.m.kind # "Authorize" => OnTheBooks(f.call, f.m)

(* What the broker booked the provider's service is given, or will be, as it *)
(* was booked: the server validates what it decodes once more, and a second  *)
(* trip over JSON neither rounds a number nor makes a violation.             *)
BooksAgree == booked = forwarded \cup received

(* Why these hold: the inductive invariant Settlement_proofs proves.  What    *)
(* travels is what was composed, under the number of its call; an answer of   *)
(* success is about the open call and comes of an entry on the books; and an  *)
(* entry reads the same after another trip.                                   *)
Stable(m) == IsMessage(m) /\ Conformant(m) /\ Decodable(m) /\ Decoded(m) = m

Underway ==
    /\ calls \in Nat /\ draft \in Drafts \cup {Absent}
    /\ IF outcome = "open" THEN draft # Absent ELSE answer = Absent
    /\ \A r \in requests :
          /\ r.m \in Drafts /\ r.call \in 1 .. calls
          /\ outcome = "open" /\ r.call = calls => r.m = draft

Kept ==
    /\ \A b \in booked : b = [call |-> b.call, m |-> b.m] /\ Stable(b.m)
    /\ answer = "Success" /\ draft.kind # "Authorize" => OnTheBooks(calls, draft)
    /\ FiledIsBooked /\ BooksAgree

(* What keeps the refusals true: a record or notification that was refused   *)
(* for its content breaks a rule, lacks a member its type must have, or names *)
(* a session of another charging point; and what the check said is what it    *)
(* says of the message the operator still holds, or has filed.                *)
Blamed(m) ==
    m.kind # "Authorize" => ~Conformant(m) \/ ~Decodable(m) \/ ~AtItsPoint(m)

CheckedAs(m, c) ==
    c # Absent => /\ m.kind = "Record"
                  /\ c = [against |-> c.against, findings |-> Findings(m, c.against)]

Held ==
    /\ outcome = "open" => calls # 0
    /\ outcome # "none" => draft \in Drafts
    /\ outcome \in ContentRefusals \/ answer \in ContentRefusals => Blamed(draft)
    /\ checked # Absent => draft \in Drafts
    /\ CheckedAs(draft, checked)
    /\ \A f \in filed : f.m \in Drafts /\ CheckedAs(f.m, f.checked)

(* The signed readings of a session can be read as a sequence: the first     *)
(* opens it, the last closes it, and each has a value (check.rs:220-227).    *)
Verifiable(signed) ==
    /\ signed \notin {Absent, <<>>}
    /\ signed[1].status = "Start" /\ signed[Len(signed)].status = "End"
    /\ \A i \in DOMAIN signed : signed[i].signature

KnownStatuses(signed) ==
    signed # Absent => \A i \in DOMAIN signed : signed[i].status \in DOMAIN Ranks

(* An operator that ran the check against the point, where the readings must *)
(* be signed, and delivered a record whose readings a driver cannot verify,  *)
(* was told so.                                                              *)
UnverifiableIsTold ==
    \A f \in filed :
        /\ f.m.kind = "Record" /\ KnownStatuses(f.m.signed) /\ Points[f.m.evse].external
        /\ f.checked # Absent /\ f.checked.against = f.m.evse
        => \/ Verifiable(f.m.signed)
           \/ \E v \in f.checked.findings : v.at = "SignedMeteringValues"

(* A record the check found nothing on at all is refused for its content by  *)
(* nobody.  (One with warnings only may be: an imprecise number is one.)     *)
CleanIsAccepted ==
    outcome \in ContentRefusals /\ AtItsPoint(draft) /\ checked # Absent
        => checked.findings # {}

(* What the check says is what there is to say: neither a record it did not  *)
(* complain of nor one it should have complained of is a surprise later.     *)
ChecksAreTrue == UnverifiableIsTold /\ CleanIsAccepted
=============================================================================
