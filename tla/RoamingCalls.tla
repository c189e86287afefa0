---------------------------- MODULE RoamingCalls ----------------------------
(* Charging sessions over an unreliable network: a CPO that starts, stops    *)
(* and settles sessions and an EMP that starts them remotely, each through   *)
(* the retrying client, and the broker that serves them.                     *)
EXTENDS HubjectSessions, ClientCalls

CONSTANTS
    At,             \* At[c]: the charging point a call names
    With,           \* With[c]: the identification it presents
    Follows,        \* Follows[c]: the start whose session a call is about
    Stories         \* bounds: what can happen in one behaviour: [calls, moves, gateway]

ASSUME CallsAssumption ==
    /\ Requests = Calls \X Attempts
    /\ At \in [Calls -> Points] /\ With \in [Calls -> Media] /\ Follows \in [Calls -> Calls]
    /\ \A c \in Calls : Op[Follows[c]] \in {"AuthorizeStart", "AuthorizeRemoteStart"}
    /\ Stories \subseteq [calls : SUBSET Calls, moves : Nat, gateway : BOOLEAN]

VARIABLES
    served,     \* the requests the broker has taken from the wire
    moves       \* how often charging points have changed

vars == <<sessionVars, clientVars, served, moves>>

TypeOK == /\ SessionsTypeOK /\ ClientTypeOK
          /\ served \in SUBSET Requests
          /\ moves \in Nat

Init == SessionsInit /\ ClientInit /\ served = {} /\ moves = 0

-----------------------------------------------------------------------------
Starts == {c \in Calls : Op[c] \in {"AuthorizeStart", "AuthorizeRemoteStart"}}

(* What the caller is told: an authorization's own message says whether it   *)
(* was granted; for the rest, that post returned Ok is all a caller looks at. *)
Granted(c) ==
    /\ client[c].phase = "ok"
    /\ Op[c] \in {"AuthorizeStart", "AuthorizeStop"} => client[c].outcome.code = "Success"

(* The session a call names: the one its start was answered with. *)
SessionOf(c) == client[Follows[c]].outcome.session

(* Some story has these calls, and the charging points changing this often.  *)
Made == {c \in Calls : client[c].phase # "new"}
Told(story, calls, changes) == calls \subseteq story.calls /\ changes <= story.moves

(* A CPO stops and settles the sessions it was authorized for. *)
Ready(c) == /\ c \in Starts \/ Granted(Follows[c])
            /\ \E story \in Stories : Told(story, Made \cup {c}, moves)

SendRequest(c) ==
    /\ Ready(c)
    /\ Send(c)
    /\ UNCHANGED <<sessionVars, served, moves>>

ClientStep(c) ==
    \/ SendRequest(c)
    \/ (Receive(c) \/ TransportError(c)) /\ UNCHANGED <<sessionVars, served, moves>>

Gateway(c, n) ==
    /\ \E story \in Stories : story.gateway /\ Told(story, Made, moves)
    /\ GatewayAnswers(c, n)
    /\ UNCHANGED <<sessionVars, served, moves>>

(* The broker takes a request from the wire, at most once: HTTP repeats      *)
(* nothing by itself.                                                        *)
Take(c, n) ==
    /\ Sent(c, n)
    /\ <<c, n>> \notin served
    /\ served' = served \cup {<<c, n>>}
    /\ UNCHANGED <<client, moves>>

ServeStart(c, n) ==
    /\ c \in Starts
    /\ Take(c, n)
    /\ Arrive(<<c, n>>, IF Op[c] = "AuthorizeStart" THEN "start" ELSE "remote", At[c], With[c])
    /\ UNCHANGED answers

(* An AuthorizeStop is answered by its own message, refused or not. *)
ServeStop(c, n) ==
    /\ Op[c] = "AuthorizeStop"
    /\ Take(c, n)
    /\ AuthorizeStop(SessionOf(c), With[c])
    /\ Answered(c, n, Message(StopCode(SessionOf(c), With[c]), SessionOf(c)))

(* A CDR and a notification are answered by an acknowledgement. *)
Acknowledged(code) == IF code = "Success" THEN Message(code, 0) ELSE Refusal(code)

ServeCdr(c, n) ==
    /\ Op[c] = "ChargeDetailRecord"
    /\ Take(c, n)
    /\ SubmitCdr(SessionOf(c), At[c])
    /\ Answered(c, n, Acknowledged(CdrCode(SessionOf(c), At[c])))

ServeNotification(c, n) ==
    /\ Op[c] = "ChargingNotifications"
    /\ Take(c, n)
    /\ Notify(SessionOf(c))
    /\ Answered(c, n, Acknowledged(NotifyCode(SessionOf(c))))

(* The last step of a start's handler sends its answer: its own message for  *)
(* AuthorizeStart, an acknowledgement for a remote start.                    *)
StartAnswer(c, h) ==
    IF Op[c] = "AuthorizeStart" \/ h.code = "Success" THEN Message(h.code, h.session)
    ELSE Refusal(h.code)

Handle(c, n) ==
    LET r == <<c, n>> IN
    /\ HandlerStep(r)
    /\ IF handlers'[r].pc = "answered" THEN Answered(c, n, StartAnswer(c, handlers'[r]))
                                       ELSE UNCHANGED answers
    /\ UNCHANGED <<client, served, moves>>

Push(p, status) ==
    /\ \E story \in Stories : Told(story, Made, moves + 1)
    /\ moves' = moves + 1
    /\ ChangePoint(p, status)
    /\ UNCHANGED <<clientVars, served>>

Serve(c, n) == ServeStart(c, n) \/ ServeStop(c, n) \/ ServeCdr(c, n) \/ ServeNotification(c, n)

Next ==
    \/ \E c \in Calls : ClientStep(c)
    \/ \E c \in Calls, n \in Attempts : Gateway(c, n) \/ Serve(c, n) \/ Handle(c, n)
    \/ \E p \in Points, status \in Statuses : Push(p, status)

Spec == Init /\ [][Next]_vars

(* The client's runtime keeps running: timeouts fire and sleeps end.  The    *)
(* network and the broker owe it nothing.                                    *)
Fairness == \A c \in Calls : WF_vars(ClientStep(c))
FairSpec == Spec /\ Fairness

-----------------------------------------------------------------------------
(* The sessions a call opened, over all of its attempts. *)
OpenedBy(c) == {n \in Attempts : handlers[<<c, n>>].pc = "answered" /\ handlers[<<c, n>>].session # NoSession}

(* A remote start never opens two sessions, however its answers are lost:    *)
(* retry.rs, "the first one may have started a session".                     *)
RemoteStartsOnce ==
    \A c \in Calls : Op[c] = "AuthorizeRemoteStart"
        => \A m, n \in OpenedBy(c) : m = n

(* retry.rs, line 1: "retries that cannot start a charging session twice".   *)
StartsOnce == \A c \in Starts : \A m, n \in OpenedBy(c) : m = n

(* What a caller is told happened has happened, and at the broker: a start   *)
(* reported as authorized is a session at the point and with the medium the  *)
(* caller named, a reported stop or CDR has stopped or settled it.           *)
ReportsAreTrue ==
    \A c \in Calls : Granted(c) =>
        LET s == IF c \in Starts THEN client[c].outcome.session ELSE SessionOf(c) IN
        /\ s \in DOMAIN sessions
        /\ c \in Starts => sessions[s].point = At[c] /\ sessions[s].medium = With[c]
        /\ Op[c] = "AuthorizeStop" => sessions[s].stopped
        /\ Op[c] = "ChargeDetailRecord" => sessions[s].settled /\ sessions[s].point = At[c]

(* A CDR refused as "Session is invalid" is not lost money: the session it   *)
(* names was opened for the caller, so it was settled, by an attempt whose   *)
(* answer the caller did not get or by another CDR.                          *)
RefusedCdrIsSettled ==
    \A c \in Calls :
        Op[c] = "ChargeDetailRecord" /\ client[c].phase = "failed"
            /\ client[c].outcome.code = "SessionIsInvalid"
        => \E i \in DOMAIN cdrs : cdrs[i].session = SessionOf(c)

(* Good news and bad news of a call are both true of the broker.             *)
AnswersAreTrue == ReportsAreTrue /\ RefusedCdrIsSettled

(* A session is stopped only if somebody asked for it who did not present a  *)
(* contract or a card other than the one it was started with.                *)
StoppedByItsMedium ==
    \A s \in DOMAIN sessions : sessions[s].stopped =>
        \E c \in Calls : /\ Op[c] = "AuthorizeStop" /\ Granted(Follows[c]) /\ SessionOf(c) = s
                        /\ Sent(c, 0)
                        /\ ~MediumMismatch(With[Follows[c]], With[c])

(* The event log is a story that can have happened: a session is opened      *)
(* before anything else is told of it, once, and settled once.               *)
Openings == {"Authorized", "RemoteStartRequested"}
LogIsConsistent ==
    \A i \in DOMAIN log : log[i].session # NoSession =>
        /\ log[i].kind \notin Openings =>
              \E j \in DOMAIN log : j < i /\ log[j].kind \in Openings /\ log[j].session = log[i].session
        /\ log[i].kind \in Openings \cup {"CdrSubmitted"} =>
              \A j \in DOMAIN log : log[j] = log[i] => i = j

(* Why remote starts happen once: no second attempt of one is ever sent, and *)
(* the broker serves nothing that was not sent.                              *)
OnlySentIsServed ==
    /\ \A r \in Requests : handlers[r].pc # "free" => r \in served
    /\ \A c \in Calls, n \in Attempts : <<c, n>> \in served => n <= client[c].attempt
    /\ ~RetryNonIdempotent =>
          \A c \in Calls : Op[c] = "AuthorizeRemoteStart" => client[c].attempt = 0

CallsInv == TypeOK /\ SessionsInv /\ OnlySentIsServed

(* Why callers are told the truth. An answer that says yes is about a session *)
(* that is as the caller named it, and stays so.                             *)
IsYes(c, a) == /\ a.kind = "message"
               /\ Op[c] \in {"AuthorizeStart", "AuthorizeStop"} => a.code = "Success"

AnswerHolds(c, n, a) ==
    /\ a # Nothing => Sent(c, n)
    /\ IsYes(c, a) =>
          LET s == IF c \in Starts THEN a.session ELSE SessionOf(c) IN
          /\ s \in DOMAIN sessions
          /\ c \in Starts => sessions[s].point = At[c] /\ sessions[s].medium = With[c]
          /\ Op[c] = "AuthorizeStop" => sessions[s].stopped
          /\ Op[c] = "ChargeDetailRecord" => sessions[s].settled /\ sessions[s].point = At[c]
    /\ Op[c] = "ChargeDetailRecord" /\ a.code = "SessionIsInvalid" =>
          \E i \in DOMAIN cdrs : cdrs[i].session = SessionOf(c)

(* A handler works for the call that reached it; a refusal is no success.    *)
HandlerServes(c, n) ==
    LET h == handlers[<<c, n>>] IN
    /\ h.pc # "free" => c \in Starts /\ Sent(c, n) /\ h.point = At[c] /\ h.medium = With[c]
    /\ h.pc = "record_refusal" => h.code # "Success"

(* A call ends with an answer to one of its attempts, or with none.          *)
CallFollows(c) ==
    LET call == client[c]
        isAnswer == call.outcome # Nothing /\ \E n \in Attempts : call.outcome = answers[c][n]
    IN /\ call.phase = "new" => call.attempt = 0
       /\ call.phase # "new" => c \in Starts \/ Granted(Follows[c])
       /\ call.phase = "ok" => isAnswer /\ call.outcome.kind = "message"
       /\ call.phase = "failed" => isAnswer \/ call.outcome = Transport

SettledByCdr == \A s \in DOMAIN sessions : sessions[s].settled =>
                    \E i \in DOMAIN cdrs : cdrs[i].session = s

TruthInv ==
    /\ CallsInv /\ SettledByCdr /\ StoppedByItsMedium
    /\ \A c \in Calls : CallFollows(c)
    /\ \A c \in Calls, n \in Attempts : AnswerHolds(c, n, answers[c][n]) /\ HandlerServes(c, n)

(* Why the log is: what is in it is of a session, and nothing is missing.    *)
LogInv ==
    /\ \A i \in DOMAIN log : log[i].session # NoSession =>
          /\ log[i].session \in DOMAIN sessions
          /\ log[i].kind = "CdrSubmitted" => sessions[log[i].session].settled
    /\ \A s \in DOMAIN sessions : \E j \in DOMAIN log : log[j].kind \in Openings /\ log[j].session = s

(* Every call comes to an end, whatever the network does. *)
CallsEnd == \A c \in Calls : client[c].phase = "waiting" ~> client[c].phase \in {"ok", "failed"}
=============================================================================
