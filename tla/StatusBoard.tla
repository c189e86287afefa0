----------------------------- MODULE StatusBoard -----------------------------
(* Dynamic EVSE status over an unreliable network: operators push what their *)
(* charging points are doing, EMPs pull it in the three shapes that share    *)
(* one endpoint, each through the retrying client, and the broker's router   *)
(* and status map stand between them.                                        *)
EXTENDS ClientCalls, Sequences, FiniteSets

CONSTANTS
    Evse,           \* charging points
    Operators,      \* the CPOs that push
    Owner,          \* Owner[e]: the operator an EvseID names
    FirstLive,      \* the charging points published at first
    Statuses,       \* what a charging point may be doing
    FirstStatus,    \* and is doing at first
    Pusher,         \* Pusher[c]: the operator of a push
    Batches,        \* the sets of charging points an operator pushes together
    Questions,      \* what an EMP may ask: see Question
    Late,           \* may a request arrive after its attempt was given up?
    MaxChanges,     \* bound: how often charging points change status
    MaxMoves        \* bound: how often charging points are published or withdrawn

Pushes == {c \in Calls : Op[c] = "PushEvseStatus"}
Pulls == {c \in Calls : Op[c] = "PullEvseStatus"}

(* The fields an EMP's question fills in, besides ProviderID. *)
Question == [field : {"none"}, asked : {{}}]
            \cup [field : {"EvseStatus"}, asked : {{s} : s \in Statuses}]
            \cup [field : {"EvseID"}, asked : SUBSET Evse \ {{}}]
            \cup [field : {"OperatorID"}, asked : SUBSET Operators \ {{}}]

(* Calls are numbered in the order an operator makes them.                   *)
ASSUME BoardAssumption ==
    /\ Calls \subseteq Nat /\ Calls = Pushes \cup Pulls
    /\ Owner \in [Evse -> Operators] /\ Pusher \in [Pushes -> Operators]
    /\ FirstLive \subseteq Evse /\ Batches \subseteq SUBSET Evse
    /\ FirstStatus \in Statuses /\ Questions \subseteq Question
    /\ Late \in BOOLEAN
    /\ MaxChanges \in Nat /\ MaxMoves \in Nat

VARIABLES
    real,       \* real[e]: what e has been doing, from the first status to the present one
    live,       \* the charging points whose data the broker holds
    statuses,   \* statuses[e]: which of real[e] the broker was told last; 0 for none
    carried,    \* carried[c]: what a push says: an index into real[e], or NotListed
    question,   \* question[c]: what a pull asks
    told,       \* told[c]: what the attempt a pull waits for was answered
    served,     \* the requests the broker has taken from the wire
    span,       \* span[c]: what to judge the answer of a pull by
    moves       \* how often charging points were published or withdrawn

boardVars == <<real, live, statuses, moves>>
pullVars == <<question, told, span>>
vars == <<clientVars, boardVars, carried, pullVars, served>>

Requests == Calls \X Attempts

(* What an answer, or a push, says of a charging point. *)
Unknown == 0
NotListed == -1
NotFound == -2
Saying == Nat \cup {NotListed, NotFound}
Silence == [e \in Evse |-> NotListed]

NoQuestion == [field |-> "none", asked |-> {}]

(* While a pull runs: what was published all the time, what at some time,    *)
(* and which pushes had been acknowledged when it began.                     *)
Span == [always : SUBSET Evse, ever : SUBSET Evse, before : SUBSET Pushes]

TypeOK ==
    /\ ClientTypeOK
    /\ real \in [Evse -> Seq(Statuses) \ {<< >>}]
    /\ live \in SUBSET Evse
    /\ statuses \in [Evse -> Nat]
    /\ carried \in [Calls -> [Evse -> Saying]]
    /\ question \in [Calls -> Question]
    /\ told \in [Calls -> [Evse -> Saying]]
    /\ served \in SUBSET Requests
    /\ span \in [Calls -> Span]
    /\ moves \in 0..MaxMoves

Init ==
    /\ ClientInit
    /\ real = [e \in Evse |-> <<FirstStatus>>]
    /\ live = FirstLive
    /\ statuses = [e \in Evse |-> 0]
    /\ carried = [c \in Calls |-> Silence]
    /\ question = [c \in Calls |-> NoQuestion]
    /\ told = [c \in Calls |-> Silence]
    /\ served = {}
    /\ span = [c \in Calls |-> [always |-> {}, ever |-> {}, before |-> {}]]
    /\ moves = 0

-----------------------------------------------------------------------------
(* The world of the operators. *)
Now(e) == Len(real[e])

Changes == UNION {{e} \X (2..Now(e)) : e \in Evse}

Change(e, s) ==
    /\ Cardinality(Changes) < MaxChanges
    /\ s # real[e][Now(e)]
    /\ real' = [real EXCEPT ![e] = Append(@, s)]
    /\ UNCHANGED <<clientVars, live, statuses, moves, carried, pullVars, served>>

Waiting(c) == client[c].phase \notin {"new", "ok", "failed"}

(* push_evse_data inserts a charging point's record or deletes it; the       *)
(* status map is not touched.                                                *)
MoveTo(points) ==
    /\ moves < MaxMoves
    /\ moves' = moves + 1
    /\ live' = points
    /\ span' = [c \in Calls |-> IF Waiting(c)
                                THEN [span[c] EXCEPT !.always = @ \cap points, !.ever = @ \cup points]
                                ELSE span[c]]
    /\ UNCHANGED <<clientVars, real, statuses, carried, question, told, served>>

Publish(e) == e \notin live /\ MoveTo(live \cup {e})
Withdraw(e) == e \in live /\ MoveTo(live \ {e})

-----------------------------------------------------------------------------
(* update_evse_status: what the points are doing at this moment.  An         *)
(* operator awaits one push before it makes the next.                        *)
SendPush(c, keys) ==
    /\ client[c].phase = "new"
    /\ \A d \in Pushes : d < c /\ Pusher[d] = Pusher[c] => client[d].phase \in {"ok", "failed"}
    /\ \A e \in keys : Owner[e] = Pusher[c]
    /\ Send(c)
    /\ carried' = [carried EXCEPT ![c] = [e \in Evse |-> IF e \in keys THEN Now(e) ELSE NotListed]]
    /\ UNCHANGED <<boardVars, pullVars, served>>

Acknowledged == {c \in Pushes : client[c].phase = "ok"}

(* pull_evse_status, pull_evse_status_by_id, pull_evse_status_by_operator_id *)
SendPull(c, q) ==
    /\ client[c].phase = "new"
    /\ Send(c)
    /\ question' = [question EXCEPT ![c] = q]
    /\ span' = [span EXCEPT ![c] = [always |-> live, ever |-> live, before |-> Acknowledged]]
    /\ UNCHANGED <<boardVars, carried, told, served>>

(* post_raw sends the same body again. *)
SendAgain(c) ==
    /\ client[c].phase = "sleeping"
    /\ Send(c)
    /\ told' = [told EXCEPT ![c] = Silence]
    /\ UNCHANGED <<boardVars, carried, question, span, served>>

Hear(c) == (Receive(c) \/ TransportError(c)) /\ UNCHANGED <<boardVars, carried, pullVars, served>>

(* Is the attempt still waited for?  An answer to any other is never read. *)
InTime(c, n) == n = client[c].attempt /\ client[c].phase = "waiting"

-----------------------------------------------------------------------------
(* The broker takes a request from the wire, at most once. *)
Take(c, n) ==
    /\ Sent(c, n)
    /\ <<c, n>> \notin served
    /\ Late \/ InTime(c, n)
    /\ served' = served \cup {<<c, n>>}
    /\ UNCHANGED client

ServePushOnce(c, n) ==              \* Mutant: a status once told is not replaced
    /\ c \in Pushes
    /\ Take(c, n)
    /\ statuses' = [e \in Evse |-> IF carried[c][e] # NotListed /\ statuses[e] = 0
                                   THEN carried[c][e] ELSE statuses[e]]
    /\ Answered(c, n, Message("Success", 0))
    /\ UNCHANGED <<real, live, moves, carried, pullVars>>

(* push_evse_status replaces the record of each point named; it asks neither *)
(* for the actionType nor whether the broker knows the point.                *)
ServePush(c, n) ==
    /\ c \in Pushes
    /\ Take(c, n)
    /\ statuses' = [e \in Evse |-> IF carried[c][e] # NotListed THEN carried[c][e] ELSE statuses[e]]
    /\ Answered(c, n, Message("Success", 0))
    /\ UNCHANGED <<real, live, moves, carried, pullVars>>

StatusIs(e, s) == statuses[e] # Unknown /\ real[e][statuses[e]] = s

ListPushed(wanted) ==               \* Mutant: a point without a status is left out
    [e \in Evse |-> IF /\ e \in live /\ statuses[e] # Unknown
                       /\ wanted = {} \/ \E s \in wanted : StatusIs(e, s)
                    THEN statuses[e] ELSE NotListed]

(* pull_evse_status: every published point the filter lets pass. *)
List(wanted) ==
    [e \in Evse |-> IF e \in live /\ (wanted = {} \/ \E s \in wanted : StatusIs(e, s))
                    THEN statuses[e] ELSE NotListed]

(* pull_evse_status_by_id: what was pushed, else whether it is published.    *)
LookUp(ids) ==
    [e \in Evse |-> IF e \notin ids THEN NotListed
                    ELSE IF statuses[e] # 0 THEN statuses[e]
                    ELSE IF e \in live THEN Unknown
                    ELSE NotFound]

(* The router tells the shapes apart by decoding.  A body decodes if the     *)
(* required fields are there; any other field is an extension.               *)
Decodes(q, required) == required \subseteq {"ProviderID", q.field}

LooksLikeById(q) == Decodes(q, {"ProviderID", "EvseID"})

AnswerTo(q) ==
    IF LooksLikeById(q) THEN [type |-> "EvseStatusByIdResponse", says |-> LookUp(q.asked \cap Evse)]
    ELSE [type |-> "EvseStatusResponse",
          says |-> List(IF q.field = "EvseStatus" THEN q.asked ELSE {})]

(* The type the client's method decodes the answer as. *)
Expected(q) == IF q.field = "EvseID" THEN "EvseStatusByIdResponse" ELSE "EvseStatusResponse"

ServePull(c, n) ==
    LET answer == AnswerTo(question[c]) IN
    /\ c \in Pulls
    /\ Take(c, n)
    /\ told' = IF InTime(c, n) THEN [told EXCEPT ![c] = answer.says] ELSE told
    /\ Answered(c, n, IF answer.type = Expected(question[c]) THEN Message("Success", 0)
                                                             ELSE Undecodable)
    /\ UNCHANGED <<boardVars, carried, question, span>>

-----------------------------------------------------------------------------
Next ==
    \/ \E e \in Evse, s \in Statuses : Change(e, s)
    \/ \E e \in Evse : Publish(e) \/ Withdraw(e)
    \/ \E c \in Pushes, keys \in Batches : SendPush(c, keys)
    \/ \E c \in Pulls, q \in Questions : SendPull(c, q)
    \/ \E c \in Calls : SendAgain(c) \/ Hear(c)
    \/ \E c \in Calls, n \in Attempts : ServePush(c, n) \/ ServePull(c, n)

Spec == Init /\ [][Next]_vars

-----------------------------------------------------------------------------
(* What an EMP whose pull succeeded has read. *)
Answers == {c \in Pulls : client[c].phase = "ok"}
Listed(c) == {e \in Evse : told[c][e] # NotListed}

(* A push that was acknowledged stays told: no repetition of an earlier push *)
(* takes the broker back.  retry.rs, is_idempotent: "a push of state         *)
(* (idempotent by construction)".                                            *)
AcknowledgedIsTold == \A c \in Acknowledged, e \in Evse : statuses[e] >= carried[c][e]

(* An EMP is told nothing older than what operators had been acknowledged    *)
(* when it asked: a pull answers from the broker's map of the moment, and    *)
(* never with the answer to an attempt that was given up.                    *)
ToldIsFresh ==
    \A c \in Answers : \A e \in Listed(c), push \in span[c].before :
        carried[push][e] # NotListed => told[c][e] >= carried[push][e]

(* A pull by status is told of a point that was published all the while and  *)
(* has been in the status asked for since an operator, acknowledged before   *)
(* the EMP asked, said what it was doing.                                    *)
PassesFilter(c) ==
    question[c].field = "EvseStatus" =>
        \A e \in span[c].always, push \in span[c].before :
            /\ carried[push][e] # NotListed
            /\ \A i \in carried[push][e]..Now(e) : real[e][i] \in question[c].asked
            => e \in Listed(c)

ToldByStatus == \A c \in Answers : PassesFilter(c)

(* So a status, once acknowledged, is what every later pull tells or newer,   *)
(* and what a pull by status finds.                                          *)
StatusIsFresh == AcknowledgedIsTold /\ ToldIsFresh /\ ToldByStatus

(* The router takes a pull of some operators' points for one of all points:  *)
(* its body decodes as that of pull_evse_status, OperatorID an extension.    *)
(* (Against server.rs:182, "told apart by their body", and client/emp.rs:342, *)
(* "every charging point of specific operators".)                            *)
AsksForAll(q) == q.field \in {"none", "OperatorID"}

OmitsNothing(c) ==
    LET q == question[c] IN
    /\ q.field = "EvseID" => Listed(c) = q.asked
    /\ q.field # "EvseID" => Listed(c) \subseteq span[c].ever
    /\ AsksForAll(q) => span[c].always \subseteq Listed(c)
    /\ q.field = "EvseStatus" =>
          \A e \in Listed(c) : told[c][e] \in 1..Now(e) /\ real[e][told[c][e]] \in q.asked
    /\ \A e \in Evse : told[c][e] = NotFound => e \notin span[c].always

(* mock.rs: "reported as Unknown rather than omitted", and EvseNotFound      *)
(* "rather than being dropped from the answer".  A pull by id tells of every *)
(* id asked and of no other.  A pull without a filter tells of every point   *)
(* that was published all the while and of none that never was, and so, in   *)
(* this mock, does a pull by operators, whichever were asked for.  A pull by *)
(* status tells only of points that had that status.  "Not found", which "an *)
(* EMP can tell from not returned", is said only of a point that was         *)
(* withdrawn at some moment while the pull ran.                              *)
NothingIsOmitted == \A c \in Answers : OmitsNothing(c)

-----------------------------------------------------------------------------
Started(c) == client[c].phase # "new"
Done(c) == client[c].phase \in {"ok", "failed"}

(* An operator makes one push after the other, of its own points alone, and  *)
(* each says what they are doing when it is made.                            *)
PushesInTurn ==
    /\ \A c, d \in Pushes :
          c < d /\ Pusher[c] = Pusher[d] =>
             /\ Started(d) => Done(c)
             /\ \A e \in Evse : carried[d][e] # NotListed => carried[c][e] <= carried[d][e]
    /\ \A c \in Pushes, e \in Evse :
          carried[c][e] # NotListed =>
             Started(c) /\ Owner[e] = Pusher[c] /\ carried[c][e] \in 1..Now(e)

(* Only what was sent is answered, and only the message acknowledges a push. *)
AnswersAreAsked ==
    \A c \in Calls :
        /\ \A n \in Attempts : answers[c][n] # Nothing => Sent(c, n)
        /\ client[c].phase = "ok" => \E n \in Attempts : answers[c][n].kind = "message"
        /\ ~Started(c) => client[c].attempt = 0

(* A push that the broker answered is told, whether or not the answer came   *)
(* back: the operator makes the next only when it is done with this one.     *)
AnsweredIsTold ==
    \A c \in Pushes, n \in Attempts :
        answers[c][n].kind = "message" => \A e \in Evse : statuses[e] >= carried[c][e]

(* ToldIsFresh, from the moment the broker answers.                          *)
ReadIsFresh ==
    \A c \in Pulls : \A e \in Listed(c), push \in span[c].before :
        carried[push][e] # NotListed => told[c][e] >= carried[push][e]

(* A pull's span is of the time since it was made, and before it is made it  *)
(* is told nothing.                                                          *)
PullsAreSpanned ==
    \A c \in Pulls :
        /\ span[c].before \subseteq Acknowledged
        /\ Waiting(c) => span[c].always \subseteq live /\ live \subseteq span[c].ever
        /\ ~Started(c) => Listed(c) = {}

(* The broker was told what the points have been doing, and nothing else.    *)
ToldIsReal == \A e \in Evse : statuses[e] \in 0..Now(e)

(* The attempt a pull waits for was answered, or that answer was taken.      *)
Read(c) ==
    \/ client[c].phase = "ok"
    \/ client[c].phase = "waiting" /\ answers[c][client[c].attempt].kind = "message"

(* NothingIsOmitted and ToldByStatus, from the moment the broker answers.    *)
NothingIsUnread == \A c \in Pulls : Read(c) => OmitsNothing(c)
FilterIsRead == \A c \in Pulls : Read(c) => PassesFilter(c)

BoardInv ==
    TypeOK /\ PushesInTurn /\ AnswersAreAsked /\ PullsAreSpanned /\ ToldIsReal /\ NothingIsUnread

(* This takes that no request arrives after its attempt was given up.        *)
FreshInv == AnsweredIsTold /\ ReadIsFresh /\ FilterIsRead
=============================================================================
