---------------------------- MODULE ClientCalls -----------------------------
(* Calls through the HTTP client over a network that loses, delays and       *)
(* breaks: post_raw's loop, attempt, and RetryPolicy::should_retry.          *)
EXTENDS Integers, Endpoints

CONSTANTS
    Calls,                  \* the calls made
    Op,                     \* Op[c]: the Operation of a call
    MaxRetries,             \* RetryPolicy::max_retries
    RetryNonIdempotent,     \* RetryPolicy::retry_non_idempotent
    GatewaySays             \* what anything between client and broker may answer: "5xx", "4xx", "310"

ASSUME OpAssumption == Op \in [Calls -> Operations]
ASSUME RetriesAssumption == MaxRetries \in Nat /\ RetryNonIdempotent \in BOOLEAN
ASSUME GatewayAssumption == GatewaySays \subseteq {"5xx", "4xx", "310"}

VARIABLES
    client,     \* client[c]: where post_raw stands: [phase, attempt, outcome]
    answers     \* answers[c][n]: what came back for attempt n, if anything yet

clientVars == <<client, answers>>

Attempts == 0..MaxRetries

(* What can come back: the message asked for; an acknowledgement with        *)
(* Result: false under HTTP 200; a status outside 2xx; another message.      *)
(* "code" is the OICP code or the HTTP status.                               *)
Nothing == [kind |-> "nothing", code |-> "none", session |-> 0]
Message(code, session) == [kind |-> "message", code |-> code, session |-> session]
Refusal(code) == [kind |-> "refusal", code |-> code, session |-> 0]
Http(status) == [kind |-> "http", code |-> status, session |-> 0]
Transport == [kind |-> "transport", code |-> "none", session |-> 0]
Undecodable == [kind |-> "undecodable", code |-> "none", session |-> 0]
Unsent(why) == [kind |-> why, code |-> "none", session |-> 0]     \* post gave up by itself

AnswerKinds == {"nothing", "message", "refusal", "http", "transport", "undecodable",
                "invalid", "endpoint"}
AnswerCodes == {"none", "5xx", "4xx", "Success", "DataError", "NoValidContract", "PartnerNotFound",
                "PartnerDidNotRespond", "SessionIsInvalid", "UnknownEvseId",
                "EvseIdNotHubjectCompatible", "UnauthorizedAccess", "ServiceNotAvailable"}
Answer == [kind : AnswerKinds, code : AnswerCodes, session : Nat]

ClientTypeOK ==
    /\ client \in [Calls -> [phase : {"new", "waiting", "sleeping", "ok", "failed"},
                             attempt : Attempts, outcome : Answer]]
    /\ answers \in [Calls -> [Attempts -> Answer]]

ClientInit ==
    /\ client = [c \in Calls |-> [phase |-> "new", attempt |-> 0, outcome |-> Nothing]]
    /\ answers = [c \in Calls |-> [n \in Attempts |-> Nothing]]

-----------------------------------------------------------------------------
(* A rejection is retryable for the codes of Code::is_retryable; 001, 002,   *)
(* 009 and 021 are left out, for which 310 stands.                           *)
TransientCodes == {"PartnerDidNotRespond", "ServiceNotAvailable"}

IsRetryable(error) ==
    \/ error.kind = "transport"
    \/ error.kind = "http" /\ error.code = "5xx"
    \/ error.kind = "refusal" /\ error.code \in TransientCodes

IsIdempotentToo(op) == TRUE                 \* Mutant: every operation is repeated

IsIdempotent(op) == op \notin ToACpo

ShouldRetryOnceMore(c, error) ==            \* Mutant: one retry too many
    /\ client[c].attempt <= MaxRetries
    /\ IsRetryable(error)
    /\ RetryNonIdempotent \/ IsIdempotent(Op[c])

ShouldRetry(c, error) ==
    /\ client[c].attempt < MaxRetries
    /\ IsRetryable(error)
    /\ RetryNonIdempotent \/ IsIdempotent(Op[c])

IsOkAnything(answer) == answer.kind \in {"message", "refusal"}     \* Mutant: Result is not read

(* attempt: an answer is a success only if it is the message itself. *)
IsOk(answer) == answer.kind = "message"

(* A request is on the wire from the moment it is sent.                      *)
Send(c) ==
    /\ client[c].phase \in {"new", "sleeping"}
    /\ client' = [client EXCEPT ![c].phase = "waiting"]
    /\ UNCHANGED answers

(* What post_raw does with the result of an attempt. *)
ConcludeSameAttempt(c, answer) ==           \* Mutant: attempt is not counted
    LET call == client[c] IN
    client' = [client EXCEPT ![c] =
        IF IsOk(answer) THEN [call EXCEPT !.phase = "ok", !.outcome = answer]
        ELSE IF ShouldRetry(c, answer) THEN [call EXCEPT !.phase = "sleeping"]
        ELSE [call EXCEPT !.phase = "failed", !.outcome = answer]]

Conclude(c, answer) ==
    LET call == client[c] IN
    client' = [client EXCEPT ![c] =
        IF IsOk(answer) THEN [call EXCEPT !.phase = "ok", !.outcome = answer]
        ELSE IF ShouldRetry(c, answer) THEN [call EXCEPT !.phase = "sleeping", !.attempt = call.attempt + 1]
        ELSE [call EXCEPT !.phase = "failed", !.outcome = answer]]

Receive(c) ==
    /\ client[c].phase = "waiting"
    /\ answers[c][client[c].attempt] # Nothing
    /\ Conclude(c, answers[c][client[c].attempt])
    /\ UNCHANGED answers

(* The connection breaks or the timeout runs out; the request may still be   *)
(* on its way, and the answer to it is never read.                           *)
TransportError(c) ==
    /\ client[c].phase = "waiting"
    /\ Conclude(c, Transport)
    /\ UNCHANGED answers

(* Sent(c, n): attempt n of the call is, or was, on the wire. *)
Sent(c, n) == \/ n < client[c].attempt
              \/ n = client[c].attempt /\ client[c].phase \in {"waiting", "ok", "failed"}

(* Only the first thing that comes back for an attempt can be read. *)
Answered(c, n, answer) ==
    answers' = IF answers[c][n] = Nothing THEN [answers EXCEPT ![c][n] = answer] ELSE answers

(* Something between the client and the broker answers in its stead, whether *)
(* or not the broker has the request or will get it.                         *)
GatewayAnswers(c, n) ==
    /\ Sent(c, n)
    /\ answers[c][n] = Nothing
    /\ \E status \in GatewaySays :
            Answered(c, n, IF status = "310" THEN Refusal("PartnerDidNotRespond") ELSE Http(status))
    /\ UNCHANGED client
=============================================================================
