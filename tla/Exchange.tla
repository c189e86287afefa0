------------------------------ MODULE Exchange ------------------------------
(* Requests and their answers between parties: a client (client/http.rs,      *)
(* client/cpo.rs, client/emp.rs) posts to the broker, which serves what only  *)
(* it can serve and forwards the rest to the server of the counterpart        *)
(* (server/cpo.rs, server/emp.rs). The broker itself is Hubject's: it is what *)
(* the library's documents expect of it.                                      *)
EXTENDS ClientCalls, Messages

CONSTANTS
    Parties,
    Party,          \* Party[p]: [role, operator, provider, pathId, certificate, validates, lenient]
    Caller,         \* Caller[c]: the party that makes a call
    Bodies,         \* Bodies[c]: the messages it may be made with
    Together        \* bound: the sets of calls made in one behaviour

ASSUME PartiesAssumption ==
    /\ Caller \in [Calls -> Parties]
    /\ \A p \in Parties : Party[p].role \in Roles /\ Party[p].validates \in BOOLEAN
                          /\ Party[p].lenient \in BOOLEAN

(* What types say of a message: its members, that a remote identification    *)
(* names a contract, that prices are numbers, and that the library's own     *)
(* clients show one credential.                                              *)
ASSUME BodiesAssumption ==
    \A c \in Calls : \A m \in Bodies[c] :
        /\ m = [member \in DOMAIN Blank |-> m[member]]
        /\ \A id \in m.shown : /\ \E i \in DOMAIN Members : Members[i] = id.member
                               /\ id.member = "Remote" => id.contract # NoContract
        /\ \A b \in m.blocks : \A i \in DOMAIN b.products :
              \A k \in DOMAIN b.products[i].fees : b.products[i].fees[k].price \in Int
        /\ Party[Caller[c]].validates => \A id, other \in m.shown : id = other

VARIABLES
    body,           \* body[c]: the message a call was made with
    relay,          \* relay[r]: where a request is: [at, to, reply]
    done,           \* what services were asked to do: [request, party, op, message, accepted]
    shelf,          \* the tariffs the broker holds: [by, block]
    quoted          \* the tariffs it answered with: [to, by, block]

vars == <<clientVars, body, relay, done, shelf, quoted>>

Requests == Calls \X Attempts
Places == {"sent", "forwarded", "abandoned", "handled", "closed"}

Init ==
    /\ ClientInit
    /\ body = [c \in Calls |-> Blank]
    /\ relay = [r \in Requests |-> [at |-> "sent", to |-> Caller[r[1]], reply |-> Nothing]]
    /\ done = {} /\ shelf = {} /\ quoted = {}

-----------------------------------------------------------------------------
(* Transport::post: validate, build the URL, send.                           *)
IdOf(c) == Party[Caller[c]].pathId
PathOf(c) == Path(Op[c], IdOf(c))
CallsMade == {c \in Calls : client[c].phase # "new"}

FailsBefore(c, m) ==
    IF Party[Caller[c]].validates /\ ~Conforms(Op[c], m) THEN "invalid"
    ELSE IF WrongIdKind(Op[c], IdOf(c)) THEN "endpoint" ELSE "no"

Post(c) ==
    /\ client[c].phase = "new"
    /\ \E calls \in Together : CallsMade \cup {c} \subseteq calls
    /\ \E m \in Bodies[c] :
          /\ body' = [body EXCEPT ![c] = m]
          /\ client' = [client EXCEPT ![c] =
                IF FailsBefore(c, m) = "no" THEN [@ EXCEPT !.phase = "waiting"]
                ELSE [@ EXCEPT !.phase = "failed", !.outcome = Unsent(FailsBefore(c, m))]]
    /\ UNCHANGED <<answers, relay, done, shelf, quoted>>

Repeat(c) == client[c].phase = "sleeping" /\ Send(c)

ClientStep(c) ==
    \/ Post(c)
    \/ /\ Repeat(c) \/ Receive(c) \/ TransportError(c)
       /\ UNCHANGED <<body, relay, done, shelf, quoted>>

-----------------------------------------------------------------------------
(* The broker.                                                               *)
OnTheWire(c, n) == Sent(c, n) /\ FailsBefore(c, body[c]) = "no"

Moved(r, at) == relay' = [relay EXCEPT ![r].at = at]

(* An authorization is refused by its own message, the rest by an            *)
(* acknowledgement.                                                          *)
Denied(op, code) == IF op \in {"AuthorizeStart", "AuthorizeStop"} THEN Message(code, 0)
                    ELSE Refusal(code)

(* The text in the path is compared with the certificate.                    *)
IsAuthenticated(c) == SlotsOf(Op[c]) = {} \/ IdOf(c).text = Party[Caller[c]].certificate

(* Who a message is for: the operator of the charging point; the provider of *)
(* a contract it names; any provider if it names none.                       *)
IsFor(op, m, p) ==
    /\ IsServedBy(op, Party[p].role)
    /\ op \in ToACpo => SameOperator(OperatorOf(m.evse), Party[p].operator)
    /\ op \in ToAnEmp => \/ \A id \in m.shown : id.contract = NoContract
                         \/ \E id \in m.shown : SameProvider(ProviderOf(id.contract), Party[p].provider)

Recipients(c) == {p \in Parties : IsFor(Op[c], body[c], p)}

IsProxied(op) == op \in ToACpo \cup ToAnEmp

Refuse(c, n, code) ==
    /\ Moved(<<c, n>>, "closed")
    /\ Answered(c, n, Denied(Op[c], code))
    /\ UNCHANGED <<shelf, quoted>>

Forward(c, n) ==
    /\ \E p \in Recipients(c) : relay' = [relay EXCEPT ![<<c, n>>].at = "forwarded", ![<<c, n>>].to = p]
    /\ UNCHANGED <<answers, shelf, quoted>>

(* Tariffs are kept, and handed to the provider they are for, or to all.     *)
ServeItself(c, n) ==
    /\ Moved(<<c, n>>, "closed")
    /\ Answered(c, n, Message("Success", 0))
    /\ shelf' = IF Op[c] = "PushPricingProductData"
                THEN shelf \cup {[by |-> Caller[c], block |-> b] : b \in body[c].blocks} ELSE shelf
    /\ quoted' = IF Op[c] # "PullPricingProductData" THEN quoted ELSE quoted \cup
            {[to |-> Caller[c], by |-> kept.by, block |-> kept.block] : kept \in
                {k \in shelf : /\ Addressed(k.block.provider, Party[Caller[c]].provider)
                               /\ \E o \in body[c].operators : SameOperator(o, k.block.operator)}}

Take(c, n) ==
    /\ OnTheWire(c, n)
    /\ relay[<<c, n>>].at = "sent"
    /\ IF ~IsAuthenticated(c) THEN Refuse(c, n, "UnauthorizedAccess")
       ELSE IF ~IsProxied(Op[c]) THEN ServeItself(c, n)
       ELSE IF Recipients(c) = {} THEN Refuse(c, n, "PartnerNotFound")
       ELSE Forward(c, n)
    /\ UNCHANGED <<client, body, done>>

(* The partner's answer is passed on, or comes too late to be.               *)
Return(c, n) ==
    /\ relay[<<c, n>>].at = "handled"
    /\ Moved(<<c, n>>, "closed")
    /\ Answered(c, n, relay[<<c, n>>].reply)
    /\ UNCHANGED <<client, body, done, shelf, quoted>>

GiveUp(c, n) ==
    /\ relay[<<c, n>>].at \in {"forwarded", "handled"}
    /\ Moved(<<c, n>>, IF relay[<<c, n>>].at = "forwarded" THEN "abandoned" ELSE "closed")
    /\ Answered(c, n, Denied(Op[c], "PartnerDidNotRespond"))
    /\ UNCHANGED <<client, body, done, shelf, quoted>>

-----------------------------------------------------------------------------
(* A server: the route, accept, and the method of the service.               *)
Accepts(p, op, m) ==
    /\ Decodable(op, m)
    /\ Conforms(op, Decoded(op, m)) \/ Party[p].lenient

Refusals == {"UnknownEvseId", "ServiceNotAvailable"}

ReplyOf(op, accepted, code) == IF accepted THEN Message("Success", 0) ELSE Denied(op, code)

Serve(c, n) ==
    LET r == <<c, n>>
        p == relay[r].to
    IN /\ relay[r].at \in {"forwarded", "abandoned"}
       /\ \E op \in Routed(Party[p].role, PathOf(c)), accepted \in BOOLEAN, code \in Refusals :
            LET accepts == Accepts(p, op, body[c])
                reply == IF accepts THEN ReplyOf(op, accepted, code) ELSE Denied(op, "DataError")
                at == IF relay[r].at = "forwarded" THEN "handled" ELSE "closed"
            IN /\ relay' = [relay EXCEPT ![r] = [at |-> at, to |-> p, reply |-> reply]]
               /\ done' = IF ~accepts THEN done ELSE
                    done \cup {[request |-> r, party |-> p, op |-> op,
                                message |-> Decoded(op, body[c]), accepted |-> accepted]}
       /\ UNCHANGED <<clientVars, body, shelf, quoted>>

Next ==
    \/ \E c \in Calls : ClientStep(c)
    \/ \E c \in Calls, n \in Attempts :
          Take(c, n) \/ Serve(c, n) \/ Return(c, n) \/ GiveUp(c, n)

Spec == Init /\ [][Next]_vars

-----------------------------------------------------------------------------
SomeBody == {Blank} \cup UNION {Bodies[c] : c \in Calls}

TypeOK ==
    /\ ClientTypeOK
    /\ body \in [Calls -> SomeBody]
    /\ \A c \in Calls : body[c] = Blank \/ body[c] \in Bodies[c]
    /\ relay \in [Requests -> [at : Places, to : Parties, reply : Answer]]
    /\ \A d \in done : d.request \in Requests /\ d.party \in Parties /\ d.op \in Operations

(* What a partner did about a call.                                          *)
DoneFor(c) == {d \in done : d.request[1] = c}

ToldYes(c) == client[c].phase = "ok" /\ client[c].outcome.code = "Success"
ToldNo(c) == /\ client[c].outcome.kind \in {"message", "refusal"}
             /\ client[c].phase \in {"ok", "failed"}
             /\ client[c].outcome.code \notin {"Success", "PartnerDidNotRespond"}

(* A yes is a partner's yes to this very operation; a call that was never     *)
(* sent was never done; and a remote start or stop or a reservation that was *)
(* refused was not done, nor is any done twice.                              *)
AnswerIsVerdict ==
    \A c \in Calls :
        /\ ToldYes(c) /\ IsProxied(Op[c]) => \E d \in DoneFor(c) : d.accepted /\ d.op = Op[c]
        /\ client[c].outcome.kind \in {"invalid", "endpoint"} => DoneFor(c) = {}
        /\ Op[c] \in ToACpo => /\ ToldNo(c) => \A d \in DoneFor(c) : ~d.accepted
                               /\ \A d, e \in DoneFor(c) : d = e

(* A service acts at its own charging points, or for its own driver, on what *)
(* the caller asked; and unless it was told to overlook rules, a remote      *)
(* start charges a contract of the provider that asks for it.                *)
DoneAsAsked ==
    \A d \in done :
        LET c == d.request[1]
            mine == Party[d.party]
            ids == d.message.shown
        IN /\ d.op = Op[c] /\ IsServedBy(d.op, mine.role)
           /\ ids \subseteq body[c].shown
           /\ d.op \in Identified => \E id \in ids : ids = {id}
           /\ d.op \in ToACpo => SameOperator(OperatorOf(d.message.evse), mine.operator)
           /\ d.op \in ToACpo /\ ~mine.lenient =>
                 \A id \in ids : /\ id.member = "Remote"
                                 /\ SameProvider(ProviderOf(id.contract), d.message.provider)
           /\ d.op \in ToAnEmp /\ Party[Caller[c]].validates =>
                 \A id \in ids : id.contract # NoContract =>
                    SameProvider(ProviderOf(id.contract), mine.provider)

(* A provider can price a session with every tariff it is quoted by a        *)
(* library's client: one product by one name, at most one floor and ceiling  *)
(* of a unit, in this order, and a fixed fee that does not depend on it.     *)
CatalogueIsPriceable ==
    \A q \in quoted : Party[q.by].validates =>
        LET products == q.block.products IN
        /\ \A i, j \in DOMAIN products : products[i].id = products[j].id => i = j
        /\ \A i \in DOMAIN products :
              /\ \A unit \in {products[i].fees[k].unit : k \in DOMAIN products[i].fees} :
                    Priceable(products[i], unit)
              /\ HasFixedFee(products[i]) => products[i].price = 0

-----------------------------------------------------------------------------
(* The inductive invariant. What an answer says of its request: a success is *)
(* a partner's, and after a refusal none accepts.                            *)
Verdict(r, answer) ==
    /\ answer.code = "Success" => \E d \in done : d.request = r /\ d.accepted /\ d.op = Op[r[1]]
    /\ answer # Nothing /\ answer.code \notin {"Success", "PartnerDidNotRespond"} =>
            \A d \in done : d.request = r => ~d.accepted

(* A request moves on only once it is sent, and has its answer only when it  *)
(* is out of the broker's hands; only a partner that was given up on may     *)
(* still act after it.                                                       *)
RequestInv(c, n) ==
    LET r == <<c, n>> IN
    /\ relay[r].at # "sent" => OnTheWire(c, n)
    /\ relay[r].at \in {"sent", "forwarded", "handled"} => answers[c][n] = Nothing
    /\ relay[r].at = "abandoned" => answers[c][n].code = "PartnerDidNotRespond"
    /\ relay[r].at \in {"forwarded", "abandoned", "handled"} =>
            IsProxied(Op[c]) /\ relay[r].to \in Recipients(c)
    /\ relay[r].at = "handled" => /\ relay[r].reply.kind \in {"message", "refusal"}
                                  /\ Verdict(r, relay[r].reply)
    /\ answers[c][n] # Nothing => answers[c][n].kind \in {"message", "refusal"}
    /\ IsProxied(Op[c]) => Verdict(r, answers[c][n])

RelayInv == \A c \in Calls, n \in Attempts : RequestInv(c, n)

(* What was done was asked for, of one that may serve it, and once.          *)
DoneInv ==
    /\ \A d \in done : LET c == d.request[1] IN
        /\ relay[d.request].at \in {"handled", "closed"}
        /\ d.op = Op[c] /\ IsProxied(Op[c])
        /\ d.party \in Recipients(c)
        /\ Accepts(d.party, d.op, body[c])
        /\ d.message = Decoded(d.op, body[c])
    /\ \A d, e \in done : d.request = e.request => d = e

(* A call ends with an answer that came, with none, or with what post says.  *)
OutcomeInv ==
    \A c \in Calls :
        /\ \/ client[c].outcome \in {Nothing, Transport}
           \/ \E n \in Attempts : client[c].outcome = answers[c][n]
           \/ /\ client[c].outcome \in {Unsent("invalid"), Unsent("endpoint")}
              /\ FailsBefore(c, body[c]) # "no"
        /\ client[c].phase = "new" => client[c].attempt = 0 /\ client[c].outcome = Nothing
        /\ Op[c] \in ToACpo /\ ~RetryNonIdempotent => client[c].attempt = 0

ExchangeInv == TypeOK /\ RelayInv /\ DoneInv /\ OutcomeInv

(* A tariff that is kept or quoted was pushed, past the checks of its client. *)
CatalogueInv ==
    \A k \in shelf \cup quoted :
        /\ \E c \in Calls : \E m \in Bodies[c] : k.block \in m.blocks
        /\ Party[k.by].validates => BlockConforms(k.block)
=============================================================================
