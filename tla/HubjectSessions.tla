-------------------------- MODULE HubjectSessions ---------------------------
(* The broker's sessions, from testkit/mock.rs.  authorize_start and         *)
(* remote_start take the lock several times, so each is a handler with a     *)
(* step per acquisition; every other operation is one step.                  *)
EXTENDS Integers, Sequences

CONSTANTS
    Points,         \* charging points
    Media,          \* identifications: [contract, provider, card]
    Unnamed,        \* a contract or a card an identification does not name
    Emps,           \* the registered EMPs
    FirstEmp,       \* the one registered first
    Authorizes,     \* Authorizes[emp][medium]: what MockEmp::decide says
    Requests        \* one handler for each request that may arrive

ASSUME EmpsAssumption == FirstEmp \in Emps
ASSUME PointsAssumption == Points # {} /\ Media # {}
ASSUME MediaAssumption == \A m \in Media : DOMAIN m = {"contract", "provider", "card"}

VARIABLES
    points,         \* points[p]: "absent", or held and "compatible" or "incompatible"
    sessions,       \* Inner::sessions: identifier -> [point, medium, stopped, settled]
    nextSession,    \* Inner::next_session
    cdrs,           \* Inner::cdrs: [session, point]
    log,            \* Inner::events: [kind, session]
    handlers        \* handlers[r]: [pc, kind, point, medium, session, code]

sessionVars == <<points, sessions, nextSession, cdrs, log, handlers>>

NoSession == 0
Statuses == {"absent", "compatible", "incompatible"}
Codes == {"Success", "DataError", "NoValidContract", "PartnerNotFound",
          "PartnerDidNotRespond", "SessionIsInvalid", "UnknownEvseId", "EvseIdNotHubjectCompatible"}
EventKinds == {"Authorized", "Refused", "Stopped", "RemoteStartRequested", "CdrSubmitted",
               "NotificationReceived"}
Pcs == {"free", "knows_evse", "compatible", "route", "new_session_id", "insert",
        "record_refusal", "answered"}

Session == [point : Points, medium : Media, stopped : BOOLEAN, settled : BOOLEAN]
Handler == [pc : Pcs, kind : {"none", "start", "remote"}, point : Points, medium : Media,
            session : Nat, code : Codes]

SessionsTypeOK ==
    /\ points \in [Points -> Statuses]
    /\ nextSession \in Nat \ {0}
    /\ DOMAIN sessions \subseteq Nat
    /\ \A s \in DOMAIN sessions : sessions[s] \in Session
    /\ cdrs \in Seq([session : Nat, point : Points])
    /\ log \in Seq([kind : EventKinds, session : Nat])
    /\ handlers \in [Requests -> Handler]

FreeHandler == [pc |-> "free", kind |-> "none", point |-> CHOOSE p \in Points : TRUE,
                medium |-> CHOOSE m \in Media : TRUE, session |-> NoSession, code |-> "Success"]

SessionsInit ==
    /\ points \in [Points -> Statuses]
    /\ sessions = << >>
    /\ nextSession = 1
    /\ cdrs = << >>
    /\ log = << >>
    /\ handlers = [r \in Requests |-> FreeHandler]

-----------------------------------------------------------------------------
(* Inner::events grows under the lock of the step that has something to tell. *)
Logged(kind, session) == log' = Append(log, [kind |-> kind, session |-> session])

(* A CPO's push adds, changes or withdraws a charging point. *)
ChangePoint(p, status) ==
    /\ points[p] # status
    /\ points' = [points EXCEPT ![p] = status]
    /\ UNCHANGED <<sessions, nextSession, cdrs, log, handlers>>

(* A request for a session reaches its handler. *)
Arrive(r, kind, p, m) ==
    /\ handlers[r].pc = "free"
    /\ handlers' = [handlers EXCEPT ![r] = [pc |-> "knows_evse", kind |-> kind, point |-> p,
                                            medium |-> m, session |-> NoSession, code |-> "Success"]]
    /\ UNCHANGED <<points, sessions, nextSession, cdrs, log>>

(* The handler stops with a code; only authorize_start records a refusal. *)
RefusalPc(r) == IF handlers[r].kind = "start" THEN "record_refusal" ELSE "answered"

(* Go on to pc if the check under this lock succeeds, else refuse. *)
Check(r, here, passes, next, code) ==
    /\ handlers[r].pc = here
    /\ handlers' = IF passes THEN [handlers EXCEPT ![r].pc = next]
                   ELSE [handlers EXCEPT ![r].pc = RefusalPc(r), ![r].code = code]
    /\ UNCHANGED <<points, sessions, nextSession, cdrs, log>>

KnowsEvse(r) == Check(r, "knows_evse", points[handlers[r].point] # "absent",
                      "compatible", "UnknownEvseId")

(* A point withdrawn since the last lock is "not compatible". A remote start *)
(* is not routed: the EMP that asks is the one.                              *)
IsCompatible(r) == Check(r, "compatible", points[handlers[r].point] = "compatible",
                         IF handlers[r].kind = "start" THEN "route" ELSE "new_session_id",
                         "EvseIdNotHubjectCompatible")

(* The contract names its EMP; an identification without one goes to the     *)
(* first EMP.                                                                *)
Routes(m) == IF m.contract = Unnamed THEN {FirstEmp} ELSE Emps \cap {m.provider}

Decided(m) == IF Routes(m) = {} THEN "PartnerNotFound"
              ELSE IF \A emp \in Routes(m) : Authorizes[emp][m] THEN "Success"
              ELSE "NoValidContract"

RouteAndDecide(r) ==
    LET code == Decided(handlers[r].medium)
    IN Check(r, "route", code = "Success", "new_session_id", code)

NewSessionIdUnmoved(r) ==                   \* Mutant: next_session is not advanced
    /\ handlers[r].pc = "new_session_id"
    /\ handlers' = [handlers EXCEPT ![r].pc = "insert", ![r].session = nextSession]
    /\ UNCHANGED <<points, sessions, nextSession, cdrs, log>>

NewSessionId(r) ==
    /\ handlers[r].pc = "new_session_id"
    /\ handlers' = [handlers EXCEPT ![r].pc = "insert", ![r].session = nextSession]
    /\ nextSession' = nextSession + 1
    /\ UNCHANGED <<points, sessions, cdrs, log>>

Insert(r) ==
    LET h == handlers[r] IN
    /\ h.pc = "insert"
    /\ sessions' = [s \in DOMAIN sessions \cup {h.session} |->
                       IF s = h.session
                       THEN [point |-> h.point, medium |-> h.medium,
                             stopped |-> FALSE, settled |-> FALSE]
                       ELSE sessions[s]]
    /\ Logged(IF h.kind = "start" THEN "Authorized" ELSE "RemoteStartRequested", h.session)
    /\ handlers' = [handlers EXCEPT ![r].pc = "answered"]
    /\ UNCHANGED <<points, nextSession, cdrs>>

RecordRefusal(r) ==
    /\ handlers[r].pc = "record_refusal"
    /\ Logged("Refused", NoSession)
    /\ handlers' = [handlers EXCEPT ![r].pc = "answered"]
    /\ UNCHANGED <<points, sessions, nextSession, cdrs>>

-----------------------------------------------------------------------------
(* medium_mismatch: only what both identifications name is compared. *)
Differ(a, b) == a # Unnamed /\ b # Unnamed /\ a # b
MediumMismatch(opened, closing) == \/ Differ(opened.contract, closing.contract)
                                   \/ Differ(opened.card, closing.card)

StopCodeAnyMedium(s, m) ==                  \* Mutant: the medium is not compared
    IF s \in DOMAIN sessions THEN "Success" ELSE "SessionIsInvalid"

StopCode(s, m) == IF s \in DOMAIN sessions /\ ~MediumMismatch(sessions[s].medium, m)
                  THEN "Success" ELSE "SessionIsInvalid"

AuthorizeStop(s, m) ==
    /\ IF StopCode(s, m) = "Success"
       THEN sessions' = [sessions EXCEPT ![s].stopped = TRUE] /\ Logged("Stopped", s)
       ELSE UNCHANGED <<sessions, log>>
    /\ UNCHANGED <<points, nextSession, cdrs, handlers>>

CdrCodeAgain(s, p) == IF s \notin DOMAIN sessions THEN "SessionIsInvalid"
                      ELSE IF sessions[s].point # p THEN "DataError"
                      ELSE "Success"        \* Mutant: settled is not looked at

(* Unknown session, wrong charging point, already settled: in this order. *)
CdrCode(s, p) == IF s \notin DOMAIN sessions THEN "SessionIsInvalid"
                 ELSE IF sessions[s].point # p THEN "DataError"
                 ELSE IF sessions[s].settled THEN "SessionIsInvalid"
                 ELSE "Success"

SubmitCdr(s, p) ==
    /\ IF CdrCode(s, p) = "Success"
       THEN /\ sessions' = [sessions EXCEPT ![s].settled = TRUE]
            /\ cdrs' = Append(cdrs, [session |-> s, point |-> p])
            /\ Logged("CdrSubmitted", s)
       ELSE UNCHANGED <<sessions, cdrs, log>>
    /\ UNCHANGED <<points, nextSession, handlers>>

NotifyCode(s) == IF s \in DOMAIN sessions THEN "Success" ELSE "SessionIsInvalid"

(* A refused notification leaves nothing behind. *)
Notify(s) ==
    /\ IF NotifyCode(s) = "Success" THEN Logged("NotificationReceived", s) ELSE UNCHANGED log
    /\ UNCHANGED <<points, sessions, nextSession, cdrs, handlers>>

HandlerStep(r) == \/ KnowsEvse(r) \/ IsCompatible(r) \/ RouteAndDecide(r)
                  \/ NewSessionId(r) \/ Insert(r) \/ RecordRefusal(r)

-----------------------------------------------------------------------------
(* The broker alone, with any requests: what SessionLedger promises of it.   *)
SessionsNext ==
    \/ \E p \in Points, status \in Statuses : ChangePoint(p, status)
    \/ \E r \in Requests, kind \in {"start", "remote"}, p \in Points, m \in Media :
            Arrive(r, kind, p, m)
    \/ \E r \in Requests : HandlerStep(r)
    \/ \E s \in Nat, m \in Media : AuthorizeStop(s, m)
    \/ \E s \in Nat, p \in Points : SubmitCdr(s, p)
    \/ \E s \in Nat : Notify(s)

SessionsSpec == SessionsInit /\ [][SessionsNext]_sessionVars

Terms == [point : Points, medium : Media]

Ledger == INSTANCE SessionLedger WITH
    opened <- [s \in DOMAIN sessions |-> [point |-> sessions[s].point, medium |-> sessions[s].medium]],
    stopped <- {s \in DOMAIN sessions : sessions[s].stopped},
    settlements <- [i \in DOMAIN cdrs |-> cdrs[i].session]

KeepsLedger == Ledger!LedgerSpec

-----------------------------------------------------------------------------
(* Why the ledger is kept: the inductive invariant RoamingCalls_proofs       *)
(* proves.  A number taken under one lock is still fresh under a later one.  *)
Numbered(r) == handlers[r].pc = "insert"

NumbersFresh ==
    /\ \A s \in DOMAIN sessions : s < nextSession
    /\ \A r \in Requests : Numbered(r) =>
            handlers[r].session < nextSession /\ handlers[r].session \notin DOMAIN sessions
    /\ \A q, r \in Requests :
            Numbered(q) /\ Numbered(r) /\ handlers[q].session = handlers[r].session => q = r

CdrsSettle ==
    \A i \in DOMAIN cdrs : /\ cdrs[i].session \in DOMAIN sessions
                           /\ sessions[cdrs[i].session].settled

SessionsInv == SessionsTypeOK /\ NumbersFresh /\ CdrsSettle
=============================================================================
