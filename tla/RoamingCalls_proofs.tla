------------------------ MODULE RoamingCalls_proofs -------------------------
(* What holds of the broker's session table under any requests: it keeps the *)
(* promises of SessionLedger, although a start takes the lock once for its   *)
(* number and again to insert it.  And what holds of calls over any network, *)
(* with any number of callers and of retries: the types, the ledger, and     *)
(* that a remote start happens once.                                         *)
EXTENDS RoamingCalls, TLAPS

(* What a step of a handler may be, with the parts of the state it can move. *)
LEMMA CheckIsLocal ==
    ASSUME NEW r \in Requests, NEW here, NEW passes, NEW next \in Pcs, NEW code \in Codes,
           next # "insert", SessionsTypeOK, Check(r, here, passes, next, code)
    PROVE  /\ handlers' \in [Requests -> Handler]
           /\ \A q \in Requests : handlers'[q].session = handlers[q].session
           /\ \A q \in Requests : handlers'[q].pc = "insert" => handlers[q].pc = "insert"
<1>1. RefusalPc(r) \in Pcs /\ RefusalPc(r) # "insert"
  BY DEF RefusalPc, Pcs
<1>2. handlers \in [Requests -> Handler] BY DEF SessionsTypeOK
<1>3. CASE passes
  <2>1. handlers' = [handlers EXCEPT ![r].pc = next] BY <1>3 DEF Check
  <2> QED BY <2>1, <1>2 DEF Handler
<1>4. CASE ~passes
  <2>1. handlers' = [handlers EXCEPT ![r].pc = RefusalPc(r), ![r].code = code] BY <1>4 DEF Check
  <2> QED BY <2>1, <1>1, <1>2 DEF Handler
<1> QED BY <1>3, <1>4

(* A Check that is a step of some handler keeps the whole invariant. *)
LEMMA CheckKeeps ==
    ASSUME NEW r \in Requests, NEW here, NEW passes, NEW next \in Pcs, NEW code \in Codes,
           next # "insert", SessionsInv, Check(r, here, passes, next, code)
    PROVE  SessionsInv'
<1>1. SessionsTypeOK BY DEF SessionsInv
<1>2. /\ handlers' \in [Requests -> Handler]
      /\ \A q \in Requests : handlers'[q].session = handlers[q].session
      /\ \A q \in Requests : handlers'[q].pc = "insert" => handlers[q].pc = "insert"
  BY <1>1, CheckIsLocal
<1>3. UNCHANGED <<points, sessions, nextSession, cdrs, log>> BY DEF Check
<1> QED BY <1>1, <1>2, <1>3 DEF SessionsInv, SessionsTypeOK, NumbersFresh, Numbered, CdrsSettle

LEMMA InitKeeps == SessionsInit => SessionsInv
<1> SUFFICES ASSUME SessionsInit PROVE SessionsInv OBVIOUS
<1>1. FreeHandler \in Handler /\ FreeHandler.pc # "insert"
  <2>1. (CHOOSE p \in Points : TRUE) \in Points BY PointsAssumption
  <2>2. (CHOOSE m \in Media : TRUE) \in Media BY PointsAssumption
  <2> QED BY <2>1, <2>2 DEF FreeHandler, Handler, Pcs, Codes, NoSession
<1>2. SessionsTypeOK
  BY <1>1 DEF SessionsInit, SessionsTypeOK
<1>3. NumbersFresh /\ CdrsSettle
  BY <1>1 DEF SessionsInit, NumbersFresh, Numbered, CdrsSettle
<1> QED BY <1>2, <1>3 DEF SessionsInv

(* Appending to the log is all the invariant asks of it. *)
LEMMA LoggedTyped ==
    ASSUME SessionsTypeOK, NEW k \in EventKinds, NEW s \in Nat, Logged(k, s)
    PROVE  log' \in Seq([kind : EventKinds, session : Nat])
BY DEF Logged, SessionsTypeOK

LEMMA ArriveKeeps ==
    ASSUME SessionsInv, NEW r \in Requests, NEW kind \in {"start", "remote"}, NEW p \in Points,
           NEW m \in Media, Arrive(r, kind, p, m)
    PROVE  SessionsInv'
<1> DEFINE h == [pc |-> "knows_evse", kind |-> kind, point |-> p, medium |-> m,
                 session |-> NoSession, code |-> "Success"]
<1>1. h \in Handler BY DEF Handler, Pcs, Codes, NoSession
<1>2. handlers' = [handlers EXCEPT ![r] = h] BY DEF Arrive
<1>3. UNCHANGED <<points, sessions, nextSession, cdrs, log>> BY DEF Arrive
<1>4. handlers \in [Requests -> Handler] BY DEF SessionsInv, SessionsTypeOK
<1>5. h.pc # "insert" OBVIOUS
<1> HIDE DEF h
<1>6. \A q \in Requests : handlers'[q] = IF q = r THEN h ELSE handlers[q] BY <1>2, <1>4
<1>7. handlers' \in [Requests -> Handler] BY <1>1, <1>2, <1>4
<1>8. SessionsTypeOK' BY <1>3, <1>7 DEF SessionsInv, SessionsTypeOK
<1>9. NumbersFresh' BY <1>3, <1>5, <1>6 DEF SessionsInv, NumbersFresh, Numbered
<1>10. CdrsSettle' BY <1>3 DEF SessionsInv, CdrsSettle
<1> QED BY <1>8, <1>9, <1>10 DEF SessionsInv

LEMMA NewSessionIdKeeps ==
    ASSUME SessionsInv, NEW r \in Requests, NewSessionId(r)
    PROVE  SessionsInv'
<1>1. handlers \in [Requests -> Handler] /\ nextSession \in Nat \ {0}
  BY DEF SessionsInv, SessionsTypeOK
<1>2. /\ handlers' = [handlers EXCEPT ![r].pc = "insert", ![r].session = nextSession]
      /\ nextSession' = nextSession + 1
      /\ UNCHANGED <<points, sessions, cdrs, log>>
  BY DEF NewSessionId
<1>3. handlers' \in [Requests -> Handler] BY <1>1, <1>2 DEF Handler, Pcs
<1>4. SessionsTypeOK' BY <1>1, <1>2, <1>3 DEF SessionsInv, SessionsTypeOK
<1>5. \A q \in Requests : q # r => handlers'[q] = handlers[q] BY <1>1, <1>2
<1>6. handlers'[r].session = nextSession BY <1>1, <1>2 DEF Handler
<1>7. \A q \in Requests : handlers[q].session \in Nat BY <1>1 DEF Handler
<1>8. DOMAIN sessions \subseteq Nat BY DEF SessionsInv, SessionsTypeOK
<1>9. \A s \in DOMAIN sessions' : s < nextSession'
  BY <1>1, <1>2, <1>8 DEF SessionsInv, NumbersFresh
<1>10. ASSUME NEW q \in Requests, Numbered(q)'
       PROVE  handlers'[q].session < nextSession' /\ handlers'[q].session \notin DOMAIN sessions'
  <2>1. CASE q = r BY <1>1, <1>2, <1>6, <1>8, <2>1 DEF SessionsInv, NumbersFresh
  <2>2. CASE q # r
    <3>1. Numbered(q) /\ handlers'[q].session = handlers[q].session
      BY <1>5, <1>10, <2>2 DEF Numbered
    <3> QED BY <1>1, <1>2, <1>7, <3>1 DEF SessionsInv, NumbersFresh
  <2> QED BY <2>1, <2>2
<1>11. ASSUME NEW q1 \in Requests, NEW q2 \in Requests, Numbered(q1)', Numbered(q2)',
              handlers'[q1].session = handlers'[q2].session
       PROVE  q1 = q2
  <2>1. ASSUME NEW q \in Requests, q # r, Numbered(q)' PROVE handlers'[q].session < nextSession
    BY <1>5, <2>1 DEF SessionsInv, NumbersFresh, Numbered
  <2>2. CASE q1 # r /\ q2 # r
    BY <1>5, <1>11, <2>2 DEF SessionsInv, NumbersFresh, Numbered
  <2>3. CASE q1 = r /\ q2 # r BY <1>1, <1>6, <1>11, <2>1, <2>3
  <2>4. CASE q1 # r /\ q2 = r BY <1>1, <1>6, <1>11, <2>1, <2>4
  <2> QED BY <2>2, <2>3, <2>4
<1>12. NumbersFresh' BY <1>9, <1>10, <1>11 DEF NumbersFresh
<1>13. CdrsSettle' BY <1>2 DEF SessionsInv, CdrsSettle
<1> QED BY <1>4, <1>12, <1>13 DEF SessionsInv

(* What Insert does to the table, for the invariant and for the refinement. *)
LEMMA InsertAdds ==
    ASSUME SessionsInv, NEW r \in Requests, Insert(r)
    PROVE  LET n == handlers[r].session IN
           /\ n \in Nat /\ n < nextSession /\ n \notin DOMAIN sessions
           /\ DOMAIN sessions' = DOMAIN sessions \cup {n}
           /\ \A s \in DOMAIN sessions : sessions'[s] = sessions[s]
           /\ sessions'[n] = [point |-> handlers[r].point, medium |-> handlers[r].medium,
                              stopped |-> FALSE, settled |-> FALSE]
           /\ handlers[r].point \in Points /\ handlers[r].medium \in Media
<1>1. handlers[r] \in Handler BY DEF SessionsInv, SessionsTypeOK
<1>2. Numbered(r) BY DEF Insert, Numbered
<1> QED BY <1>1, <1>2 DEF Insert, SessionsInv, NumbersFresh, Handler

LEMMA InsertKeeps ==
    ASSUME SessionsInv, NEW r \in Requests, Insert(r)
    PROVE  SessionsInv'
<1> DEFINE n == handlers[r].session
<1>1. /\ n \in Nat /\ n < nextSession /\ n \notin DOMAIN sessions
      /\ DOMAIN sessions' = DOMAIN sessions \cup {n}
      /\ \A s \in DOMAIN sessions : sessions'[s] = sessions[s]
      /\ sessions'[n] = [point |-> handlers[r].point, medium |-> handlers[r].medium,
                         stopped |-> FALSE, settled |-> FALSE]
      /\ handlers[r].point \in Points /\ handlers[r].medium \in Media
  BY InsertAdds
<1>2. handlers \in [Requests -> Handler] /\ SessionsTypeOK BY DEF SessionsInv, SessionsTypeOK
<1>3. handlers' = [handlers EXCEPT ![r].pc = "answered"] /\ UNCHANGED <<points, nextSession, cdrs>>
  BY DEF Insert
<1>4. handlers' \in [Requests -> Handler] BY <1>2, <1>3 DEF Handler, Pcs
<1>5. log' \in Seq([kind : EventKinds, session : Nat])
  <2>1. Logged(IF handlers[r].kind = "start" THEN "Authorized" ELSE "RemoteStartRequested", n)
    BY DEF Insert
  <2>2. (IF handlers[r].kind = "start" THEN "Authorized" ELSE "RemoteStartRequested") \in EventKinds
    BY DEF EventKinds
  <2> QED BY <1>1, <1>2, <2>1, <2>2, LoggedTyped
<1>6. \A s \in DOMAIN sessions' : sessions'[s] \in Session
  <2>1. \A s \in DOMAIN sessions : sessions'[s] \in Session BY <1>1, <1>2 DEF SessionsTypeOK
  <2>2. sessions'[n] \in Session
    <3>1. [point |-> handlers[r].point, medium |-> handlers[r].medium,
           stopped |-> FALSE, settled |-> FALSE] \in Session
      BY <1>1 DEF Session
    <3> QED BY <1>1, <3>1
  <2> QED BY <1>1, <2>1, <2>2
<1>7. SessionsTypeOK' BY <1>1, <1>2, <1>3, <1>4, <1>5, <1>6 DEF SessionsTypeOK
<1>8. \A q \in Requests : Numbered(q)' => q # r /\ Numbered(q) /\ handlers'[q] = handlers[q]
  BY <1>2, <1>3 DEF Numbered, Handler
<1>9. NumbersFresh'
  <2>1. Numbered(r) BY DEF Insert, Numbered
  <2> QED BY <1>1, <1>3, <1>8, <2>1 DEF SessionsInv, NumbersFresh, Numbered
<1>10. CdrsSettle' BY <1>1, <1>3 DEF SessionsInv, CdrsSettle
<1> QED BY <1>7, <1>9, <1>10 DEF SessionsInv

LEMMA RecordRefusalKeeps ==
    ASSUME SessionsInv, NEW r \in Requests, RecordRefusal(r)
    PROVE  SessionsInv'
<1>1. handlers \in [Requests -> Handler] /\ SessionsTypeOK BY DEF SessionsInv, SessionsTypeOK
<1>2. handlers' = [handlers EXCEPT ![r].pc = "answered"]
      /\ UNCHANGED <<points, sessions, nextSession, cdrs>>
  BY DEF RecordRefusal
<1>3. handlers' \in [Requests -> Handler] BY <1>1, <1>2 DEF Handler, Pcs
<1>4. log' \in Seq([kind : EventKinds, session : Nat])
  <2>1. Logged("Refused", NoSession) BY DEF RecordRefusal
  <2>2. "Refused" \in EventKinds /\ NoSession \in Nat BY DEF EventKinds, NoSession
  <2> QED BY <1>1, <2>1, <2>2, LoggedTyped
<1>5. SessionsTypeOK' BY <1>1, <1>2, <1>3, <1>4 DEF SessionsTypeOK
<1>6. \A q \in Requests : handlers'[q].session = handlers[q].session
                          /\ (Numbered(q)' => Numbered(q))
  BY <1>1, <1>2 DEF Numbered, Handler
<1>7. NumbersFresh' BY <1>2, <1>6 DEF SessionsInv, NumbersFresh
<1>8. CdrsSettle' BY <1>2 DEF SessionsInv, CdrsSettle
<1> QED BY <1>5, <1>7, <1>8 DEF SessionsInv

LEMMA StopKeeps ==
    ASSUME SessionsInv, NEW s \in Nat, NEW m \in Media, AuthorizeStop(s, m)
    PROVE  SessionsInv'
<1>1. SessionsTypeOK BY DEF SessionsInv
<1>2. UNCHANGED <<points, nextSession, cdrs, handlers>> BY DEF AuthorizeStop
<1>3. CASE StopCode(s, m) = "Success"
  <2>1. s \in DOMAIN sessions BY <1>3 DEF StopCode
  <2>2. sessions' = [sessions EXCEPT ![s].stopped = TRUE] /\ Logged("Stopped", s)
    BY <1>3 DEF AuthorizeStop
  <2>3. "Stopped" \in EventKinds BY DEF EventKinds
  <2>4. log' \in Seq([kind : EventKinds, session : Nat]) BY <1>1, <2>2, <2>3, LoggedTyped
  <2>5. /\ DOMAIN sessions' = DOMAIN sessions
        /\ \A t \in DOMAIN sessions : sessions'[t] \in Session
                                      /\ sessions'[t].settled = sessions[t].settled
    BY <1>1, <2>1, <2>2 DEF SessionsTypeOK, Session
  <2> QED BY <1>1, <1>2, <2>4, <2>5 DEF SessionsInv, SessionsTypeOK, NumbersFresh, Numbered, CdrsSettle
<1>4. CASE StopCode(s, m) # "Success"
  <2>1. UNCHANGED <<sessions, log>> BY <1>4 DEF AuthorizeStop
  <2> QED BY <1>2, <2>1 DEF SessionsInv, SessionsTypeOK, NumbersFresh, Numbered, CdrsSettle
<1> QED BY <1>3, <1>4

LEMMA CdrKeeps ==
    ASSUME SessionsInv, NEW s \in Nat, NEW p \in Points, SubmitCdr(s, p)
    PROVE  SessionsInv'
<1>1. SessionsTypeOK BY DEF SessionsInv
<1>2. UNCHANGED <<points, nextSession, handlers>> BY DEF SubmitCdr
<1>3. CASE CdrCode(s, p) = "Success"
  <2>1. s \in DOMAIN sessions BY <1>3 DEF CdrCode
  <2>2. /\ sessions' = [sessions EXCEPT ![s].settled = TRUE]
        /\ cdrs' = Append(cdrs, [session |-> s, point |-> p])
        /\ Logged("CdrSubmitted", s)
    BY <1>3 DEF SubmitCdr
  <2>3. "CdrSubmitted" \in EventKinds BY DEF EventKinds
  <2>4. log' \in Seq([kind : EventKinds, session : Nat]) BY <1>1, <2>2, <2>3, LoggedTyped
  <2>5. cdrs \in Seq([session : Nat, point : Points]) BY <1>1 DEF SessionsTypeOK
  <2>6. cdrs' \in Seq([session : Nat, point : Points]) BY <2>2, <2>5
  <2>7. /\ DOMAIN sessions' = DOMAIN sessions
        /\ \A t \in DOMAIN sessions : sessions'[t] \in Session
                                      /\ (sessions[t].settled => sessions'[t].settled)
        /\ sessions'[s].settled
    BY <1>1, <2>1, <2>2 DEF SessionsTypeOK, Session
  <2>8. \A i \in DOMAIN cdrs' : (i \in DOMAIN cdrs /\ cdrs'[i] = cdrs[i])
                                \/ cdrs'[i] = [session |-> s, point |-> p]
    BY <2>2, <2>5
  <2>9. CdrsSettle' BY <2>1, <2>7, <2>8 DEF SessionsInv, CdrsSettle
  <2> QED BY <1>1, <1>2, <2>4, <2>6, <2>7, <2>9 DEF SessionsInv, SessionsTypeOK, NumbersFresh, Numbered
<1>4. CASE CdrCode(s, p) # "Success"
  <2>1. UNCHANGED <<sessions, cdrs, log>> BY <1>4 DEF SubmitCdr
  <2> QED BY <1>2, <2>1 DEF SessionsInv, SessionsTypeOK, NumbersFresh, Numbered, CdrsSettle
<1> QED BY <1>3, <1>4

LEMMA NotifyKeeps ==
    ASSUME SessionsInv, NEW s \in Nat, Notify(s)
    PROVE  SessionsInv'
<1>1. SessionsTypeOK BY DEF SessionsInv
<1>2. "NotificationReceived" \in EventKinds BY DEF EventKinds
<1>3. log' \in Seq([kind : EventKinds, session : Nat])
  <2>1. CASE Logged("NotificationReceived", s) BY <1>1, <1>2, <2>1, LoggedTyped
  <2>2. CASE UNCHANGED log BY <1>1, <2>2 DEF SessionsTypeOK
  <2> QED BY <2>1, <2>2 DEF Notify
<1> QED BY <1>3 DEF Notify, SessionsInv, SessionsTypeOK, NumbersFresh, Numbered, CdrsSettle

LEMMA HandlerStepKeeps ==
    ASSUME SessionsInv, NEW r \in Requests, HandlerStep(r)
    PROVE  SessionsInv'
<1>1. CASE KnowsEvse(r)
  <2>1. "compatible" \in Pcs /\ "UnknownEvseId" \in Codes BY DEF Pcs, Codes
  <2> QED BY <1>1, <2>1, CheckKeeps DEF KnowsEvse
<1>2. CASE IsCompatible(r)
  <2> DEFINE next == IF handlers[r].kind = "start" THEN "route" ELSE "new_session_id"
  <2>1. next \in Pcs /\ next # "insert" /\ "EvseIdNotHubjectCompatible" \in Codes BY DEF Pcs, Codes
  <2>2. Check(r, "compatible", points[handlers[r].point] = "compatible", next,
              "EvseIdNotHubjectCompatible") BY <1>2 DEF IsCompatible
  <2> HIDE DEF next
  <2> QED BY <2>1, <2>2, CheckKeeps
<1>3. CASE RouteAndDecide(r)
  <2> DEFINE code == Decided(handlers[r].medium)
  <2>1. "new_session_id" \in Pcs /\ code \in Codes BY DEF Pcs, Codes, Decided
  <2>2. Check(r, "route", code = "Success", "new_session_id", code) BY <1>3 DEF RouteAndDecide
  <2> HIDE DEF code
  <2> QED BY <2>1, <2>2, CheckKeeps
<1>4. CASE NewSessionId(r) BY <1>4, NewSessionIdKeeps
<1>5. CASE Insert(r) BY <1>5, InsertKeeps
<1>6. CASE RecordRefusal(r) BY <1>6, RecordRefusalKeeps
<1> QED BY <1>1, <1>2, <1>3, <1>4, <1>5, <1>6 DEF HandlerStep

LEMMA SessionsNextKeeps == SessionsInv /\ [SessionsNext]_sessionVars => SessionsInv'
<1> SUFFICES ASSUME SessionsInv, [SessionsNext]_sessionVars PROVE SessionsInv' OBVIOUS
<1>1. ASSUME NEW p \in Points, NEW status \in Statuses, ChangePoint(p, status) PROVE SessionsInv'
  BY <1>1 DEF ChangePoint, SessionsInv, SessionsTypeOK, NumbersFresh, Numbered, CdrsSettle
<1>2. CASE UNCHANGED sessionVars
  BY <1>2 DEF sessionVars, SessionsInv, SessionsTypeOK, NumbersFresh, Numbered, CdrsSettle
<1> QED BY <1>1, <1>2, ArriveKeeps, HandlerStepKeeps, StopKeeps, CdrKeeps, NotifyKeeps
        DEF SessionsNext

(* A number taken under one acquisition of the lock is unused when a later   *)
(* one inserts the session, whatever happened between (new_session_id and    *)
(* authorize_start).                                                         *)
THEOREM NumbersStayFresh == SessionsSpec => []SessionsInv
BY InitKeeps, SessionsNextKeeps, PTL DEF SessionsSpec

-----------------------------------------------------------------------------
LEMMA InitRefines == SessionsInit => Ledger!LedgerInit
BY DEF SessionsInit, Ledger!LedgerInit

LEMMA InsertRefines ==
    ASSUME SessionsInv, NEW r \in Requests, Insert(r)
    PROVE  Ledger!LedgerNext
<1> DEFINE n == handlers[r].session
           terms == [point |-> handlers[r].point, medium |-> handlers[r].medium]
           view == [s \in DOMAIN sessions |-> [point |-> sessions[s].point,
                                               medium |-> sessions[s].medium]]
<1>1. /\ n \notin DOMAIN sessions
      /\ DOMAIN sessions' = DOMAIN sessions \cup {n}
      /\ \A s \in DOMAIN sessions : sessions'[s] = sessions[s]
      /\ sessions'[n] = [point |-> handlers[r].point, medium |-> handlers[r].medium,
                         stopped |-> FALSE, settled |-> FALSE]
      /\ handlers[r].point \in Points /\ handlers[r].medium \in Media
  BY InsertAdds
<1>2. terms \in Terms BY <1>1 DEF Terms
<1>3. view' = [s \in DOMAIN sessions \cup {n} |-> IF s = n THEN terms ELSE view[s]]
  BY <1>1
<1>4. {s \in DOMAIN sessions : sessions[s].stopped}' = {s \in DOMAIN sessions : sessions[s].stopped}
  BY <1>1
<1>5. cdrs' = cdrs BY DEF Insert
<1>6. PICK k \in DOMAIN sessions', t \in Terms : k = n /\ t = terms BY <1>1, <1>2
<1>7. view' = [s \in DOMAIN view \cup {k} |-> IF s = k THEN t ELSE view[s]] BY <1>3, <1>6
<1>8. Ledger!Open(k, t) BY <1>1, <1>4, <1>5, <1>6, <1>7 DEF Ledger!Open
<1> QED BY <1>6, <1>8 DEF Ledger!LedgerNext

LEMMA StopRefines ==
    ASSUME SessionsInv, NEW s \in Nat, NEW m \in Media, AuthorizeStop(s, m)
    PROVE  [Ledger!LedgerNext]_(Ledger!ledgerVars)
<1>1. CASE StopCode(s, m) = "Success"
  <2>1. s \in DOMAIN sessions BY <1>1 DEF StopCode
  <2>2. sessions' = [sessions EXCEPT ![s].stopped = TRUE] BY <1>1 DEF AuthorizeStop
  <2>3. \A t \in DOMAIN sessions : sessions[t] \in Session BY DEF SessionsInv, SessionsTypeOK
  <2>4. /\ DOMAIN sessions' = DOMAIN sessions
        /\ \A t \in DOMAIN sessions : /\ sessions'[t].point = sessions[t].point
                                      /\ sessions'[t].medium = sessions[t].medium
                                      /\ t # s => sessions'[t].stopped = sessions[t].stopped
        /\ sessions'[s].stopped
    BY <2>1, <2>2, <2>3 DEF Session
  <2>5. cdrs' = cdrs BY DEF AuthorizeStop
  <2>6. Ledger!Stop(s) BY <2>1, <2>4, <2>5 DEF Ledger!Stop
  <2> QED BY <2>1, <2>4, <2>6 DEF Ledger!LedgerNext
<1>2. CASE StopCode(s, m) # "Success"
  <2>1. UNCHANGED <<sessions, cdrs>> BY <1>2 DEF AuthorizeStop
  <2> QED BY <2>1 DEF Ledger!ledgerVars
<1> QED BY <1>1, <1>2

LEMMA CdrRefines ==
    ASSUME SessionsInv, NEW s \in Nat, NEW p \in Points, SubmitCdr(s, p)
    PROVE  [Ledger!LedgerNext]_(Ledger!ledgerVars)
<1>1. CASE CdrCode(s, p) = "Success"
  <2>1. s \in DOMAIN sessions /\ ~sessions[s].settled BY <1>1 DEF CdrCode
  <2>2. /\ sessions' = [sessions EXCEPT ![s].settled = TRUE]
        /\ cdrs' = Append(cdrs, [session |-> s, point |-> p])
    BY <1>1 DEF SubmitCdr
  <2>3. (\A t \in DOMAIN sessions : sessions[t] \in Session) /\ cdrs \in Seq([session : Nat, point : Points])
    BY DEF SessionsInv, SessionsTypeOK
  <2>4. /\ DOMAIN sessions' = DOMAIN sessions
        /\ \A t \in DOMAIN sessions : /\ sessions'[t].point = sessions[t].point
                                      /\ sessions'[t].medium = sessions[t].medium
                                      /\ sessions'[t].stopped = sessions[t].stopped
    BY <2>1, <2>2, <2>3 DEF Session
  <2>5. \A i \in DOMAIN cdrs : cdrs[i].session # s
    BY <2>1 DEF SessionsInv, CdrsSettle
  <2> DEFINE paid == [i \in DOMAIN cdrs |-> cdrs[i].session]
  <2>6. paid' = Append(paid, s)
    BY <2>2, <2>3
  <2>7. Ledger!Settle(s) BY <2>1, <2>4, <2>5, <2>6 DEF Ledger!Settle
  <2> QED BY <2>1, <2>4, <2>7 DEF Ledger!LedgerNext
<1>2. CASE CdrCode(s, p) # "Success"
  <2>1. UNCHANGED <<sessions, cdrs>> BY <1>2 DEF SubmitCdr
  <2> QED BY <2>1 DEF Ledger!ledgerVars
<1> QED BY <1>1, <1>2

LEMMA StepRefines ==
    SessionsInv /\ [SessionsNext]_sessionVars => [Ledger!LedgerNext]_(Ledger!ledgerVars)
<1> SUFFICES ASSUME SessionsInv, [SessionsNext]_sessionVars
             PROVE  [Ledger!LedgerNext]_(Ledger!ledgerVars)
    OBVIOUS
<1>1. ASSUME UNCHANGED <<sessions, cdrs>> PROVE [Ledger!LedgerNext]_(Ledger!ledgerVars)
  BY <1>1 DEF Ledger!ledgerVars
<1>2. ASSUME NEW r \in Requests, HandlerStep(r), ~Insert(r) PROVE UNCHANGED <<sessions, cdrs>>
  BY <1>2 DEF HandlerStep, KnowsEvse, IsCompatible, RouteAndDecide, Check, NewSessionId, RecordRefusal
<1>3. ASSUME NEW r \in Requests, HandlerStep(r) PROVE [Ledger!LedgerNext]_(Ledger!ledgerVars)
  BY <1>1, <1>2, <1>3, InsertRefines
<1>4. ASSUME NEW p \in Points, NEW status \in Statuses, ChangePoint(p, status)
      PROVE  UNCHANGED <<sessions, cdrs>>
  BY <1>4 DEF ChangePoint
<1>5. ASSUME NEW r \in Requests, NEW kind, NEW p, NEW m, Arrive(r, kind, p, m)
      PROVE  UNCHANGED <<sessions, cdrs>>
  BY <1>5 DEF Arrive
<1>6. ASSUME NEW s, Notify(s) PROVE UNCHANGED <<sessions, cdrs>> BY <1>6 DEF Notify
<1>7. CASE UNCHANGED sessionVars BY <1>1, <1>7 DEF sessionVars
<1> QED BY <1>1, <1>3, <1>4, <1>5, <1>6, <1>7, StopRefines, CdrRefines DEF SessionsNext

(* The broker implements the ledger: an identifier stands for one session    *)
(* for ever and is settled at most once.                                     *)
THEOREM LedgerIsKept == SessionsSpec => KeepsLedger
<1>1. SessionsSpec => Ledger!LedgerInit BY InitRefines DEF SessionsSpec
<1>2. SessionsSpec => [][Ledger!LedgerNext]_(Ledger!ledgerVars)
  BY NumbersStayFresh, StepRefines, PTL DEF SessionsSpec
<1> QED BY <1>1, <1>2, PTL DEF KeepsLedger, Ledger!LedgerSpec

-----------------------------------------------------------------------------
LEMMA AnswersAreTyped ==
    ASSUME NEW code \in AnswerCodes, NEW session \in Nat
    PROVE  /\ Nothing \in Answer /\ Transport \in Answer
           /\ Message(code, session) \in Answer /\ Refusal(code) \in Answer /\ Http(code) \in Answer
BY DEF Answer, AnswerKinds, AnswerCodes, Nothing, Transport, Message, Refusal, Http

LEMMA CodesAreAnswerCodes == Codes \subseteq AnswerCodes
BY DEF Codes, AnswerCodes

LEMMA AttemptsAreNat == Attempts \subseteq Nat /\ 0 \in Attempts
BY RetriesAssumption DEF Attempts

(* An answer that comes back keeps the client's types. *)
LEMMA AnsweredTyped ==
    ASSUME ClientTypeOK, NEW c \in Calls, NEW n \in Attempts, NEW a \in Answer, Answered(c, n, a)
    PROVE  answers' \in [Calls -> [Attempts -> Answer]]
<1>1. answers \in [Calls -> [Attempts -> Answer]] BY DEF ClientTypeOK
<1>2. CASE answers[c][n] = Nothing
  <2>1. answers' = [answers EXCEPT ![c][n] = a] BY <1>2 DEF Answered
  <2> QED BY <1>1, <2>1
<1>3. CASE answers[c][n] # Nothing
  <2>1. answers' = answers BY <1>3 DEF Answered
  <2> QED BY <1>1, <2>1
<1> QED BY <1>2, <1>3

(* What Conclude leaves of a call: its attempt goes on only by a retry. *)
LEMMA ConcludeKeeps ==
    ASSUME ClientTypeOK, NEW c \in Calls, NEW a \in Answer, Conclude(c, a)
    PROVE  /\ client' \in [Calls -> [phase : {"new", "waiting", "sleeping", "ok", "failed"},
                                     attempt : Attempts, outcome : Answer]]
           /\ \A d \in Calls : client'[d].attempt >= client[d].attempt
           /\ \A d \in Calls : client'[d].attempt # client[d].attempt
                  => RetryNonIdempotent \/ IsIdempotent(Op[d])
<1> DEFINE Call == [phase : {"new", "waiting", "sleeping", "ok", "failed"},
                    attempt : Attempts, outcome : Answer]
<1>1. client \in [Calls -> Call] BY DEF ClientTypeOK
<1>2. client[c].attempt \in Attempts /\ client[c].attempt \in Nat BY <1>1, AttemptsAreNat
<1>3. ASSUME NEW rec \in Call, client' = [client EXCEPT ![c] = rec],
             \/ rec.attempt = client[c].attempt
             \/ /\ rec.attempt = client[c].attempt + 1
                /\ RetryNonIdempotent \/ IsIdempotent(Op[c])
      PROVE  /\ client' \in [Calls -> Call]
             /\ \A d \in Calls : client'[d].attempt >= client[d].attempt
             /\ \A d \in Calls : client'[d].attempt # client[d].attempt
                    => RetryNonIdempotent \/ IsIdempotent(Op[d])
  <2>1. client' \in [Calls -> Call] BY <1>1, <1>3
  <2>2. client'[c] = rec /\ \A d \in Calls : d # c => client'[d] = client[d] BY <1>1, <1>3
  <2>3. \A d \in Calls : client[d].attempt \in Nat BY <1>1, AttemptsAreNat
  <2> HIDE DEF Call
  <2> QED BY <1>3, <2>1, <2>2, <2>3
<1>4. CASE IsOk(a)
  <2> DEFINE rec == [client[c] EXCEPT !.phase = "ok", !.outcome = a]
  <2>1. client' = [client EXCEPT ![c] = rec] BY <1>4 DEF Conclude
  <2>2. rec \in Call /\ rec.attempt = client[c].attempt BY <1>1
  <2>3. PICK k \in Call : k = rec BY <2>2
  <2>4. client' = [client EXCEPT ![c] = k] /\ k.attempt = client[c].attempt BY <2>1, <2>2, <2>3
  <2> QED BY <1>3, <2>4
<1>5. CASE ~IsOk(a) /\ ShouldRetry(c, a)
  <2> DEFINE rec == [client[c] EXCEPT !.phase = "sleeping", !.attempt = client[c].attempt + 1]
  <2>1. client' = [client EXCEPT ![c] = rec] BY <1>5 DEF Conclude
  <2>2. client[c].attempt + 1 \in Attempts
    BY <1>2, <1>5, RetriesAssumption DEF ShouldRetry, Attempts
  <2>3. rec \in Call /\ rec.attempt = client[c].attempt + 1 BY <1>1, <2>2
  <2>4. RetryNonIdempotent \/ IsIdempotent(Op[c]) BY <1>5 DEF ShouldRetry
  <2>5. PICK k \in Call : k = rec BY <2>3
  <2>6. client' = [client EXCEPT ![c] = k] /\ k.attempt = client[c].attempt + 1
    BY <2>1, <2>3, <2>5
  <2> QED BY <1>3, <2>4, <2>6
<1>6. CASE ~IsOk(a) /\ ~ShouldRetry(c, a)
  <2> DEFINE rec == [client[c] EXCEPT !.phase = "failed", !.outcome = a]
  <2>1. client' = [client EXCEPT ![c] = rec] BY <1>6 DEF Conclude
  <2>2. rec \in Call /\ rec.attempt = client[c].attempt BY <1>1
  <2>3. PICK k \in Call : k = rec BY <2>2
  <2>4. client' = [client EXCEPT ![c] = k] /\ k.attempt = client[c].attempt BY <2>1, <2>2, <2>3
  <2> QED BY <1>3, <2>4
<1> QED BY <1>4, <1>5, <1>6

-----------------------------------------------------------------------------

LEMMA ClientStepKeeps ==
    ASSUME CallsInv, NEW c \in Calls, ClientStep(c)
    PROVE  CallsInv' /\ UNCHANGED sessionVars
<1>1. TypeOK /\ SessionsInv /\ OnlySentIsServed /\ ClientTypeOK BY DEF CallsInv, TypeOK
<1>2. UNCHANGED <<sessionVars, served, moves>> /\ UNCHANGED answers
  BY DEF ClientStep, SendRequest, Send, Receive, TransportError
<1>3. /\ client' \in [Calls -> [phase : {"new", "waiting", "sleeping", "ok", "failed"},
                                attempt : Attempts, outcome : Answer]]
      /\ \A d \in Calls : client'[d].attempt >= client[d].attempt
      /\ \A d \in Calls : client'[d].attempt # client[d].attempt
             => RetryNonIdempotent \/ IsIdempotent(Op[d])
  <2>1. CASE SendRequest(c)
    <3>1. client' = [client EXCEPT ![c].phase = "waiting"] BY <2>1 DEF SendRequest, Send
    <3>2. \A d \in Calls : client[d].attempt \in Nat BY <1>1, AttemptsAreNat DEF ClientTypeOK
    <3> QED BY <1>1, <3>1, <3>2 DEF ClientTypeOK
  <2>2. CASE Receive(c)
    <3>1. answers[c][client[c].attempt] \in Answer BY <1>1 DEF ClientTypeOK
    <3>2. Conclude(c, answers[c][client[c].attempt]) BY <2>2 DEF Receive
    <3> DEFINE a == answers[c][client[c].attempt]
    <3> HIDE DEF a
    <3>3. PICK b \in Answer : b = a BY <3>1 DEF a
    <3>4. Conclude(c, b) BY <3>2, <3>3 DEF a, Conclude, IsOk, ShouldRetry, IsRetryable
    <3> QED BY <1>1, <3>4, ConcludeKeeps
  <2>3. CASE TransportError(c)
    <3>1. Transport \in Answer BY DEF Transport, Answer, AnswerKinds, AnswerCodes
    <3>2. Conclude(c, Transport) BY <2>3 DEF TransportError
    <3> QED BY <1>1, <3>1, <3>2, ConcludeKeeps
  <2> QED BY <2>1, <2>2, <2>3 DEF ClientStep
<1>4. TypeOK' BY <1>1, <1>2, <1>3 DEF TypeOK, ClientTypeOK, SessionsTypeOK, sessionVars
<1>5. SessionsInv'
  BY <1>1, <1>2 DEF sessionVars, SessionsInv, SessionsTypeOK, NumbersFresh, Numbered, CdrsSettle
<1>6. OnlySentIsServed'
  <2>1. \A d \in Calls, n \in Attempts :
            /\ n \in Nat /\ client[d].attempt \in Nat /\ client'[d].attempt \in Nat
    BY <1>1, <1>3, AttemptsAreNat DEF ClientTypeOK
  <2>2. \A d \in Calls, n \in Attempts : <<d, n>> \in served' => n <= client'[d].attempt
    BY <1>1, <1>2, <1>3, <2>1 DEF OnlySentIsServed
  <2>3. ~RetryNonIdempotent =>
            \A d \in Calls : Op[d] = "AuthorizeRemoteStart" => client'[d].attempt = 0
    BY <1>1, <1>3 DEF OnlySentIsServed, IsIdempotent, ToACpo
  <2>4. \A r \in Requests : handlers'[r].pc # "free" => r \in served'
    BY <1>1, <1>2 DEF OnlySentIsServed, sessionVars
  <2> QED BY <2>2, <2>3, <2>4 DEF OnlySentIsServed
<1> QED BY <1>2, <1>4, <1>5, <1>6 DEF CallsInv

-----------------------------------------------------------------------------
(* Each step of the composition is one of the broker's, or none of them.     *)

LEMMA SessionOfIsNat ==
    ASSUME ClientTypeOK, NEW c \in Calls
    PROVE  SessionOf(c) \in Nat
BY CallsAssumption DEF SessionOf, ClientTypeOK, Answer

LEMMA ServeIsASessionsStep ==
    ASSUME CallsInv, NEW c \in Calls, NEW n \in Attempts, Serve(c, n)
    PROVE  SessionsNext
<1>1. ClientTypeOK BY DEF CallsInv, TypeOK
<1>2. PICK s \in Nat : s = SessionOf(c) BY <1>1, SessionOfIsNat
<1>3. <<c, n>> \in Requests /\ At[c] \in Points /\ With[c] \in Media BY CallsAssumption
<1>4. CASE ServeStart(c, n)
  <2>1. PICK kind \in {"start", "remote"} : Arrive(<<c, n>>, kind, At[c], With[c])
    BY <1>4 DEF ServeStart
  <2> QED BY <1>3, <2>1 DEF SessionsNext
<1>5. CASE ServeStop(c, n)
  <2>1. AuthorizeStop(s, With[c]) BY <1>2, <1>5 DEF ServeStop, AuthorizeStop, StopCode, Logged
  <2> QED BY <1>3, <2>1 DEF SessionsNext
<1>6. CASE ServeCdr(c, n)
  <2>1. SubmitCdr(s, At[c]) BY <1>2, <1>6 DEF ServeCdr, SubmitCdr, CdrCode, Logged
  <2> QED BY <1>3, <2>1 DEF SessionsNext
<1>7. CASE ServeNotification(c, n)
  <2>1. Notify(s) BY <1>2, <1>7 DEF ServeNotification, Notify, NotifyCode, Logged
  <2> QED BY <2>1 DEF SessionsNext
<1> QED BY <1>4, <1>5, <1>6, <1>7 DEF Serve

LEMMA StepIsASessionsStep ==
    CallsInv /\ [Next]_vars => [SessionsNext]_sessionVars
<1> SUFFICES ASSUME CallsInv, [Next]_vars PROVE [SessionsNext]_sessionVars OBVIOUS
<1>1. ASSUME NEW c \in Calls, ClientStep(c) PROVE UNCHANGED sessionVars
  BY <1>1 DEF ClientStep, SendRequest
<1>2. ASSUME NEW c \in Calls, NEW n \in Attempts, Gateway(c, n) PROVE UNCHANGED sessionVars
  BY <1>2 DEF Gateway
<1>3. ASSUME NEW c \in Calls, NEW n \in Attempts, Handle(c, n) PROVE SessionsNext
  BY <1>3, CallsAssumption DEF Handle, SessionsNext
<1>4. ASSUME NEW p \in Points, NEW status \in Statuses, Push(p, status) PROVE SessionsNext
  BY <1>4 DEF Push, SessionsNext
<1>5. CASE UNCHANGED vars BY <1>5 DEF vars
<1> QED BY <1>1, <1>2, <1>3, <1>4, <1>5, ServeIsASessionsStep DEF Next

(* A step of a handler moves that handler only, and only after its request   *)
(* arrived.                                                                  *)
LEMMA HandlerStepIsLocal ==
    ASSUME SessionsTypeOK, NEW r \in Requests, HandlerStep(r)
    PROVE  /\ handlers[r].pc # "free"
           /\ \A q \in Requests : q # r => handlers'[q] = handlers[q]
<1>1. handlers \in [Requests -> Handler] BY DEF SessionsTypeOK
<1>3. CASE KnowsEvse(r) BY <1>1, <1>3 DEF KnowsEvse, Check
<1>4. CASE IsCompatible(r) BY <1>1, <1>4 DEF IsCompatible, Check
<1>5. CASE RouteAndDecide(r) BY <1>1, <1>5 DEF RouteAndDecide, Check
<1>6. CASE NewSessionId(r) BY <1>1, <1>6 DEF NewSessionId
<1>7. CASE Insert(r) BY <1>1, <1>7 DEF Insert
<1>8. CASE RecordRefusal(r) BY <1>1, <1>8 DEF RecordRefusal
<1> QED BY <1>3, <1>4, <1>5, <1>6, <1>7, <1>8 DEF HandlerStep

LEMMA StartAnswerTyped ==
    ASSUME NEW c \in Calls, NEW h \in Handler
    PROVE  StartAnswer(c, h) \in Answer
<1>1. h.code \in AnswerCodes /\ h.session \in Nat BY CodesAreAnswerCodes DEF Handler
<1> QED BY <1>1, AnswersAreTyped DEF StartAnswer

LEMMA HandleKeeps ==
    ASSUME CallsInv, NEW c \in Calls, NEW n \in Attempts, Handle(c, n)
    PROVE  CallsInv'
<1> DEFINE r == <<c, n>>
<1>1. TypeOK /\ SessionsInv /\ OnlySentIsServed /\ ClientTypeOK /\ SessionsTypeOK
  BY DEF CallsInv, TypeOK
<1>2. r \in Requests BY CallsAssumption
<1>3. HandlerStep(r) /\ UNCHANGED <<client, served, moves>> BY DEF Handle
<1>4. SessionsInv' BY <1>1, <1>2, <1>3, HandlerStepKeeps
<1>5. SessionsTypeOK' BY <1>4 DEF SessionsInv
<1>6. answers' \in [Calls -> [Attempts -> Answer]]
  <2>1. CASE handlers'[r].pc = "answered"
    <3>1. PICK h \in Handler : h = handlers'[r] BY <1>2, <1>5 DEF SessionsTypeOK
    <3>2. StartAnswer(c, h) \in Answer BY StartAnswerTyped
    <3>3. Answered(c, n, StartAnswer(c, h))
      BY <2>1, <3>1 DEF Handle, Answered, StartAnswer, Message, Refusal
    <3>4. PICK a \in Answer : a = StartAnswer(c, h) BY <3>2
    <3>5. Answered(c, n, a) BY <3>3, <3>4 DEF Answered
    <3> QED BY <1>1, <3>5, AnsweredTyped
  <2>2. CASE handlers'[r].pc # "answered"
    <3>1. UNCHANGED answers BY <2>2 DEF Handle
    <3> QED BY <1>1, <3>1 DEF ClientTypeOK
  <2> QED BY <2>1, <2>2
<1>7. TypeOK' BY <1>1, <1>3, <1>5, <1>6 DEF TypeOK, ClientTypeOK
<1>8. OnlySentIsServed'
  <2>1. handlers[r].pc # "free" /\ \A q \in Requests : q # r => handlers'[q] = handlers[q]
    BY <1>1, <1>2, <1>3, HandlerStepIsLocal
  <2>2. \A q \in Requests : handlers'[q].pc # "free" => q \in served'
    BY <1>1, <1>2, <1>3, <2>1 DEF OnlySentIsServed
  <2> QED BY <1>1, <1>3, <2>2 DEF OnlySentIsServed
<1> QED BY <1>4, <1>7, <1>8 DEF CallsInv

(* What the broker answers without a handler of several steps. *)
LEMMA ServeAnswersTyped ==
    ASSUME ClientTypeOK, NEW c \in Calls, NEW n \in Attempts, Serve(c, n)
    PROVE  answers' \in [Calls -> [Attempts -> Answer]]
<1>1. PICK s \in Nat : s = SessionOf(c) BY SessionOfIsNat
<1>2. With[c] \in Media /\ At[c] \in Points BY CallsAssumption
<1>3. ASSUME NEW a \in Answer, Answered(c, n, a)
      PROVE  answers' \in [Calls -> [Attempts -> Answer]]
  BY <1>3, AnsweredTyped
<1>4. ASSUME NEW code \in AnswerCodes PROVE Acknowledged(code) \in Answer
  <2>1. 0 \in Nat OBVIOUS
  <2> QED BY <2>1, AnswersAreTyped DEF Acknowledged
<1>5. CASE ServeStart(c, n) BY <1>5 DEF ServeStart, ClientTypeOK
<1>6. CASE ServeStop(c, n)
  <2>1. PICK code \in AnswerCodes : code = StopCode(s, With[c]) BY DEF StopCode, AnswerCodes
  <2>2. Message(code, s) \in Answer BY AnswersAreTyped
  <2>3. PICK a \in Answer : a = Message(code, s) BY <2>2
  <2>4. Answered(c, n, a) BY <1>1, <1>6, <2>1, <2>3 DEF ServeStop, Answered
  <2> QED BY <1>3, <2>4
<1>7. CASE ServeCdr(c, n)
  <2>1. PICK code \in AnswerCodes : code = CdrCode(s, At[c]) BY DEF CdrCode, AnswerCodes
  <2>2. PICK a \in Answer : a = Acknowledged(code) BY <1>4
  <2>3. Answered(c, n, a) BY <1>1, <1>7, <2>1, <2>2 DEF ServeCdr, Answered
  <2> QED BY <1>3, <2>3
<1>8. CASE ServeNotification(c, n)
  <2>1. PICK code \in AnswerCodes : code = NotifyCode(s) BY DEF NotifyCode, AnswerCodes
  <2>2. PICK a \in Answer : a = Acknowledged(code) BY <1>4
  <2>3. Answered(c, n, a) BY <1>1, <1>8, <2>1, <2>2 DEF ServeNotification, Answered
  <2> QED BY <1>3, <2>3
<1> QED BY <1>5, <1>6, <1>7, <1>8 DEF Serve

LEMMA ServeKeeps ==
    ASSUME CallsInv, NEW c \in Calls, NEW n \in Attempts, Serve(c, n)
    PROVE  CallsInv'
<1> DEFINE r == <<c, n>>
<1>1. TypeOK /\ SessionsInv /\ OnlySentIsServed /\ ClientTypeOK /\ SessionsTypeOK
  BY DEF CallsInv, TypeOK
<1>2. r \in Requests BY CallsAssumption
<1>3. Take(c, n) BY DEF Serve, ServeStart, ServeStop, ServeCdr, ServeNotification
<1>4. SessionsInv' BY <1>1, ServeIsASessionsStep, SessionsNextKeeps
<1>5. answers' \in [Calls -> [Attempts -> Answer]] BY <1>1, ServeAnswersTyped
<1>6. served' = served \cup {r} /\ UNCHANGED <<client, moves>> BY <1>3 DEF Take
<1>7. TypeOK' BY <1>1, <1>2, <1>4, <1>5, <1>6 DEF TypeOK, ClientTypeOK, SessionsInv
<1>8. \A q \in Requests : q # r => handlers'[q] = handlers[q]
  <2>1. handlers \in [Requests -> Handler] BY <1>1 DEF SessionsTypeOK
  <2>2. CASE ServeStart(c, n) BY <1>2, <2>1, <2>2 DEF ServeStart, Arrive
  <2>3. CASE ~ServeStart(c, n)
    <3>1. UNCHANGED handlers
      BY <2>3 DEF Serve, ServeStop, ServeCdr, ServeNotification, AuthorizeStop, SubmitCdr, Notify
    <3> QED BY <3>1
  <2> QED BY <2>2, <2>3
<1>9. OnlySentIsServed'
  <2>1. \A q \in Requests : handlers'[q].pc # "free" => q \in served'
    BY <1>1, <1>6, <1>8 DEF OnlySentIsServed
  <2>2. n <= client[c].attempt
    <3>1. client[c].attempt \in Nat /\ n \in Nat BY <1>1, AttemptsAreNat DEF ClientTypeOK
    <3> QED BY <1>3, <3>1 DEF Take, Sent
  <2>3. \A d \in Calls, m \in Attempts : <<d, m>> \in served' => m <= client'[d].attempt
    BY <1>1, <1>6, <2>2 DEF OnlySentIsServed
  <2> QED BY <1>1, <1>6, <2>1, <2>3 DEF OnlySentIsServed
<1> QED BY <1>4, <1>7, <1>9 DEF CallsInv

LEMMA GatewayKeeps ==
    ASSUME CallsInv, NEW c \in Calls, NEW n \in Attempts, Gateway(c, n)
    PROVE  CallsInv'
<1>1. TypeOK /\ SessionsInv /\ OnlySentIsServed /\ ClientTypeOK BY DEF CallsInv, TypeOK
<1>2. UNCHANGED <<sessionVars, served, moves, client>> BY DEF Gateway, GatewayAnswers
<1>3. PICK status \in GatewaySays :
          Answered(c, n, IF status = "310" THEN Refusal("PartnerDidNotRespond") ELSE Http(status))
  BY DEF Gateway, GatewayAnswers
<1>4. (IF status = "310" THEN Refusal("PartnerDidNotRespond") ELSE Http(status)) \in Answer
  BY GatewayAssumption DEF Answer, AnswerKinds, AnswerCodes, Refusal, Http
<1>5. answers' \in [Calls -> [Attempts -> Answer]] BY <1>1, <1>3, <1>4, AnsweredTyped
<1>6. TypeOK' BY <1>1, <1>2, <1>5 DEF TypeOK, ClientTypeOK, SessionsTypeOK, sessionVars
<1>7. SessionsInv'
  BY <1>1, <1>2 DEF sessionVars, SessionsInv, SessionsTypeOK, NumbersFresh, Numbered, CdrsSettle
<1>8. OnlySentIsServed' BY <1>1, <1>2 DEF OnlySentIsServed, sessionVars
<1> QED BY <1>6, <1>7, <1>8 DEF CallsInv

LEMMA PushKeeps ==
    ASSUME CallsInv, NEW p \in Points, NEW status \in Statuses, Push(p, status)
    PROVE  CallsInv'
<1>1. TypeOK /\ SessionsInv /\ OnlySentIsServed BY DEF CallsInv
<1>2. ChangePoint(p, status) /\ UNCHANGED <<clientVars, served>> /\ moves' \in Nat
  BY <1>1, CallsAssumption DEF Push, TypeOK
<1>3. SessionsInv' BY <1>1, <1>2, SessionsNextKeeps DEF SessionsNext
<1>4. TypeOK' BY <1>1, <1>2, <1>3 DEF TypeOK, ClientTypeOK, clientVars, SessionsInv
<1>5. OnlySentIsServed' BY <1>1, <1>2 DEF OnlySentIsServed, clientVars, ChangePoint
<1> QED BY <1>3, <1>4, <1>5 DEF CallsInv

LEMMA CallsInitKeeps == Init => CallsInv
<1> SUFFICES ASSUME Init PROVE CallsInv OBVIOUS
<1>1. SessionsInv BY InitKeeps DEF Init
<1>2. ClientTypeOK
  <2>1. Nothing \in Answer BY DEF Nothing, Answer, AnswerKinds, AnswerCodes
  <2> QED BY <2>1, AttemptsAreNat DEF Init, ClientInit, ClientTypeOK
<1>3. TypeOK BY <1>1, <1>2, CallsAssumption DEF Init, TypeOK, SessionsInv
<1>4. OnlySentIsServed
  <2>1. \A r \in Requests : handlers[r].pc = "free" BY DEF Init, SessionsInit, FreeHandler
  <2> QED BY <2>1 DEF Init, ClientInit, OnlySentIsServed
<1> QED BY <1>1, <1>3, <1>4 DEF CallsInv

LEMMA CallsNextKeeps == CallsInv /\ [Next]_vars => CallsInv'
<1> SUFFICES ASSUME CallsInv, [Next]_vars PROVE CallsInv' OBVIOUS
<1>1. CASE UNCHANGED vars
  <2>1. UNCHANGED <<points, sessions, nextSession, cdrs, log, handlers, client, answers, served, moves>>
    BY <1>1 DEF vars, sessionVars, clientVars
  <2> QED BY <2>1 DEF CallsInv, TypeOK, ClientTypeOK, OnlySentIsServed, SessionsInv, SessionsTypeOK,
                      NumbersFresh, Numbered, CdrsSettle
<1> QED BY <1>1, ClientStepKeeps, GatewayKeeps, ServeKeeps, HandleKeeps, PushKeeps DEF Next

THEOREM CallsAreSound == Spec => []CallsInv
BY CallsInitKeeps, CallsNextKeeps, PTL DEF Spec

(* Whatever the calls, the retries and the network: every state has its types. *)
THEOREM CallsTypeCorrect == Spec => []TypeOK
<1>1. CallsInv => TypeOK BY DEF CallsInv
<1> QED BY <1>1, CallsAreSound, PTL

(* Calls through any number of retrying clients keep the ledger: an          *)
(* identifier stands for one session for ever and is settled at most once.   *)
THEOREM CallsKeepLedger == Spec => KeepsLedger
<1>1. Init => SessionsInit BY DEF Init
<1>2. Spec => SessionsSpec
  BY <1>1, CallsAreSound, StepIsASessionsStep, PTL DEF Spec, SessionsSpec
<1> QED BY <1>2, LedgerIsKept, PTL

(* With the default policy (retry_non_idempotent off) a remote start opens   *)
(* at most one session, however its answers are lost (RetryPolicy::should_retry). *)
THEOREM RemoteStartsHappenOnce ==
    ASSUME ~RetryNonIdempotent
    PROVE  Spec => []RemoteStartsOnce
<1>1. CallsInv => RemoteStartsOnce
  <2> SUFFICES ASSUME CallsInv, NEW c \in Calls, Op[c] = "AuthorizeRemoteStart",
                      NEW m \in OpenedBy(c), NEW n \in OpenedBy(c)
               PROVE  m = n
    BY DEF RemoteStartsOnce
  <2>1. client[c].attempt = 0 BY DEF CallsInv, OnlySentIsServed
  <2>2. ASSUME NEW k \in OpenedBy(c) PROVE k = 0
    <3>1. k \in Attempts /\ handlers[<<c, k>>].pc # "free" BY DEF OpenedBy
    <3>2. <<c, k>> \in served BY <3>1, CallsAssumption DEF CallsInv, OnlySentIsServed
    <3>3. k <= 0 BY <2>1, <3>1, <3>2 DEF CallsInv, OnlySentIsServed
    <3> QED BY <3>1, <3>3, AttemptsAreNat
  <2> QED BY <2>2
<1> QED BY <1>1, CallsAreSound, PTL

-----------------------------------------------------------------------------
(* What the broker has it keeps: a session stays where it is and as it was   *)
(* opened, and is stopped and settled for good.                              *)
Grows ==
    /\ \A s \in DOMAIN sessions :
          /\ s \in DOMAIN sessions'
          /\ sessions'[s].point = sessions[s].point /\ sessions'[s].medium = sessions[s].medium
          /\ sessions[s].stopped => sessions'[s].stopped
          /\ sessions[s].settled => sessions'[s].settled
    /\ \A i \in DOMAIN cdrs : i \in DOMAIN cdrs' /\ cdrs'[i] = cdrs[i]

LEMMA InsertGrows ==
    ASSUME SessionsInv, NEW r \in Requests, Insert(r)
    PROVE  Grows
<1>1. \A s \in DOMAIN sessions : s \in DOMAIN sessions' /\ sessions'[s] = sessions[s]
  BY InsertAdds
<1>2. cdrs' = cdrs BY DEF Insert
<1> QED BY <1>1, <1>2 DEF Grows

(* What an accepted stop and an accepted CDR change. *)
LEMMA StopStops ==
    ASSUME SessionsInv, NEW s \in Nat, NEW m \in Media, AuthorizeStop(s, m), StopCode(s, m) = "Success"
    PROVE  /\ s \in DOMAIN sessions /\ DOMAIN sessions' = DOMAIN sessions
           /\ ~MediumMismatch(sessions[s].medium, m)
           /\ sessions'[s].stopped
           /\ \A t \in DOMAIN sessions :
                 /\ sessions'[t].point = sessions[t].point /\ sessions'[t].medium = sessions[t].medium
                 /\ sessions'[t].settled = sessions[t].settled
                 /\ t # s => sessions'[t].stopped = sessions[t].stopped
           /\ cdrs' = cdrs /\ Logged("Stopped", s)
<1>1. s \in DOMAIN sessions /\ ~MediumMismatch(sessions[s].medium, m) BY DEF StopCode
<1>2. sessions' = [sessions EXCEPT ![s].stopped = TRUE] BY DEF AuthorizeStop
<1>3. \A t \in DOMAIN sessions : sessions[t] \in Session BY DEF SessionsInv, SessionsTypeOK
<1>4. cdrs' = cdrs /\ Logged("Stopped", s) BY DEF AuthorizeStop
<1> QED BY <1>1, <1>2, <1>3, <1>4 DEF Session

LEMMA CdrSettles ==
    ASSUME SessionsInv, NEW s \in Nat, NEW p \in Points, SubmitCdr(s, p), CdrCode(s, p) = "Success"
    PROVE  /\ s \in DOMAIN sessions /\ DOMAIN sessions' = DOMAIN sessions
           /\ sessions[s].point = p /\ ~sessions[s].settled
           /\ sessions'[s].settled
           /\ \A t \in DOMAIN sessions :
                 /\ sessions'[t].point = sessions[t].point /\ sessions'[t].medium = sessions[t].medium
                 /\ sessions'[t].stopped = sessions[t].stopped
                 /\ t # s => sessions'[t].settled = sessions[t].settled
           /\ cdrs' = Append(cdrs, [session |-> s, point |-> p]) /\ Logged("CdrSubmitted", s)
<1>1. s \in DOMAIN sessions /\ sessions[s].point = p /\ ~sessions[s].settled BY DEF CdrCode
<1>2. sessions' = [sessions EXCEPT ![s].settled = TRUE] BY DEF SubmitCdr
<1>3. \A t \in DOMAIN sessions : sessions[t] \in Session BY DEF SessionsInv, SessionsTypeOK
<1>4. cdrs' = Append(cdrs, [session |-> s, point |-> p]) /\ Logged("CdrSubmitted", s)
  BY DEF SubmitCdr
<1> QED BY <1>1, <1>2, <1>3, <1>4 DEF Session

LEMMA Appended ==
    ASSUME NEW S, NEW q \in Seq(S), NEW e \in S
    PROVE  /\ DOMAIN Append(q, e) = DOMAIN q \cup {Len(q) + 1}
           /\ \A i \in DOMAIN q : i < Len(q) + 1 /\ Append(q, e)[i] = q[i]
           /\ Append(q, e)[Len(q) + 1] = e
           /\ Len(q) + 1 \notin DOMAIN q /\ Len(q) + 1 \in Nat /\ DOMAIN q \subseteq Nat
OBVIOUS

LEMMA StopGrows ==
    ASSUME SessionsInv, NEW s \in Nat, NEW m \in Media, AuthorizeStop(s, m)
    PROVE  Grows
<1>1. CASE StopCode(s, m) = "Success" BY <1>1, StopStops DEF Grows
<1>2. CASE StopCode(s, m) # "Success" BY <1>2 DEF AuthorizeStop, Grows
<1> QED BY <1>1, <1>2

LEMMA CdrGrows ==
    ASSUME SessionsInv, NEW s \in Nat, NEW p \in Points, SubmitCdr(s, p)
    PROVE  Grows
<1>1. CASE CdrCode(s, p) = "Success"
  <2> DEFINE cdr == [session |-> s, point |-> p]
             Cdr == [session : Nat, point : Points]
  <2>1. cdr \in Cdr /\ cdrs \in Seq(Cdr) BY DEF SessionsInv, SessionsTypeOK
  <2>2. cdrs' = Append(cdrs, cdr) BY <1>1, CdrSettles
  <2> HIDE DEF cdr, Cdr
  <2>3. \A i \in DOMAIN cdrs : i \in DOMAIN cdrs' /\ cdrs'[i] = cdrs[i] BY <2>1, <2>2, Appended
  <2> QED BY <1>1, <2>3, CdrSettles DEF Grows
<1>2. CASE CdrCode(s, p) # "Success" BY <1>2 DEF SubmitCdr, Grows
<1> QED BY <1>1, <1>2

LEMMA SessionsGrow == SessionsInv /\ [SessionsNext]_sessionVars => Grows
<1> SUFFICES ASSUME SessionsInv, [SessionsNext]_sessionVars PROVE Grows OBVIOUS
<1>1. ASSUME UNCHANGED <<sessions, cdrs>> PROVE Grows BY <1>1 DEF Grows
<1>2. ASSUME NEW r \in Requests, HandlerStep(r), ~Insert(r) PROVE UNCHANGED <<sessions, cdrs>>
  BY <1>2 DEF HandlerStep, KnowsEvse, IsCompatible, RouteAndDecide, Check, NewSessionId, RecordRefusal
<1>3. ASSUME NEW r \in Requests, HandlerStep(r) PROVE Grows
  BY <1>1, <1>2, <1>3, InsertGrows
<1>4. ASSUME NEW p \in Points, NEW status \in Statuses, ChangePoint(p, status)
      PROVE  UNCHANGED <<sessions, cdrs>>
  BY <1>4 DEF ChangePoint
<1>5. ASSUME NEW r \in Requests, NEW kind, NEW p, NEW m, Arrive(r, kind, p, m)
      PROVE  UNCHANGED <<sessions, cdrs>>
  BY <1>5 DEF Arrive
<1>6. ASSUME NEW s, Notify(s) PROVE UNCHANGED <<sessions, cdrs>> BY <1>6 DEF Notify
<1>7. CASE UNCHANGED sessionVars BY <1>1, <1>7 DEF sessionVars
<1> QED BY <1>1, <1>3, <1>4, <1>5, <1>6, <1>7, StopGrows, CdrGrows DEF SessionsNext

-----------------------------------------------------------------------------
(* What the log may be told next. *)
Tellable(kind, s) ==
    \/ s = NoSession
    \/ kind \in Openings /\ s \notin DOMAIN sessions
    \/ kind = "CdrSubmitted" /\ s \in DOMAIN sessions /\ ~sessions[s].settled
    \/ kind \notin Openings \cup {"CdrSubmitted"} /\ s \in DOMAIN sessions

LEMMA LoggedIsConsistent ==
    ASSUME SessionsInv, LogInv, LogIsConsistent, Grows, NEW kind \in EventKinds, NEW s \in Nat,
           Logged(kind, s), Tellable(kind, s),
           s # NoSession => s \in DOMAIN sessions' /\ (kind = "CdrSubmitted" => sessions'[s].settled),
           \A t \in DOMAIN sessions' : t \in DOMAIN sessions \/ (kind \in Openings /\ t = s)
    PROVE  LogInv' /\ LogIsConsistent'
<1> DEFINE Event == [kind : EventKinds, session : Nat]
           e == [kind |-> kind, session |-> s]
           last == Len(log) + 1
<1>1. log \in Seq(Event) /\ e \in Event /\ log' = Append(log, e) /\ e.kind = kind /\ e.session = s
  BY DEF SessionsInv, SessionsTypeOK, Logged
<1> HIDE DEF Event, e
<1>2. /\ DOMAIN log' = DOMAIN log \cup {last} /\ last \notin DOMAIN log
      /\ \A i \in DOMAIN log : i < last /\ log'[i] = log[i]
      /\ log'[last] = e
  BY <1>1, Appended
<1>3. \A i \in DOMAIN log : i \in Int /\ i < last /\ ~(last < i)
  BY <1>1, <1>2, Appended
<1> HIDE DEF last
<1>4. LogInv'
  <2>1. ASSUME NEW i \in DOMAIN log', log'[i].session # NoSession
        PROVE  /\ log'[i].session \in DOMAIN sessions'
               /\ log'[i].kind = "CdrSubmitted" => sessions'[log'[i].session].settled
    <3>1. CASE i = last BY <1>1, <1>2, <2>1, <3>1
    <3>2. CASE i \in DOMAIN log BY <1>2, <2>1, <3>2 DEF LogInv, Grows
    <3> QED BY <1>2, <3>1, <3>2
  <2>2. ASSUME NEW t \in DOMAIN sessions'
        PROVE  \E j \in DOMAIN log' : log'[j].kind \in Openings /\ log'[j].session = t
    <3>1. CASE t \in DOMAIN sessions BY <1>2, <3>1 DEF LogInv
    <3>2. CASE kind \in Openings /\ t = s BY <1>1, <1>2, <3>2
    <3> QED BY <3>1, <3>2
  <2> QED BY <2>1, <2>2 DEF LogInv
<1>5. ASSUME NEW i \in DOMAIN log', log'[i].session # NoSession, log'[i].kind \notin Openings
      PROVE  \E j \in DOMAIN log' : /\ j < i /\ log'[j].kind \in Openings
                                    /\ log'[j].session = log'[i].session
  <2>1. CASE i = last
    <3>1. s \in DOMAIN sessions BY <1>1, <1>2, <1>5, <2>1 DEF Tellable
    <3>2. PICK j \in DOMAIN log : log[j].kind \in Openings /\ log[j].session = s
      BY <3>1 DEF LogInv
    <3> QED BY <1>1, <1>2, <2>1, <3>2
  <2>2. CASE i \in DOMAIN log
    <3>1. PICK j \in DOMAIN log : /\ j < i /\ log[j].kind \in Openings
                                  /\ log[j].session = log[i].session
      BY <1>2, <1>5, <2>2 DEF LogIsConsistent
    <3> QED BY <1>2, <2>2, <3>1
  <2> QED BY <1>2, <2>1, <2>2
<1>6. ASSUME NEW i \in DOMAIN log, kind \in Openings \cup {"CdrSubmitted"}, s # NoSession
      PROVE  log[i] # e
  BY <1>1, <1>6 DEF LogInv, Tellable, Openings
<1>7. ASSUME NEW i \in DOMAIN log', log'[i].session # NoSession,
             log'[i].kind \in Openings \cup {"CdrSubmitted"},
             NEW j \in DOMAIN log', log'[j] = log'[i]
      PROVE  i = j
  <2>1. CASE i \in DOMAIN log /\ j \in DOMAIN log
    BY <1>2, <1>7, <2>1 DEF LogIsConsistent
  <2>2. CASE i = last /\ j \in DOMAIN log
    BY <1>1, <1>2, <1>6, <1>7, <2>2
  <2>3. CASE i \in DOMAIN log /\ j = last
    <3>1. log[i] = e BY <1>2, <1>7, <2>3
    <3>2. kind \in Openings \cup {"CdrSubmitted"} /\ s # NoSession BY <1>1, <1>2, <1>7, <2>3, <3>1
    <3> QED BY <1>6, <2>3, <3>1, <3>2
  <2> QED BY <1>2, <2>1, <2>2, <2>3
<1>8. LogIsConsistent' BY <1>5, <1>7 DEF LogIsConsistent
<1> QED BY <1>4, <1>8

LEMMA LogStays ==
    ASSUME LogInv, LogIsConsistent, Grows, UNCHANGED log, DOMAIN sessions' = DOMAIN sessions
    PROVE  LogInv' /\ LogIsConsistent'
<1>1. LogInv' BY DEF LogInv, Grows
<1>2. LogIsConsistent' BY DEF LogIsConsistent
<1> QED BY <1>1, <1>2

LEMMA HandlerStepTells ==
    ASSUME SessionsInv, LogInv, LogIsConsistent, Grows, NEW r \in Requests, HandlerStep(r)
    PROVE  LogInv' /\ LogIsConsistent'
<1>1. CASE Insert(r)
  <2>1. PICK n \in Nat : n = handlers[r].session BY <1>1, InsertAdds
  <2>2. n \notin DOMAIN sessions /\ DOMAIN sessions' = DOMAIN sessions \cup {n}
    BY <1>1, <2>1, InsertAdds
  <2>3. PICK kind \in Openings : Logged(kind, n)
    <3>1. Logged(IF handlers[r].kind = "start" THEN "Authorized" ELSE "RemoteStartRequested", n)
      BY <1>1, <2>1 DEF Insert
    <3> QED BY <3>1 DEF Openings
  <2>4. kind \in EventKinds /\ kind # "CdrSubmitted" BY DEF Openings, EventKinds
  <2>5. Tellable(kind, n) BY <2>2 DEF Tellable
  <2> QED BY <2>2, <2>3, <2>4, <2>5, LoggedIsConsistent
<1>2. CASE RecordRefusal(r)
  <2>1. Logged("Refused", NoSession) /\ UNCHANGED sessions BY <1>2 DEF RecordRefusal
  <2>2. "Refused" \in EventKinds /\ NoSession \in Nat BY DEF EventKinds, NoSession
  <2>3. Tellable("Refused", NoSession) BY DEF Tellable
  <2> QED BY <2>1, <2>2, <2>3, LoggedIsConsistent
<1>3. CASE ~Insert(r) /\ ~RecordRefusal(r)
  <2>1. UNCHANGED <<sessions, log>>
    BY <1>3 DEF HandlerStep, KnowsEvse, IsCompatible, RouteAndDecide, Check, NewSessionId
  <2> QED BY <2>1, LogStays
<1> QED BY <1>1, <1>2, <1>3

LEMMA SessionsTell ==
    SessionsInv /\ LogInv /\ LogIsConsistent /\ [SessionsNext]_sessionVars => LogInv' /\ LogIsConsistent'
<1> SUFFICES ASSUME SessionsInv, LogInv, LogIsConsistent, [SessionsNext]_sessionVars
             PROVE  LogInv' /\ LogIsConsistent'
    OBVIOUS
<1>1. Grows BY SessionsGrow
<1>2. ASSUME UNCHANGED <<sessions, log>> PROVE LogInv' /\ LogIsConsistent'
  BY <1>1, <1>2, LogStays
<1>3. ASSUME NEW p \in Points, NEW status \in Statuses, ChangePoint(p, status)
      PROVE  UNCHANGED <<sessions, log>>
  BY <1>3 DEF ChangePoint
<1>4. ASSUME NEW r \in Requests, NEW kind, NEW p, NEW m, Arrive(r, kind, p, m)
      PROVE  UNCHANGED <<sessions, log>>
  BY <1>4 DEF Arrive
<1>5. ASSUME NEW s \in Nat, NEW m \in Media, AuthorizeStop(s, m)
      PROVE  LogInv' /\ LogIsConsistent'
  <2>1. CASE StopCode(s, m) = "Success"
    <3>1. "Stopped" \in EventKinds /\ Tellable("Stopped", s)
      BY <1>5, <2>1, StopStops DEF EventKinds, Tellable, Openings
    <3> QED BY <1>1, <1>5, <2>1, <3>1, StopStops, LoggedIsConsistent
  <2>2. CASE StopCode(s, m) # "Success" BY <1>2, <1>5, <2>2 DEF AuthorizeStop
  <2> QED BY <2>1, <2>2
<1>6. ASSUME NEW s \in Nat, NEW p \in Points, SubmitCdr(s, p)
      PROVE  LogInv' /\ LogIsConsistent'
  <2>1. CASE CdrCode(s, p) = "Success"
    <3>1. "CdrSubmitted" \in EventKinds /\ Tellable("CdrSubmitted", s)
      BY <1>6, <2>1, CdrSettles DEF EventKinds, Tellable
    <3> QED BY <1>1, <1>6, <2>1, <3>1, CdrSettles, LoggedIsConsistent
  <2>2. CASE CdrCode(s, p) # "Success" BY <1>2, <1>6, <2>2 DEF SubmitCdr
  <2> QED BY <2>1, <2>2
<1>7. ASSUME NEW s \in Nat, Notify(s) PROVE LogInv' /\ LogIsConsistent'
  <2>1. CASE NotifyCode(s) = "Success"
    <3>1. Logged("NotificationReceived", s) /\ UNCHANGED sessions /\ s \in DOMAIN sessions
      BY <1>7, <2>1 DEF Notify, NotifyCode
    <3>2. "NotificationReceived" \in EventKinds /\ Tellable("NotificationReceived", s)
      BY <3>1 DEF EventKinds, Tellable, Openings
    <3> QED BY <1>1, <3>1, <3>2, LoggedIsConsistent
  <2>2. CASE NotifyCode(s) # "Success" BY <1>2, <1>7, <2>2 DEF Notify
  <2> QED BY <2>1, <2>2
<1>8. CASE UNCHANGED sessionVars BY <1>2, <1>8 DEF sessionVars
<1> QED BY <1>1, <1>2, <1>3, <1>4, <1>5, <1>6, <1>7, <1>8, HandlerStepTells DEF SessionsNext

LEMMA LogStarts == Init => LogInv /\ LogIsConsistent
BY DEF Init, SessionsInit, LogInv, LogIsConsistent

(* Whatever handlers interleave, the mock's event log tells a story that can *)
(* have happened: a session is opened before anything else is told of it, by *)
(* one event, and settled by one (Inner::events in authorize_start,          *)
(* remote_start, authorize_stop, submit_cdr and notification).               *)
THEOREM LogsAreConsistent == Spec => []LogIsConsistent
<1> DEFINE Inv == LogInv /\ LogIsConsistent
<1>1. Init => Inv BY LogStarts
<1>2. CallsInv /\ Inv /\ [Next]_vars => Inv'
  <2>1. CallsInv => SessionsInv BY DEF CallsInv
  <2> QED BY <2>1, StepIsASessionsStep, SessionsTell
<1>3. Inv => LogIsConsistent OBVIOUS
<1> HIDE DEF Inv
<1> QED BY <1>1, <1>2, <1>3, CallsAreSound, PTL DEF Spec

-----------------------------------------------------------------------------
(* What was sent stays sent and what a caller was granted stays granted.     *)
CallersGrow ==
    /\ \A c \in Calls, n \in Attempts : Sent(c, n) => Sent(c, n)'
    /\ \A c \in Calls : Granted(c) => Granted(c)' /\ client'[c].outcome = client[c].outcome

AnswersGrow ==
    \A c \in Calls, n \in Attempts : answers[c][n] # Nothing => answers'[c][n] = answers[c][n]

(* What a client makes of an answer, of none, or of its turn to send. *)
LEMMA ClientAdvances ==
    ASSUME ClientTypeOK, NEW c \in Calls, ClientStep(c)
    PROVE  /\ client[c].phase \notin {"ok", "failed"}
           /\ \A d \in Calls : d # c => client'[d] = client[d]
           /\ \A n \in Attempts : Sent(c, n) => Sent(c, n)'
           /\ client'[c].phase # "new"
           /\ client[c].phase = "new" => Ready(c)
           /\ client'[c].phase \in {"ok", "failed"} =>
                 \/ client'[c].outcome = Transport
                 \/ /\ client'[c].outcome # Nothing
                    /\ \E n \in Attempts : client'[c].outcome = answers[c][n]
           /\ client'[c].phase = "ok" => client'[c].outcome.kind = "message"
<1> DEFINE Call == [phase : {"new", "waiting", "sleeping", "ok", "failed"},
                    attempt : Attempts, outcome : Answer]
<1>1. client \in [Calls -> Call] /\ answers \in [Calls -> [Attempts -> Answer]]
  BY DEF ClientTypeOK
<1>2. PICK old \in Call : old = client[c] BY <1>1
<1>3. old.attempt \in Attempts /\ old.attempt \in Nat BY AttemptsAreNat
<1> DEFINE Fits(new) ==
      /\ client' = [client EXCEPT ![c] = new]
      /\ \/ new.attempt = old.attempt /\ new.phase \in {"waiting", "ok", "failed"}
         \/ new.attempt = old.attempt + 1 /\ new.phase = "sleeping"
      /\ new.phase \in {"ok", "failed"} =>
            \/ new.outcome = Transport
            \/ new.outcome # Nothing /\ \E n \in Attempts : new.outcome = answers[c][n]
      /\ new.phase = "ok" => new.outcome.kind = "message"
<1> DEFINE Goal ==
      /\ \A d \in Calls : d # c => client'[d] = client[d]
      /\ \A n \in Attempts : Sent(c, n) => Sent(c, n)'
      /\ client'[c].phase # "new"
      /\ client'[c].phase \in {"ok", "failed"} =>
            \/ client'[c].outcome = Transport
            \/ client'[c].outcome # Nothing /\ \E n \in Attempts : client'[c].outcome = answers[c][n]
      /\ client'[c].phase = "ok" => client'[c].outcome.kind = "message"
<1>4. ASSUME NEW new \in Call, Fits(new) PROVE Goal
  <2>1. client'[c] = new /\ \A d \in Calls : d # c => client'[d] = client[d] BY <1>1, <1>4
  <2>2. ASSUME NEW n \in Attempts, Sent(c, n) PROVE Sent(c, n)'
    <3>1. n \in Nat /\ n <= old.attempt BY <1>2, <1>3, <2>2, AttemptsAreNat DEF Sent
    <3>2. client'[c].attempt = new.attempt /\ client'[c].phase = new.phase BY <2>1
    <3>3. CASE new.attempt = old.attempt /\ new.phase \in {"waiting", "ok", "failed"}
      BY <1>3, <3>1, <3>2, <3>3 DEF Sent
    <3>4. CASE new.attempt = old.attempt + 1
      BY <1>3, <3>1, <3>2, <3>4 DEF Sent
    <3> QED BY <1>4, <3>3, <3>4
  <2> HIDE DEF Call
  <2> QED BY <1>4, <2>1, <2>2
<1>5. ASSUME NEW a \in Answer, Conclude(c, a),
             a = Transport \/ (a # Nothing /\ \E n \in Attempts : a = answers[c][n])
      PROVE  \E new \in Call : Fits(new)
  <2>1. CASE IsOk(a)
    <3> DEFINE new == [old EXCEPT !.phase = "ok", !.outcome = a]
    <3>1. new \in Call /\ new.phase = "ok" /\ new.attempt = old.attempt /\ new.outcome = a
      BY <1>2
    <3>2. client' = [client EXCEPT ![c] = new] BY <1>2, <1>5, <2>1 DEF Conclude
    <3>3. a.kind = "message" BY <2>1 DEF IsOk
    <3> HIDE DEF new, Call
    <3> QED BY <1>5, <3>1, <3>2, <3>3
  <2>2. CASE ~IsOk(a) /\ ShouldRetry(c, a)
    <3> DEFINE new == [old EXCEPT !.phase = "sleeping", !.attempt = old.attempt + 1]
    <3>1. old.attempt + 1 \in Attempts
      BY <1>2, <1>3, <2>2, RetriesAssumption DEF ShouldRetry, Attempts
    <3>2. /\ new \in Call /\ new.phase = "sleeping"
          /\ new.attempt = old.attempt + 1
      BY <3>1
    <3>3. client' = [client EXCEPT ![c] = new] BY <1>2, <1>5, <2>2 DEF Conclude
    <3> HIDE DEF new, Call
    <3> QED BY <3>2, <3>3
  <2>3. CASE ~IsOk(a) /\ ~ShouldRetry(c, a)
    <3> DEFINE new == [old EXCEPT !.phase = "failed", !.outcome = a]
    <3>1. new \in Call /\ new.phase = "failed" /\ new.attempt = old.attempt /\ new.outcome = a
      BY <1>2
    <3>2. client' = [client EXCEPT ![c] = new] BY <1>2, <1>5, <2>3 DEF Conclude
    <3> HIDE DEF new, Call
    <3> QED BY <1>5, <3>1, <3>2
  <2> QED BY <2>1, <2>2, <2>3
<1>6. ASSUME SendRequest(c) PROVE Goal
  <2> DEFINE new == [old EXCEPT !.phase = "waiting"]
  <2>1. new \in Call /\ new.phase = "waiting" /\ new.attempt = old.attempt BY <1>2
  <2>2. client' = [client EXCEPT ![c] = new] BY <1>2, <1>6 DEF SendRequest, Send
  <2> HIDE DEF new, Call
  <2>3. Fits(new) BY <2>1, <2>2
  <2> HIDE DEF Fits, Goal
  <2> QED BY <1>4, <2>1, <2>3
<1>7. ASSUME Receive(c) PROVE Goal
  <2>1. PICK a \in Answer : a = answers[c][client[c].attempt] BY <1>1, <1>2
  <2>2. Conclude(c, a) BY <1>7, <2>1 DEF Receive, Conclude, IsOk, ShouldRetry, IsRetryable
  <2>3. a # Nothing /\ \E n \in Attempts : a = answers[c][n] BY <1>2, <1>3, <1>7, <2>1 DEF Receive
  <2> HIDE DEF Fits, Goal, Call
  <2> QED BY <1>4, <1>5, <2>2, <2>3
<1>8. ASSUME TransportError(c) PROVE Goal
  <2>1. Transport \in Answer BY DEF Transport, Answer, AnswerKinds, AnswerCodes
  <2>2. Conclude(c, Transport) BY <1>8 DEF TransportError
  <2> HIDE DEF Fits, Goal, Call
  <2> QED BY <1>4, <1>5, <2>1, <2>2
<1>9. client[c].phase \notin {"ok", "failed"} /\ (client[c].phase = "new" => Ready(c))
  BY DEF ClientStep, SendRequest, Send, Receive, TransportError
<1> QED BY <1>6, <1>7, <1>8, <1>9 DEF ClientStep

LEMMA FollowedIsAStart == \A c \in Calls : Follows[c] \in Starts
BY CallsAssumption DEF Starts

(* A granted start is a session as its caller named it. *)
LEMMA GrantedIsReal ==
    ASSUME TruthInv, NEW f \in Starts, Granted(f)
    PROVE  /\ client[f].outcome.session \in DOMAIN sessions
           /\ sessions[client[f].outcome.session].point = At[f]
           /\ sessions[client[f].outcome.session].medium = With[f]
<1>1. f \in Calls /\ CallFollows(f) BY DEF TruthInv, Starts
<1>2. client[f].outcome.kind = "message" /\ \E n \in Attempts : client[f].outcome = answers[f][n]
  BY <1>1 DEF CallFollows, Granted
<1>3. PICK n \in Attempts : client[f].outcome = answers[f][n] BY <1>2
<1>4. IsYes(f, answers[f][n])
  <2>1. Op[f] # "AuthorizeStop" BY DEF Starts
  <2> QED BY <1>2, <1>3, <2>1 DEF IsYes, Granted
<1>5. AnswerHolds(f, n, answers[f][n]) BY <1>1 DEF TruthInv
<1> QED BY <1>3, <1>4, <1>5 DEF AnswerHolds

(* The session a call that was sent is about stays the one it was about. *)
LEMMA SessionIsFixed ==
    ASSUME TruthInv, CallersGrow, NEW c \in Calls, client[c].phase # "new", c \notin Starts
    PROVE  /\ Granted(Follows[c]) /\ Granted(Follows[c])'
           /\ SessionOf(c)' = SessionOf(c) /\ SessionOf(c) \in DOMAIN sessions
           /\ sessions[SessionOf(c)].medium = With[Follows[c]]
<1>1. Follows[c] \in Starts /\ Follows[c] \in Calls BY FollowedIsAStart DEF Starts
<1>2. CallFollows(c) BY DEF TruthInv
<1>3. Granted(Follows[c]) BY <1>2 DEF CallFollows
<1>4. Granted(Follows[c])' /\ client'[Follows[c]].outcome = client[Follows[c]].outcome
  BY <1>1, <1>3 DEF CallersGrow
<1>5. SessionOf(c)' = SessionOf(c) BY <1>4 DEF SessionOf
<1>6. SessionOf(c) \in DOMAIN sessions /\ sessions[SessionOf(c)].medium = With[Follows[c]]
  BY <1>1, <1>3, GrantedIsReal DEF SessionOf
<1> QED BY <1>3, <1>4, <1>5, <1>6

LEMMA SentIsNotNew ==
    ASSUME TruthInv, NEW c \in Calls, NEW n \in Attempts, Sent(c, n)
    PROVE  client[c].phase # "new"
<1>1. CallFollows(c) BY DEF TruthInv
<1>2. n \in Nat /\ 0 \in Nat BY AttemptsAreNat
<1> QED BY <1>1, <1>2 DEF CallFollows, Sent

(* What an answer says stays true. *)
LEMMA AnswerStays ==
    ASSUME TruthInv, Grows, CallersGrow, NEW c \in Calls, NEW n \in Attempts, NEW a,
           AnswerHolds(c, n, a)
    PROVE  AnswerHolds(c, n, a)'
<1>1. CASE a = Nothing
  <2>1. ~IsYes(c, a) /\ a.code # "SessionIsInvalid" BY <1>1 DEF IsYes, Nothing
  <2> QED BY <1>1, <2>1 DEF AnswerHolds, IsYes
<1>2. CASE a # Nothing
  <2>1. Sent(c, n) /\ Sent(c, n)' BY <1>2 DEF AnswerHolds, CallersGrow
  <2>2. client[c].phase # "new" BY <2>1, SentIsNotNew
  <2>3. c \notin Starts => SessionOf(c)' = SessionOf(c) BY <2>2, SessionIsFixed
  <2> DEFINE s == IF c \in Starts THEN a.session ELSE SessionOf(c)
  <2>4. s' = s BY <2>3
  <2>5. Op[c] = "ChargeDetailRecord" => c \notin Starts BY DEF Starts
  <2>6. IsYes(c, a) =>
          /\ s \in DOMAIN sessions'
          /\ c \in Starts => sessions'[s].point = At[c] /\ sessions'[s].medium = With[c]
          /\ Op[c] = "AuthorizeStop" => sessions'[s].stopped
          /\ Op[c] = "ChargeDetailRecord" => sessions'[s].settled /\ sessions'[s].point = At[c]
    BY DEF AnswerHolds, Grows
  <2>7. Op[c] = "ChargeDetailRecord" /\ a.code = "SessionIsInvalid" =>
          \E i \in DOMAIN cdrs' : cdrs'[i].session = SessionOf(c)'
    BY <2>3, <2>5 DEF AnswerHolds, Grows
  <2>8. IsYes(c, a)' = IsYes(c, a) BY DEF IsYes
  <2> HIDE DEF s
  <2>9. IsYes(c, a) =>
          /\ s' \in DOMAIN sessions'
          /\ c \in Starts => sessions'[s'].point = At[c] /\ sessions'[s'].medium = With[c]
          /\ Op[c] = "AuthorizeStop" => sessions'[s'].stopped
          /\ Op[c] = "ChargeDetailRecord" => sessions'[s'].settled /\ sessions'[s'].point = At[c]
    BY <2>4, <2>6
  <2> QED BY <2>1, <2>7, <2>8, <2>9 DEF AnswerHolds, s
<1> QED BY <1>1, <1>2

(* An answer that comes back is one more that must hold. *)
LEMMA AnswersStay ==
    ASSUME TruthInv, Grows, CallersGrow, NEW c \in Calls, NEW n \in Attempts, NEW a \in Answer,
           Answered(c, n, a), AnswerHolds(c, n, a)'
    PROVE  /\ AnswersGrow
           /\ \A d \in Calls, m \in Attempts : AnswerHolds(d, m, answers[d][m])'
<1>1. answers \in [Calls -> [Attempts -> Answer]] BY DEF TruthInv, CallsInv, TypeOK, ClientTypeOK
<1>2. \A d \in Calls, m \in Attempts :
          \/ answers'[d][m] = answers[d][m]
          \/ d = c /\ m = n /\ answers'[d][m] = a /\ answers[d][m] = Nothing
  BY <1>1 DEF Answered
<1>3. ASSUME NEW d \in Calls, NEW m \in Attempts PROVE AnswerHolds(d, m, answers[d][m])'
  <2>1. CASE answers'[d][m] = answers[d][m]
    <3>1. AnswerHolds(d, m, answers[d][m]) BY DEF TruthInv
    <3>2. PICK b : b = answers[d][m] OBVIOUS
    <3>3. AnswerHolds(d, m, b)' BY <3>1, <3>2, AnswerStays
    <3> QED BY <2>1, <3>2, <3>3
  <2>2. CASE d = c /\ m = n /\ answers'[d][m] = a BY <2>2
  <2> QED BY <1>2, <2>1, <2>2
<1> QED BY <1>2, <1>3 DEF AnswersGrow

LEMMA CallersStay ==
    ASSUME TruthInv, client' = client, AnswersGrow
    PROVE  CallersGrow /\ \A c \in Calls : CallFollows(c)'
<1>1. CallersGrow BY DEF CallersGrow, Sent, Granted
<1>2. ASSUME NEW c \in Calls PROVE CallFollows(c)'
  <2>1. CallFollows(c) BY DEF TruthInv
  <2>2. \A n \in Attempts : client[c].outcome # Nothing /\ client[c].outcome = answers[c][n]
                            => client'[c].outcome = answers'[c][n]
    BY DEF AnswersGrow
  <2>3. Granted(Follows[c]) => Granted(Follows[c])' BY DEF Granted
  <2> QED BY <2>1, <2>2, <2>3 DEF CallFollows
<1> QED BY <1>1, <1>2

LEMMA StoppedStays ==
    ASSUME TruthInv, CallersGrow, NEW s \in DOMAIN sessions, sessions[s].stopped
    PROVE  \E c \in Calls : /\ Op[c] = "AuthorizeStop" /\ Granted(Follows[c])' /\ SessionOf(c)' = s
                            /\ Sent(c, 0)'
                            /\ ~MediumMismatch(With[Follows[c]], With[c])
<1>1. PICK c \in Calls : /\ Op[c] = "AuthorizeStop" /\ Granted(Follows[c]) /\ SessionOf(c) = s
                         /\ Sent(c, 0)
                         /\ ~MediumMismatch(With[Follows[c]], With[c])
  BY DEF TruthInv, StoppedByItsMedium
<1>2. Sent(c, 0)' BY <1>1, AttemptsAreNat DEF CallersGrow
<1>3. Follows[c] \in Calls BY FollowedIsAStart DEF Starts
<1>4. Granted(Follows[c])' /\ SessionOf(c)' = s BY <1>1, <1>3 DEF CallersGrow, SessionOf
<1> QED BY <1>1, <1>2, <1>4

LEMMA NoneStopped ==
    ASSUME TruthInv, CallersGrow,
           \A s \in DOMAIN sessions' : sessions'[s].stopped => s \in DOMAIN sessions /\ sessions[s].stopped
    PROVE  StoppedByItsMedium'
BY StoppedStays DEF StoppedByItsMedium

LEMMA NoneSettled ==
    ASSUME TruthInv, Grows,
           \A s \in DOMAIN sessions' : sessions'[s].settled => s \in DOMAIN sessions /\ sessions[s].settled
    PROVE  SettledByCdr'
BY DEF TruthInv, SettledByCdr, Grows

LEMMA HandlersStay ==
    ASSUME TruthInv, CallersGrow, handlers' = handlers
    PROVE  \A c \in Calls, n \in Attempts : HandlerServes(c, n)'
BY DEF TruthInv, HandlerServes, CallersGrow

-----------------------------------------------------------------------------
LEMMA ClientIsTold ==
    ASSUME TruthInv, NEW c \in Calls, ClientStep(c)
    PROVE  TruthInv'
<1>1. CallsInv /\ ClientTypeOK BY DEF TruthInv, CallsInv, TypeOK
<1>2. CallsInv' /\ UNCHANGED sessionVars /\ UNCHANGED answers
  BY <1>1, ClientStepKeeps DEF ClientStep, SendRequest, Send, Receive, TransportError
<1>3. /\ client[c].phase \notin {"ok", "failed"}
      /\ \A d \in Calls : d # c => client'[d] = client[d]
      /\ \A n \in Attempts : Sent(c, n) => Sent(c, n)'
      /\ client'[c].phase # "new"
      /\ client[c].phase = "new" => Ready(c)
      /\ client'[c].phase \in {"ok", "failed"} =>
            \/ client'[c].outcome = Transport
            \/ /\ client'[c].outcome # Nothing
               /\ \E n \in Attempts : client'[c].outcome = answers[c][n]
      /\ client'[c].phase = "ok" => client'[c].outcome.kind = "message"
  BY <1>1, ClientAdvances
<1>4. Grows BY <1>2 DEF Grows, sessionVars
<1>5. CallersGrow
  <2>1. \A d \in Calls, n \in Attempts : Sent(d, n) => Sent(d, n)' BY <1>3 DEF Sent
  <2>2. \A d \in Calls : Granted(d) => Granted(d)' /\ client'[d].outcome = client[d].outcome
    BY <1>3 DEF Granted
  <2> QED BY <2>1, <2>2 DEF CallersGrow
<1>6. ASSUME NEW d \in Calls PROVE CallFollows(d)'
  <2>1. CallFollows(d) BY DEF TruthInv
  <2>2. Follows[d] \in Calls BY FollowedIsAStart DEF Starts
  <2>3. Granted(Follows[d]) => Granted(Follows[d])' BY <1>5, <2>2 DEF CallersGrow
  <2>4. CASE d # c BY <1>2, <1>3, <2>1, <2>3, <2>4 DEF CallFollows
  <2>5. CASE d = c
    <3>1. c \in Starts \/ Granted(Follows[c]) BY <1>3, <2>1, <2>5 DEF CallFollows, Ready
    <3>2. Transport.kind # "message" BY DEF Transport
    <3> QED BY <1>2, <1>3, <2>3, <2>5, <3>1, <3>2 DEF CallFollows
  <2> QED BY <2>4, <2>5
<1>7. \A d \in Calls, m \in Attempts : AnswerHolds(d, m, answers[d][m])'
  <2> SUFFICES ASSUME NEW d \in Calls, NEW m \in Attempts PROVE AnswerHolds(d, m, answers[d][m])'
    OBVIOUS
  <2>1. AnswerHolds(d, m, answers[d][m]) BY DEF TruthInv
  <2>2. PICK b : b = answers[d][m] OBVIOUS
  <2>3. AnswerHolds(d, m, b)' BY <1>4, <1>5, <2>1, <2>2, AnswerStays
  <2> QED BY <1>2, <2>2, <2>3
<1>8. StoppedByItsMedium' BY <1>2, <1>5, NoneStopped DEF sessionVars
<1>9. SettledByCdr' BY <1>2, <1>4, NoneSettled DEF sessionVars
<1>10. \A d \in Calls, m \in Attempts : HandlerServes(d, m)' BY <1>2, <1>5, HandlersStay DEF sessionVars
<1> QED BY <1>2, <1>6, <1>7, <1>8, <1>9, <1>10 DEF TruthInv

LEMMA GatewayTellsNothing ==
    ASSUME TruthInv, NEW c \in Calls, NEW n \in Attempts, Gateway(c, n)
    PROVE  TruthInv'
<1>1. CallsInv /\ CallsInv' BY GatewayKeeps DEF TruthInv
<1>2. UNCHANGED <<sessionVars, client>> /\ Sent(c, n) BY DEF Gateway, GatewayAnswers
<1>3. PICK status \in GatewaySays :
          Answered(c, n, IF status = "310" THEN Refusal("PartnerDidNotRespond") ELSE Http(status))
  BY DEF Gateway, GatewayAnswers
<1>4. (IF status = "310" THEN Refusal("PartnerDidNotRespond") ELSE Http(status)) \in Answer
  BY GatewayAssumption DEF Answer, AnswerKinds, AnswerCodes, Refusal, Http
<1>5. PICK a \in Answer :
          a = IF status = "310" THEN Refusal("PartnerDidNotRespond") ELSE Http(status)
  BY <1>4
<1>6. a.kind # "message" /\ a.code # "SessionIsInvalid"
  BY <1>5, GatewayAssumption DEF Refusal, Http
<1>7. Answered(c, n, a) BY <1>3, <1>5
<1>8. Grows /\ CallersGrow BY <1>2 DEF Grows, sessionVars, CallersGrow, Sent, Granted
<1>9. AnswerHolds(c, n, a)'
  <2>1. Sent(c, n)' BY <1>2 DEF Sent
  <2> QED BY <1>6, <2>1 DEF AnswerHolds, IsYes
<1>10. AnswersGrow /\ \A d \in Calls, m \in Attempts : AnswerHolds(d, m, answers[d][m])'
  BY <1>7, <1>8, <1>9, AnswersStay
<1>11. \A d \in Calls : CallFollows(d)' BY <1>2, <1>10, CallersStay
<1>12. StoppedByItsMedium' BY <1>2, <1>8, NoneStopped DEF sessionVars
<1>13. SettledByCdr' BY <1>2, <1>8, NoneSettled DEF sessionVars
<1>14. \A d \in Calls, m \in Attempts : HandlerServes(d, m)' BY <1>2, <1>8, HandlersStay DEF sessionVars
<1> QED BY <1>1, <1>10, <1>11, <1>12, <1>13, <1>14 DEF TruthInv

LEMMA PushTellsNothing ==
    ASSUME TruthInv, NEW p \in Points, NEW status \in Statuses, Push(p, status)
    PROVE  TruthInv'
<1>1. CallsInv /\ CallsInv' BY PushKeeps DEF TruthInv
<1>2. UNCHANGED <<sessions, cdrs, handlers, client, answers>> BY DEF Push, ChangePoint, clientVars
<1>3. Grows /\ CallersGrow /\ AnswersGrow
  BY <1>2 DEF Grows, CallersGrow, AnswersGrow, Sent, Granted
<1>4. \A d \in Calls, m \in Attempts : AnswerHolds(d, m, answers[d][m])'
  <2> SUFFICES ASSUME NEW d \in Calls, NEW m \in Attempts PROVE AnswerHolds(d, m, answers[d][m])'
    OBVIOUS
  <2>1. AnswerHolds(d, m, answers[d][m]) BY DEF TruthInv
  <2>2. PICK b : b = answers[d][m] OBVIOUS
  <2>3. AnswerHolds(d, m, b)' BY <1>3, <2>1, <2>2, AnswerStays
  <2> QED BY <1>2, <2>2, <2>3
<1>5. \A d \in Calls : CallFollows(d)' BY <1>2, <1>3, CallersStay
<1>6. StoppedByItsMedium' /\ SettledByCdr' BY <1>2, <1>3, NoneStopped, NoneSettled
<1>7. \A d \in Calls, m \in Attempts : HandlerServes(d, m)' BY <1>2, <1>3, HandlersStay
<1> QED BY <1>1, <1>4, <1>5, <1>6, <1>7 DEF TruthInv

LEMMA ServeStartTellsNothing ==
    ASSUME TruthInv, NEW c \in Calls, NEW n \in Attempts, ServeStart(c, n)
    PROVE  TruthInv'
<1>1. CallsInv /\ CallsInv' BY ServeKeeps DEF TruthInv, Serve
<1>2. UNCHANGED <<sessions, cdrs, client, answers>> BY DEF ServeStart, Arrive, Take
<1>3. Grows /\ CallersGrow /\ AnswersGrow
  BY <1>2 DEF Grows, CallersGrow, AnswersGrow, Sent, Granted
<1>4. \A d \in Calls, m \in Attempts : AnswerHolds(d, m, answers[d][m])'
  <2> SUFFICES ASSUME NEW d \in Calls, NEW m \in Attempts PROVE AnswerHolds(d, m, answers[d][m])'
    OBVIOUS
  <2>1. AnswerHolds(d, m, answers[d][m]) BY DEF TruthInv
  <2>2. PICK b : b = answers[d][m] OBVIOUS
  <2>3. AnswerHolds(d, m, b)' BY <1>3, <2>1, <2>2, AnswerStays
  <2> QED BY <1>2, <2>2, <2>3
<1>5. \A d \in Calls : CallFollows(d)' BY <1>2, <1>3, CallersStay
<1>6. StoppedByItsMedium' /\ SettledByCdr' BY <1>2, <1>3, NoneStopped, NoneSettled
<1>7. ASSUME NEW d \in Calls, NEW m \in Attempts PROVE HandlerServes(d, m)'
  <2>1. handlers \in [Requests -> Handler] /\ <<d, m>> \in Requests /\ <<c, n>> \in Requests
    BY <1>1, CallsAssumption DEF CallsInv, TypeOK, SessionsTypeOK
  <2>2. PICK kind : Arrive(<<c, n>>, kind, At[c], With[c]) BY DEF ServeStart
  <2> DEFINE h == [pc |-> "knows_evse", kind |-> kind, point |-> At[c], medium |-> With[c],
                   session |-> NoSession, code |-> "Success"]
  <2>3. handlers' = [handlers EXCEPT ![<<c, n>>] = h] BY <2>2 DEF Arrive
  <2>4. h.pc = "knows_evse" /\ h.point = At[c] /\ h.medium = With[c] OBVIOUS
  <2> HIDE DEF h
  <2>5. CASE d = c /\ m = n
    <3>1. handlers'[<<d, m>>] = h BY <2>1, <2>3, <2>5
    <3>2. d \in Starts /\ Sent(d, m)' BY <1>3, <2>5 DEF ServeStart, Take, CallersGrow
    <3> QED BY <2>4, <2>5, <3>1, <3>2 DEF HandlerServes
  <2>6. CASE ~(d = c /\ m = n)
    <3>1. handlers'[<<d, m>>] = handlers[<<d, m>>] BY <2>1, <2>3, <2>6
    <3>2. HandlerServes(d, m) BY DEF TruthInv
    <3> QED BY <1>3, <3>1, <3>2 DEF HandlerServes, CallersGrow
  <2> QED BY <2>5, <2>6
<1> QED BY <1>1, <1>4, <1>5, <1>6, <1>7 DEF TruthInv

(* What every request but a start has when the broker takes it. *)
LEMMA TakenCall ==
    ASSUME TruthInv, NEW c \in Calls, NEW n \in Attempts, Take(c, n)
    PROVE  /\ client' = client /\ CallersGrow /\ Sent(c, n) /\ Sent(c, n)' /\ Sent(c, 0)
           /\ c \notin Starts =>
                 /\ SessionOf(c)' = SessionOf(c) /\ SessionOf(c) \in DOMAIN sessions
                 /\ SessionOf(c) \in Nat
                 /\ Granted(Follows[c])
                 /\ sessions[SessionOf(c)].medium = With[Follows[c]]
<1>1. client' = client /\ Sent(c, n) BY DEF Take
<1>2. CallersGrow /\ Sent(c, n)' BY <1>1 DEF CallersGrow, Sent, Granted
<1>3. client[c].phase # "new" BY <1>1, SentIsNotNew
<1>4. Sent(c, 0)
  <2>1. n \in Nat /\ client[c].attempt \in Nat
    BY AttemptsAreNat DEF TruthInv, CallsInv, TypeOK, ClientTypeOK
  <2> QED BY <1>1, <2>1 DEF Sent
<1>5. SessionOf(c) \in Nat BY SessionOfIsNat DEF TruthInv, CallsInv, TypeOK
<1> QED BY <1>1, <1>2, <1>3, <1>4, <1>5, SessionIsFixed

LEMMA NotificationIsTrue ==
    ASSUME TruthInv, NEW c \in Calls, NEW n \in Attempts, ServeNotification(c, n)
    PROVE  TruthInv'
<1>1. CallsInv /\ CallsInv' BY ServeKeeps DEF TruthInv, Serve
<1>2. UNCHANGED <<sessions, cdrs, handlers>> BY DEF ServeNotification, Notify
<1>3. Take(c, n) /\ c \notin Starts BY DEF ServeNotification, Starts
<1>4. /\ client' = client /\ CallersGrow /\ Sent(c, n)'
      /\ SessionOf(c)' = SessionOf(c) /\ SessionOf(c) \in DOMAIN sessions
  BY <1>3, TakenCall
<1>5. Grows BY <1>2 DEF Grows
<1>6. PICK a \in Answer : a = Message("Success", 0)
  <2>1. "Success" \in AnswerCodes /\ 0 \in Nat BY DEF AnswerCodes
  <2> QED BY <2>1, AnswersAreTyped
<1>7. Answered(c, n, a) BY <1>4, <1>6 DEF ServeNotification, NotifyCode, Acknowledged
<1>8. AnswerHolds(c, n, a)'
  BY <1>2, <1>3, <1>4 DEF AnswerHolds, ServeNotification
<1>9. AnswersGrow /\ \A d \in Calls, m \in Attempts : AnswerHolds(d, m, answers[d][m])'
  BY <1>4, <1>5, <1>7, <1>8, AnswersStay
<1>10. \A d \in Calls : CallFollows(d)' BY <1>4, <1>9, CallersStay
<1>11. StoppedByItsMedium' /\ SettledByCdr' BY <1>2, <1>4, <1>5, NoneStopped, NoneSettled
<1>12. \A d \in Calls, m \in Attempts : HandlerServes(d, m)' BY <1>2, <1>4, HandlersStay
<1> QED BY <1>1, <1>9, <1>10, <1>11, <1>12 DEF TruthInv

LEMMA StopIsTrue ==
    ASSUME TruthInv, NEW c \in Calls, NEW n \in Attempts, ServeStop(c, n)
    PROVE  TruthInv'
<1>1. CallsInv /\ CallsInv' /\ SessionsInv BY ServeKeeps DEF TruthInv, Serve, CallsInv
<1>2. Take(c, n) /\ c \notin Starts /\ Op[c] = "AuthorizeStop" BY DEF ServeStop, Starts
<1>3. PICK s \in Nat : s = SessionOf(c) BY <1>2, TakenCall
<1>4. /\ client' = client /\ CallersGrow /\ Sent(c, n)' /\ Sent(c, 0)'
      /\ SessionOf(c)' = s /\ s \in DOMAIN sessions
      /\ Granted(Follows[c]) /\ sessions[s].medium = With[Follows[c]]
  BY <1>2, <1>3, TakenCall, AttemptsAreNat DEF CallersGrow
<1>5. With[c] \in Media BY CallsAssumption
<1>6. AuthorizeStop(s, With[c]) BY <1>3 DEF ServeStop, AuthorizeStop, StopCode, Logged
<1>7. Grows /\ handlers' = handlers /\ cdrs' = cdrs
  BY <1>1, <1>5, <1>6, StopGrows DEF AuthorizeStop
<1>8. PICK code \in AnswerCodes : code = StopCode(s, With[c]) BY DEF StopCode, AnswerCodes
<1>9. PICK a \in Answer : a = Message(code, s) BY AnswersAreTyped
<1>10. Answered(c, n, a) BY <1>3, <1>8, <1>9 DEF ServeStop, Answered
<1>11. code = "Success" => s \in DOMAIN sessions' /\ sessions'[s].stopped
  BY <1>1, <1>5, <1>6, <1>8, StopStops
<1>12. a.code = code BY <1>9 DEF Message
<1>13. AnswerHolds(c, n, a)'
  BY <1>2, <1>4, <1>11, <1>12 DEF AnswerHolds, IsYes
<1>14. AnswersGrow /\ \A d \in Calls, m \in Attempts : AnswerHolds(d, m, answers[d][m])'
  BY <1>4, <1>7, <1>10, <1>13, AnswersStay
<1>15. \A d \in Calls : CallFollows(d)' BY <1>4, <1>14, CallersStay
<1>16. StoppedByItsMedium' /\ SettledByCdr'
  <2>1. CASE code # "Success"
    <3>1. UNCHANGED sessions BY <1>6, <1>8, <2>1 DEF AuthorizeStop
    <3> QED BY <1>4, <1>7, <3>1, NoneStopped, NoneSettled
  <2>2. CASE code = "Success"
    <3>1. /\ DOMAIN sessions' = DOMAIN sessions /\ ~MediumMismatch(sessions[s].medium, With[c])
          /\ \A t \in DOMAIN sessions : /\ sessions'[t].settled = sessions[t].settled
                                        /\ t # s => sessions'[t].stopped = sessions[t].stopped
      BY <1>1, <1>5, <1>6, <1>8, <2>2, StopStops
    <3>2. SettledByCdr' BY <1>7, <3>1, NoneSettled
    <3>3. Granted(Follows[c])' BY <1>4 DEF Granted
    <3>4. ASSUME NEW t \in DOMAIN sessions', sessions'[t].stopped
          PROVE  \E d \in Calls : /\ Op[d] = "AuthorizeStop" /\ Granted(Follows[d])'
                                  /\ SessionOf(d)' = t /\ Sent(d, 0)'
                                  /\ ~MediumMismatch(With[Follows[d]], With[d])
      <4>1. CASE t = s BY <1>2, <1>4, <3>1, <3>3, <4>1
      <4>2. CASE t # s BY <1>4, <3>1, <3>4, <4>2, StoppedStays
      <4> QED BY <4>1, <4>2
    <3> QED BY <3>2, <3>4 DEF StoppedByItsMedium
  <2> QED BY <2>1, <2>2
<1>17. \A d \in Calls, m \in Attempts : HandlerServes(d, m)' BY <1>4, <1>7, HandlersStay
<1> QED BY <1>1, <1>14, <1>15, <1>16, <1>17 DEF TruthInv

LEMMA CdrIsTrue ==
    ASSUME TruthInv, NEW c \in Calls, NEW n \in Attempts, ServeCdr(c, n)
    PROVE  TruthInv'
<1>1. CallsInv /\ CallsInv' /\ SessionsInv BY ServeKeeps DEF TruthInv, Serve, CallsInv
<1>2. Take(c, n) /\ c \notin Starts /\ Op[c] = "ChargeDetailRecord" BY DEF ServeCdr, Starts
<1>3. PICK s \in Nat : s = SessionOf(c) BY <1>2, TakenCall
<1>4. /\ client' = client /\ CallersGrow /\ Sent(c, n)'
      /\ SessionOf(c)' = s /\ s \in DOMAIN sessions
  BY <1>2, <1>3, TakenCall
<1>5. At[c] \in Points BY CallsAssumption
<1>6. SubmitCdr(s, At[c]) BY <1>3 DEF ServeCdr, SubmitCdr, CdrCode, Logged
<1>7. Grows /\ handlers' = handlers BY <1>1, <1>5, <1>6, CdrGrows DEF SubmitCdr
<1>8. PICK code \in AnswerCodes : code = CdrCode(s, At[c]) BY DEF CdrCode, AnswerCodes
<1>9. PICK a \in Answer : a = Acknowledged(code)
  <2>1. 0 \in Nat OBVIOUS
  <2> QED BY <2>1, AnswersAreTyped DEF Acknowledged
<1>10. Answered(c, n, a) BY <1>3, <1>8, <1>9 DEF ServeCdr, Answered
<1>11. a.code = code /\ (a.kind = "message" => code = "Success")
  BY <1>9 DEF Acknowledged, Message, Refusal
<1>12. CASE code = "Success"
  <2> DEFINE cdr == [session |-> s, point |-> At[c]]
             Cdr == [session : Nat, point : Points]
  <2>1. /\ DOMAIN sessions' = DOMAIN sessions /\ sessions[s].point = At[c] /\ sessions'[s].settled
        /\ \A t \in DOMAIN sessions : /\ sessions'[t].stopped = sessions[t].stopped
                                      /\ sessions'[t].point = sessions[t].point
                                      /\ t # s => sessions'[t].settled = sessions[t].settled
        /\ cdrs' = Append(cdrs, cdr)
    BY <1>1, <1>5, <1>6, <1>8, <1>12, CdrSettles
  <2>2. cdr \in Cdr /\ cdrs \in Seq(Cdr) /\ cdr.session = s
    BY <1>1, <1>5 DEF SessionsInv, SessionsTypeOK
  <2> HIDE DEF cdr, Cdr
  <2>3. \E i \in DOMAIN cdrs' : cdrs'[i].session = s BY <2>1, <2>2, Appended
  <2>4. SettledByCdr'
    <3> SUFFICES ASSUME NEW t \in DOMAIN sessions', sessions'[t].settled
                 PROVE  \E i \in DOMAIN cdrs' : cdrs'[i].session = t
      BY DEF SettledByCdr
    <3>1. CASE t = s BY <2>3, <3>1
    <3>2. CASE t # s BY <1>7, <2>1, <3>2 DEF TruthInv, SettledByCdr, Grows
    <3> QED BY <3>1, <3>2
  <2>5. AnswerHolds(c, n, a)'
    BY <1>2, <1>4, <1>11, <1>12, <2>1 DEF AnswerHolds
  <2>6. StoppedByItsMedium' BY <1>4, <2>1, NoneStopped
  <2>7. AnswersGrow /\ \A d \in Calls, m \in Attempts : AnswerHolds(d, m, answers[d][m])'
    BY <1>4, <1>7, <1>10, <2>5, AnswersStay
  <2>8. \A d \in Calls : CallFollows(d)' BY <1>4, <2>7, CallersStay
  <2>9. \A d \in Calls, m \in Attempts : HandlerServes(d, m)' BY <1>4, <1>7, HandlersStay
  <2> QED BY <1>1, <2>4, <2>6, <2>7, <2>8, <2>9 DEF TruthInv
<1>13. CASE code # "Success"
  <2>1. UNCHANGED <<sessions, cdrs>> BY <1>6, <1>8, <1>13 DEF SubmitCdr
  <2>2. code = "SessionIsInvalid" => \E i \in DOMAIN cdrs' : cdrs'[i].session = s
    BY <1>4, <1>8, <2>1 DEF CdrCode, TruthInv, SettledByCdr
  <2>3. AnswerHolds(c, n, a)'
    BY <1>4, <1>11, <1>13, <2>2 DEF AnswerHolds, IsYes
  <2>4. StoppedByItsMedium' /\ SettledByCdr' BY <1>4, <1>7, <2>1, NoneStopped, NoneSettled
  <2>5. AnswersGrow /\ \A d \in Calls, m \in Attempts : AnswerHolds(d, m, answers[d][m])'
    BY <1>4, <1>7, <1>10, <2>3, AnswersStay
  <2>6. \A d \in Calls : CallFollows(d)' BY <1>4, <2>5, CallersStay
  <2>7. \A d \in Calls, m \in Attempts : HandlerServes(d, m)' BY <1>4, <1>7, HandlersStay
  <2> QED BY <1>1, <2>4, <2>5, <2>6, <2>7 DEF TruthInv
<1> QED BY <1>12, <1>13

-----------------------------------------------------------------------------
(* What a handler has when it answers, and that it never changes whom it     *)
(* works for.                                                                *)
LEMMA CheckServes ==
    ASSUME SessionsTypeOK, NEW r \in Requests, NEW here, NEW passes, NEW next \in Pcs, NEW code \in Codes,
           next \notin {"record_refusal", "answered"},
           ~passes => code # "Success", Check(r, here, passes, next, code)
    PROVE  /\ handlers'[r].point = handlers[r].point /\ handlers'[r].medium = handlers[r].medium
           /\ handlers'[r].kind = handlers[r].kind
           /\ handlers'[r].pc \in {"record_refusal", "answered"} => handlers'[r].code # "Success"
<1>1. handlers \in [Requests -> Handler] BY DEF SessionsTypeOK
<1>2. CASE passes
  <2>1. handlers' = [handlers EXCEPT ![r].pc = next] BY <1>2 DEF Check
  <2> QED BY <1>1, <2>1 DEF Handler
<1>3. CASE ~passes
  <2>1. handlers' = [handlers EXCEPT ![r].pc = RefusalPc(r), ![r].code = code] BY <1>3 DEF Check
  <2> QED BY <1>1, <1>3, <2>1 DEF Handler
<1> QED BY <1>2, <1>3

LEMMA HandlerStepServes ==
    ASSUME SessionsInv, NEW r \in Requests, HandlerStep(r),
           handlers[r].pc = "record_refusal" => handlers[r].code # "Success"
    PROVE  /\ handlers'[r].point = handlers[r].point /\ handlers'[r].medium = handlers[r].medium
           /\ handlers'[r].pc = "record_refusal" => handlers'[r].code # "Success"
           /\ handlers'[r].pc = "answered" => handlers'[r].code # "Success" \/ Insert(r)
           /\ Insert(r) => handlers'[r].session = handlers[r].session
           /\ ~Insert(r) => UNCHANGED <<sessions, cdrs>>
           /\ cdrs' = cdrs
<1>1. SessionsTypeOK /\ handlers \in [Requests -> Handler] BY DEF SessionsInv, SessionsTypeOK
<1>2. ~Insert(r) => UNCHANGED <<sessions, cdrs>>
  BY DEF HandlerStep, KnowsEvse, IsCompatible, RouteAndDecide, Check, NewSessionId, RecordRefusal
<1>3. cdrs' = cdrs BY <1>2 DEF Insert
<1>4. /\ handlers'[r].point = handlers[r].point /\ handlers'[r].medium = handlers[r].medium
      /\ handlers'[r].pc = "record_refusal" => handlers'[r].code # "Success"
      /\ handlers'[r].pc = "answered" => handlers'[r].code # "Success" \/ Insert(r)
      /\ Insert(r) => handlers'[r].session = handlers[r].session
  <2>1. CASE KnowsEvse(r)
    <3>1. "compatible" \in Pcs /\ "UnknownEvseId" \in Codes BY DEF Pcs, Codes
    <3>2. ~Insert(r) BY <2>1 DEF KnowsEvse, Check, Insert
    <3> QED BY <1>1, <2>1, <3>1, <3>2, CheckServes DEF KnowsEvse
  <2>2. CASE IsCompatible(r)
    <3> DEFINE next == IF handlers[r].kind = "start" THEN "route" ELSE "new_session_id"
    <3>1. next \in Pcs /\ next \notin {"record_refusal", "answered"}
          /\ "EvseIdNotHubjectCompatible" \in Codes
      BY DEF Pcs, Codes
    <3>2. Check(r, "compatible", points[handlers[r].point] = "compatible", next,
                "EvseIdNotHubjectCompatible") BY <2>2 DEF IsCompatible
    <3>3. ~Insert(r) BY <2>2 DEF IsCompatible, Check, Insert
    <3> HIDE DEF next
    <3> QED BY <1>1, <3>1, <3>2, <3>3, CheckServes
  <2>3. CASE RouteAndDecide(r)
    <3> DEFINE code == Decided(handlers[r].medium)
    <3>1. "new_session_id" \in Pcs /\ code \in Codes BY DEF Pcs, Codes, Decided
    <3>2. Check(r, "route", code = "Success", "new_session_id", code) BY <2>3 DEF RouteAndDecide
    <3>3. ~Insert(r) BY <2>3 DEF RouteAndDecide, Check, Insert
    <3> HIDE DEF code
    <3> QED BY <1>1, <3>1, <3>2, <3>3, CheckServes
  <2>4. CASE NewSessionId(r)
    <3>1. ~Insert(r) BY <2>4 DEF NewSessionId, Insert
    <3>2. handlers' = [handlers EXCEPT ![r].pc = "insert", ![r].session = nextSession]
      BY <2>4 DEF NewSessionId
    <3> QED BY <1>1, <3>1, <3>2 DEF Handler
  <2>5. CASE Insert(r)
    <3>1. handlers' = [handlers EXCEPT ![r].pc = "answered"] BY <2>5 DEF Insert
    <3> QED BY <1>1, <2>5, <3>1 DEF Handler
  <2>6. CASE RecordRefusal(r)
    <3>1. handlers' = [handlers EXCEPT ![r].pc = "answered"] /\ handlers[r].pc = "record_refusal"
      BY <2>6 DEF RecordRefusal
    <3>2. ~Insert(r) BY <3>1 DEF Insert
    <3> QED BY <1>1, <3>1, <3>2 DEF Handler
  <2> QED BY <2>1, <2>2, <2>3, <2>4, <2>5, <2>6 DEF HandlerStep
<1> QED BY <1>2, <1>3, <1>4

LEMMA HandleIsTrue ==
    ASSUME TruthInv, NEW c \in Calls, NEW n \in Attempts, Handle(c, n)
    PROVE  TruthInv'
<1> DEFINE r == <<c, n>>
<1>1. CallsInv /\ CallsInv' /\ SessionsInv /\ SessionsTypeOK /\ SessionsTypeOK'
  BY HandleKeeps DEF TruthInv, CallsInv, TypeOK
<1>2. r \in Requests /\ HandlerStep(r) /\ client' = client BY CallsAssumption DEF Handle
<1>3. HandlerServes(c, n) BY DEF TruthInv
<1>4. handlers[r].pc # "free" /\ \A q \in Requests : q # r => handlers'[q] = handlers[q]
  BY <1>1, <1>2, HandlerStepIsLocal
<1>5. c \in Starts /\ Sent(c, n) /\ handlers[r].point = At[c] /\ handlers[r].medium = With[c]
      /\ (handlers[r].pc = "record_refusal" => handlers[r].code # "Success")
  BY <1>3, <1>4 DEF HandlerServes
<1>6. /\ handlers'[r].point = handlers[r].point /\ handlers'[r].medium = handlers[r].medium
      /\ handlers'[r].pc = "record_refusal" => handlers'[r].code # "Success"
      /\ handlers'[r].pc = "answered" => handlers'[r].code # "Success" \/ Insert(r)
      /\ Insert(r) => handlers'[r].session = handlers[r].session
      /\ ~Insert(r) => UNCHANGED <<sessions, cdrs>>
      /\ cdrs' = cdrs
  BY <1>1, <1>2, <1>5, HandlerStepServes
<1>7. Insert(r) =>
        /\ handlers[r].session \notin DOMAIN sessions
        /\ DOMAIN sessions' = DOMAIN sessions \cup {handlers[r].session}
        /\ \A s \in DOMAIN sessions : sessions'[s] = sessions[s]
        /\ sessions'[handlers[r].session] = [point |-> handlers[r].point, medium |-> handlers[r].medium,
                                             stopped |-> FALSE, settled |-> FALSE]
  BY <1>1, <1>2, InsertAdds
<1>8. Grows /\ CallersGrow
  <2>1. Grows BY <1>6, <1>7 DEF Grows
  <2> QED BY <1>2, <2>1 DEF CallersGrow, Sent, Granted
<1>9. StoppedByItsMedium' /\ SettledByCdr'
  <2>1. \A s \in DOMAIN sessions' :
            /\ sessions'[s].stopped => s \in DOMAIN sessions /\ sessions[s].stopped
            /\ sessions'[s].settled => s \in DOMAIN sessions /\ sessions[s].settled
    <3>1. CASE Insert(r)
      <4> SUFFICES ASSUME NEW s \in DOMAIN sessions'
                   PROVE  /\ sessions'[s].stopped => s \in DOMAIN sessions /\ sessions[s].stopped
                          /\ sessions'[s].settled => s \in DOMAIN sessions /\ sessions[s].settled
        OBVIOUS
      <4>1. CASE s \in DOMAIN sessions BY <1>7, <3>1, <4>1
      <4>2. CASE s = handlers[r].session BY <1>7, <3>1, <4>2
      <4> QED BY <1>7, <3>1, <4>1, <4>2
    <3>2. CASE ~Insert(r) BY <1>6, <3>2
    <3> QED BY <3>1, <3>2
  <2> QED BY <1>8, <2>1, NoneStopped, NoneSettled
<1>10. ASSUME NEW d \in Calls, NEW m \in Attempts PROVE HandlerServes(d, m)'
  <2>1. <<d, m>> \in Requests BY CallsAssumption
  <2>2. CASE <<d, m>> = r BY <1>5, <1>6, <1>8, <2>2 DEF HandlerServes, CallersGrow
  <2>3. CASE <<d, m>> # r
    <3>1. handlers'[<<d, m>>] = handlers[<<d, m>>] BY <1>4, <2>1, <2>3
    <3>2. HandlerServes(d, m) BY DEF TruthInv
    <3> QED BY <1>8, <3>1, <3>2 DEF HandlerServes, CallersGrow
  <2> QED BY <2>2, <2>3
<1>11. AnswersGrow /\ \A d \in Calls, m \in Attempts : AnswerHolds(d, m, answers[d][m])'
  <2>1. CASE handlers'[r].pc = "answered"
    <3>1. PICK h \in Handler : h = handlers'[r] BY <1>1, <1>2 DEF SessionsTypeOK
    <3>2. PICK a \in Answer : a = StartAnswer(c, h) BY StartAnswerTyped
    <3>3. Answered(c, n, a) BY <2>1, <3>1, <3>2 DEF Handle, Answered, StartAnswer, Message, Refusal
    <3>4. Op[c] \notin {"AuthorizeStop", "ChargeDetailRecord"} BY <1>5 DEF Starts
    <3>5. Sent(c, n)' BY <1>5, <1>8 DEF CallersGrow
    <3>6. IsYes(c, a) => h.code = "Success" /\ a.session = h.session
      BY <1>5, <3>2 DEF IsYes, StartAnswer, Message, Refusal, Starts
    <3>7. IsYes(c, a) => /\ a.session \in DOMAIN sessions'
                         /\ sessions'[a.session].point = At[c] /\ sessions'[a.session].medium = With[c]
      BY <1>5, <1>6, <1>7, <2>1, <3>1, <3>6
    <3>8. AnswerHolds(c, n, a)' BY <1>5, <3>4, <3>5, <3>7 DEF AnswerHolds, IsYes
    <3> QED BY <1>8, <3>3, <3>8, AnswersStay
  <2>2. CASE handlers'[r].pc # "answered"
    <3>1. UNCHANGED answers BY <2>2 DEF Handle
    <3>2. ASSUME NEW d \in Calls, NEW m \in Attempts PROVE AnswerHolds(d, m, answers[d][m])'
      <4>1. AnswerHolds(d, m, answers[d][m]) BY DEF TruthInv
      <4>2. PICK b : b = answers[d][m] OBVIOUS
      <4>3. AnswerHolds(d, m, b)' BY <1>8, <4>1, <4>2, AnswerStays
      <4> QED BY <3>1, <4>2, <4>3
    <3> QED BY <3>1, <3>2 DEF AnswersGrow
  <2> QED BY <2>1, <2>2
<1>12. \A d \in Calls : CallFollows(d)' BY <1>2, <1>11, CallersStay
<1> QED BY <1>1, <1>9, <1>10, <1>11, <1>12 DEF TruthInv

LEMMA TruthStarts == Init => TruthInv
<1> SUFFICES ASSUME Init PROVE TruthInv OBVIOUS
<1>1. CallsInv BY CallsInitKeeps
<1>2. SettledByCdr /\ StoppedByItsMedium
  BY DEF Init, SessionsInit, SettledByCdr, StoppedByItsMedium
<1>3. \A c \in Calls : CallFollows(c) BY DEF Init, ClientInit, CallFollows
<1>4. ASSUME NEW c \in Calls, NEW n \in Attempts PROVE AnswerHolds(c, n, answers[c][n])
  <2>1. answers[c][n] = Nothing BY DEF Init, ClientInit
  <2> QED BY <2>1 DEF AnswerHolds, IsYes, Nothing
<1>5. ASSUME NEW c \in Calls, NEW n \in Attempts PROVE HandlerServes(c, n)
  <2>1. <<c, n>> \in Requests BY CallsAssumption
  <2>2. handlers[<<c, n>>] = FreeHandler BY <2>1 DEF Init, SessionsInit
  <2> QED BY <2>2 DEF HandlerServes, FreeHandler
<1> QED BY <1>1, <1>2, <1>3, <1>4, <1>5 DEF TruthInv

LEMMA NothingHappensTruly == TruthInv /\ UNCHANGED vars => TruthInv'
<1> SUFFICES ASSUME TruthInv, UNCHANGED vars PROVE TruthInv' OBVIOUS
<1>1. UNCHANGED <<sessions, cdrs, handlers, client, answers>> BY DEF vars, sessionVars, clientVars
<1>2. CallsInv' BY CallsNextKeeps DEF TruthInv
<1>3. Grows /\ CallersGrow /\ AnswersGrow
  BY <1>1 DEF Grows, CallersGrow, AnswersGrow, Sent, Granted
<1>4. ASSUME NEW d \in Calls, NEW m \in Attempts PROVE AnswerHolds(d, m, answers[d][m])'
  <2>1. AnswerHolds(d, m, answers[d][m]) BY DEF TruthInv
  <2>2. PICK b : b = answers[d][m] OBVIOUS
  <2>3. AnswerHolds(d, m, b)' BY <1>3, <2>1, <2>2, AnswerStays
  <2> QED BY <1>1, <2>2, <2>3
<1>5. \A d \in Calls : CallFollows(d)' BY <1>1, <1>3, CallersStay
<1>6. StoppedByItsMedium' /\ SettledByCdr' BY <1>1, <1>3, NoneStopped, NoneSettled
<1>7. \A d \in Calls, m \in Attempts : HandlerServes(d, m)' BY <1>1, <1>3, HandlersStay
<1> QED BY <1>2, <1>4, <1>5, <1>6, <1>7 DEF TruthInv

LEMMA TruthNextKeeps == TruthInv /\ [Next]_vars => TruthInv'
<1> SUFFICES ASSUME TruthInv, [Next]_vars PROVE TruthInv' OBVIOUS
<1>1. ASSUME NEW c \in Calls, NEW n \in Attempts, Serve(c, n) PROVE TruthInv'
  BY <1>1, ServeStartTellsNothing, StopIsTrue, CdrIsTrue, NotificationIsTrue DEF Serve
<1> QED BY <1>1, NothingHappensTruly, ClientIsTold, GatewayTellsNothing, HandleIsTrue,
           PushTellsNothing DEF Next

THEOREM TruthIsKept == Spec => []TruthInv
BY TruthStarts, TruthNextKeeps, PTL DEF Spec

(* Whatever the network loses and the client repeats, a caller is told the   *)
(* truth: an authorization that was granted is a session at the point and    *)
(* with the medium the caller named, a stop or a CDR that returned Ok has    *)
(* stopped or settled it, and a CDR refused as invalid was settled before    *)
(* (post_raw with authorize_start, remote_start, authorize_stop, submit_cdr).*)
THEOREM CallersAreToldTheTruth == Spec => []AnswersAreTrue
<1>1. TruthInv => ReportsAreTrue
  <2> SUFFICES ASSUME TruthInv, NEW c \in Calls, Granted(c)
               PROVE  LET s == IF c \in Starts THEN client[c].outcome.session ELSE SessionOf(c) IN
                      /\ s \in DOMAIN sessions
                      /\ c \in Starts => sessions[s].point = At[c] /\ sessions[s].medium = With[c]
                      /\ Op[c] = "AuthorizeStop" => sessions[s].stopped
                      /\ Op[c] = "ChargeDetailRecord" => sessions[s].settled /\ sessions[s].point = At[c]
    BY DEF ReportsAreTrue
  <2>1. CallFollows(c) BY DEF TruthInv
  <2>2. client[c].outcome.kind = "message" /\ \E n \in Attempts : client[c].outcome = answers[c][n]
    BY <2>1 DEF CallFollows, Granted
  <2>3. PICK n \in Attempts : client[c].outcome = answers[c][n] BY <2>2
  <2>4. IsYes(c, answers[c][n]) BY <2>2, <2>3 DEF IsYes, Granted
  <2>5. AnswerHolds(c, n, answers[c][n]) BY DEF TruthInv
  <2> QED BY <2>3, <2>4, <2>5 DEF AnswerHolds
<1>2. TruthInv => RefusedCdrIsSettled
  <2> SUFFICES ASSUME TruthInv, NEW c \in Calls, Op[c] = "ChargeDetailRecord",
                      client[c].phase = "failed", client[c].outcome.code = "SessionIsInvalid"
               PROVE  \E i \in DOMAIN cdrs : cdrs[i].session = SessionOf(c)
    BY DEF RefusedCdrIsSettled
  <2>1. CallFollows(c) /\ client[c].outcome # Transport BY DEF TruthInv, Transport
  <2>2. PICK n \in Attempts : client[c].outcome = answers[c][n] BY <2>1 DEF CallFollows
  <2>3. AnswerHolds(c, n, answers[c][n]) BY DEF TruthInv
  <2> QED BY <2>2, <2>3 DEF AnswerHolds
<1>3. TruthInv => AnswersAreTrue BY <1>1, <1>2 DEF AnswersAreTrue
<1> QED BY <1>3, TruthIsKept, PTL

(* No session is stopped by somebody whose contract or card is another than  *)
(* the one it was started with (authorize_stop and medium_mismatch).         *)
THEOREM SessionsStopByTheirMedium == Spec => []StoppedByItsMedium
<1>1. TruthInv => StoppedByItsMedium BY DEF TruthInv
<1> QED BY <1>1, TruthIsKept, PTL
=============================================================================
