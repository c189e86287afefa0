-------------------------- MODULE Exchange_proofs ---------------------------
(* What holds of the exchange for any parties, messages and number of calls: *)
(* paths tell operations apart, answers are verdicts, and services do what   *)
(* they were asked.                                                          *)
EXTENDS Exchange, TLAPS

-----------------------------------------------------------------------------
(* The endpoint table, segment by segment.                                   *)
HasThree(op, a, b, c) ==
    /\ DOMAIN Template(op) = 1..3
    /\ Template(op)[1] = a /\ Template(op)[2] = b /\ Template(op)[3] = c
HasFive(op, a, b, c, d, e) ==
    /\ DOMAIN Template(op) = 1..5
    /\ Template(op)[1] = a /\ Template(op)[2] = b /\ Template(op)[3] = c
    /\ Template(op)[4] = d /\ Template(op)[5] = e
HasSix(op, a, b, c, d, e, f) ==
    /\ DOMAIN Template(op) = 1..6
    /\ Template(op)[1] = a /\ Template(op)[2] = b /\ Template(op)[3] = c
    /\ Template(op)[4] = d /\ Template(op)[5] = e /\ Template(op)[6] = f

LEMMA Rows ==
    /\ HasSix("AuthorizeStart", "charging", "v21", "operators", OperatorSlot, "authorize", "start")
    /\ HasSix("AuthorizeStop", "charging", "v21", "operators", OperatorSlot, "authorize", "stop")
    /\ HasSix("AuthorizeRemoteStart", "charging", "v21", "providers", ProviderSlot, "authorize-remote", "start")
    /\ HasSix("AuthorizeRemoteStop", "charging", "v21", "providers", ProviderSlot, "authorize-remote", "stop")
    /\ HasFive("ChargeDetailRecord", "cdrmgmt", "v22", "operators", OperatorSlot, "charge-detail-record")
    /\ HasFive("GetChargeDetailRecords", "cdrmgmt", "v22", "providers", ProviderSlot, "get-charge-detail-records-request")
    /\ HasFive("PushAuthenticationData", "authdata", "v21", "providers", ProviderSlot, "push-request")
    /\ HasFive("AuthorizeRemoteReservationStart", "reservation", "v11", "providers", ProviderSlot, "reservation-start-request")
    /\ HasFive("AuthorizeRemoteReservationStop", "reservation", "v11", "providers", ProviderSlot, "reservation-stop-request")
    /\ HasFive("PushEvseData", "evsepush", "v23", "operators", OperatorSlot, "data-records")
    /\ HasFive("PullEvseData", "evsepull", "v23", "providers", ProviderSlot, "data-records")
    /\ HasFive("PushEvseStatus", "evsepush", "v21", "operators", OperatorSlot, "status-records")
    /\ HasFive("PullEvseStatus", "evsepull", "v21", "providers", ProviderSlot, "status-records")
    /\ HasFive("PushPricingProductData", "dynamicpricing", "v10", "operators", OperatorSlot, "pricing-products")
    /\ HasFive("PullPricingProductData", "dynamicpricing", "v10", "providers", ProviderSlot, "pricing-products")
    /\ HasFive("PushEvsePricing", "dynamicpricing", "v10", "operators", OperatorSlot, "evse-pricing")
    /\ HasFive("PullEvsePricing", "dynamicpricing", "v10", "providers", ProviderSlot, "evse-pricing")
    /\ HasThree("ChargingNotifications", "notificationmgmt", "v11", "charging-notifications")
BY DEF Template, HasThree, HasFive, HasSix

LEMMA LengthsDiffer == 1..3 # 1..5 /\ 1..3 # 1..6 /\ 1..5 # 1..6
<1>1. 4 \in 1..5 /\ 4 \in 1..6 /\ 6 \in 1..6 /\ 4 \notin 1..3 /\ 6 \notin 1..5 OBVIOUS
<1> QED BY <1>1

OfSix == {"AuthorizeStart", "AuthorizeStop", "AuthorizeRemoteStart", "AuthorizeRemoteStop"}
OfFive == (Operations \ OfSix) \ {"ChargingNotifications"}

Fixed(segment) == segment \notin Slots /\ segment # ""

(* The operation by the segments in which its path differs from all others.  *)
BySix(third, last) ==
    CASE third = "operators" /\ last = "start" -> "AuthorizeStart"
      [] third = "operators" /\ last = "stop"  -> "AuthorizeStop"
      [] third = "providers" /\ last = "start" -> "AuthorizeRemoteStart"
      [] third = "providers" /\ last = "stop"  -> "AuthorizeRemoteStop"
ByFive(first, third, last) ==
    CASE last = "charge-detail-record" -> "ChargeDetailRecord"
      [] last = "get-charge-detail-records-request" -> "GetChargeDetailRecords"
      [] last = "push-request" -> "PushAuthenticationData"
      [] last = "reservation-start-request" -> "AuthorizeRemoteReservationStart"
      [] last = "reservation-stop-request" -> "AuthorizeRemoteReservationStop"
      [] first = "evsepush" /\ last = "data-records" -> "PushEvseData"
      [] first = "evsepull" /\ last = "data-records" -> "PullEvseData"
      [] first = "evsepush" /\ last = "status-records" -> "PushEvseStatus"
      [] first = "evsepull" /\ last = "status-records" -> "PullEvseStatus"
      [] third = "operators" /\ last = "pricing-products" -> "PushPricingProductData"
      [] third = "providers" /\ last = "pricing-products" -> "PullPricingProductData"
      [] third = "operators" /\ last = "evse-pricing" -> "PushEvsePricing"
      [] third = "providers" /\ last = "evse-pricing" -> "PullEvsePricing"

LEMMA SixRows ==
    ASSUME NEW op \in OfSix
    PROVE  /\ DOMAIN Template(op) = 1..6
           /\ Fixed(Template(op)[1]) /\ Fixed(Template(op)[2])
           /\ Fixed(Template(op)[3]) /\ Template(op)[4] \in Slots
           /\ Fixed(Template(op)[5]) /\ Fixed(Template(op)[6])
           /\ op = BySix(Template(op)[3], Template(op)[6])
<1> USE DEF HasSix, Slots, OperatorSlot, ProviderSlot, Fixed, BySix
<1>1. CASE op = "AuthorizeStart" BY <1>1, Rows
<1>2. CASE op = "AuthorizeStop" BY <1>2, Rows
<1>3. CASE op = "AuthorizeRemoteStart" BY <1>3, Rows
<1>4. CASE op = "AuthorizeRemoteStop" BY <1>4, Rows
<1> QED BY <1>1, <1>2, <1>3, <1>4 DEF OfSix

LEMMA FiveRows ==
    ASSUME NEW op \in OfFive
    PROVE  /\ DOMAIN Template(op) = 1..5
           /\ Fixed(Template(op)[1]) /\ Fixed(Template(op)[2])
           /\ Fixed(Template(op)[3]) /\ Template(op)[4] \in Slots
           /\ Fixed(Template(op)[5])
           /\ op = ByFive(Template(op)[1], Template(op)[3], Template(op)[5])
<1> USE DEF HasFive, Slots, OperatorSlot, ProviderSlot, Fixed, ByFive
<1>1. CASE op = "ChargeDetailRecord" BY <1>1, Rows
<1>2. CASE op = "GetChargeDetailRecords" BY <1>2, Rows
<1>3. CASE op = "PushAuthenticationData" BY <1>3, Rows
<1>4. CASE op = "AuthorizeRemoteReservationStart" BY <1>4, Rows
<1>5. CASE op = "AuthorizeRemoteReservationStop" BY <1>5, Rows
<1>6. CASE op = "PushEvseData" BY <1>6, Rows
<1>7. CASE op = "PullEvseData" BY <1>7, Rows
<1>8. CASE op = "PushEvseStatus" BY <1>8, Rows
<1>9. CASE op = "PullEvseStatus" BY <1>9, Rows
<1>10. CASE op = "PushPricingProductData" BY <1>10, Rows
<1>11. CASE op = "PullPricingProductData" BY <1>11, Rows
<1>12. CASE op = "PushEvsePricing" BY <1>12, Rows
<1>13. CASE op = "PullEvsePricing" BY <1>13, Rows
<1> HIDE DEF HasFive, Slots, Fixed, ByFive
<1> QED
  BY <1>1, <1>2, <1>3, <1>4, <1>5, <1>6, <1>7, <1>8, <1>9, <1>10, <1>11, <1>12, <1>13
  DEF OfFive, OfSix, Operations, ToACpo, ToAnEmp, OfACpo, OfAnEmp

LEMMA ThreeRow ==
    /\ DOMAIN Template("ChargingNotifications") = 1..3
    /\ \A i \in 1..3 : Fixed(Template("ChargingNotifications")[i])
<1>1. \A i \in 1..3 : i = 1 \/ i = 2 \/ i = 3 OBVIOUS
<1> QED BY <1>1, Rows DEF HasThree, Slots, OperatorSlot, ProviderSlot, Fixed

(* Of every template the identifier's slot is the fourth segment.            *)
LEMMA SlotIsFourth ==
    ASSUME NEW op \in Operations, NEW i \in DOMAIN Template(op)
    PROVE  /\ Template(op)[i] \in Slots <=> i = 4
           /\ Template(op)[i] # ""
<1>0. \A slot \in Slots : slot # "" BY DEF Slots, OperatorSlot, ProviderSlot
<1>1. CASE op \in OfSix
  <2>1. i \in 1..6 BY <1>1, SixRows
  <2>2. i = 1 \/ i = 2 \/ i = 3 \/ i = 4 \/ i = 5 \/ i = 6 BY <2>1
  <2> QED BY <1>0, <1>1, <2>2, SixRows DEF Fixed
<1>2. CASE op \in OfFive
  <2>1. i \in 1..5 BY <1>2, FiveRows
  <2>2. i = 1 \/ i = 2 \/ i = 3 \/ i = 4 \/ i = 5 BY <2>1
  <2> QED BY <1>0, <1>2, <2>2, FiveRows DEF Fixed
<1>3. CASE op = "ChargingNotifications" 
  <2>1. i \in 1..3 /\ i # 4 BY <1>3, ThreeRow
  <2>2. Fixed(Template(op)[i]) BY <1>3, <2>1, ThreeRow
  <2> QED BY <2>1, <2>2 DEF Fixed
<1> QED BY <1>1, <1>2, <1>3 DEF OfFive

LEMMA TemplatesDiffer ==
    ASSUME NEW op \in Operations, NEW other \in Operations,
           DOMAIN Template(op) = DOMAIN Template(other),
           \A i \in DOMAIN Template(op) : i # 4 => Template(op)[i] = Template(other)[i]
    PROVE  op = other
<1>1. CASE op \in OfSix
  <2>1. other \in OfSix BY <1>1, SixRows, FiveRows, ThreeRow, LengthsDiffer DEF OfFive
  <2>2. 3 \in DOMAIN Template(op) /\ 6 \in DOMAIN Template(op) BY <1>1, SixRows
  <2> QED BY <1>1, <2>1, <2>2, SixRows
<1>2. CASE op \in OfFive
  <2>1. other \in OfFive BY <1>2, SixRows, FiveRows, ThreeRow, LengthsDiffer DEF OfFive
  <2>2. 1 \in DOMAIN Template(op) /\ 3 \in DOMAIN Template(op) /\ 5 \in DOMAIN Template(op)
    BY <1>2, FiveRows
  <2> QED BY <1>2, <2>1, <2>2, FiveRows
<1>3. CASE op = "ChargingNotifications"
  BY <1>3, SixRows, FiveRows, ThreeRow, LengthsDiffer DEF OfFive
<1> QED BY <1>1, <1>2, <1>3 DEF OfFive

LEMMA OnlyOwnMatches ==
    ASSUME NEW op \in Operations, NEW id, NEW other \in Operations,
           Matches(Template(other), Path(op, id))
    PROVE  other = op
<1> DEFINE path == Path(op, id)
<1>1. DOMAIN path = DOMAIN Template(op) BY DEF Path
<1>2. DOMAIN Template(other) = DOMAIN Template(op) BY <1>1 DEF Matches
<1>3. ASSUME NEW i \in DOMAIN Template(op), i # 4 PROVE Template(op)[i] = Template(other)[i]
  <2>1. Template(op)[i] \notin Slots /\ Template(other)[i] \notin Slots
    BY <1>2, <1>3, SlotIsFourth
  <2>2. path[i] = Template(op)[i] BY <2>1 DEF Path
  <2>3. Matches(Template(other), path) OBVIOUS
  <2> HIDE DEF path
  <2> QED BY <1>2, <2>1, <2>2, <2>3 DEF Matches
<1> QED BY <1>2, <1>3, TemplatesDiffer

(* A path that a client builds is routed to its own operation, if to any.    *)
LEMMA RoutesAreOwn ==
    ASSUME NEW op \in Operations, NEW id, NEW role, NEW other \in Routed(role, Path(op, id))
    PROVE  other = op /\ IsServedBy(op, role)
<1>1. other \in Operations /\ IsServedBy(other, role) /\ Matches(Template(other), Path(op, id))
  BY DEF Routed
<1> QED BY <1>1, OnlyOwnMatches

LEMMA IndicesAreNumbers ==
    ASSUME NEW op \in Operations
    PROVE  \A i \in DOMAIN Template(op) : i <= i
<1>1. DOMAIN Template(op) \in {1..3, 1..5, 1..6} BY SixRows, FiveRows, ThreeRow DEF OfFive
<1>2. \A k \in 1..3 \cup 1..5 \cup 1..6 : k <= k OBVIOUS
<1> QED BY <1>1, <1>2

(* Operation::from_path finds the operation of every path that               *)
(* Operation::path builds, whatever the identifier in it, and no other.      *)
THEOREM PathsTellOperations ==
    ASSUME NEW op \in Operations, NEW id, id.text # ""
    PROVE  FromPath(Path(op, id)) = {op}
<1> DEFINE path == Path(op, id)
<1>1. DOMAIN path = DOMAIN Template(op) BY DEF Path
<1>2. \A i \in DOMAIN path : path[i] # "" BY SlotIsFourth DEF Path
<1>3. \A i \in DOMAIN path : i <= i BY <1>1, IndicesAreNumbers
<1>4. Trimmed(path) = path
  <2>1. {i \in DOMAIN path : \E j \in DOMAIN path : i <= j /\ path[j] # ""} = DOMAIN path
    BY <1>2, <1>3
  <2>2. path = [i \in DOMAIN path |-> path[i]] BY DEF Path
  <2> HIDE DEF path
  <2> QED BY <2>1, <2>2 DEF Trimmed
<1>5. Matches(Template(op), path) BY <1>2 DEF Matches, Path
<1> QED BY <1>4, <1>5, OnlyOwnMatches DEF FromPath

-----------------------------------------------------------------------------
(* Of several members of an identification, one of them is decoded.          *)
LEMMA PlaceIsOfFive ==
    ASSUME NEW id, \E i \in DOMAIN Members : Members[i] = id.member
    PROVE  Place(id) \in 1..5
<1>1. DOMAIN Members = 1..5 BY DEF Members
<1> QED BY <1>1 DEF Place

LEMMA FirstIsShown ==
    ASSUME NEW shown, shown # {},
           \A id \in shown : \E i \in DOMAIN Members : Members[i] = id.member
    PROVE  DecodedIdentification(shown) \in shown
<1>1. \A id \in shown : Place(id) \in 1..5 BY PlaceIsOfFive
<1> DEFINE At(k) == \E id \in shown : Place(id) = k
<1>2. \A i \in 1..5 : i = 1 \/ i = 2 \/ i = 3 \/ i = 4 \/ i = 5 OBVIOUS
<1>3. \E k \in 1..5 : At(k) /\ \A j \in 1..5 : At(j) => k <= j
  <2>1. At(1) \/ At(2) \/ At(3) \/ At(4) \/ At(5) BY <1>1, <1>2
  <2> HIDE DEF At
  <2> QED BY <2>1
<1>4. \E id \in shown : \A other \in shown : Place(id) <= Place(other) BY <1>1, <1>3
<1> QED BY <1>4 DEF DecodedIdentification

LEMMA DecodedKeeps ==
    ASSUME NEW c \in Calls, NEW m, m = Blank \/ m \in Bodies[c], NEW op, Decodable(op, m)
    PROVE  /\ Decoded(op, m).shown \subseteq m.shown
           /\ op \in Identified => \E id \in Decoded(op, m).shown : Decoded(op, m).shown = {id}
           /\ Decoded(op, m).evse = m.evse /\ Decoded(op, m).provider = m.provider
<1>1. CASE op \notin Identified BY <1>1 DEF Decoded
<1>2. CASE op \in Identified
  <2>1. m.shown # {} BY <1>2 DEF Decodable
  <2>2. m \in Bodies[c] BY <2>1 DEF Blank
  <2>3. m = [member \in DOMAIN Blank |-> m[member]] BY <2>2, BodiesAssumption
  <2>4. {"shown", "evse", "provider"} \subseteq DOMAIN Blank BY DEF Blank
  <2>5. {"shown", "evse", "provider"} \subseteq DOMAIN m BY <2>3, <2>4
  <2>6. \A id \in m.shown : \E i \in DOMAIN Members : Members[i] = id.member
    BY <2>2, BodiesAssumption
  <2>7. DecodedIdentification(m.shown) \in m.shown BY <2>1, <2>6, FirstIsShown
  <2>8. Decoded(op, m) = [m EXCEPT !.shown = {DecodedIdentification(m.shown)}]
    BY <1>2 DEF Decoded
  <2>9. /\ Decoded(op, m).shown = {DecodedIdentification(m.shown)}
        /\ Decoded(op, m).evse = m.evse /\ Decoded(op, m).provider = m.provider
    BY <2>3, <2>4, <2>5, <2>8
  <2> QED BY <1>2, <2>7, <2>9
<1> QED BY <1>1, <1>2

-----------------------------------------------------------------------------
(* A service that acts does so at its own points and as it was asked.        *)
LEMMA DoneIsAsAsked == ExchangeInv => DoneAsAsked
<1> SUFFICES ASSUME ExchangeInv, NEW d \in done
    PROVE LET c == d.request[1]
              mine == Party[d.party]
              ids == d.message.shown
          IN /\ d.op = Op[c] /\ IsServedBy(d.op, mine.role)
             /\ ids \subseteq body[c].shown
             /\ d.op \in Identified => \E id \in ids : ids = {id}
             /\ d.op \in ToACpo => SameOperator(OperatorOf(d.message.evse), mine.operator)
             /\ d.op \in ToACpo /\ ~mine.lenient =>
                   \A id \in ids : /\ id.member = "Remote"
                                   /\ SameProvider(ProviderOf(id.contract), d.message.provider)
             /\ d.op \in ToAnEmp /\ Party[Caller[c]].validates =>
                   \A id \in ids : id.contract # NoContract =>
                      SameProvider(ProviderOf(id.contract), mine.provider)
  BY DEF DoneAsAsked
<1>1. PICK c \in Calls : c = d.request[1] BY DEF ExchangeInv, TypeOK, Requests
<1>2. PICK m : m = body[c] /\ (m = Blank \/ m \in Bodies[c]) BY DEF ExchangeInv, TypeOK
<1>3. PICK p \in Parties : p = d.party BY DEF ExchangeInv, TypeOK
<1>4. PICK op \in Operations : op = d.op BY DEF ExchangeInv, TypeOK
<1>5. PICK asked : asked = d.message OBVIOUS
<1>6. /\ op = Op[c] /\ IsFor(op, m, p) /\ asked = Decoded(op, m)
      /\ Decodable(op, m) /\ (Conforms(op, asked) \/ Party[p].lenient)
  BY <1>1, <1>2, <1>3, <1>4, <1>5 DEF ExchangeInv, DoneInv, Recipients, Accepts
<1>7. /\ asked.shown \subseteq m.shown
      /\ op \in Identified => \E id \in asked.shown : asked.shown = {id}
      /\ asked.evse = m.evse /\ asked.provider = m.provider
  BY <1>2, <1>6, DecodedKeeps
<1>8. op \in ToACpo /\ ~Party[p].lenient =>
          \A id \in asked.shown : /\ id.member = "Remote"
                                  /\ SameProvider(ProviderOf(id.contract), asked.provider)
  <2> SUFFICES ASSUME op \in ToACpo, ~Party[p].lenient, NEW id \in asked.shown
               PROVE  id.member = "Remote" /\ SameProvider(ProviderOf(id.contract), asked.provider)
    OBVIOUS
  <2>1. RemoteConforms(asked) BY <1>6 DEF Conforms
  <2>2. id.member = "Remote" BY <2>1 DEF RemoteConforms, FitsProcess
  <2>3. m \in Bodies[c] BY <1>2, <1>7 DEF Blank
  <2>4. id.contract # NoContract BY <1>7, <2>2, <2>3, BodiesAssumption
  <2> QED BY <2>1, <2>2, <2>4 DEF RemoteConforms, ProviderMatchesContract
<1>9. op \in ToAnEmp /\ Party[Caller[c]].validates =>
          \A id \in asked.shown : id.contract # NoContract =>
              SameProvider(ProviderOf(id.contract), Party[p].provider)
  <2> SUFFICES ASSUME op \in ToAnEmp, Party[Caller[c]].validates, NEW id \in asked.shown,
                      id.contract # NoContract
               PROVE  SameProvider(ProviderOf(id.contract), Party[p].provider)
    OBVIOUS
  <2>1. m \in Bodies[c] BY <1>2, <1>7 DEF Blank
  <2>2. \A other \in m.shown : id = other BY <1>7, <2>1, BodiesAssumption
  <2>3. \E other \in m.shown : SameProvider(ProviderOf(other.contract), Party[p].provider)
    BY <1>6, <1>7 DEF IsFor
  <2> QED BY <2>2, <2>3
<1>10. IsServedBy(op, Party[p].role) BY <1>6 DEF IsFor
<1>11. op \in ToACpo => SameOperator(OperatorOf(asked.evse), Party[p].operator)
  BY <1>6, <1>7 DEF IsFor
<1> QED BY <1>1, <1>2, <1>3, <1>4, <1>5, <1>6, <1>7, <1>8, <1>9, <1>10, <1>11

-----------------------------------------------------------------------------
(* Answers.                                                                  *)
LEMMA AttemptsAreNat == Attempts \subseteq Nat /\ 0 \in Attempts
BY RetriesAssumption DEF Attempts

LEMMA AnswersAreTyped ==
    ASSUME NEW code \in AnswerCodes
    PROVE  /\ Nothing \in Answer /\ Transport \in Answer
           /\ Unsent("invalid") \in Answer /\ Unsent("endpoint") \in Answer
           /\ Message(code, 0) \in Answer /\ Refusal(code) \in Answer
BY DEF Answer, AnswerKinds, AnswerCodes, Nothing, Transport, Unsent, Message, Refusal

LEMMA RepliesAreTold ==
    ASSUME NEW op, NEW code \in AnswerCodes
    PROVE  /\ Denied(op, code) \in Answer /\ Denied(op, code).code = code
           /\ Denied(op, code).kind \in {"message", "refusal"}
           /\ Message(code, 0).code = code /\ Message(code, 0).kind = "message"
<1>1. Message(code, 0) \in Answer /\ Refusal(code) \in Answer BY AnswersAreTyped
<1> QED BY <1>1 DEF Denied, Message, Refusal

(* Of what an answer can be, only these ends of a call tell what was done.   *)
LEMMA EndsWithoutAnswer ==
    /\ Nothing.code = "none" /\ Transport.code = "none"
    /\ Unsent("invalid").code = "none" /\ Unsent("endpoint").code = "none"
    /\ Nothing.kind = "nothing" /\ Transport.kind = "transport"
    /\ Unsent("invalid").kind = "invalid" /\ Unsent("endpoint").kind = "endpoint"
BY DEF Nothing, Transport, Unsent

LEMMA AnsweredOnce ==
    ASSUME ClientTypeOK, NEW c \in Calls, NEW n \in Attempts, NEW a \in Answer, Answered(c, n, a)
    PROVE  /\ answers' \in [Calls -> [Attempts -> Answer]]
           /\ answers[c][n] = Nothing => answers'[c][n] = a
           /\ \A d \in Calls, k \in Attempts : <<d, k>> # <<c, n>> => answers'[d][k] = answers[d][k]
<1>1. answers \in [Calls -> [Attempts -> Answer]] BY DEF ClientTypeOK
<1>2. CASE answers[c][n] = Nothing
  <2>1. answers' = [answers EXCEPT ![c][n] = a] BY <1>2 DEF Answered
  <2> QED BY <1>1, <2>1
<1>3. CASE answers[c][n] # Nothing
  <2>1. answers' = answers BY <1>3 DEF Answered
  <2> QED BY <1>1, <1>3, <2>1
<1> QED BY <1>2, <1>3

-----------------------------------------------------------------------------
(* What calls got is what their partners did.                                *)
LEMMA DoneWasSent ==
    ASSUME ExchangeInv, NEW d \in done
    PROVE  \E c \in Calls, n \in Attempts : d.request = <<c, n>> /\ OnTheWire(c, n)
<1>1. PICK c \in Calls, n \in Attempts : d.request = <<c, n>>
  BY DEF ExchangeInv, TypeOK, Requests
<1>2. relay[<<c, n>>].at # "sent" BY <1>1 DEF ExchangeInv, DoneInv
<1> QED BY <1>1, <1>2 DEF ExchangeInv, RelayInv, RequestInv

LEMMA AnswersAreTheirs ==
    ASSUME ExchangeInv, ~RetryNonIdempotent
    PROVE  AnswerIsVerdict
<1> SUFFICES ASSUME NEW c \in Calls
    PROVE /\ ToldYes(c) /\ IsProxied(Op[c]) => \E d \in DoneFor(c) : d.accepted /\ d.op = Op[c]
          /\ client[c].outcome.kind \in {"invalid", "endpoint"} => DoneFor(c) = {}
          /\ Op[c] \in ToACpo => /\ ToldNo(c) => \A d \in DoneFor(c) : ~d.accepted
                                 /\ \A d, e \in DoneFor(c) : d = e
  BY DEF AnswerIsVerdict
<1> DEFINE end == client[c].outcome
<1>1. \/ end \in {Nothing, Transport}
      \/ \E n \in Attempts : end = answers[c][n]
      \/ /\ end \in {Unsent("invalid"), Unsent("endpoint")}
         /\ FailsBefore(c, body[c]) # "no"
  BY DEF ExchangeInv, OutcomeInv
<1>2. \A n \in Attempts : RequestInv(c, n) BY DEF ExchangeInv, RelayInv
<1>3. ASSUME ToldYes(c), IsProxied(Op[c])
      PROVE  \E d \in DoneFor(c) : d.accepted /\ d.op = Op[c]
  <2>1. PICK n \in Attempts : end = answers[c][n] BY <1>1, <1>3, EndsWithoutAnswer DEF ToldYes
  <2>2. Verdict(<<c, n>>, answers[c][n]) BY <1>2, <1>3 DEF RequestInv
  <2>3. answers[c][n].code = "Success" BY <1>3, <2>1 DEF ToldYes
  <2>4. PICK d \in done : d.request = <<c, n>> /\ d.accepted /\ d.op = Op[c]
    BY <2>2, <2>3 DEF Verdict
  <2> QED BY <2>4 DEF DoneFor
<1>4. ASSUME end.kind \in {"invalid", "endpoint"} PROVE DoneFor(c) = {}
  <2>1. FailsBefore(c, body[c]) # "no"
    <3>1. \A n \in Attempts : end # answers[c][n]
      BY <1>2, <1>4, EndsWithoutAnswer DEF RequestInv
    <3> QED BY <1>1, <1>4, <3>1, EndsWithoutAnswer
  <2>2. ASSUME NEW d \in DoneFor(c) PROVE FALSE
    <3>1. d \in done /\ d.request[1] = c BY DEF DoneFor
    <3>2. PICK k \in Calls, n \in Attempts : d.request = <<k, n>> /\ OnTheWire(k, n)
      BY <3>1, DoneWasSent
    <3> QED BY <2>1, <3>1, <3>2 DEF OnTheWire
  <2> QED BY <2>2
<1>5. ASSUME Op[c] \in ToACpo
      PROVE  \A n \in Attempts : OnTheWire(c, n) => n = 0
  <2>1. client[c].attempt = 0 BY <1>5 DEF ExchangeInv, OutcomeInv
  <2>2. \A n \in Attempts : n \in Nat BY AttemptsAreNat
  <2> QED BY <2>1, <2>2 DEF OnTheWire, Sent
<1>6. ASSUME Op[c] \in ToACpo
      PROVE  \A d \in DoneFor(c) : d \in done /\ d.request = <<c, 0>>
  <2> SUFFICES ASSUME NEW d \in DoneFor(c) PROVE d \in done /\ d.request = <<c, 0>> OBVIOUS
  <2>1. d \in done /\ d.request[1] = c BY DEF DoneFor
  <2>2. PICK k \in Calls, n \in Attempts : d.request = <<k, n>> /\ OnTheWire(k, n)
    BY <2>1, DoneWasSent
  <2>3. k = c BY <2>1, <2>2
  <2> QED BY <1>5, <1>6, <2>1, <2>2, <2>3
<1>7. ASSUME Op[c] \in ToACpo, ToldNo(c) PROVE \A d \in DoneFor(c) : ~d.accepted
  <2>1. /\ end.kind \in {"message", "refusal"}
        /\ end.code \notin {"Success", "PartnerDidNotRespond"}
    BY <1>7 DEF ToldNo
  <2>2. PICK n \in Attempts : end = answers[c][n] BY <1>1, <2>1, EndsWithoutAnswer
  <2>3. answers[c][n] # Nothing BY <2>1, <2>2, EndsWithoutAnswer
  <2>4. OnTheWire(c, n)
    <3>1. relay[<<c, n>>].at # "sent" BY <1>2, <2>3 DEF RequestInv
    <3> QED BY <1>2, <3>1 DEF RequestInv
  <2>5. n = 0 BY <1>5, <1>7, <2>4
  <2>6. Verdict(<<c, n>>, answers[c][n]) BY <1>2, <1>7 DEF RequestInv, IsProxied
  <2>7. \A d \in done : d.request = <<c, n>> => ~d.accepted BY <2>1, <2>2, <2>3, <2>6 DEF Verdict
  <2> QED BY <1>6, <1>7, <2>5, <2>7
<1>8. ASSUME Op[c] \in ToACpo PROVE \A d, e \in DoneFor(c) : d = e
  BY <1>6, <1>8 DEF ExchangeInv, DoneInv
<1> QED BY <1>3, <1>4, <1>7, <1>8

-----------------------------------------------------------------------------
(* What a step leaves alone keeps its part of the invariant.                 *)
SameRequest(c, n) ==
    /\ relay'[<<c, n>>] = relay[<<c, n>>] /\ answers'[c][n] = answers[c][n]
    /\ body'[c] = body[c]
    /\ Sent(c, n) => Sent(c, n)'
    /\ \A d : d.request = <<c, n>> => (d \in done' <=> d \in done)

LEMMA VerdictStays ==
    ASSUME NEW r, NEW a, Verdict(r, a), \A d : d.request = r => (d \in done' <=> d \in done)
    PROVE  Verdict(r, a)'
BY DEF Verdict

LEMMA RequestStays ==
    ASSUME NEW c \in Calls, NEW n \in Attempts, RequestInv(c, n), SameRequest(c, n)
    PROVE  RequestInv(c, n)'
<1> DEFINE r == <<c, n>>
<1>1. /\ relay'[r] = relay[r] /\ answers'[c][n] = answers[c][n]
      /\ \A d : d.request = r => (d \in done' <=> d \in done)
  BY DEF SameRequest
<1>2. Recipients(c)' = Recipients(c) BY DEF SameRequest, Recipients
<1>3. OnTheWire(c, n) => OnTheWire(c, n)'
  BY DEF SameRequest, OnTheWire, FailsBefore
<1>4. \A a : Verdict(r, a) => Verdict(r, a)' BY <1>1, VerdictStays
<1>5. IsProxied(Op[c]) => Verdict(r, answers[c][n])' BY <1>1, <1>4 DEF RequestInv, Verdict
<1>6. relay[r].at = "handled" => Verdict(r, relay[r].reply)' BY <1>1, <1>4 DEF RequestInv, Verdict
<1> QED BY <1>1, <1>2, <1>3, <1>5, <1>6 DEF RequestInv

(* The call a client works on moves; a request that was sent stays sent.     *)
LEMMA ClientMoves ==
    ASSUME ExchangeInv, NEW c \in Calls, Repeat(c) \/ Receive(c) \/ TransportError(c)
    PROVE  /\ client' \in [Calls -> [phase : {"new", "waiting", "sleeping", "ok", "failed"},
                                     attempt : Attempts, outcome : Answer]]
           /\ \A d \in Calls : d # c => client'[d] = client[d]
           /\ \A n \in Attempts : Sent(c, n) => Sent(c, n)'
           /\ client'[c].phase # "new"
           /\ client'[c].attempt # client[c].attempt => RetryNonIdempotent \/ IsIdempotent(Op[c])
           /\ \/ client'[c].outcome \in {client[c].outcome, Transport}
              \/ \E n \in Attempts : client'[c].outcome = answers[c][n]
<1> DEFINE Call == [phase : {"new", "waiting", "sleeping", "ok", "failed"},
                    attempt : Attempts, outcome : Answer]
<1>1. client \in [Calls -> Call] /\ answers \in [Calls -> [Attempts -> Answer]]
  BY DEF ExchangeInv, TypeOK, ClientTypeOK
<1>2. PICK old \in Call : old = client[c] BY <1>1
<1>3. old.attempt \in Attempts /\ old.attempt \in Nat BY AttemptsAreNat
<1> DEFINE Fits(new) ==
      /\ client' = [client EXCEPT ![c] = new] /\ new.phase # "new"
      /\ \/ new.attempt = old.attempt /\ new.phase \in {"waiting", "ok", "failed"}
         \/ new.attempt = old.attempt + 1 /\ (RetryNonIdempotent \/ IsIdempotent(Op[c]))
      /\ \/ new.outcome \in {old.outcome, Transport}
         \/ \E n \in Attempts : new.outcome = answers[c][n]
<1> DEFINE Goal ==
      /\ client' \in [Calls -> Call]
      /\ \A d \in Calls : d # c => client'[d] = client[d]
      /\ \A n \in Attempts : Sent(c, n) => Sent(c, n)'
      /\ client'[c].phase # "new"
      /\ client'[c].attempt # client[c].attempt => RetryNonIdempotent \/ IsIdempotent(Op[c])
      /\ \/ client'[c].outcome \in {client[c].outcome, Transport}
         \/ \E n \in Attempts : client'[c].outcome = answers[c][n]
<1>4. ASSUME NEW new \in Call, Fits(new) PROVE Goal
  <2>1. client' \in [Calls -> Call] BY <1>1, <1>4
  <2>2. client'[c] = new /\ \A d \in Calls : d # c => client'[d] = client[d] BY <1>1, <1>4
  <2>3. ASSUME NEW n \in Attempts, Sent(c, n) PROVE Sent(c, n)'
    <3>1. n \in Nat /\ n <= old.attempt BY <1>2, <1>3, <2>3, AttemptsAreNat DEF Sent
    <3>2. client'[c].attempt = new.attempt /\ client'[c].phase = new.phase BY <2>2
    <3>3. CASE new.attempt = old.attempt /\ new.phase \in {"waiting", "ok", "failed"}
      BY <1>3, <3>1, <3>2, <3>3 DEF Sent
    <3>4. CASE new.attempt = old.attempt + 1
      BY <1>3, <3>1, <3>2, <3>4 DEF Sent
    <3> QED BY <1>4, <3>3, <3>4
  <2> HIDE DEF Call
  <2> QED BY <1>2, <1>4, <2>1, <2>2, <2>3
<1>5. ASSUME NEW a \in Answer, Conclude(c, a), a = Transport \/ \E n \in Attempts : a = answers[c][n]
      PROVE  \E new \in Call : Fits(new)
  <2>1. CASE IsOk(a)
    <3> DEFINE new == [old EXCEPT !.phase = "ok", !.outcome = a]
    <3>1. new \in Call /\ new.phase = "ok" /\ new.attempt = old.attempt /\ new.outcome = a
      BY <1>2
    <3>2. client' = [client EXCEPT ![c] = new] BY <1>2, <1>5, <2>1 DEF Conclude
    <3> HIDE DEF new, Call
    <3> QED BY <1>5, <3>1, <3>2
  <2>2. CASE ~IsOk(a) /\ ShouldRetry(c, a)
    <3> DEFINE new == [old EXCEPT !.phase = "sleeping", !.attempt = old.attempt + 1]
    <3>1. old.attempt + 1 \in Attempts
      BY <1>2, <1>3, <2>2, RetriesAssumption DEF ShouldRetry, Attempts
    <3>2. /\ new \in Call /\ new.phase = "sleeping"
          /\ new.attempt = old.attempt + 1 /\ new.outcome = old.outcome
      BY <3>1
    <3>3. client' = [client EXCEPT ![c] = new] BY <1>2, <1>5, <2>2 DEF Conclude
    <3>4. RetryNonIdempotent \/ IsIdempotent(Op[c]) BY <2>2 DEF ShouldRetry
    <3> HIDE DEF new, Call
    <3> QED BY <3>2, <3>3, <3>4
  <2>3. CASE ~IsOk(a) /\ ~ShouldRetry(c, a)
    <3> DEFINE new == [old EXCEPT !.phase = "failed", !.outcome = a]
    <3>1. new \in Call /\ new.phase = "failed" /\ new.attempt = old.attempt /\ new.outcome = a
      BY <1>2
    <3>2. client' = [client EXCEPT ![c] = new] BY <1>2, <1>5, <2>3 DEF Conclude
    <3> HIDE DEF new, Call
    <3> QED BY <1>5, <3>1, <3>2
  <2> QED BY <2>1, <2>2, <2>3
<1>6. ASSUME Repeat(c) PROVE Goal
  <2> DEFINE new == [old EXCEPT !.phase = "waiting"]
  <2>1. /\ new \in Call /\ new.phase = "waiting"
        /\ new.attempt = old.attempt /\ new.outcome = old.outcome
    BY <1>2
  <2>2. client' = [client EXCEPT ![c] = new] BY <1>2, <1>6 DEF Repeat, Send
  <2>3. Fits(new) BY <2>1, <2>2
  <2> HIDE DEF new, Call, Fits, Goal
  <2> QED BY <1>4, <2>1, <2>3
<1>7. ASSUME Receive(c) PROVE Goal
  <2>1. PICK a \in Answer : a = answers[c][client[c].attempt] BY <1>1, <1>2, <1>3
  <2>2. Conclude(c, a) BY <1>7, <2>1 DEF Receive
  <2>3. \E n \in Attempts : a = answers[c][n] BY <1>2, <1>3, <2>1
  <2> HIDE DEF Call, Fits, Goal
  <2> QED BY <1>4, <1>5, <2>2, <2>3
<1>8. ASSUME TransportError(c) PROVE Goal
  <2>1. Transport \in Answer BY AnswersAreTyped DEF AnswerCodes
  <2>2. PICK a \in Answer : a = Transport BY <2>1
  <2>3. Conclude(c, a) BY <1>8, <2>2 DEF TransportError
  <2> HIDE DEF Call, Fits, Goal
  <2> QED BY <1>4, <1>5, <2>2, <2>3
<1>9. Goal BY <1>6, <1>7, <1>8
<1> QED BY <1>9

-----------------------------------------------------------------------------
(* The parts of the invariant that a step of another request leaves.         *)
LEMMA OutcomesStay ==
    ASSUME OutcomeInv, UNCHANGED <<client, body>>,
           \A c \in Calls, n \in Attempts : answers[c][n] # Nothing => answers'[c][n] = answers[c][n]
    PROVE  OutcomeInv'
<1> SUFFICES ASSUME NEW c \in Calls
    PROVE /\ \/ client[c].outcome \in {Nothing, Transport}
             \/ \E n \in Attempts : client[c].outcome = answers'[c][n]
             \/ /\ client[c].outcome \in {Unsent("invalid"), Unsent("endpoint")}
                /\ FailsBefore(c, body[c]) # "no"
          /\ client[c].phase = "new" => client[c].attempt = 0 /\ client[c].outcome = Nothing
          /\ Op[c] \in ToACpo /\ ~RetryNonIdempotent => client[c].attempt = 0
  BY DEF OutcomeInv
<1>1. ASSUME NEW n \in Attempts, client[c].outcome = answers[c][n]
      PROVE  client[c].outcome = Nothing \/ client[c].outcome = answers'[c][n]
  BY <1>1
<1> QED BY <1>1 DEF OutcomeInv

LEMMA DoneStays ==
    ASSUME ExchangeInv, UNCHANGED done,
           \A d \in done : /\ relay'[d.request].at \in {"handled", "closed"}
                           /\ body'[d.request[1]] = body[d.request[1]]
    PROVE  DoneInv'
<1>1. \A d \in done : Recipients(d.request[1])' = Recipients(d.request[1]) BY DEF Recipients
<1>2. DoneInv BY DEF ExchangeInv
<1> QED BY <1>1, <1>2 DEF DoneInv

(* A step of the broker on one request.                                      *)
LEMMA BrokerStepKeeps ==
    ASSUME ExchangeInv, NEW c \in Calls, NEW n \in Attempts,
           UNCHANGED <<client, body, done>>,
           relay' \in [Requests -> [at : Places, to : Parties, reply : Answer]],
           \A q \in Requests : q # <<c, n>> => relay'[q] = relay[q],
           relay[<<c, n>>].at \in {"handled", "closed"} => relay'[<<c, n>>].at \in {"handled", "closed"},
           answers' \in [Calls -> [Attempts -> Answer]],
           \A d \in Calls, k \in Attempts : <<d, k>> # <<c, n>> => answers'[d][k] = answers[d][k],
           answers[c][n] # Nothing => answers'[c][n] = answers[c][n],
           RequestInv(c, n)'
    PROVE  ExchangeInv'
<1>1. TypeOK /\ RelayInv /\ DoneInv /\ OutcomeInv BY DEF ExchangeInv
<1>2. TypeOK' BY <1>1 DEF TypeOK, ClientTypeOK
<1>3. RelayInv'
  <2>1. ASSUME NEW d \in Calls, NEW k \in Attempts, <<d, k>> # <<c, n>> PROVE RequestInv(d, k)'
    <3>1. <<d, k>> \in Requests BY DEF Requests
    <3>2. Sent(d, k) => Sent(d, k)' BY DEF Sent
    <3>3. SameRequest(d, k) BY <2>1, <3>1, <3>2 DEF SameRequest
    <3>4. RequestInv(d, k) BY <1>1 DEF RelayInv
    <3> QED BY <3>3, <3>4, RequestStays
  <2>2. ASSUME NEW d \in Calls, NEW k \in Attempts, <<d, k>> = <<c, n>> PROVE RequestInv(d, k)'
    <3>1. d = c /\ k = n BY <2>2
    <3> QED BY <3>1
  <2> QED BY <2>1, <2>2 DEF RelayInv
<1>4. DoneInv'
  <2>1. \A d \in done : d.request \in Requests BY <1>1 DEF TypeOK
  <2>2. \A d \in done : relay'[d.request].at \in {"handled", "closed"}
    BY <1>1, <2>1 DEF DoneInv
  <2> QED BY <2>2, DoneStays
<1>5. OutcomeInv' BY <1>1, OutcomesStay
<1> QED BY <1>2, <1>3, <1>4, <1>5 DEF ExchangeInv

LEMMA CodesAreTyped ==
    /\ "Success" \in AnswerCodes /\ "DataError" \in AnswerCodes /\ "none" \in AnswerCodes
    /\ "UnauthorizedAccess" \in AnswerCodes /\ "PartnerNotFound" \in AnswerCodes
    /\ "PartnerDidNotRespond" \in AnswerCodes /\ Refusals \subseteq AnswerCodes
BY DEF AnswerCodes, Refusals

LEMMA RelayMoves ==
    ASSUME TypeOK, NEW r \in Requests, NEW at \in Places, Moved(r, at)
    PROVE  /\ relay' \in [Requests -> [at : Places, to : Parties, reply : Answer]]
           /\ relay'[r].at = at /\ relay'[r].to = relay[r].to /\ relay'[r].reply = relay[r].reply
           /\ \A q \in Requests : q # r => relay'[q] = relay[q]
<1>1. relay \in [Requests -> [at : Places, to : Parties, reply : Answer]] BY DEF TypeOK
<1> QED BY <1>1 DEF Moved

(* A request nobody was asked to do: no service did it.                      *)
LEMMA NotYetDone ==
    ASSUME ExchangeInv, NEW r \in Requests, relay[r].at \notin {"handled", "closed"}
    PROVE  \A d \in done : d.request # r
BY DEF ExchangeInv, DoneInv

LEMMA TakeKeeps ==
    ASSUME ExchangeInv, NEW c \in Calls, NEW n \in Attempts, Take(c, n)
    PROVE  ExchangeInv'
<1> DEFINE r == <<c, n>>
<1>1. /\ OnTheWire(c, n) /\ relay[r].at = "sent" /\ UNCHANGED <<client, body, done>>
      /\ TypeOK /\ ClientTypeOK /\ RequestInv(c, n) /\ r \in Requests
  BY DEF Take, ExchangeInv, TypeOK, RelayInv, Requests
<1>2. answers[c][n] = Nothing /\ \A d \in done : d.request # r
  BY <1>1, NotYetDone DEF RequestInv
<1>3. OnTheWire(c, n)' /\ Recipients(c)' = Recipients(c)
  BY <1>1 DEF OnTheWire, Sent, FailsBefore, Recipients
<1>4. ASSUME NEW a \in Answer, Moved(r, "closed"), Answered(c, n, a),
             a.kind \in {"message", "refusal"}, IsProxied(Op[c]) => a.code # "Success"
      PROVE  ExchangeInv'
  <2>1. /\ relay' \in [Requests -> [at : Places, to : Parties, reply : Answer]]
        /\ relay'[r].at = "closed"
        /\ \A q \in Requests : q # r => relay'[q] = relay[q]
    BY <1>1, <1>4, RelayMoves DEF Places
  <2>2. /\ answers' \in [Calls -> [Attempts -> Answer]] /\ answers'[c][n] = a
        /\ \A d \in Calls, k \in Attempts : <<d, k>> # r => answers'[d][k] = answers[d][k]
    BY <1>1, <1>2, <1>4, AnsweredOnce
  <2>3. RequestInv(c, n)'
    <3>1. IsProxied(Op[c]) => Verdict(r, answers[c][n])'
      BY <1>1, <1>2, <1>4, <2>2 DEF Verdict
    <3> QED BY <1>3, <1>4, <2>1, <2>2, <3>1 DEF RequestInv
  <2> QED BY <1>1, <1>2, <2>1, <2>2, <2>3, BrokerStepKeeps
<1>5. ASSUME NEW code \in AnswerCodes, Refuse(c, n, code), code # "Success" PROVE ExchangeInv'
  <2>1. PICK a \in Answer : a = Denied(Op[c], code) BY RepliesAreTold
  <2>2. a.kind \in {"message", "refusal"} /\ a.code = code BY <2>1, RepliesAreTold
  <2>3. Moved(r, "closed") /\ Answered(c, n, a) BY <1>5, <2>1 DEF Refuse
  <2> QED BY <1>4, <1>5, <2>2, <2>3
<1>6. ASSUME ServeItself(c, n), ~IsProxied(Op[c]) PROVE ExchangeInv'
  <2>1. PICK a \in Answer : a = Message("Success", 0) BY AnswersAreTyped, CodesAreTyped
  <2>2. a.kind = "message" BY <2>1 DEF Message
  <2>3. Moved(r, "closed") /\ Answered(c, n, a) BY <1>6, <2>1 DEF ServeItself
  <2> QED BY <1>4, <1>6, <2>2, <2>3
<1>7. ASSUME Forward(c, n), IsProxied(Op[c]) PROVE ExchangeInv'
  <2>1. PICK p \in Recipients(c) :
            relay' = [relay EXCEPT ![r].at = "forwarded", ![r].to = p]
    BY <1>7 DEF Forward
  <2>2. p \in Parties BY DEF Recipients
  <2>3. relay \in [Requests -> [at : Places, to : Parties, reply : Answer]] BY <1>1 DEF TypeOK
  <2>4. /\ relay' \in [Requests -> [at : Places, to : Parties, reply : Answer]]
        /\ relay'[r].at = "forwarded" /\ relay'[r].to = p
        /\ \A q \in Requests : q # r => relay'[q] = relay[q]
    BY <1>1, <2>1, <2>2, <2>3 DEF Places
  <2>5. answers' = answers BY <1>7 DEF Forward
  <2>6. answers' \in [Calls -> [Attempts -> Answer]] BY <1>1, <2>5 DEF ClientTypeOK
  <2>7. RequestInv(c, n)'
    <3>1. Verdict(r, answers[c][n])' BY <1>2, <2>5, EndsWithoutAnswer DEF Verdict
    <3> QED BY <1>2, <1>3, <1>7, <2>4, <2>5, <3>1 DEF RequestInv
  <2> QED BY <1>1, <2>4, <2>5, <2>6, <2>7, BrokerStepKeeps
<1> QED BY <1>5, <1>6, <1>7, CodesAreTyped DEF Take

LEMMA ReturnKeeps ==
    ASSUME ExchangeInv, NEW c \in Calls, NEW n \in Attempts, Return(c, n)
    PROVE  ExchangeInv'
<1> DEFINE r == <<c, n>>
<1>1. /\ relay[r].at = "handled" /\ UNCHANGED <<client, body, done>>
      /\ TypeOK /\ ClientTypeOK /\ RequestInv(c, n) /\ r \in Requests
  BY DEF Return, ExchangeInv, TypeOK, RelayInv, Requests
<1>2. PICK a \in Answer : a = relay[r].reply BY <1>1 DEF TypeOK
<1>3. answers[c][n] = Nothing /\ a.kind \in {"message", "refusal"} /\ Verdict(r, a) /\ OnTheWire(c, n)
  BY <1>1, <1>2 DEF RequestInv
<1>4. /\ relay' \in [Requests -> [at : Places, to : Parties, reply : Answer]]
      /\ relay'[r].at = "closed"
      /\ \A q \in Requests : q # r => relay'[q] = relay[q]
  <2>1. Moved(r, "closed") BY DEF Return
  <2> QED BY <1>1, <2>1, RelayMoves DEF Places
<1>5. /\ answers' \in [Calls -> [Attempts -> Answer]] /\ answers'[c][n] = a
      /\ \A d \in Calls, k \in Attempts : <<d, k>> # r => answers'[d][k] = answers[d][k]
  <2>1. Answered(c, n, a) BY <1>2 DEF Return
  <2> QED BY <1>1, <1>3, <2>1, AnsweredOnce
<1>6. RequestInv(c, n)'
  <2>1. OnTheWire(c, n)' BY <1>1, <1>3 DEF OnTheWire, Sent, FailsBefore
  <2>2. Verdict(r, answers[c][n])' BY <1>1, <1>3, <1>5 DEF Verdict
  <2> QED BY <1>3, <1>4, <1>5, <2>1, <2>2 DEF RequestInv
<1> QED BY <1>1, <1>3, <1>4, <1>5, <1>6, BrokerStepKeeps

LEMMA GiveUpKeeps ==
    ASSUME ExchangeInv, NEW c \in Calls, NEW n \in Attempts, GiveUp(c, n)
    PROVE  ExchangeInv'
<1> DEFINE r == <<c, n>>
           at == IF relay[r].at = "forwarded" THEN "abandoned" ELSE "closed"
<1>1. /\ relay[r].at \in {"forwarded", "handled"} /\ UNCHANGED <<client, body, done>>
      /\ TypeOK /\ ClientTypeOK /\ RequestInv(c, n) /\ r \in Requests
  BY DEF GiveUp, ExchangeInv, TypeOK, RelayInv, Requests
<1>2. PICK a \in Answer : a = Denied(Op[c], "PartnerDidNotRespond")
  BY RepliesAreTold, CodesAreTyped
<1>3. a.kind \in {"message", "refusal"} /\ a.code = "PartnerDidNotRespond"
  BY <1>2, RepliesAreTold, CodesAreTyped
<1>4. /\ answers[c][n] = Nothing /\ OnTheWire(c, n)
      /\ IsProxied(Op[c]) /\ relay[r].to \in Recipients(c)
  BY <1>1 DEF RequestInv
<1>5. /\ relay' \in [Requests -> [at : Places, to : Parties, reply : Answer]]
      /\ relay'[r].at = at /\ relay'[r].to = relay[r].to
      /\ \A q \in Requests : q # r => relay'[q] = relay[q]
  <2>1. Moved(r, at) BY DEF GiveUp
  <2>2. at \in Places BY DEF Places
  <2> QED BY <1>1, <2>1, <2>2, RelayMoves
<1>6. /\ answers' \in [Calls -> [Attempts -> Answer]] /\ answers'[c][n] = a
      /\ \A d \in Calls, k \in Attempts : <<d, k>> # r => answers'[d][k] = answers[d][k]
  <2>1. Answered(c, n, a) BY <1>2 DEF GiveUp
  <2> QED BY <1>1, <1>4, <2>1, AnsweredOnce
<1>7. RequestInv(c, n)'
  <2>1. OnTheWire(c, n)' /\ Recipients(c)' = Recipients(c)
    BY <1>1, <1>4 DEF OnTheWire, Sent, FailsBefore, Recipients
  <2>2. Verdict(r, answers[c][n])' BY <1>3, <1>6 DEF Verdict
  <2> QED BY <1>1, <1>3, <1>4, <1>5, <1>6, <2>1, <2>2 DEF RequestInv
<1> QED BY <1>1, <1>4, <1>5, <1>6, <1>7, BrokerStepKeeps

(* A service acts on a request once: on the operation the caller named, for  *)
(* the partner that the broker chose.                                        *)
LEMMA ServeKeeps ==
    ASSUME ExchangeInv, NEW c \in Calls, NEW n \in Attempts, Serve(c, n)
    PROVE  ExchangeInv'
<1> DEFINE r == <<c, n>>
<1>1. /\ relay[r].at \in {"forwarded", "abandoned"}
      /\ UNCHANGED <<client, answers, body>>
      /\ TypeOK /\ ClientTypeOK /\ RequestInv(c, n) /\ r \in Requests
  BY DEF Serve, clientVars, ExchangeInv, TypeOK, RelayInv, Requests
<1>2. /\ OnTheWire(c, n) /\ IsProxied(Op[c]) /\ relay[r].to \in Recipients(c)
      /\ relay[r].at = "forwarded" => answers[c][n] = Nothing
      /\ relay[r].at = "abandoned" => answers[c][n].code = "PartnerDidNotRespond"
      /\ answers[c][n] # Nothing => answers[c][n].kind \in {"message", "refusal"}
  BY <1>1 DEF RequestInv
<1>3. PICK p \in Parties : p = relay[r].to /\ p \in Recipients(c) BY <1>2 DEF Recipients
<1>4. PICK op \in Routed(Party[p].role, PathOf(c)), accepted \in BOOLEAN, code \in Refusals :
        LET accepts == Accepts(p, op, body[c])
            reply == IF accepts THEN ReplyOf(op, accepted, code) ELSE Denied(op, "DataError")
            at == IF relay[r].at = "forwarded" THEN "handled" ELSE "closed"
        IN /\ relay' = [relay EXCEPT ![r] = [at |-> at, to |-> p, reply |-> reply]]
           /\ done' = IF ~accepts THEN done ELSE
                done \cup {[request |-> r, party |-> p, op |-> op,
                            message |-> Decoded(op, body[c]), accepted |-> accepted]}
  BY <1>3 DEF Serve
<1>5. op = Op[c] /\ op \in Operations
  BY OpAssumption, RoutesAreOwn DEF PathOf, Routed
<1> DEFINE accepts == Accepts(p, op, body[c])
           at == IF relay[r].at = "forwarded" THEN "handled" ELSE "closed"
           deed == [request |-> r, party |-> p, op |-> op,
                    message |-> Decoded(op, body[c]), accepted |-> accepted]
<1>6. PICK reply \in Answer :
          /\ reply = IF accepts THEN ReplyOf(op, accepted, code) ELSE Denied(op, "DataError")
          /\ reply.kind \in {"message", "refusal"}
          /\ reply.code = "Success" => accepts /\ accepted
          /\ reply.code # "Success" => ~accepts \/ ~accepted
  <2>1. CASE accepts /\ accepted
    <3>1. Message("Success", 0) \in Answer BY AnswersAreTyped, CodesAreTyped
    <3>2. Message("Success", 0).code = "Success" /\ Message("Success", 0).kind = "message"
      BY RepliesAreTold, CodesAreTyped
    <3> HIDE DEF accepts
    <3> QED BY <2>1, <3>1, <3>2 DEF ReplyOf
  <2>2. CASE accepts /\ ~accepted
    <3>1. Denied(op, code) \in Answer /\ Denied(op, code).kind \in {"message", "refusal"}
          /\ Denied(op, code).code = code
      BY RepliesAreTold, CodesAreTyped
    <3>2. code # "Success" BY DEF Refusals
    <3> HIDE DEF accepts
    <3> QED BY <2>2, <3>1, <3>2 DEF ReplyOf
  <2>3. CASE ~accepts
    <3>1. Denied(op, "DataError") \in Answer /\ Denied(op, "DataError").kind \in {"message", "refusal"}
          /\ Denied(op, "DataError").code = "DataError"
      BY RepliesAreTold, CodesAreTyped
    <3> HIDE DEF accepts
    <3> QED BY <2>3, <3>1
  <2> HIDE DEF accepts
  <2> QED BY <2>1, <2>2, <2>3
<1>7. /\ relay' = [relay EXCEPT ![r] = [at |-> at, to |-> p, reply |-> reply]]
      /\ done' = IF accepts THEN done \cup {deed} ELSE done
  BY <1>4, <1>6
<1>8. /\ deed.request = r /\ deed.party = p /\ deed.op = op
      /\ deed.message = Decoded(op, body[c]) /\ deed.accepted = accepted
  OBVIOUS
<1>9. PICK e : e = deed OBVIOUS
<1> HIDE DEF accepts, deed
<1>10. /\ relay' \in [Requests -> [at : Places, to : Parties, reply : Answer]]
       /\ relay'[r].at = at /\ relay'[r].to = p /\ relay'[r].reply = reply
       /\ \A q \in Requests : q # r => relay'[q] = relay[q]
  <2>1. relay \in [Requests -> [at : Places, to : Parties, reply : Answer]] BY <1>1 DEF TypeOK
  <2>2. at \in Places BY DEF Places
  <2> QED BY <1>1, <1>7, <2>1, <2>2
<1>11. \A d \in done : d.request # r BY <1>1, NotYetDone
<1>12. OnTheWire(c, n)' /\ Recipients(c)' = Recipients(c)
  BY <1>1, <1>2 DEF OnTheWire, Sent, FailsBefore, Recipients
<1>13. TypeOK'
  <2>1. e.request \in Requests /\ e.party \in Parties /\ e.op \in Operations
    BY <1>1, <1>5, <1>8, <1>9
  <2>2. \A d \in done' : d.request \in Requests /\ d.party \in Parties /\ d.op \in Operations
    BY <1>1, <1>7, <1>9, <2>1 DEF TypeOK
  <2> QED BY <1>1, <1>10, <2>2 DEF TypeOK, ClientTypeOK
<1>14. RequestInv(c, n)'
  <2>1. Verdict(r, reply)'
    <3>1. CASE accepts
      <4>1. e \in done' /\ e.request = r /\ e.op = Op[c] /\ e.accepted = accepted
        BY <1>5, <1>7, <1>8, <1>9, <3>1
      <4>2. \A d \in done' : d.request = r => d = e BY <1>7, <1>9, <1>11, <3>1
      <4> QED BY <1>6, <3>1, <4>1, <4>2 DEF Verdict
    <3>2. CASE ~accepts
      <4>1. \A d \in done' : d.request # r BY <1>7, <1>11, <3>2
      <4> QED BY <1>6, <3>2, <4>1 DEF Verdict
    <3> QED BY <3>1, <3>2
  <2>2. Verdict(r, answers[c][n])' BY <1>1, <1>2, EndsWithoutAnswer DEF Verdict
  <2> QED BY <1>1, <1>2, <1>3, <1>6, <1>10, <1>12, <2>1, <2>2 DEF RequestInv
<1>15. RelayInv'
  <2>1. ASSUME NEW d \in Calls, NEW k \in Attempts, <<d, k>> # r PROVE RequestInv(d, k)'
    <3>1. <<d, k>> \in Requests BY DEF Requests
    <3>2. Sent(d, k) => Sent(d, k)' BY <1>1 DEF Sent
    <3>3. \A x : x.request = <<d, k>> => (x \in done' <=> x \in done)
      BY <1>7, <1>8, <1>9, <2>1
    <3>4. SameRequest(d, k) BY <1>1, <1>10, <2>1, <3>1, <3>2, <3>3 DEF SameRequest
    <3>5. RequestInv(d, k) BY DEF ExchangeInv, RelayInv
    <3> QED BY <3>4, <3>5, RequestStays
  <2>2. ASSUME NEW d \in Calls, NEW k \in Attempts, <<d, k>> = r PROVE RequestInv(d, k)'
    <3>1. d = c /\ k = n BY <2>2
    <3> QED BY <1>14, <3>1
  <2> QED BY <2>1, <2>2 DEF RelayInv
<1>16. DoneInv'
  <2>1. \A d \in done : /\ relay'[d.request].at \in {"handled", "closed"}
                        /\ d.op = Op[d.request[1]] /\ IsProxied(Op[d.request[1]])
                        /\ d.party \in Recipients(d.request[1])'
                        /\ Accepts(d.party, d.op, body[d.request[1]])'
                        /\ d.message = Decoded(d.op, body[d.request[1]])'
    <3>1. \A d \in done : d.request \in Requests BY <1>1 DEF TypeOK
    <3>2. \A d \in done : relay'[d.request] = relay[d.request] BY <1>10, <1>11, <3>1
    <3> QED BY <1>1, <3>2 DEF ExchangeInv, DoneInv, Recipients
  <2>2. accepts => /\ relay'[e.request].at \in {"handled", "closed"}
                   /\ e.op = Op[e.request[1]] /\ IsProxied(Op[e.request[1]])
                   /\ e.party \in Recipients(e.request[1])'
                   /\ Accepts(e.party, e.op, body[e.request[1]])'
                   /\ e.message = Decoded(e.op, body[e.request[1]])'
    <3>1. e.request[1] = c BY <1>8, <1>9
    <3> QED BY <1>1, <1>2, <1>3, <1>5, <1>8, <1>9, <1>10, <1>12, <3>1 DEF accepts
  <2>3. \A d, x \in done : d.request = x.request => d = x BY DEF ExchangeInv, DoneInv
  <2>4. \A d, x \in done' : d.request = x.request => d = x BY <1>7, <1>8, <1>9, <1>11, <2>3
  <2> QED BY <1>7, <1>9, <2>1, <2>2, <2>4 DEF DoneInv
<1>17. OutcomeInv' BY <1>1, OutcomesStay DEF ExchangeInv
<1> QED BY <1>13, <1>15, <1>16, <1>17 DEF ExchangeInv

-----------------------------------------------------------------------------
LEMMA ClientStepsKeep ==
    ASSUME ExchangeInv, NEW c \in Calls, Repeat(c) \/ Receive(c) \/ TransportError(c),
           UNCHANGED <<body, relay, done>>
    PROVE  ExchangeInv'
<1>1. TypeOK /\ RelayInv /\ DoneInv /\ OutcomeInv BY DEF ExchangeInv
<1>2. answers' = answers BY DEF Repeat, Send, Receive, TransportError
<1>3. /\ client' \in [Calls -> [phase : {"new", "waiting", "sleeping", "ok", "failed"},
                                attempt : Attempts, outcome : Answer]]
      /\ \A d \in Calls : d # c => client'[d] = client[d]
      /\ \A n \in Attempts : Sent(c, n) => Sent(c, n)'
      /\ client'[c].phase # "new"
      /\ client'[c].attempt # client[c].attempt => RetryNonIdempotent \/ IsIdempotent(Op[c])
      /\ \/ client'[c].outcome \in {client[c].outcome, Transport}
         \/ \E n \in Attempts : client'[c].outcome = answers[c][n]
  BY ClientMoves
<1>4. TypeOK' BY <1>1, <1>2, <1>3 DEF TypeOK, ClientTypeOK
<1>5. RelayInv'
  <2> SUFFICES ASSUME NEW d \in Calls, NEW n \in Attempts PROVE RequestInv(d, n)'
    BY DEF RelayInv
  <2>1. Sent(d, n) => Sent(d, n)'
    <3>1. CASE d = c BY <1>3, <3>1
    <3>2. CASE d # c BY <1>3, <3>2 DEF Sent
    <3> QED BY <3>1, <3>2
  <2>2. SameRequest(d, n) BY <1>2, <2>1 DEF SameRequest
  <2> QED BY <1>1, <2>2, RequestStays DEF RelayInv
<1>6. DoneInv' BY <1>1, DoneStays DEF DoneInv
<1>7. OutcomeInv'
  <2> SUFFICES ASSUME NEW d \in Calls
      PROVE /\ \/ client'[d].outcome \in {Nothing, Transport}
               \/ \E n \in Attempts : client'[d].outcome = answers'[d][n]
               \/ /\ client'[d].outcome \in {Unsent("invalid"), Unsent("endpoint")}
                  /\ FailsBefore(d, body'[d]) # "no"
            /\ client'[d].phase = "new" => client'[d].attempt = 0 /\ client'[d].outcome = Nothing
            /\ Op[d] \in ToACpo /\ ~RetryNonIdempotent => client'[d].attempt = 0
    BY DEF OutcomeInv
  <2>1. CASE d # c BY <1>1, <1>2, <1>3, <2>1 DEF OutcomeInv
  <2>2. CASE d = c BY <1>1, <1>2, <1>3, <2>2 DEF OutcomeInv, IsIdempotent
  <2> QED BY <2>1, <2>2
<1> QED BY <1>4, <1>5, <1>6, <1>7 DEF ExchangeInv

(* A call that starts has left nothing behind, so its message may be any.    *)
LEMMA PostKeeps ==
    ASSUME ExchangeInv, NEW c \in Calls, Post(c)
    PROVE  ExchangeInv'
<1> DEFINE Call == [phase : {"new", "waiting", "sleeping", "ok", "failed"},
                    attempt : Attempts, outcome : Answer]
<1>1. /\ TypeOK /\ RelayInv /\ DoneInv /\ OutcomeInv /\ client[c].phase = "new"
      /\ UNCHANGED <<answers, relay, done>>
  BY DEF Post, ExchangeInv
<1>2. client \in [Calls -> Call] /\ body \in [Calls -> SomeBody] BY <1>1 DEF TypeOK, ClientTypeOK
<1>3. PICK old \in Call : old = client[c] BY <1>2
<1>4. old.phase = "new" /\ old.attempt = 0 /\ old.outcome = Nothing
  BY <1>1, <1>3 DEF OutcomeInv
<1>5. PICK m \in Bodies[c] :
        /\ body' = [body EXCEPT ![c] = m]
        /\ client' = [client EXCEPT ![c] =
              IF FailsBefore(c, m) = "no" THEN [@ EXCEPT !.phase = "waiting"]
              ELSE [@ EXCEPT !.phase = "failed", !.outcome = Unsent(FailsBefore(c, m))]]
  BY DEF Post
<1>6. /\ body' \in [Calls -> SomeBody] /\ body'[c] = m
      /\ \A d \in Calls : d # c => body'[d] = body[d]
  BY <1>2, <1>5 DEF SomeBody
<1>7. FailsBefore(c, m) \in {"no", "invalid", "endpoint"} BY DEF FailsBefore
<1>8. \E new \in Call :
        /\ client' = [client EXCEPT ![c] = new] /\ new.phase # "new" /\ new.attempt = 0
        /\ \/ new.outcome = Nothing
           \/ new.outcome \in {Unsent("invalid"), Unsent("endpoint")} /\ FailsBefore(c, m) # "no"
  <2>1. CASE FailsBefore(c, m) = "no"
    <3> DEFINE new == [old EXCEPT !.phase = "waiting"]
    <3>1. new \in Call /\ new.phase = "waiting" /\ new.attempt = 0 /\ new.outcome = Nothing
      BY <1>4
    <3>2. client' = [client EXCEPT ![c] = new] BY <1>3, <1>5, <2>1
    <3> HIDE DEF new, Call
    <3> QED BY <3>1, <3>2
  <2>2. CASE FailsBefore(c, m) # "no"
    <3>1. PICK a \in Answer : a = Unsent(FailsBefore(c, m))
      BY <1>7, <2>2, AnswersAreTyped, CodesAreTyped
    <3> DEFINE new == [old EXCEPT !.phase = "failed", !.outcome = a]
    <3>2. new \in Call /\ new.phase = "failed" /\ new.attempt = 0 /\ new.outcome = a
      BY <1>4
    <3>3. client' = [client EXCEPT ![c] = new] BY <1>3, <1>5, <2>2, <3>1
    <3>4. a \in {Unsent("invalid"), Unsent("endpoint")} BY <1>7, <2>2, <3>1
    <3> HIDE DEF new, Call
    <3> QED BY <2>2, <3>2, <3>3, <3>4
  <2> QED BY <2>1, <2>2
<1>9. PICK new \in Call :
        /\ client' = [client EXCEPT ![c] = new] /\ new.phase # "new" /\ new.attempt = 0
        /\ \/ new.outcome = Nothing
           \/ new.outcome \in {Unsent("invalid"), Unsent("endpoint")} /\ FailsBefore(c, m) # "no"
  BY <1>8
<1>10. /\ client' \in [Calls -> Call] /\ client'[c] = new
       /\ \A d \in Calls : d # c => client'[d] = client[d]
  BY <1>2, <1>9
<1>11. \A n \in Attempts : ~OnTheWire(c, n)
  <2>1. \A n \in Attempts : n \in Nat BY AttemptsAreNat
  <2> QED BY <1>3, <1>4, <2>1 DEF OnTheWire, Sent
<1>12. \A n \in Attempts : relay[<<c, n>>].at = "sent" /\ answers[c][n] = Nothing
  BY <1>1, <1>11 DEF RelayInv, RequestInv
<1>13. \A d \in done : d.request[1] # c
  <2> SUFFICES ASSUME NEW d \in done, d.request[1] = c PROVE FALSE OBVIOUS
  <2>1. PICK e \in Calls, n \in Attempts : d.request = <<e, n>> /\ OnTheWire(e, n)
    BY DoneWasSent
  <2> QED BY <1>11, <2>1
<1>14. TypeOK'
  <2>1. \A d \in Calls : body'[d] = Blank \/ body'[d] \in Bodies[d] BY <1>1, <1>6 DEF TypeOK
  <2> QED BY <1>1, <1>6, <1>10, <2>1 DEF TypeOK, ClientTypeOK
<1>15. RelayInv'
  <2> SUFFICES ASSUME NEW d \in Calls, NEW n \in Attempts PROVE RequestInv(d, n)'
    BY DEF RelayInv
  <2>1. CASE d # c
    <3>1. Sent(d, n) => Sent(d, n)' BY <1>10, <2>1 DEF Sent
    <3>2. SameRequest(d, n) BY <1>1, <1>6, <2>1, <3>1 DEF SameRequest
    <3> QED BY <1>1, <3>2, RequestStays DEF RelayInv
  <2>2. CASE d = c
    <3>1. relay'[<<c, n>>].at = "sent" /\ answers'[c][n] = Nothing BY <1>1, <1>12
    <3>2. Verdict(<<c, n>>, answers[c][n])' BY <3>1, EndsWithoutAnswer DEF Verdict
    <3> QED BY <2>2, <3>1, <3>2 DEF RequestInv
  <2> QED BY <2>1, <2>2
<1>16. DoneInv'
  <2>1. \A d \in done : d.request[1] \in Calls BY <1>1 DEF TypeOK, Requests
  <2>2. \A d \in done : body'[d.request[1]] = body[d.request[1]] BY <1>6, <1>13, <2>1
  <2> QED BY <1>1, <2>2, DoneStays DEF DoneInv
<1>17. OutcomeInv'
  <2> SUFFICES ASSUME NEW d \in Calls
      PROVE /\ \/ client'[d].outcome \in {Nothing, Transport}
               \/ \E n \in Attempts : client'[d].outcome = answers'[d][n]
               \/ /\ client'[d].outcome \in {Unsent("invalid"), Unsent("endpoint")}
                  /\ FailsBefore(d, body'[d]) # "no"
            /\ client'[d].phase = "new" => client'[d].attempt = 0 /\ client'[d].outcome = Nothing
            /\ Op[d] \in ToACpo /\ ~RetryNonIdempotent => client'[d].attempt = 0
    BY DEF OutcomeInv
  <2>1. CASE d # c
    <3>1. client'[d] = client[d] /\ body'[d] = body[d] BY <1>6, <1>10, <2>1
    <3> QED BY <1>1, <3>1 DEF OutcomeInv
  <2>2. CASE d = c BY <1>6, <1>9, <1>10, <2>2
  <2> QED BY <2>1, <2>2
<1> QED BY <1>14, <1>15, <1>16, <1>17 DEF ExchangeInv

-----------------------------------------------------------------------------
LEMMA ExchangeInitKeeps == Init => ExchangeInv
<1> SUFFICES ASSUME Init PROVE ExchangeInv OBVIOUS
<1>1. Nothing \in Answer BY AnswersAreTyped, CodesAreTyped
<1>2. /\ client = [c \in Calls |-> [phase |-> "new", attempt |-> 0, outcome |-> Nothing]]
      /\ answers = [c \in Calls |-> [n \in Attempts |-> Nothing]]
      /\ body = [c \in Calls |-> Blank]
      /\ relay = [r \in Requests |-> [at |-> "sent", to |-> Caller[r[1]], reply |-> Nothing]]
      /\ done = {}
  BY DEF Init, ClientInit
<1>3. TypeOK
  <2>1. ClientTypeOK BY <1>1, <1>2, AttemptsAreNat DEF ClientTypeOK
  <2>2. body \in [Calls -> SomeBody] /\ \A c \in Calls : body[c] = Blank BY <1>2 DEF SomeBody
  <2>3. \A r \in Requests : Caller[r[1]] \in Parties BY PartiesAssumption DEF Requests
  <2>4. relay \in [Requests -> [at : Places, to : Parties, reply : Answer]]
    BY <1>1, <1>2, <2>3 DEF Places
  <2> QED BY <1>2, <2>1, <2>2, <2>4 DEF TypeOK
<1>4. RelayInv
  <2> SUFFICES ASSUME NEW c \in Calls, NEW n \in Attempts PROVE RequestInv(c, n) BY DEF RelayInv
  <2>1. relay[<<c, n>>].at = "sent" /\ answers[c][n] = Nothing BY <1>2 DEF Requests
  <2>2. Verdict(<<c, n>>, answers[c][n]) BY <2>1, EndsWithoutAnswer DEF Verdict
  <2> QED BY <2>1, <2>2 DEF RequestInv
<1>5. DoneInv BY <1>2 DEF DoneInv
<1>6. OutcomeInv BY <1>2 DEF OutcomeInv
<1> QED BY <1>3, <1>4, <1>5, <1>6 DEF ExchangeInv

LEMMA ExchangeNextKeeps == ExchangeInv /\ [Next]_vars => ExchangeInv'
<1> SUFFICES ASSUME ExchangeInv, [Next]_vars PROVE ExchangeInv' OBVIOUS
<1>1. ASSUME NEW c \in Calls, ClientStep(c) PROVE ExchangeInv'
  <2>1. CASE Post(c) BY <2>1, PostKeeps
  <2>2. CASE (Repeat(c) \/ Receive(c) \/ TransportError(c)) /\ UNCHANGED <<body, relay, done, shelf, quoted>>
    BY <2>2, ClientStepsKeep
  <2> QED BY <1>1, <2>1, <2>2 DEF ClientStep
<1>2. ASSUME NEW c \in Calls, NEW n \in Attempts, Take(c, n) \/ Serve(c, n) \/ Return(c, n) \/ GiveUp(c, n)
      PROVE  ExchangeInv'
  BY <1>2, TakeKeeps, ServeKeeps, ReturnKeeps, GiveUpKeeps
<1>3. CASE UNCHANGED vars
  <2>1. UNCHANGED <<client, answers, body, relay, done>> BY <1>3 DEF vars, clientVars
  <2>2. TypeOK /\ RelayInv /\ DoneInv /\ OutcomeInv BY DEF ExchangeInv
  <2>3. TypeOK' BY <2>1, <2>2 DEF TypeOK, ClientTypeOK
  <2>4. RelayInv'
    <3> SUFFICES ASSUME NEW c \in Calls, NEW n \in Attempts PROVE RequestInv(c, n)'
      BY DEF RelayInv
    <3>1. SameRequest(c, n) BY <2>1 DEF SameRequest, Sent
    <3> QED BY <2>2, <3>1, RequestStays DEF RelayInv
  <2>5. DoneInv' BY <2>1, <2>2, DoneStays DEF DoneInv
  <2>6. OutcomeInv' BY <2>1, <2>2, OutcomesStay
  <2> QED BY <2>3, <2>4, <2>5, <2>6 DEF ExchangeInv
<1> QED BY <1>1, <1>2, <1>3 DEF Next

THEOREM ExchangeIsSound == Spec => []ExchangeInv
BY ExchangeInitKeeps, ExchangeNextKeeps, PTL DEF Spec

(* Whoever the parties are and whatever they send, every state has its types. *)
THEOREM ExchangeTypeCorrect == Spec => []TypeOK
<1>1. ExchangeInv => TypeOK BY DEF ExchangeInv
<1> QED BY <1>1, ExchangeIsSound, PTL

(* Routes, decoding and checks (CpoServer, EmpServer) let a service do only   *)
(* what its caller asked for, at its own points and for its own contracts.    *)
THEOREM ServicesDoAsAsked == Spec => []DoneAsAsked
BY DoneIsAsAsked, ExchangeIsSound, PTL

(* With the default policy, what a client tells its caller of a call is what  *)
(* the partner did, however often it retries and whatever is lost.            *)
THEOREM AnswersAreVerdicts ==
    ASSUME ~RetryNonIdempotent
    PROVE  Spec => []AnswerIsVerdict
<1>1. ExchangeInv => AnswerIsVerdict BY AnswersAreTheirs
<1> QED BY <1>1, ExchangeIsSound, PTL

-----------------------------------------------------------------------------
(* What check_fee_bounds leaves can be priced.                               *)
LEMMA ConformingIsPriceable ==
    ASSUME NEW product, NEW unit, ProductConforms(product),
           \A k \in DOMAIN product.fees : product.fees[k].price \in Int
    PROVE  Priceable(product, unit)
<1> DEFINE price(k) == product.fees[k].price
           floors == FeesOf(product, "MINIMUM FEE", unit)
           ceilings == FeesOf(product, "MAXIMUM FEE", unit)
<1>1. \A k \in floors \cup ceilings : k \in DOMAIN product.fees /\ price(k) \in Int /\ price(k) >= 0
  BY DEF FeesOf, ProductConforms, FeeConforms
<1>2. FeeBoundsConform(product) BY DEF ProductConforms
<1>3. /\ \A i, j \in floors : i = j
      /\ \A i, j \in ceilings : i = j
      /\ \A i \in floors, j \in ceilings : price(i) <= price(j)
  BY <1>2 DEF FeeBoundsConform, FeesOf, Bounds
<1>4. \E amount \in {price(i) : i \in floors} \cup {0} :
          (\A i \in floors : price(i) <= amount) /\ (\A i \in ceilings : amount <= price(i))
  <2> HIDE DEF price, floors, ceilings
  <2>1. CASE floors = {}
    <3>1. \A i \in ceilings : 0 <= price(i) BY <1>1
    <3> QED BY <2>1, <3>1
  <2>2. CASE floors # {}
    <3>1. PICK i \in floors : TRUE BY <2>2
    <3>2. PICK amount \in Int : amount = price(i) BY <1>1, <3>1
    <3>3. \A k \in floors : price(k) <= amount
      <4>1. \A k \in floors : price(k) = amount BY <1>3, <3>1, <3>2
      <4>2. amount <= amount OBVIOUS
      <4> QED BY <4>1, <4>2
    <3>4. \A k \in ceilings : amount <= price(k) BY <1>3, <3>1, <3>2
    <3> QED BY <3>1, <3>2, <3>3, <3>4
  <2> QED BY <2>1, <2>2
<1> QED BY <1>3, <1>4 DEF Priceable

LEMMA CatalogueNextKeeps == ExchangeInv /\ CatalogueInv /\ [Next]_vars => CatalogueInv'
<1> SUFFICES ASSUME ExchangeInv, CatalogueInv, [Next]_vars PROVE CatalogueInv' OBVIOUS
<1>1. CASE UNCHANGED <<shelf, quoted>> BY <1>1 DEF CatalogueInv
<1>2. ASSUME NEW c \in Calls, NEW n \in Attempts, OnTheWire(c, n), ServeItself(c, n)
      PROVE  CatalogueInv'
  <2>1. FailsBefore(c, body[c]) = "no" BY <1>2 DEF OnTheWire
  <2>2. Party[Caller[c]].validates => Conforms(Op[c], body[c]) BY <2>1 DEF FailsBefore
  <2>3. body[c] = Blank \/ body[c] \in Bodies[c] BY DEF ExchangeInv, TypeOK
  <2>4. Blank.blocks = {} BY DEF Blank
  <2>5. ASSUME Op[c] = "PushPricingProductData", NEW b \in body[c].blocks,
               NEW k, k = [by |-> Caller[c], block |-> b]
        PROVE  /\ \E d \in Calls : \E m \in Bodies[d] : k.block \in m.blocks
               /\ Party[k.by].validates => BlockConforms(k.block)
    <3>1. k.by = Caller[c] /\ k.block = b BY <2>5
    <3>2. body[c] \in Bodies[c] BY <2>3, <2>4, <2>5
    <3>3. Party[Caller[c]].validates => BlockConforms(b) BY <2>2, <2>5 DEF Conforms
    <3> QED BY <2>5, <3>1, <3>2, <3>3
  <2>6. ASSUME NEW k \in shelf'
        PROVE  /\ \E d \in Calls : \E m \in Bodies[d] : k.block \in m.blocks
               /\ Party[k.by].validates => BlockConforms(k.block)
    <3>1. k \in shelf \/ (Op[c] = "PushPricingProductData"
                          /\ \E b \in body[c].blocks : k = [by |-> Caller[c], block |-> b])
      BY <1>2, <2>6 DEF ServeItself
    <3> QED BY <2>5, <3>1 DEF CatalogueInv
  <2>7. ASSUME NEW q \in quoted'
        PROVE  /\ \E d \in Calls : \E m \in Bodies[d] : q.block \in m.blocks
               /\ Party[q.by].validates => BlockConforms(q.block)
    <3>1. q \in quoted \/ \E k \in shelf : q.by = k.by /\ q.block = k.block
      BY <1>2, <2>7 DEF ServeItself
    <3> QED BY <3>1 DEF CatalogueInv
  <2> QED BY <2>6, <2>7 DEF CatalogueInv
<1>3. ASSUME NEW c \in Calls, ClientStep(c) PROVE UNCHANGED <<shelf, quoted>>
  BY <1>3 DEF ClientStep, Post
<1>4. ASSUME NEW c \in Calls, NEW n \in Attempts, Serve(c, n) \/ Return(c, n) \/ GiveUp(c, n)
      PROVE  UNCHANGED <<shelf, quoted>>
  BY <1>4 DEF Serve, Return, GiveUp
<1>5. ASSUME NEW c \in Calls, NEW n \in Attempts, Take(c, n) PROVE CatalogueInv'
  BY <1>1, <1>2, <1>5 DEF Take, Refuse, Forward
<1>6. CASE UNCHANGED vars BY <1>1, <1>6 DEF vars
<1> QED BY <1>1, <1>3, <1>4, <1>5, <1>6 DEF Next

(* Tariffs that went through a client of the library (PricingProductData,    *)
(* check_fee_bounds) can be priced by whoever is quoted them.                *)
THEOREM QuotesArePriceable == Spec => []CatalogueIsPriceable
<1>1. Init => CatalogueInv BY DEF Init, CatalogueInv
<1>2. CatalogueInv => CatalogueIsPriceable
  <2> SUFFICES ASSUME CatalogueInv, NEW q \in quoted, Party[q.by].validates,
                      NEW products, products = q.block.products
      PROVE  /\ \A i, j \in DOMAIN products : products[i].id = products[j].id => i = j
             /\ \A i \in DOMAIN products :
                   /\ \A unit \in {products[i].fees[k].unit : k \in DOMAIN products[i].fees} :
                         Priceable(products[i], unit)
                   /\ HasFixedFee(products[i]) => products[i].price = 0
    BY DEF CatalogueIsPriceable
  <2>1. BlockConforms(q.block) BY DEF CatalogueInv
  <2>2. \A i \in DOMAIN products : ProductConforms(products[i]) BY <2>1 DEF BlockConforms
  <2>3. \A i, j \in DOMAIN products : products[i].id = products[j].id => i = j
    BY <2>1 DEF BlockConforms
  <2>4. \A i \in DOMAIN products : \A k \in DOMAIN products[i].fees : products[i].fees[k].price \in Int
    <3>1. PICK c \in Calls : \E m \in Bodies[c] : q.block \in m.blocks BY DEF CatalogueInv
    <3>2. PICK m \in Bodies[c] : q.block \in m.blocks BY <3>1
    <3> QED BY <3>2, BodiesAssumption
  <2>5. \A i \in DOMAIN products : \A unit : Priceable(products[i], unit)
    BY <2>2, <2>4, ConformingIsPriceable
  <2>6. \A i \in DOMAIN products : HasFixedFee(products[i]) => products[i].price = 0
    BY <2>2 DEF ProductConforms
  <2> QED BY <2>3, <2>5, <2>6
<1> QED BY <1>1, <1>2, ExchangeIsSound, CatalogueNextKeeps, PTL DEF Spec
=============================================================================
