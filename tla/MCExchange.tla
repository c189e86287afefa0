----------------------------- MODULE MCExchange ------------------------------
(* Two CPOs and two EMPs: of each one that uses the library and one that     *)
(* neither checks what it sends nor refuses what it gets; and two callers    *)
(* whose path is wrong. A call is an operation and the party that makes it.  *)
EXTENDS Exchange

SomeLetters == {"A", "B", "C", "D", "E", "F", "G", "H", "I", "J", "K", "L", "X"}
SomeDigits == {"0", "1"}

ABC == [standard |-> "ISO", country |-> <<"D", "E">>, operator |-> <<"A", "B", "C">>]
JKL == [ABC EXCEPT !.operator = <<"J", "K", "L">>]
GHI == [ABC EXCEPT !.operator = <<"G", "H", "I">>]
DCB == [country |-> <<"D", "E">>, provider |-> <<"D", "C", "B">>]
EFX == [DCB EXCEPT !.provider = <<"E", "F", "X">>]

Ones(n) == [i \in 1 .. n |-> "1"]
PointOf(o) == [standard |-> "ISO", country |-> o.country, operator |-> o.operator,
               instance |-> Ones(1), separators |-> 0]
ContractOf(p) == [country |-> p.country, provider |-> p.provider, marker |-> <<"C">>,
                  instance |-> Ones(8), check |-> <<"X">>, separators |-> {"-"}]
ACard == [digits |-> Ones(8), lower |-> FALSE]
ASession == <<Ones(8), Ones(4), Ones(4), Ones(4), Ones(12)>>

Operator(o, text, own, trusts) ==
    [role |-> "CPO", operator |-> o, provider |-> NoProvider,
     pathId |-> [kind |-> "operator", text |-> text], certificate |-> own,
     validates |-> ~trusts, lenient |-> trusts]
Provider(p, kind, text, trusts) ==
    [role |-> "EMP", operator |-> NoOperator, provider |-> p,
     pathId |-> [kind |-> kind, text |-> text], certificate |-> text,
     validates |-> ~trusts, lenient |-> trusts]

TheParties == {"abc", "jkl", "ghi", "dcb", "efx", "gix"}
PartyOf == [p \in TheParties |->
    CASE p = "abc" -> Operator(ABC, "DE*ABC", "DE*ABC", FALSE)
      [] p = "jkl" -> Operator(JKL, "DE*JKL", "DE*JKL", TRUE)
      [] p = "ghi" -> Operator(GHI, "DEGHI", "DE*GHI", FALSE)
      [] p = "dcb" -> Provider(DCB, "provider", "DE-DCB", FALSE)
      [] p = "efx" -> Provider(EFX, "provider", "DE-EFX", TRUE)
      [] p = "gix" -> Provider([DCB EXCEPT !.provider = <<"G", "I", "X">>], "operator", "DE-GIX", FALSE)]

TheCalls == {<<op, p>> \in Operations \X TheParties :
                /\ Involvement(op, PartyOf[p].role) = "calls"
                /\ p = "ghi" => op = "PushEvseData"
                /\ p = "gix" => op = "PullEvseData"
                /\ p \in {"jkl", "efx"} => IsProxied(op) \/ op = "PushPricingProductData"}
OpOf == [c \in TheCalls |-> c[1]]
CallerOf == [c \in TheCalls |-> c[2]]

(* One call at a time, or tariffs pushed by one and pulled by another.       *)
OneAndTariffs == {{c} : c \in TheCalls}
    \cup {{<<"PushPricingProductData", p>>, <<"PullPricingProductData", "dcb">>} : p \in {"abc", "jkl"}}

-----------------------------------------------------------------------------
Contract(p) == Identification("PlugAndCharge", ContractOf(p), NoUid)
Remote(p) == Identification("Remote", ContractOf(p), NoUid)
Rfid(member) == Identification(member, NoContract, ACard)
Qr == Identification("QrCode", ContractOf(DCB), NoUid)

(* What a client of the library can show: one member of the object.          *)
Shown == {Contract(DCB), Contract(EFX), Rfid("RfidMifareFamily"), Rfid("Rfid"), Remote(DCB), Remote(EFX),
          [Qr EXCEPT !.pin = 4], [Qr EXCEPT !.hashed = 60], [Qr EXCEPT !.pin = 4, !.hashed = 60],
          Identification("RfidMifareFamily", NoContract, [ACard EXCEPT !.lower = TRUE]),
          Identification("PlugAndCharge", [ContractOf(DCB) EXCEPT !.separators = {"*"}], NoUid),
          Identification("Remote", [ContractOf(DCB) EXCEPT !.marker = <<>>, !.instance = Ones(6)], NoUid)}
(* What anybody else may.                                                    *)
OddlyShown == {{}, {Contract(EFX), Remote(DCB)}, {Rfid("Rfid"), Contract(EFX)},
               {Rfid("RfidMifareFamily"), Remote(DCB)}}

ShownBy(p) == {{id} : id \in Shown} \cup IF PartyOf[p].validates THEN {} ELSE OddlyShown

(* Only a message that is not built by the library lacks its session.        *)
SessionsOf(op, p) ==
    {ASession, [ASession EXCEPT ![5] = Ones(11)]}
      \cup IF op \in MayOmitSession \/ ~PartyOf[p].validates THEN {<<>>} ELSE {}

Authorizing(op, p) ==
    LET m == [Blank EXCEPT !.operator = PartyOf[p].operator, !.session = ASession,
                           !.evse = PointOf(PartyOf[p].operator), !.shown = {Contract(DCB)}]
    IN {[m EXCEPT !.shown = ids] : ids \in ShownBy(p)}
         \cup {[m EXCEPT !.evse = e] : e \in {NoEvse, PointOf(GHI)}}
         \cup {[m EXCEPT !.session = s] : s \in SessionsOf(op, p)}

Starting(op, p) ==
    LET m == [Blank EXCEPT !.provider = PartyOf[p].provider, !.session = ASession,
                           !.evse = PointOf(ABC), !.shown = {Remote(PartyOf[p].provider)}]
    IN {[m EXCEPT !.shown = ids] : ids \in ShownBy(p)}
         \cup {[m EXCEPT !.evse = PointOf(o)] : o \in {JKL, [ABC EXCEPT !.operator = <<"X">>]}}
         \cup {[m EXCEPT !.session = s] : s \in SessionsOf(op, p)}
         \cup IF op # "AuthorizeRemoteReservationStart" THEN {}
              ELSE {[m EXCEPT !.duration = {d}] : d \in {0, 1, 99, 100}}

Stopping(op, p) ==
    {[Blank EXCEPT !.provider = PartyOf[p].provider, !.session = s, !.evse = PointOf(o)] :
        s \in SessionsOf(op, p), o \in {ABC, JKL}}

Settling(op, p) ==
    {[Blank EXCEPT !.session = ASession, !.evse = PointOf(PartyOf[p].operator), !.rest = ok,
                   !.shown = IF op = "ChargeDetailRecord" THEN {Contract(DCB)} ELSE ids] :
        ok \in BOOLEAN, ids \in {{}, {Contract(EFX)}}}

Uploading(p) ==
    {[Blank EXCEPT !.provider = PartyOf[p].provider, !.action = action, !.cards = cards] :
        action \in {"fullLoad", "update"}, cards \in {{}, {Rfid("Rfid")}, {Qr}, {[Qr EXCEPT !.pin = 21]}}}

-----------------------------------------------------------------------------
Fee(kind, unit, price) == [kind |-> kind, unit |-> unit, price |-> price]
Product(fees) == [id |-> "AC", price |-> 0, currency |-> 3, allDay |-> TRUE, times |-> {}, fees |-> fees]
Floor(unit, price) == Fee("MINIMUM FEE", unit, price)
Ceiling(unit, price) == Fee("MAXIMUM FEE", unit, price)

FeeLists == {<<>>, <<Fee("FIXED FEE", "HOUR", 1)>>, <<Floor("HOUR", 1), Ceiling("HOUR", 1)>>,
             <<Floor("HOUR", 2), Ceiling("HOUR", 1)>>, <<Ceiling("HOUR", 1), Floor("HOUR", 1), Floor("HOUR", 2)>>,
             <<Floor("MINUTE", 2), Ceiling("HOUR", 1), Floor("HOUR", 0)>>, <<Fee("START FEE", "HOUR", -1)>>}
Products ==
    {Product(fees) : fees \in FeeLists}
      \cup {[Product(<<Fee("FIXED FEE", "HOUR", 1)>>) EXCEPT !.price = 1], [Product(<<>>) EXCEPT !.currency = 2],
            [Product(<<>>) EXCEPT !.allDay = FALSE],
            [Product(<<>>) EXCEPT !.allDay = FALSE, !.times = {[periods |-> 1]}],
            [Product(<<>>) EXCEPT !.allDay = FALSE, !.times = {[periods |-> 0]}]}

Offer(o, p, products) == [operator |-> o, provider |-> p, price |-> 1, products |-> products]
Offers(o) ==
    {Offer(o, DCB, <<x>>) : x \in Products}
      \cup {Offer(o, p, <<Product(<<>>), [Product(<<>>) EXCEPT !.id = id]>>) : p \in {Everyone, EFX}, id \in {"AC", "DC"}}
      \cup {[Offer(o, Everyone, <<>>) EXCEPT !.price = -1]}

Pulling(op, p) ==
    {[Blank EXCEPT !.provider = PartyOf[p].provider, !.operators = operators, !.range = range] :
        operators \in IF op = "PullPricingProductData" THEN {{}, {ABC}, {ABC, JKL}} ELSE {{}, {ABC}},
        range \in IF op = "GetChargeDetailRecords" THEN {<<0, 0>>, <<1, 0>>} ELSE {<<0, 0>>}}

Applying(o) ==
    {[Blank EXCEPT !.pricings = {[operator |-> o, entries |-> entries]}] :
        entries \in {{}} \cup {{[evse |-> PointOf(e), provider |-> DCB, products |-> ids]} :
                               e \in {o, GHI}, ids \in {{}, {"AC"}}}}

BodiesOf == [c \in TheCalls |->
    LET op == OpOf[c]
        p == CallerOf[c]
    IN CASE op \in {"AuthorizeStart", "AuthorizeStop"} -> Authorizing(op, p)
         [] op \in ToACpo \cap Identified -> Starting(op, p)
         [] op \in ToACpo \ Identified -> Stopping(op, p)
         [] op \in {"ChargeDetailRecord", "ChargingNotifications"} -> Settling(op, p)
         [] op = "PushAuthenticationData" -> Uploading(p)
         [] op = "PushPricingProductData" ->
                {[Blank EXCEPT !.blocks = {b}] : b \in Offers(PartyOf[p].operator)}
         [] op = "PushEvsePricing" -> Applying(PartyOf[p].operator)
         [] op \in {"PullPricingProductData", "PullEvsePricing", "GetChargeDetailRecords"} -> Pulling(op, p)
         [] OTHER -> {[Blank EXCEPT !.rest = ok] : ok \in BOOLEAN}]
=============================================================================
