----------------------------- MODULE Credentials -----------------------------
(* What a driver shows (types/identification.rs) and the identifiers in it    *)
(* (types/ids.rs): contracts, cards, providers and sessions. Identifiers are  *)
(* the parts of their text, in upper case, and how they were spelled.         *)
EXTENDS Identifiers

\* Optional members that are left out.
NoContract == [country |-> <<>>, provider |-> <<>>, marker |-> <<>>, instance |-> <<>>,
               check |-> <<>>, separators |-> {}]
NoUid == [digits |-> <<>>, lower |-> FALSE]
Hex == Digits \cup (Letters \cap {"A", "B", "C", "D", "E", "F"})

\* ProviderID: both standards write it alike.
ProviderIsWellFormed(p) ==
    /\ Made(Letters, p.country) /\ Len(p.country) = 2
    /\ Made(Symbols, p.provider) /\ Len(p.provider) = 3
ProviderBytes(p) == p.country \o p.provider
SameProvider(a, b) == ProviderBytes(a) = ProviderBytes(b)

\* ProviderIDAsterisk: one provider, or every one.
Everyone == [country |-> <<"*">>, provider |-> <<>>]
OneOrAllIsWellFormed(p) == p = Everyone \/ ProviderIsWellFormed(p)
Addressed(to, p) == to = Everyone \/ SameProvider(to, p)

\* EvcoID: the two grammars differ in the separators, the length of the
\* instance part, its marker and the check character.
ContractIsIso(c) ==
    /\ ProviderIsWellFormed(c)
    /\ c.separators \subseteq {"-"}
    /\ c.marker = <<"C">> /\ Made(Symbols, c.instance) /\ Len(c.instance) = 8
    /\ Made(Symbols, c.check) /\ Len(c.check) = 1
ContractIsDin(c) ==
    /\ ProviderIsWellFormed(c)
    /\ c.separators \subseteq {"-", "*"}
    /\ c.marker = <<>> /\ Made(Symbols, c.instance) /\ Len(c.instance) = 6
    /\ Made(Digits \cup (Letters \cap {"X"}), c.check) /\ Len(c.check) = 1
ContractIsWellFormed(c) == ContractIsIso(c) \/ ContractIsDin(c)

\* EvcoId::provider_id: the country and the three characters after it.
ProviderOf(c) == [country |-> c.country, provider |-> c.provider]

\* SessionID: five groups; UID: 4, 7 or 10 bytes, of which only the upper-case
\* spelling may be sent.
SessionIsWellFormed(s) ==
    /\ [i \in DOMAIN s |-> Len(s[i])] = <<8, 4, 4, 4, 12>>
    /\ \A i \in DOMAIN s : Made(Symbols, s[i])
UidIsWellFormed(u) == Len(u.digits) \in {8, 14, 20} /\ Made(Hex, u.digits) /\ ~u.lower

-----------------------------------------------------------------------------
\* An identification is one member of the wire's object. pin and hashed are
\* the lengths of the two PINs, negative when left out.
Members == <<"RfidMifareFamily", "Rfid", "QrCode", "PlugAndCharge", "Remote">>

Identification(member, contract, uid) ==
    [member |-> member, contract |-> contract, uid |-> uid, pin |-> -1, hashed |-> -1]
LeftOut(pin) == pin < 0

\* Deserialize: of several members the first in the order of the
\* specification is kept; of none, the message is not decodable.
Place(id) == CHOOSE i \in DOMAIN Members : Members[i] = id.member
DecodedIdentification(shown) ==
    CHOOSE id \in shown : \A other \in shown : Place(id) <= Place(other)

\* Identification::validate_in, member by member.
IdentificationIsWellFormed(id) ==
    /\ id.contract # NoContract => ContractIsWellFormed(id.contract)
    /\ id.uid # NoUid => UidIsWellFormed(id.uid)
    /\ LeftOut(id.pin) \/ LeftOut(id.hashed)
    /\ id.pin <= 20
    /\ LeftOut(id.hashed) \/ id.hashed \in 10 .. 100

\* validate_in_process: what each process asks on top.
FitsProcess(id, process) ==
    /\ IdentificationIsWellFormed(id)
    /\ process = "Authorization" => /\ id.member # "Rfid"
                                    /\ id.member = "QrCode" => LeftOut(id.hashed) /\ ~LeftOut(id.pin)
    /\ process = "RemoteAuthorization" => id.member = "Remote"
=============================================================================
