------------------------------ MODULE Messages ------------------------------
(* The requests of the eighteen operations: what is on the wire, what a       *)
(* server decodes, and validate_in of each (cpo/remote.rs,                    *)
(* cpo/authorization.rs, emp/cdr.rs and, in Tariffs, the pricing messages).   *)
EXTENDS Tariffs, Endpoints

(* Members a message does not have are left as they are here. "shown" is the  *)
(* members of its Identification object, "rest" whether the fields no rule   *)
(* below names are well formed: product and partner ids, and the records of  *)
(* EVSE data, statuses, CDRs and notifications, which other modules detail.  *)
NoOperator == [standard |-> "none", country |-> <<>>, operator |-> <<>>]
NoProvider == [country |-> <<>>, provider |-> <<>>]
NoEvse == [standard |-> "none", country |-> <<>>, operator |-> <<>>, instance |-> <<>>,
           separators |-> 0]
Blank == [operator |-> NoOperator, provider |-> NoProvider, evse |-> NoEvse, session |-> <<>>,
          shown |-> {}, duration |-> {}, action |-> "none", cards |-> {}, range |-> <<>>,
          blocks |-> {}, pricings |-> {}, operators |-> {}, rest |-> TRUE]

Identified == {"AuthorizeStart", "AuthorizeStop", "AuthorizeRemoteStart",
               "AuthorizeRemoteReservationStart"}
NamesSession == ToACpo \cup {"AuthorizeStart", "AuthorizeStop"}
MayOmitSession == {"AuthorizeStart", "AuthorizeRemoteReservationStart"}

(* Decoding asks for a session and an identification where there must be     *)
(* one, and keeps one of the members of the identification.                  *)
Decodable(op, m) == /\ op \in Identified => m.shown # {}
                    /\ op \in NamesSession \ MayOmitSession => m.session # <<>>
Decoded(op, m) == IF op \in Identified
                  THEN [m EXCEPT !.shown = {DecodedIdentification(m.shown)}] ELSE m

SessionFits(m) == m.session = <<>> \/ SessionIsWellFormed(m.session)

(* check_provider_matches_contract: the provider that asks is the one of the *)
(* contract that is to be charged.                                           *)
ProviderMatchesContract(m) ==
    \A id \in m.shown : id.contract # NoContract => SameProvider(ProviderOf(id.contract), m.provider)

AuthorizeConforms(op, m) ==
    /\ \A id \in m.shown : FitsProcess(id, "Authorization")
    /\ OperatorIsWellFormed(m.operator)
    /\ m.evse # NoEvse =>
          /\ EvseIsWellFormed(m.evse)
          /\ op = "AuthorizeStart" => SameOperator(OperatorOf(m.evse), m.operator)
    /\ SessionFits(m)

RemoteConformsAnyProvider(m) ==         \* Mutant: the contract's provider is not looked at
    /\ ProviderIsWellFormed(m.provider) /\ EvseIsWellFormed(m.evse)
    /\ SessionFits(m)
    /\ \A id \in m.shown : FitsProcess(id, "RemoteAuthorization")
    /\ m.duration \subseteq 1 .. 99

RemoteConforms(m) ==
    /\ ProviderIsWellFormed(m.provider) /\ EvseIsWellFormed(m.evse)
    /\ SessionFits(m)
    /\ \A id \in m.shown : FitsProcess(id, "RemoteAuthorization")
    /\ ProviderMatchesContract(m)
    /\ m.duration \subseteq 1 .. 99

(* An upload of cards may replace the whole base, but not by nothing.        *)
CardsConform(m) ==
    /\ ProviderIsWellFormed(m.provider)
    /\ m.action = "fullLoad" => m.cards # {}
    /\ \A id \in m.cards : FitsProcess(id, "AuthenticationData")

RecordsPullConforms(m) == ProviderIsWellFormed(m.provider) /\ m.range[1] <= m.range[2]

Conforms(op, m) ==
    /\ m.rest
    /\ op \in {"AuthorizeStart", "AuthorizeStop"} => AuthorizeConforms(op, m)
    /\ op \in ToACpo => RemoteConforms(m)
    /\ op = "PushAuthenticationData" => CardsConform(m)
    /\ op = "GetChargeDetailRecords" => RecordsPullConforms(m)
    /\ op = "PushPricingProductData" => \A block \in m.blocks : BlockConforms(block)
    /\ op = "PushEvsePricing" => \A p \in m.pricings : OperatorEvsePricingConforms(p)
    /\ op = "PullPricingProductData" => PullConforms(m)
    /\ op = "PullEvsePricing" => ProviderIsWellFormed(m.provider) /\ PullConforms(m)
=============================================================================
