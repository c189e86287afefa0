------------------------------ MODULE Endpoints ------------------------------
(* transport/endpoint.rs: which operation lives on which path, and who calls *)
(* and who serves it. A path is the sequence of its segments; a trailing      *)
(* slash is an empty last segment.                                           *)
EXTENDS Integers, Sequences

Roles == {"CPO", "EMP"}
Counterpart(role) == IF role = "CPO" THEN "EMP" ELSE "CPO"

ToACpo == {"AuthorizeRemoteStart", "AuthorizeRemoteStop",
           "AuthorizeRemoteReservationStart", "AuthorizeRemoteReservationStop"}
ToAnEmp == {"AuthorizeStart", "AuthorizeStop", "ChargeDetailRecord", "ChargingNotifications"}
OfACpo == {"PushEvseData", "PushEvseStatus", "PushPricingProductData", "PushEvsePricing"}
OfAnEmp == {"PullEvseData", "PullEvseStatus", "PullPricingProductData", "PullEvsePricing",
            "GetChargeDetailRecords", "PushAuthenticationData"}
Operations == ToACpo \cup ToAnEmp \cup OfACpo \cup OfAnEmp

OperatorSlot == "{operatorID}"
ProviderSlot == "{providerID}"
Slots == {OperatorSlot, ProviderSlot}

Template(op) ==
    CASE op = "AuthorizeStart" ->
            <<"charging", "v21", "operators", OperatorSlot, "authorize", "start">>
      [] op = "AuthorizeStop" ->
            <<"charging", "v21", "operators", OperatorSlot, "authorize", "stop">>
      [] op = "AuthorizeRemoteStart" ->
            <<"charging", "v21", "providers", ProviderSlot, "authorize-remote", "start">>
      [] op = "AuthorizeRemoteStop" ->
            <<"charging", "v21", "providers", ProviderSlot, "authorize-remote", "stop">>
      [] op = "ChargeDetailRecord" ->
            <<"cdrmgmt", "v22", "operators", OperatorSlot, "charge-detail-record">>
      [] op = "GetChargeDetailRecords" ->
            <<"cdrmgmt", "v22", "providers", ProviderSlot, "get-charge-detail-records-request">>
      [] op = "PushAuthenticationData" ->
            <<"authdata", "v21", "providers", ProviderSlot, "push-request">>
      [] op = "AuthorizeRemoteReservationStart" ->
            <<"reservation", "v11", "providers", ProviderSlot, "reservation-start-request">>
      [] op = "AuthorizeRemoteReservationStop" ->
            <<"reservation", "v11", "providers", ProviderSlot, "reservation-stop-request">>
      [] op = "PushEvseData" ->
            <<"evsepush", "v23", "operators", OperatorSlot, "data-records">>
      [] op = "PullEvseData" ->
            <<"evsepull", "v23", "providers", ProviderSlot, "data-records">>
      [] op = "PushEvseStatus" ->
            <<"evsepush", "v21", "operators", OperatorSlot, "status-records">>
      [] op = "PullEvseStatus" ->
            <<"evsepull", "v21", "providers", ProviderSlot, "status-records">>
      [] op = "PushPricingProductData" ->
            <<"dynamicpricing", "v10", "operators", OperatorSlot, "pricing-products">>
      [] op = "PullPricingProductData" ->
            <<"dynamicpricing", "v10", "providers", ProviderSlot, "pricing-products">>
      [] op = "PushEvsePricing" ->
            <<"dynamicpricing", "v10", "operators", OperatorSlot, "evse-pricing">>
      [] op = "PullEvsePricing" ->
            <<"dynamicpricing", "v10", "providers", ProviderSlot, "evse-pricing">>
      [] op = "ChargingNotifications" ->
            <<"notificationmgmt", "v11", "charging-notifications">>

(* A proxied operation is called by one role and served by the other.        *)
Involvement(op, role) ==
    CASE op \in ToAnEmp -> IF role = "CPO" THEN "calls" ELSE "serves"
      [] op \in ToACpo  -> IF role = "EMP" THEN "calls" ELSE "serves"
      [] op \in OfACpo  -> IF role = "CPO" THEN "calls" ELSE "no part"
      [] op \in OfAnEmp -> IF role = "EMP" THEN "calls" ELSE "no part"

IsServedBy(op, role) == Involvement(op, role) = "serves"

-----------------------------------------------------------------------------
SlotsOf(op) == {Template(op)[i] : i \in DOMAIN Template(op)} \cap Slots
TakesOperatorId(op) == OperatorSlot \in SlotsOf(op)

(* Operation::path: the id of the kind the slot takes, as it is written; a   *)
(* path without a slot takes any.                                            *)
WrongIdKind(op, id) ==
    /\ SlotsOf(op) # {}
    /\ TakesOperatorId(op) # (id.kind = "operator")

Path(op, id) == [i \in DOMAIN Template(op) |->
                    IF Template(op)[i] \in Slots THEN id.text ELSE Template(op)[i]]

Trimmed(path) ==
    LET kept == {i \in DOMAIN path : \E j \in DOMAIN path : i <= j /\ path[j] # ""}
    IN [i \in kept |-> path[i]]

(* caller_path_id: what a caller of this role puts into the path. *)
NoId == [kind |-> "none", text |-> ""]
CallerPathId(op, role, text) ==
    IF Involvement(op, role) # "calls" \/ SlotsOf(op) = {} THEN NoId
    ELSE [kind |-> IF TakesOperatorId(op) THEN "operator" ELSE "provider", text |-> text]

-----------------------------------------------------------------------------
(* A concrete path is of an operation when every segment is the template's,  *)
(* and something stands in the slot.                                         *)
Matches(template, path) ==
    /\ DOMAIN template = DOMAIN path
    /\ \A i \in DOMAIN template :
            IF template[i] \in Slots THEN path[i] # "" ELSE path[i] = template[i]

FromPath(path) == {op \in Operations : Matches(Template(op), Trimmed(path))}

(* cpo_router, emp_router: a route for each operation the role serves.       *)
Routed(role, path) == {op \in Operations : IsServedBy(op, role) /\ Matches(Template(op), path)}
=============================================================================
