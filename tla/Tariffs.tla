------------------------------- MODULE Tariffs -------------------------------
(* Dynamic pricing (cpo/pricing.rs, emp/pricing.rs): what a tariff says and   *)
(* when it conforms. Prices are whole numbers of the smallest amount.         *)
EXTENDS Credentials

Bounds == {"MINIMUM FEE", "MAXIMUM FEE"}

(* A product's fees are a sequence of [kind, unit, price].                   *)
FeesOf(product, kind, unit) ==
    {i \in DOMAIN product.fees : product.fees[i].kind = kind /\ product.fees[i].unit = unit}

FeeConforms(fee) == fee.price >= 0

(* check_fee_bounds: a unit has one floor and one ceiling, in this order.    *)
FeeBoundsPerKindOnly(product) ==            \* Mutant: the first floor and ceiling of any unit
    \A i, j \in DOMAIN product.fees :
        product.fees[i].kind = product.fees[j].kind /\ product.fees[i].kind \in Bounds
            /\ product.fees[i].unit = product.fees[j].unit => i = j

FeeBoundsConform(product) ==
    /\ \A i, j \in DOMAIN product.fees :
        product.fees[i].kind = product.fees[j].kind /\ product.fees[i].kind \in Bounds
            /\ product.fees[i].unit = product.fees[j].unit => i = j
    /\ \A i, j \in DOMAIN product.fees :
        product.fees[i].kind = "MINIMUM FEE" /\ product.fees[j].kind = "MAXIMUM FEE"
            /\ product.fees[i].unit = product.fees[j].unit
        => product.fees[i].price <= product.fees[j].price

HasFixedFee(product) == \E i \in DOMAIN product.fees : product.fees[i].kind = "FIXED FEE"

(* An availability time names the days it is for and its periods, of which   *)
(* only the number matters; "currency" is the length of the currency's code. *)
AvailabilityConforms(times) == times.periods >= 1

ProductConforms(product) ==
    /\ product.price >= 0
    /\ product.currency = 3
    /\ product.allDay <=> product.times = {}
    /\ \A times \in product.times : AvailabilityConforms(times)
    /\ \A i \in DOMAIN product.fees : FeeConforms(product.fees[i])
    /\ HasFixedFee(product) => product.price = 0
    /\ FeeBoundsConform(product)

(* PricingProductData: an operator's tariffs for one provider or for all.    *)
(* The currency of the default price is not looked at.                       *)
BlockConforms(block) ==
    /\ OperatorIsWellFormed(block.operator)
    /\ OneOrAllIsWellFormed(block.provider)
    /\ block.price >= 0
    /\ \A i \in DOMAIN block.products : ProductConforms(block.products[i])
    /\ \A i, j \in DOMAIN block.products : block.products[i].id = block.products[j].id => i = j

(* EVSEPricing: which products apply at which charging point, for whom.      *)
(* That the operator runs the charging point is not looked at.               *)
EvsePricingConforms(entry) ==
    /\ EvseIsWellFormed(entry.evse) /\ ProviderIsWellFormed(entry.provider)
    /\ entry.products # {}
OperatorEvsePricingConforms(pricing) ==
    /\ OperatorIsWellFormed(pricing.operator)
    /\ \A entry \in pricing.entries : EvsePricingConforms(entry)

(* The two pulls name at least one operator.                                 *)
PullConforms(pull) == pull.operators # {} /\ \A o \in pull.operators : OperatorIsWellFormed(o)

-----------------------------------------------------------------------------
(* What a unit of a product costs: the base price where the unit is the      *)
(* product's, and every fee that is charged per that unit, within the floor  *)
(* and the ceiling. Amounts may be priced only if there is one answer.       *)
Priceable(product, unit) ==
    LET floors == FeesOf(product, "MINIMUM FEE", unit)
        ceilings == FeesOf(product, "MAXIMUM FEE", unit)
    IN /\ \A i, j \in floors : i = j
       /\ \A i, j \in ceilings : i = j
       /\ \E amount \in {product.fees[i].price : i \in floors} \cup {0} :
             /\ \A i \in floors : product.fees[i].price <= amount
             /\ \A i \in ceilings : amount <= product.fees[i].price
=============================================================================
