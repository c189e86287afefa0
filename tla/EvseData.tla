------------------------------ MODULE EvseData ------------------------------
(* The vocabulary the broker and the EMP's delta engine share: charging      *)
(* points, their records, and the pages a pull is answered with.             *)
(*                                                                           *)
(* A charging point is its rank in EvseID order, because that order is what  *)
(* pages are cut along.  A record's body is an opaque value.                 *)
EXTENDS Integers, FiniteSets

CONSTANTS
    NumEvse,        \* how many charging points the instance has
    Bodies,         \* what a charging point's record may say
    NoRecord,       \* "there is no record"
    Husk,           \* the fields of a tombstone beyond its EvseID: worth nothing
    PageSize        \* the size every page of a crawl is asked for with

ASSUME NumEvseAssumption == NumEvse \in Nat \ {0}
ASSUME BodiesAssumption == NoRecord \notin Bodies /\ Husk \notin Bodies /\ Husk # NoRecord
ASSUME PageSizeAssumption == PageSize \in Nat \ {0}

Evse == 1..NumEvse

(* What a map holds for a charging point: a record's body, or nothing. *)
Held == Bodies \cup {NoRecord}

DeltaTags == {"Insert", "Update", "Delete"}

(* One record of a pull.  A full pull's records carry no tag.                *)
PullRecord ==
    [tag : {"none", "Insert", "Update"}, body : Bodies] \cup [tag : {"Delete"}, body : {Husk}]

(* A listing is a set of charging points, in EvseID order. *)
Rank(listing, e) == Cardinality({k \in listing : k < e})

(* The slice of a listing that starts at offset, and whether it is the last. *)
PageKeys(listing, offset) ==
    {e \in listing : offset <= Rank(listing, e) /\ Rank(listing, e) < offset + PageSize}

(* Mutant: an off-by-one in total_pages. *)
LastPageEarly(listing, offset) == Cardinality(listing) <= offset + PageSize + 1

LastPage(listing, offset) == Cardinality(listing) <= offset + PageSize
=============================================================================
