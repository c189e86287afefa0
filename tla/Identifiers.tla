---------------------------- MODULE Identifiers ----------------------------
(* EvseID and OperatorID (types/ids.rs). An identifier is the parts of its   *)
(* text and how they are spelled: with or without separators, the plus sign  *)
(* and capitals. Its parts are sequences of symbols in upper case; of the    *)
(* separators only those within the instance part are counted.               *)
EXTENDS Integers, Sequences

CONSTANTS Letters, Digits

Symbols == Letters \cup Digits
ASSUME SymbolAssumption == Letters \cap Digits = {}

Standards == {"ISO", "DIN"}
Made(symbols, s) == \A i \in DOMAIN s : s[i] \in symbols

\* The two grammars.
\* Mutant: any length up to three, as in a country code.
OperatorPartUpTo(s) == Len(s) \in 1 .. 3
OperatorPart(s) == Len(s) = 3
IsIso(id) ==
    /\ id.standard = "ISO"
    /\ Made(Letters, id.country) /\ Len(id.country) = 2
    /\ Made(Symbols, id.operator) /\ OperatorPart(id.operator)
IsDin(id) ==
    /\ id.standard = "DIN"
    /\ Made(Digits, id.country) /\ Len(id.country) \in 1 .. 3
    /\ Made(Digits, id.operator) /\ OperatorPart(id.operator)

OperatorIsWellFormed(o) == IsIso(o) \/ IsDin(o)
\* The length of an instance part counts its separators, and nothing asks for
\* more than those (check_iso, check_din).
EvseIsWellFormed(id) ==
    LET length == Len(id.instance) + id.separators IN
    \/ IsIso(id) /\ Made(Symbols, id.instance) /\ length \in 1 .. 30
    \/ IsDin(id) /\ Made(Digits, id.instance) /\ length \in 1 .. 32

\* significant_bytes: what equality, order and hash read.
OperatorBytes(o) == o.country \o o.operator
EvseBytes(id) ==
    OperatorBytes(id) \o (IF id.standard = "ISO" THEN <<"E">> ELSE <<>>) \o id.instance

SameOperator(a, b) == OperatorBytes(a) = OperatorBytes(b)
SameEvse(a, b) == EvseBytes(a) = EvseBytes(b)

\* EvseId::operator_id: the text up to the second separator, or to the marker.
OperatorOf(id) == [standard |-> id.standard, country |-> id.country, operator |-> id.operator]

=============================================================================
