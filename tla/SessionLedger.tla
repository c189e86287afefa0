--------------------------- MODULE SessionLedger ----------------------------
(* What the broker promises about charging sessions: an identifier stands    *)
(* for one session for ever, and is settled by at most one CDR.              *)
EXTENDS Sequences

CONSTANT
    Terms           \* what a session may be opened for: where, and with which medium

VARIABLES
    opened,         \* the sessions opened so far: identifier -> terms
    stopped,        \* the identifiers of those that were stopped
    settlements     \* the CDRs accepted, by session, in order

ledgerVars == <<opened, stopped, settlements>>

LedgerInit == opened = << >> /\ stopped = {} /\ settlements = << >>

Open(s, terms) ==
    /\ s \notin DOMAIN opened
    /\ opened' = [t \in DOMAIN opened \cup {s} |-> IF t = s THEN terms ELSE opened[t]]
    /\ UNCHANGED <<stopped, settlements>>

Stop(s) ==
    /\ s \in DOMAIN opened
    /\ stopped' = stopped \cup {s}
    /\ UNCHANGED <<opened, settlements>>

Settle(s) ==
    /\ s \in DOMAIN opened
    /\ \A i \in DOMAIN settlements : settlements[i] # s
    /\ settlements' = Append(settlements, s)
    /\ UNCHANGED <<opened, stopped>>

LedgerNext == \E s \in DOMAIN opened' : \/ \E terms \in Terms : Open(s, terms)
                                       \/ Stop(s)
                                       \/ Settle(s)

LedgerSpec == LedgerInit /\ [][LedgerNext]_ledgerVars
=============================================================================
