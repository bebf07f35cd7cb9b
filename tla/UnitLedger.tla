----------------------------- MODULE UnitLedger -----------------------------
(***************************************************************************)
(* What a ledger of client-side validated contracts promises: the units of *)
(* a contract sit on outpoints, they leave an outpoint only when that one  *)
(* is closed, and whatever arrives elsewhere came from there.  Units may   *)
(* get lost; a closing of outpoints moves those of one contract at most.   *)
(***************************************************************************)
EXTENDS Integers, FiniteSets, Functions

CONSTANTS Seals, Contracts

VARIABLE held   \* of each contract issued: the units on each outpoint

Init == held = [c \in {} |-> 0]

\* The supply of a new contract is on one outpoint.
Issued(before, after) ==
    \E c \in Contracts \ DOMAIN before :
        /\ DOMAIN after = DOMAIN before \cup {c}
        /\ \A d \in DOMAIN before : after[d] = before[d]
        /\ Cardinality({ s \in Seals : after[c][s] > 0 }) <= 1

\* The outpoints that held something, and hold nothing any more.
Emptied(before, after) ==
    { s \in Seals : /\ \E c \in DOMAIN before : before[c][s] > 0
                    /\ \A c \in DOMAIN before : after[c][s] = 0 }

\* What a contract gains on the outpoints that stay, and had on the others.
Arrived(before, after, closed) ==
    SumFunction([s \in Seals \ closed |-> after[s] - before[s]])
Released(before, closed) == SumFunctionOnSet(before, closed)

Closed(before, after) ==
    /\ DOMAIN after = DOMAIN before
    /\ \E closed \in {Emptied(before, after)} :
        /\ \A c \in DOMAIN before :
            /\ \A s \in Seals \ closed : after[c][s] >= before[c][s]
            /\ Arrived(before[c], after[c], closed) <= Released(before[c], closed)
        /\ Cardinality({ c \in DOMAIN before : Arrived(before[c], after[c], closed) > 0 }) <= 1

Next ==
    \E before \in {held}, after \in {held'} : Issued(before, after) \/ Closed(before, after)

Spec == Init /\ [][Next]_held
=============================================================================
