---------------------------- MODULE SealClosing ----------------------------
(***************************************************************************)
(* What closing seals promises, without transactions, taproot outputs or   *)
(* Merkle trees: a seal is spent once, and once it is, a receiver learns   *)
(* at most one message of each contract from it, always the same.          *)
(***************************************************************************)
CONSTANTS Seals, Contracts, Messages

VARIABLES spent,   \* the seals that have been spent
          closed   \* the messages learned, each with its seal and contract

vars == <<spent, closed>>

Closing == [seal : Seals, contract : Contracts, message : Messages]

Init == spent = {} /\ closed = {}

Functional(closings) ==
    \A x, y \in closings :
        x.seal = y.seal /\ x.contract = y.contract => x.message = y.message

(***************************************************************************)
(* Seals are spent, perhaps several at a time, and messages are learned    *)
(* from those that are; neither is ever taken back.                        *)
(***************************************************************************)
Next ==
    /\ spent \subseteq spent' /\ spent' \subseteq Seals
    /\ closed \subseteq closed' /\ closed' \subseteq Closing
    /\ \A x \in closed' : x.seal \in spent'
    /\ Functional(closed)'

Spec == Init /\ [][Next]_vars
=============================================================================
