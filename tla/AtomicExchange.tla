--------------------------- MODULE AtomicExchange ---------------------------
(***************************************************************************)
(* What an atomic swap promises, without time, transactions or mempools.   *)
(*                                                                         *)
(* Two legs are exchanged against one secret.  A party that follows the    *)
(* protocol is protected whatever the other one does: the responder's      *)
(* leg is only paid out while his own claim is still open, and nobody gets *)
(* a refund out from under a secret that has been revealed.                *)
(***************************************************************************)
VARIABLES diligent,   \* the parties that follow the protocol
          leg,        \* the state of each leg
          secret      \* the secret is public

vars == <<diligent, leg, secret>>

Init ==
    /\ diligent \in SUBSET {"initiator", "responder"}
    /\ leg = [l \in {"btc", "liq"} |-> IF l = "btc" THEN "locked" ELSE "unlocked"]
    /\ secret = FALSE

Lock ==
    /\ leg.liq = "unlocked"
    /\ "responder" \in diligent => leg.btc = "locked"
    /\ leg' = [leg EXCEPT !.liq = "locked"]
    /\ UNCHANGED <<diligent, secret>>

Reveal ==
    /\ leg.liq = "locked"
    /\ "responder" \in diligent => leg.btc = "locked"
    /\ secret' = TRUE
    /\ UNCHANGED <<diligent, leg>>

Claim(l) ==
    /\ leg[l] = "locked"
    /\ secret
    /\ leg' = [leg EXCEPT ![l] = "claimed"]
    /\ UNCHANGED <<diligent, secret>>

\* The party that a refund of the leg would rob once the secret is out.
Exposed(l) == IF l = "btc" THEN "responder" ELSE "initiator"

Refund(l) ==
    /\ leg[l] = "locked"
    /\ Exposed(l) \in diligent => ~secret
    /\ leg' = [leg EXCEPT ![l] = "refunded"]
    /\ UNCHANGED <<diligent, secret>>

Next ==
    \/ Lock
    \/ Reveal
    \/ \E l \in {"btc", "liq"} : Claim(l) \/ Refund(l)

Spec == Init /\ [][Next]_vars
=============================================================================
