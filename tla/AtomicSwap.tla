----------------------------- MODULE AtomicSwap -----------------------------
(***************************************************************************)
(* One swap of scripts/demo_swap_roundtrip.sh: two HTLC outputs, one on    *)
(* each chain, locked behind the hash of one preimage.                     *)
(*                                                                         *)
(* The initiator knows the preimage and locks the Bitcoin leg; the         *)
(* responder answers with the Liquid leg; the initiator claims the Liquid  *)
(* leg, which makes the preimage public; the responder claims the Bitcoin  *)
(* leg with it.  Either funder may take its own leg back once the relative *)
(* lock of its output has expired.  (Alice initiates swap 1 and Bob swap   *)
(* 2: the legs and the order are the same.)                                *)
(*                                                                         *)
(* Either party may be anybody: `diligent' holds the ones that run the     *)
(* script and watch both chains.  The others do whatever the outputs       *)
(* permit, whenever they like.  The script runs against regtest, where it  *)
(* mines the blocks itself; here each chain grows on its own, a spend is   *)
(* first broadcast and then confirmed, and two spends of one output may    *)
(* compete (the builders signal replaceability).                           *)
(***************************************************************************)
EXTENDS RelativeLock

CONSTANTS Csv,      \* the --csv-delay of each leg
          React,    \* blocks a diligent party may let pass before it acts
          Lead,     \* blocks Bitcoin may be ahead of Liquid, ages compared
          MaxAge    \* bound: blocks explored on top of a lock

Leg == {"btc", "liq"}
Party == {"initiator", "responder"}

ASSUME BlockDelays ==
    /\ Csv \in [Leg -> Nat \ {0}]
    /\ \A l \in Leg : ~HasFlag(Csv[l], TypeFlag) /\ ~HasFlag(Csv[l], DisableFlag)
    /\ React \in Nat
    /\ Lead \in Nat
    /\ MaxAge \in Nat

\* --claimer and --refund of the two HTLCs.
Claimer == [btc |-> "responder", liq |-> "initiator"]
Refunder == [btc |-> "initiator", liq |-> "responder"]

VARIABLES diligent,  \* the parties that follow the script
          leg,       \* what has become of each HTLC output
          age,       \* blocks on top of the one that holds the output
          mempool,   \* the broadcast spends of the output
          secret,    \* the preimage is public
          waited     \* blocks a party has let pass since it could act

vars == <<diligent, leg, age, mempool, secret, waited>>

\* Type invariant: the Bitcoin leg is never unlocked, and nobody who owes a
\* spend has been idle for more than React blocks.
TypeOK ==
    /\ diligent \in SUBSET Party
    /\ leg \in [Leg -> {"unlocked", "locked", "claimed", "refunded"}]
    /\ leg.btc # "unlocked"
    /\ age \in [Leg -> Nat]
    /\ mempool \in [Leg -> SUBSET Branch]
    /\ secret \in BOOLEAN
    /\ waited \in [Party -> [Leg -> 0..React]]

(***************************************************************************)
(* The initiator's lock is in a block: the swap starts here, since nobody  *)
(* else has anything at stake before.                                      *)
(***************************************************************************)
Init ==
    /\ diligent \in SUBSET Party
    /\ leg = [l \in Leg |-> IF l = "btc" THEN "locked" ELSE "unlocked"]
    /\ age = [l \in Leg |-> 0]
    /\ mempool = [l \in Leg |-> {}]
    /\ secret = FALSE
    /\ waited = [p \in Party |-> [l \in Leg |-> 0]]
-----------------------------------------------------------------------------
\* Mutant: the refund is taken for valid at any height.
MatureAtOnce(l) == leg[l] = "locked"

\* A refund of the leg may be in the next block.
Mature(l) == leg[l] = "locked" /\ RefundOpen(Csv[l], age[l] + 1, 0)

\* Mutant: nobody watches the chains for this duty.
NeverDue(l) == FALSE

(***************************************************************************)
(* The script's next line is a spend of this leg: the claim with the       *)
(* preimage read off the other chain, or the refund after the lock.        *)
(***************************************************************************)
ClaimDue(l) ==
    l = "btc" /\ leg[l] = "locked" /\ secret /\ "claim" \notin mempool[l]

RefundDue(l) == Mature(l) /\ mempool[l] = {}

Owes(p, l) ==
    /\ p \in diligent
    /\ \/ p = Claimer[l] /\ ClaimDue(l)
       \/ p = Refunder[l] /\ RefundDue(l)

\* Mutant: the responder does not look at the other chain before it locks.
LockLiqBlindly ==
    /\ leg.liq = "unlocked"
    /\ leg' = [leg EXCEPT !.liq = "locked"]
    /\ UNCHANGED <<diligent, age, mempool, secret, waited>>

(***************************************************************************)
(* The responder's lock is in a block.  The script sends it right after    *)
(* the initiator's, so a diligent responder still finds that one young and *)
(* unspent.                                                                *)
(***************************************************************************)
LockLiq ==
    /\ leg.liq = "unlocked"
    /\ "responder" \in diligent =>
          leg.btc = "locked" /\ mempool.btc = {} /\ age.btc <= Lead
    /\ leg' = [leg EXCEPT !.liq = "locked"]
    /\ UNCHANGED <<diligent, age, mempool, secret, waited>>

\* Mutant: the initiator claims whenever it likes.
ClaimAtLeisure(l) ==
    /\ leg[l] = "locked"
    /\ "claim" \notin mempool[l]
    /\ l = "btc" => secret
    /\ mempool' = [mempool EXCEPT ![l] = @ \cup {"claim"}]
    /\ secret' = TRUE
    /\ UNCHANGED <<diligent, leg, age, waited>>

(***************************************************************************)
(* The claimer of the leg broadcasts its claim: on Liquid the initiator,   *)
(* whose witness reveals the preimage, on Bitcoin the responder with the   *)
(* revealed one.  The script claims the Liquid leg as soon as it is there. *)
(***************************************************************************)
Claim(l) ==
    /\ leg[l] = "locked"
    /\ "claim" \notin mempool[l]
    /\ l = "btc" => secret
    /\ l = "liq" /\ "initiator" \in diligent => age.liq <= React
    /\ mempool' = [mempool EXCEPT ![l] = @ \cup {"claim"}]
    /\ secret' = TRUE
    /\ UNCHANGED <<diligent, leg, age, waited>>

(***************************************************************************)
(* The funder of the leg broadcasts its refund; nodes relay it once it may *)
(* be in the next block.                                                   *)
(***************************************************************************)
Refund(l) ==
    /\ Mature(l)
    /\ "refund" \notin mempool[l]
    /\ mempool' = [mempool EXCEPT ![l] = @ \cup {"refund"}]
    /\ UNCHANGED <<diligent, leg, age, secret, waited>>

(***************************************************************************)
(* A block in which the leg stays unspent: there is no spend to put into   *)
(* it, no diligent party has been idle for longer than React blocks, and,  *)
(* while both legs are locked, Bitcoin does not run away from Liquid.      *)
(***************************************************************************)
EmptyBlock(l) ==
    /\ leg[l] = "locked"
    /\ mempool[l] = {}
    /\ age[l] < MaxAge
    /\ \A p \in Party : Owes(p, l) => waited[p][l] < React
    /\ l = "btc" /\ leg.liq = "locked" => age.btc < age.liq + Lead
    /\ age' = [age EXCEPT ![l] = @ + 1]
    /\ waited' = [p \in Party |->
                     IF Owes(p, l) THEN [waited[p] EXCEPT ![l] = @ + 1] ELSE waited[p]]
    /\ UNCHANGED <<diligent, leg, mempool, secret>>

(***************************************************************************)
(* The next block holds one of the competing spends: the others are void.  *)
(***************************************************************************)
Confirm(l) ==
    /\ leg[l] = "locked"
    /\ \E branch \in mempool[l] :
          leg' = [leg EXCEPT ![l] = IF branch = "claim" THEN "claimed" ELSE "refunded"]
    /\ mempool' = [mempool EXCEPT ![l] = {}]
    /\ UNCHANGED <<diligent, age, secret, waited>>

Next ==
    \/ LockLiq
    \/ \E l \in Leg : Claim(l) \/ Refund(l) \/ EmptyBlock(l) \/ Confirm(l)

Spec == Init /\ [][Next]_vars

(***************************************************************************)
(* Chains grow, and a diligent party does what it owes.  Locking the       *)
(* Liquid leg and claiming it first are nobody's duty.                     *)
(***************************************************************************)
Duty(p, l) ==
    \/ Owes(p, l) /\ p = Claimer[l] /\ Claim(l)
    \/ Owes(p, l) /\ p = Refunder[l] /\ Refund(l)

Fairness ==
    /\ \A l \in Leg : WF_vars(EmptyBlock(l) \/ Confirm(l))
    /\ \A p \in Party, l \in Leg : WF_vars(Duty(p, l))

FairSpec == Spec /\ Fairness
-----------------------------------------------------------------------------
(***************************************************************************)
(* The delays as the chain reads them, and the order between them that the *)
(* two safety properties rest on.                                          *)
(***************************************************************************)
Delay(l) == Csv[l] % ValueMod

TimelockOrder ==
    /\ Delay("liq") > React + 1
    /\ Delay("btc") > Delay("liq") + Lead + 2 * React

(***************************************************************************)
(* Why the order is enough.  The responder refunds the Liquid leg within   *)
(* React blocks of its expiry, so a claim of it comes before then, and     *)
(* finds the Bitcoin leg at most Lead blocks older.                        *)
(***************************************************************************)
LiqRefundedInTime ==
    "responder" \in diligent /\ leg.liq = "locked"
        => /\ age.liq <= Delay("liq") - 1 + waited["responder"]["liq"]
           /\ leg.btc # "refunded"
           /\ leg.btc = "locked" => age.btc <= age.liq + Lead

(***************************************************************************)
(* From the reveal on the responder lets React more blocks pass, which     *)
(* leaves the Bitcoin leg short of its own expiry.                         *)
(***************************************************************************)
BtcClaimedInTime ==
    "responder" \in diligent /\ secret
        => /\ leg.btc # "refunded"
           /\ leg.btc = "locked" =>
                 age.btc <= Delay("liq") - 1 + React + Lead + waited["responder"]["btc"]

(***************************************************************************)
(* A diligent initiator reveals the preimage so early that its claim has   *)
(* no rival.                                                               *)
(***************************************************************************)
RevealUncontested ==
    "initiator" \in diligent /\ secret
        => \/ leg.liq = "claimed"
           \/ /\ leg.liq = "locked"
              /\ age.liq <= React
              /\ mempool.liq = {"claim"}

\* A claim has a public preimage, and a refund an expired lock, behind it.
SpendsJustified ==
    \A l \in Leg :
        /\ leg[l] = "claimed" \/ "claim" \in mempool[l] => secret
        /\ "refund" \in mempool[l] => age[l] + 1 >= Delay(l)

\* The Liquid chain counts from the block that holds the responder's lock.
LiqStartsFresh ==
    leg.liq = "unlocked" => age.liq = 0 /\ mempool.liq = {} /\ ~secret

(***************************************************************************)
(* The inductive invariant: how far each chain has got whenever a          *)
(* diligent party still has something to lose.                             *)
(***************************************************************************)
SwapInv ==
    /\ TypeOK
    /\ SpendsJustified
    /\ LiqStartsFresh
    /\ LiqRefundedInTime
    /\ BtcClaimedInTime
    /\ RevealUncontested

(***************************************************************************)
(* demo_swap.sh: "once s is public, Bob can always claim".  A diligent     *)
(* responder never loses the Liquid leg to a claim and the Bitcoin leg to  *)
(* a refund.                                                               *)
(***************************************************************************)
ResponderSafe ==
    "responder" \in diligent => ~(leg.liq = "claimed" /\ leg.btc = "refunded")

(***************************************************************************)
(* A diligent initiator never pays the Bitcoin leg for a Liquid leg that   *)
(* went back to its funder, although its preimage has been in a mempool.   *)
(***************************************************************************)
InitiatorSafe ==
    "initiator" \in diligent => ~(leg.btc = "claimed" /\ leg.liq = "refunded")

(***************************************************************************)
(* No diligent funder's coins stay in an HTLC for ever.                    *)
(***************************************************************************)
FundsReturn ==
    \A l \in Leg :
        Refunder[l] \in diligent /\ leg[l] = "locked" ~> leg[l] # "locked"

(***************************************************************************)
(* Between two diligent parties the preimage, once out, completes the swap *)
(* on both chains.                                                         *)
(***************************************************************************)
SwapCompletes ==
    diligent = Party /\ secret ~> \A l \in Leg : leg[l] = "claimed"

(***************************************************************************)
(* The swap implements the timeless exchange: in particular no refund is   *)
(* ever confirmed against a diligent party once the preimage is public.    *)
(***************************************************************************)
Exchange == INSTANCE AtomicExchange
ExchangeSpec == Exchange!Spec
=============================================================================
