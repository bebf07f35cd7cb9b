---------------------------- MODULE HashlockSwap ----------------------------
(***************************************************************************)
(* The swap of scripts/demo_swap.sh: two outputs, one on each chain, that  *)
(* whoever shows the preimage of one hash may spend.  There is no key and  *)
(* no timeout (swap.rs), and nothing in a spend is signed.                 *)
(*                                                                         *)
(* Alice made the preimage and has locked the Bitcoin leg; Bob locks the   *)
(* Liquid one; she claims that one, he reads the preimage off her spend    *)
(* and claims the other.  `greedy' parties spend whatever they can.  The   *)
(* outputs can be spent by a single transaction each, so spends compete:   *)
(* the builders signal replaceability, and a higher fee replaces a lower.  *)
(***************************************************************************)
EXTENDS Integers

CONSTANTS Outsiders,   \* parties that only watch the mempools
          Value,       \* what each of the two outputs carries
          Amounts      \* the values and fees explored as arguments

Leg == {"btc", "liq"}
Party == {"alice", "bob"} \cup Outsiders

ASSUME SwapParties ==
    /\ Outsiders \cap {"alice", "bob", "unlocked", "locked", "nobody"} = {}
    /\ Value \in Nat /\ Amounts \subseteq Nat

VARIABLES greedy,   \* the parties that do not follow the script
          leg,      \* what has become of each output, or who took it
          mempool,  \* the spend of each output that is broadcast
          secret    \* the preimage is public

vars == <<greedy, leg, mempool, secret>>

NoSpend == [by |-> "nobody", fee |-> 0]

TypeOK ==
    /\ greedy \subseteq Party
    /\ leg \in [Leg -> {"unlocked", "locked"} \cup Party]
    /\ mempool \in [Leg -> [by : Party, fee : 1..Value] \cup {NoSpend}]
    /\ secret \in BOOLEAN
    /\ \A l \in Leg : mempool[l] # NoSpend => leg[l] = "locked"

\* Leg 1 is in a block: nobody else has anything at stake before.
Init ==
    /\ greedy \in SUBSET Party
    /\ leg = [l \in Leg |-> IF l = "btc" THEN "locked" ELSE "unlocked"]
    /\ mempool = [l \in Leg |-> NoSpend]
    /\ secret = FALSE
-----------------------------------------------------------------------------
\* Leg 2; the script does not look at leg 1 again.
LockLiq ==
    /\ leg.liq = "unlocked"
    /\ leg' = [leg EXCEPT !.liq = "locked"]
    /\ UNCHANGED <<greedy, mempool, secret>>

\* What the spend pays: the value it was told less the fee (checked_sub, and
\* less than the value), or the output it was told, beside an explicit fee.
swap_claim_btc(input, fee) == IF fee \in 1..input THEN {input - fee} ELSE {}
swap_claim_liquid(output, fee) == {output}

\* The node adds up: what Bitcoin outputs leave is the fee, Liquid states it.
Accepts(l, out, fee) == out \in 1..(Value - 1) /\ (l = "liq" => out + fee = Value)

Outputs(l, amount, fee) ==
    { out \in IF l = "btc" THEN swap_claim_btc(amount, fee) ELSE swap_claim_liquid(amount, fee) :
        Accepts(l, out, fee) }

\* Mutant: the preimage is anybody's.
KnowsAlways(p) == TRUE

\* check_preimage: SHA256 of the first witness item.
Knows(p) == p = "alice" \/ secret

\* Mutant: Bob's claim is built for the Liquid leg, too.
ClaimsSame(p) == "liq"

\* CLAIM A and CLAIM B.
Claims(p) == IF p = "alice" THEN "liq" ELSE "btc"

\* BIP-125, as far as fees go.
Replaces(old, fee) == old = NoSpend \/ fee > old.fee

\* Mutant: what is shown to the chain stays hidden until it is in a block.
BroadcastHidden(p, l, fee) ==
    /\ mempool' = [mempool EXCEPT ![l] = [by |-> p, fee |-> fee]]
    /\ UNCHANGED <<greedy, leg, secret>>

\* The first witness item is the preimage, for everybody to read.
Broadcast(p, l, fee) ==
    /\ mempool' = [mempool EXCEPT ![l] = [by |-> p, fee |-> fee]]
    /\ secret' = TRUE
    /\ UNCHANGED <<greedy, leg>>

\* swap_claim_btc and swap_claim_liquid, sent.
Claim(p, l) ==
    /\ p \in {"alice", "bob"} \ greedy => l = Claims(p)
    /\ p \in Outsiders => p \in greedy
    /\ leg[l] = "locked" /\ Knows(p)
    /\ \E amount, fee \in Amounts : \E out \in Outputs(l, amount, fee) :
        /\ Replaces(mempool[l], Value - out)
        /\ Broadcast(p, l, Value - out)

\* Mutant: the spend is forgotten only when the node restarts.
ConfirmAndKeep(l) ==
    /\ mempool[l] # NoSpend
    /\ leg' = [leg EXCEPT ![l] = mempool[l].by]
    /\ UNCHANGED <<greedy, mempool, secret>>

\* A block takes the spend that the mempool has.
Confirm(l) ==
    /\ mempool[l] # NoSpend
    /\ leg' = [leg EXCEPT ![l] = mempool[l].by]
    /\ mempool' = [mempool EXCEPT ![l] = NoSpend]
    /\ UNCHANGED <<greedy, secret>>

Next ==
    \/ LockLiq
    \/ \E p \in Party, l \in Leg : Claim(p, l)
    \/ \E l \in Leg : Confirm(l)

Spec == Init /\ [][Next]_vars

\* Bob and Alice claim as the script tells them to, and blocks are mined.
FairSpec ==
    /\ Spec
    /\ WF_vars(Claim("alice", "liq")) /\ WF_vars(Claim("bob", "btc"))
    /\ \A l \in Leg : WF_vars(Confirm(l))
-----------------------------------------------------------------------------
(***************************************************************************)
(* demo_swap.sh:20: "Alice cannot claim kXAU without publishing s", nor    *)
(* take her own leg back: and until she does, nobody can claim anything,   *)
(* so that it is her spend that is there first.                            *)
(***************************************************************************)
RevealedByAlice ==
    [][/\ \A l \in Leg : leg'[l] \in Party \ {leg[l]} => secret
       /\ secret' # secret => \E l \in Leg : mempool'[l].by = "alice"]_vars

(***************************************************************************)
(* Once the preimage is public the race for the Bitcoin leg ends, if Bob   *)
(* claims it: nothing stays in the mempool or in the output for ever.      *)
(***************************************************************************)
RevealSettles == secret ~> leg.btc # "locked"

(***************************************************************************)
(* As long as both follow the script and nobody watches, it is an exchange *)
(* of the kind the HTLC swap is.  A swap with somebody greedy maps to one  *)
(* that never starts: nothing is said about it.                            *)
(***************************************************************************)
Followed == greedy = {}

Mapped ==
    [l \in Leg |->
        IF ~Followed THEN IF l = "btc" THEN "locked" ELSE "unlocked"
        ELSE IF leg[l] \notin Party THEN leg[l]
        ELSE IF l = Claims(leg[l]) THEN "claimed" ELSE "refunded"]

Exchange == INSTANCE AtomicExchange WITH
    diligent <- {"initiator", "responder"}, leg <- Mapped, secret <- Followed /\ secret
ExchangeSpec == Exchange!Spec

(***************************************************************************)
(* And each of them ends up with the leg of the other.                     *)
(***************************************************************************)
BothClaim ==
    Followed /\ leg.liq = "locked"
        ~> leg = [l \in Leg |-> IF l = "btc" THEN "bob" ELSE "alice"]
-----------------------------------------------------------------------------
\* demo_swap.sh:21: "Neither can take both."
NeitherTakesBoth == ~ \E p \in Party : leg.btc = p /\ leg.liq = p

\* demo_swap.sh:20: "once s is public, Bob can always claim kLUSD."
BobCanAlwaysClaim == secret => leg.btc \in {"locked", "bob"}
=============================================================================
