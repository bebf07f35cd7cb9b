------------------------- MODULE HashlockSwapProofs -------------------------
(***************************************************************************)
(* Theorems about HashlockSwap, for any parties, any values and fees.      *)
(***************************************************************************)
EXTENDS HashlockSwap, TLAPS

\* Nothing is taken, and nothing broadcast, before the preimage is public.
Revealed == \A l \in Leg : leg[l] \in Party \/ mempool[l] # NoSpend => secret

HashlockInv == TypeOK /\ Revealed

\* With both following the script and nobody else: every spend is its party's
\* own, and the preimage is not out before both legs are there.
OwnSpends ==
    /\ \A l \in Leg :
        /\ mempool[l] # NoSpend => Claims(mempool[l].by) = l
        /\ leg[l] \in Party => Claims(leg[l]) = l
    /\ leg.btc # "unlocked"
    /\ leg.liq = "unlocked" => ~secret

Rightful == Followed => OwnSpends
-----------------------------------------------------------------------------
LEMMA NotAParty == "locked" \notin Party /\ "unlocked" \notin Party /\ "nobody" \notin Party
  BY SwapParties DEF Party

\* A spend that a node accepts leaves a fee.
LEMMA FeeOfOutput ==
    ASSUME NEW l, NEW amount, NEW fee, NEW out \in Outputs(l, amount, fee)
    PROVE  Value - out \in 1..Value
  BY SwapParties DEF Outputs, Accepts

LEMMA InitInv == Init => HashlockInv /\ Rightful
  <1> SUFFICES ASSUME Init PROVE HashlockInv /\ Rightful
    OBVIOUS
  <1>1. TypeOK
    BY SwapParties DEF Init, TypeOK, NoSpend, Leg, Party
  <1>2. Revealed /\ Rightful
    BY NotAParty DEF Init, Revealed, Rightful, OwnSpends, Leg
  <1> QED  BY <1>1, <1>2 DEF HashlockInv

\* What a claim does.
LEMMA ClaimStep ==
    ASSUME TypeOK, NEW p \in Party, NEW l \in Leg, Claim(p, l)
    PROVE  /\ leg[l] = "locked" /\ Knows(p) /\ secret' /\ UNCHANGED <<greedy, leg>>
           /\ \E fee \in 1..Value :
                 mempool' = [mempool EXCEPT ![l] = [by |-> p, fee |-> fee]]
  <1>1. PICK amount \in Amounts, fee \in Amounts :
            \E out \in Outputs(l, amount, fee) : Broadcast(p, l, Value - out)
    BY DEF Claim
  <1>2. PICK out \in Outputs(l, amount, fee) : Broadcast(p, l, Value - out)
    BY <1>1
  <1>3. Value - out \in 1..Value
    BY FeeOfOutput
  <1> QED  BY <1>2, <1>3 DEF Claim, Broadcast

LEMMA NextInv == HashlockInv /\ [Next]_vars => HashlockInv'
  <1> SUFFICES ASSUME HashlockInv, [Next]_vars PROVE HashlockInv'
    OBVIOUS
  <1> USE DEF HashlockInv
  <1>1. CASE LockLiq
    <2>1. TypeOK'
      BY <1>1, NotAParty DEF LockLiq, TypeOK, Leg
    <2>2. Revealed'
      BY <1>1, NotAParty DEF LockLiq, Revealed, TypeOK, Leg
    <2> QED  BY <2>1, <2>2
  <1>2. CASE \E p \in Party, l \in Leg : Claim(p, l)
    <2>1. PICK p \in Party, l \in Leg : Claim(p, l)
      BY <1>2
    <2>2. PICK fee \in 1..Value : mempool' = [mempool EXCEPT ![l] = [by |-> p, fee |-> fee]]
      BY <2>1, ClaimStep
    <2>3. leg[l] = "locked" /\ secret' = TRUE /\ UNCHANGED <<greedy, leg>>
      BY <2>1, ClaimStep DEF Claim, Broadcast
    <2>4. TypeOK'
      BY <2>2, <2>3 DEF TypeOK
    <2> QED  BY <2>3, <2>4 DEF Revealed
  <1>3. CASE \E l \in Leg : Confirm(l)
    <2>1. PICK l \in Leg : Confirm(l)
      BY <1>3
    <2>2. mempool[l] \in [by : Party, fee : 1..Value]
      BY <2>1 DEF Confirm, TypeOK
    <2>3. secret
      BY <2>1 DEF Confirm, Revealed
    <2>4. TypeOK'
      BY <2>1, <2>2 DEF Confirm, TypeOK
    <2> QED  BY <2>1, <2>3, <2>4 DEF Confirm, Revealed
  <1>4. CASE UNCHANGED vars
    BY <1>4 DEF vars, TypeOK, Revealed
  <1> QED  BY <1>1, <1>2, <1>3, <1>4 DEF Next

LEMMA HashlockInvariant == Spec => []HashlockInv
  BY InitInv, NextInv, PTL DEF Spec

(***************************************************************************)
(* Outputs are unlocked, locked, or somebody's, and only a locked output   *)
(* has a spend in the mempool (the claims of swap.rs and the node).        *)
(***************************************************************************)
THEOREM HashlockTypeCorrect == Spec => []TypeOK
  BY HashlockInvariant, PTL DEF HashlockInv

(***************************************************************************)
(* Whoever is greedy and whoever watches: nothing is taken before Alice's  *)
(* own spend has made the preimage public (demo_swap.sh:20).               *)
(***************************************************************************)
THEOREM NothingBeforeTheReveal == Spec => RevealedByAlice
  <1>1. HashlockInv /\ [Next]_vars =>
            [/\ \A l \in Leg : leg'[l] \in Party \ {leg[l]} => secret
             /\ secret' # secret => \E l \in Leg : mempool'[l].by = "alice"]_vars
    <2> SUFFICES ASSUME HashlockInv, Next
                 PROVE  /\ \A l \in Leg : leg'[l] \in Party \ {leg[l]} => secret
                        /\ secret' # secret => \E l \in Leg : mempool'[l].by = "alice"
      OBVIOUS
    <2> USE DEF HashlockInv
    <2>1. CASE LockLiq
      BY <2>1, NotAParty DEF LockLiq, TypeOK, Leg
    <2>2. CASE \E p \in Party, l \in Leg : Claim(p, l)
      <3>1. PICK p \in Party, l \in Leg : Claim(p, l)
        BY <2>2
      <3>2. PICK fee \in 1..Value : mempool' = [mempool EXCEPT ![l] = [by |-> p, fee |-> fee]]
        BY <3>1, ClaimStep
      <3>3. mempool'[l].by = p
        BY <3>2 DEF TypeOK
      <3>4. Knows(p) /\ secret' = TRUE /\ UNCHANGED <<greedy, leg>>
        BY <3>1, ClaimStep DEF Claim, Broadcast
      <3> QED  BY <3>3, <3>4 DEF Knows
    <2>3. CASE \E l \in Leg : Confirm(l)
      BY <2>3 DEF Confirm, Revealed, TypeOK
    <2> QED  BY <2>1, <2>2, <2>3 DEF Next
  <1> QED  BY <1>1, HashlockInvariant, PTL DEF Spec, RevealedByAlice
-----------------------------------------------------------------------------
LEMMA NextRightful ==
    ASSUME HashlockInv, Rightful, [Next]_vars
    PROVE  Rightful'
  <1>0. UNCHANGED greedy
    BY DEF Next, LockLiq, Claim, Broadcast, Confirm, vars
  <1> SUFFICES ASSUME Followed PROVE OwnSpends'
    BY <1>0 DEF Rightful, Followed
  <1>a. OwnSpends
    BY DEF Rightful
  <1> USE DEF HashlockInv
  <1>1. CASE LockLiq
    BY <1>1, <1>a, NotAParty DEF LockLiq, TypeOK, OwnSpends, Leg
  <1>2. CASE \E p \in Party, l \in Leg : Claim(p, l)
    <2>1. PICK p \in Party, l \in Leg : Claim(p, l)
      BY <1>2
    <2>2. PICK fee \in 1..Value : mempool' = [mempool EXCEPT ![l] = [by |-> p, fee |-> fee]]
      BY <2>1, ClaimStep
    <2>3. Claims(p) = l /\ UNCHANGED <<greedy, leg>> /\ leg[l] = "locked" /\ Knows(p)
      BY <2>1, ClaimStep DEF Claim, Party, Followed
    <2>4. leg.liq # "unlocked"
      BY <2>3, <1>a DEF OwnSpends, Knows, Claims
    <2> QED  BY <2>2, <2>3, <2>4, <1>a DEF OwnSpends, TypeOK
  <1>3. CASE \E l \in Leg : Confirm(l)
    <2>1. PICK l \in Leg : Confirm(l)
      BY <1>3
    <2>2. mempool[l].by \in Party /\ leg[l] = "locked"
      BY <2>1 DEF Confirm, TypeOK
    <2>3. leg'.btc # "unlocked" /\ (leg'.liq = "unlocked" => leg.liq = "unlocked")
      BY <2>1, <2>2, <1>a, NotAParty DEF Confirm, OwnSpends, TypeOK, Leg
    <2> QED  BY <2>1, <2>3, <1>a DEF Confirm, OwnSpends, TypeOK
  <1>4. CASE UNCHANGED vars
    BY <1>4, <1>a DEF vars, OwnSpends
  <1> QED  BY <1>1, <1>2, <1>3, <1>4 DEF Next

LEMMA MappedInit == Init => Exchange!Init
  BY NotAParty DEF Init, Exchange!Init, Mapped, Leg

LEMMA ExchangeStep ==
    ASSUME HashlockInv, Rightful, [Next]_vars
    PROVE  [Exchange!Next]_(Exchange!vars)
  <1> USE DEF HashlockInv
  <1>0. UNCHANGED greedy
    BY DEF Next, LockLiq, Claim, Broadcast, Confirm, vars
  <1>b. CASE ~Followed
    BY <1>0, <1>b DEF Exchange!vars, Mapped, Followed
  <1> SUFFICES ASSUME Followed PROVE [Exchange!Next]_(Exchange!vars)
    BY <1>b
  <1>a. OwnSpends /\ Followed'
    BY <1>0 DEF Rightful, Followed
  <1>1. CASE LockLiq
    <2>1. ~secret /\ leg.liq = "unlocked" /\ leg.btc = "locked"
      BY <1>1, <1>a DEF LockLiq, TypeOK, OwnSpends, Revealed, Leg
    <2>2. Mapped' = [Mapped EXCEPT !.liq = "locked"]
      BY <1>1, <1>a, NotAParty DEF LockLiq, TypeOK, Mapped, Leg
    <2>3. Mapped.btc = "locked" /\ Mapped.liq = "unlocked"
      BY <2>1, NotAParty DEF Mapped, Leg
    <2>4. Exchange!Lock
      BY <1>1, <1>a, <2>2, <2>3 DEF Exchange!Lock, LockLiq
    <2> QED  BY <2>4 DEF Exchange!Next
  <1>2. CASE \E p \in Party, l \in Leg : Claim(p, l)
    <2>1. PICK p \in Party, l \in Leg : Claim(p, l)
      BY <1>2
    <2>2. Claims(p) = l /\ UNCHANGED <<greedy, leg>> /\ leg[l] = "locked" /\ Knows(p) /\ secret' = TRUE
      BY <2>1, ClaimStep DEF Claim, Party, Broadcast, Followed
    <2>3. UNCHANGED Mapped
      BY <2>2, <1>a DEF Mapped
    <2>4. CASE secret = TRUE
      BY <2>2, <2>3, <2>4, <1>a DEF Exchange!vars
    <2>5. CASE ~secret
      <3>1. leg.liq = "locked" /\ leg.btc = "locked"
        BY <2>2, <2>5, <1>a DEF Knows, Claims, TypeOK, OwnSpends, Revealed, Leg
      <3>2. Mapped.btc = "locked" /\ Mapped.liq = "locked"
        BY <3>1, NotAParty DEF Mapped, Leg
      <3>3. Exchange!Reveal
        BY <2>2, <2>3, <3>2, <1>a DEF Exchange!Reveal
      <3> QED  BY <3>3 DEF Exchange!Next
    <2> QED  BY <2>4, <2>5 DEF TypeOK
  <1>3. CASE \E l \in Leg : Confirm(l)
    <2>1. PICK l \in Leg : Confirm(l)
      BY <1>3
    <2>2. /\ secret /\ UNCHANGED secret /\ leg[l] = "locked"
          /\ mempool[l].by \in Party /\ Claims(mempool[l].by) = l
      BY <2>1, <1>a DEF Confirm, TypeOK, Revealed, OwnSpends
    <2>3. Mapped' = [Mapped EXCEPT ![l] = "claimed"]
      BY <2>1, <2>2, <1>a DEF Confirm, TypeOK, Mapped
    <2>4. Mapped[l] = "locked"
      BY <2>2, NotAParty DEF Mapped
    <2>5. Exchange!Claim(l)
      BY <2>2, <2>3, <2>4, <1>a DEF Exchange!Claim
    <2> QED  BY <2>5 DEF Exchange!Next, Leg
  <1>4. CASE UNCHANGED vars
    BY <1>4 DEF vars, Exchange!vars, Mapped, Followed
  <1> QED  BY <1>1, <1>2, <1>3, <1>4 DEF Next

(***************************************************************************)
(* When both run demo_swap.sh and nobody else touches the outputs, the     *)
(* keyless swap is the atomic exchange that the HTLC swap is for whoever   *)
(* follows the protocol: the keys and the timeouts are what the difference *)
(* is made of.  (Followed and Mapped say which swaps this is about.)       *)
(***************************************************************************)
THEOREM FollowedSwapIsExchange == Spec => ExchangeSpec
  <1>1. Init => HashlockInv /\ Rightful
    BY InitInv
  <1>2. HashlockInv /\ Rightful /\ [Next]_vars => (HashlockInv /\ Rightful)'
    BY NextInv, NextRightful
  <1>3. Init => Exchange!Init
    BY MappedInit
  <1>4. HashlockInv /\ Rightful /\ [Next]_vars => [Exchange!Next]_(Exchange!vars)
    BY ExchangeStep
  <1> QED  BY <1>1, <1>2, <1>3, <1>4, PTL DEF Spec, ExchangeSpec, Exchange!Spec
=============================================================================
