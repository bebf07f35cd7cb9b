-------------------------- MODULE AtomicSwapProofs --------------------------
(***************************************************************************)
(* Safety of the swap for every choice of delays, reaction time and lead   *)
(* that TimelockOrder admits: neither chain's refund can undercut the      *)
(* other chain's claim.                                                    *)
(***************************************************************************)
EXTENDS AtomicSwap, TLAPS

(***************************************************************************)
(* A delay with neither flag is a plain number of blocks: the refund that  *)
(* htlc_sequence builds is valid from exactly Delay(l) blocks on.          *)
(***************************************************************************)
LEMMA RefundOpenIsDelay ==
    ASSUME NEW l \in Leg, NEW b \in Nat
    PROVE  RefundOpen(Csv[l], b, 0) <=> b >= Delay(l)
<1>1. Csv[l] \in Nat /\ ~HasFlag(Csv[l], TypeFlag) /\ ~HasFlag(Csv[l], DisableFlag)
    BY BlockDelays
<1>2. Csv[l] % ValueMod \in Nat
    BY <1>1, LockWidths
<1>3. HtlcSequence("refund", Csv[l]) = Csv[l]
    BY DEF HtlcSequence
<1>4. CheckSequenceVerify(Csv[l], Csv[l])
    BY <1>1, <1>2 DEF CheckSequenceVerify
<1>5. SequenceSatisfied(Csv[l], b, 0) <=> b >= Csv[l] % ValueMod
    BY <1>1 DEF SequenceSatisfied
<1>6. QED
    BY <1>3, <1>4, <1>5 DEF RefundOpen, Delay

(***************************************************************************)
(* Delays are numbers.                                                     *)
(***************************************************************************)
LEMMA DelayNat ==
    ASSUME NEW l \in Leg
    PROVE  Delay(l) \in Nat
<1>1. Csv[l] \in Nat
    BY BlockDelays
<1>2. QED
    BY <1>1, LockWidths DEF Delay

(***************************************************************************)
(* A refund that nodes relay has reached the delay in the next block.      *)
(***************************************************************************)
LEMMA MatureIsDelay ==
    ASSUME TypeOK, NEW l \in Leg
    PROVE  Mature(l) <=> leg[l] = "locked" /\ age[l] + 1 >= Delay(l)
<1>1. age[l] + 1 \in Nat
    BY DEF TypeOK
<1>2. QED
    BY <1>1, RefundOpenIsDelay DEF Mature

(***************************************************************************)
(* The first state is well-formed.                                         *)
(***************************************************************************)
LEMMA TypeInit == Init => TypeOK
<1> SUFFICES ASSUME Init PROVE TypeOK
  OBVIOUS
<1>1. waited \in [Party -> [Leg -> 0..React]]
  BY BlockDelays DEF Init
<1>2. leg \in [Leg -> {"unlocked", "locked", "claimed", "refunded"}] /\ leg.btc # "unlocked"
  BY DEF Init, Leg
<1>3. age \in [Leg -> Nat] /\ mempool \in [Leg -> SUBSET Branch]
  BY DEF Init
<1>4. QED
  BY <1>1, <1>2, <1>3 DEF Init, TypeOK

(***************************************************************************)
(* Every step keeps it so: EmptyBlock's guard keeps a party that owes a    *)
(* spend from being idle for more than React blocks.                       *)
(***************************************************************************)
LEMMA TypeStep == TypeOK /\ [Next]_vars => TypeOK'
<1> SUFFICES ASSUME TypeOK, [Next]_vars PROVE TypeOK'
  OBVIOUS
<1>1. CASE LockLiq
  BY <1>1 DEF TypeOK, LockLiq, Leg
<1>2. ASSUME NEW l \in Leg, Claim(l) PROVE TypeOK'
  BY <1>2 DEF TypeOK, Claim, Leg, Branch
<1>3. ASSUME NEW l \in Leg, Refund(l) PROVE TypeOK'
  BY <1>3 DEF TypeOK, Refund, Leg, Branch
<1>4. ASSUME NEW l \in Leg, EmptyBlock(l) PROVE TypeOK'
  <2>1. ASSUME NEW p \in Party
        PROVE  (IF Owes(p, l) THEN [waited[p] EXCEPT ![l] = @ + 1] ELSE waited[p])
                   \in [Leg -> 0..React]
    <3>1. waited[p] \in [Leg -> 0..React] /\ waited[p][l] \in 0..React
      BY DEF TypeOK
    <3>2. Owes(p, l) => waited[p][l] < React
      BY <1>4 DEF EmptyBlock
    <3>3. Owes(p, l) => waited[p][l] + 1 \in 0..React
      BY <3>1, <3>2, BlockDelays
    <3>4. QED
      BY <3>1, <3>3
  <2>2. waited' \in [Party -> [Leg -> 0..React]]
    BY <1>4, <2>1 DEF EmptyBlock
  <2>3. age' \in [Leg -> Nat]
    <3>1. age \in [Leg -> Nat] /\ age' = [age EXCEPT ![l] = @ + 1]
      BY <1>4 DEF EmptyBlock, TypeOK
    <3>2. QED
      BY <3>1
  <2>4. QED
    BY <1>4, <2>2, <2>3 DEF EmptyBlock, TypeOK
<1>5. ASSUME NEW l \in Leg, Confirm(l) PROVE TypeOK'
  BY <1>5 DEF TypeOK, Confirm, Leg, Branch
<1>6. CASE UNCHANGED vars
  BY <1>6 DEF TypeOK, vars
<1>7. QED
  BY <1>1, <1>2, <1>3, <1>4, <1>5, <1>6 DEF Next

(***************************************************************************)
(* The state stays well-formed, whatever the delays.                       *)
(***************************************************************************)
THEOREM TypeCorrect == Spec => []TypeOK
    BY TypeInit, TypeStep, PTL DEF Spec

(***************************************************************************)
(* The swap starts in the invariant.                                       *)
(***************************************************************************)
LEMMA InvInit == Init => SwapInv
<1> SUFFICES ASSUME Init PROVE SwapInv
    OBVIOUS
<1>1. TypeOK
    BY TypeInit
<1>2. ~secret /\ leg.liq = "unlocked" /\ age.liq = 0 /\ mempool.liq = {}
    BY DEF Init, Leg
<1>3. \A l \in Leg : leg[l] # "claimed" /\ mempool[l] = {}
    BY DEF Init
<1>4. SpendsJustified
    BY <1>3 DEF SpendsJustified
<1>5. QED
    BY <1>1, <1>2, <1>4
    DEF SwapInv, LiqStartsFresh, LiqRefundedInTime, BtcClaimedInTime, RevealUncontested

(***************************************************************************)
(* The numbers the arithmetic of the steps is about.                       *)
(***************************************************************************)
Arithmetic ==
    /\ React \in Nat
    /\ Lead \in Nat
    /\ Delay("liq") \in Nat
    /\ Delay("btc") \in Nat
    /\ age.liq \in Nat
    /\ age.btc \in Nat
    /\ waited["responder"]["liq"] \in 0..React
    /\ waited["responder"]["btc"] \in 0..React

(***************************************************************************)
(* They are numbers in every well-formed state.                            *)
(***************************************************************************)
LEMMA Numbers ==
    ASSUME TypeOK
    PROVE  Arithmetic
<1>1. "liq" \in Leg /\ "btc" \in Leg
    BY DEF Leg
<1>2. "responder" \in Party
    BY DEF Party
<1>3. QED
    BY <1>1, <1>2, DelayNat, BlockDelays DEF TypeOK, Arithmetic

(***************************************************************************)
(* The responder's lock preserves the invariant: a diligent one finds the  *)
(* other leg locked and young.                                             *)
(***************************************************************************)
LEMMA LockLiqStep ==
    ASSUME SwapInv, LockLiq, TimelockOrder
    PROVE  SwapInv'
<1>1. TypeOK /\ TypeOK'
    BY TypeStep DEF SwapInv, Next
<1>0. Arithmetic
    BY <1>1, Numbers
<1>2. /\ leg.liq = "unlocked" /\ leg'.liq = "locked" /\ leg'.btc = leg.btc
      /\ leg' = [leg EXCEPT !.liq = "locked"]
      /\ UNCHANGED <<diligent, age, mempool, secret, waited>>
    BY <1>1 DEF LockLiq, TypeOK, Leg
<1>3. age.liq = 0 /\ mempool.liq = {} /\ ~secret
    BY <1>2 DEF SwapInv, LiqStartsFresh
<1>4. SpendsJustified'
    BY <1>1, <1>2 DEF SwapInv, SpendsJustified, TypeOK
<1>5. LiqRefundedInTime'
  <2> SUFFICES ASSUME "responder" \in diligent
               PROVE  /\ age.liq <= Delay("liq") - 1 + waited["responder"]["liq"]
                      /\ leg.btc # "refunded"
                      /\ age.btc <= age.liq + Lead
    BY <1>2 DEF LiqRefundedInTime, Delay
  <2>1. leg.btc = "locked" /\ age.btc <= Lead
    BY DEF LockLiq
  <2>2. age.liq <= Delay("liq") - 1 + waited["responder"]["liq"]
    BY <1>0, <1>3 DEF TimelockOrder, Arithmetic
  <2>3. QED
    BY <1>0, <1>3, <2>1, <2>2 DEF Arithmetic
<1>6. QED
    BY <1>1, <1>2, <1>3, <1>4, <1>5
    DEF SwapInv, LiqStartsFresh, BtcClaimedInTime, RevealUncontested

(***************************************************************************)
(* A claim preserves the invariant.  The case that matters is the reveal:  *)
(* it comes while the Bitcoin leg is still young.                          *)
(***************************************************************************)
LEMMA ClaimStep ==
    ASSUME SwapInv, NEW l \in Leg, Claim(l), TimelockOrder
    PROVE  SwapInv'
<1>1. TypeOK /\ TypeOK'
    BY TypeStep DEF SwapInv, Next
<1>0. Arithmetic
    BY <1>1, Numbers
<1>2. /\ leg[l] = "locked" /\ secret'
      /\ mempool' = [mempool EXCEPT ![l] = @ \cup {"claim"}]
      /\ UNCHANGED <<diligent, leg, age, waited>>
    BY DEF Claim
<1>3. SpendsJustified'
    BY <1>1, <1>2 DEF SwapInv, SpendsJustified, TypeOK
<1>4. LiqStartsFresh'
  <2>1. l = "btc" => leg.liq # "unlocked"
    BY DEF SwapInv, LiqStartsFresh, Claim
  <2>2. QED
    BY <1>2, <2>1 DEF LiqStartsFresh, Leg
<1>5. LiqRefundedInTime'
    BY <1>2 DEF SwapInv, LiqRefundedInTime
<1>6. BtcClaimedInTime'
  <2>1. l = "btc" => secret
    BY DEF Claim
  <2>2. CASE l = "btc"
    BY <1>2, <2>1, <2>2 DEF SwapInv, BtcClaimedInTime
  <2>3. CASE l = "liq"
    <3> SUFFICES ASSUME "responder" \in diligent
                 PROVE  /\ leg.btc # "refunded"
                        /\ leg.btc = "locked" =>
                              age.btc <= Delay("liq") - 1 + React + Lead + waited["responder"]["btc"]
      BY <1>2 DEF BtcClaimedInTime, Delay
    <3>1. /\ age.liq <= Delay("liq") - 1 + waited["responder"]["liq"]
          /\ leg.btc # "refunded"
          /\ leg.btc = "locked" => age.btc <= age.liq + Lead
      BY <1>2, <2>3 DEF SwapInv, LiqRefundedInTime
    <3>2. QED
      BY <1>0, <3>1 DEF Arithmetic
  <2>4. QED
    BY <2>2, <2>3 DEF Leg
<1>7. RevealUncontested'
  <2>1. CASE l = "btc"
    <3>1. mempool'.liq = mempool.liq
      BY <1>1, <1>2, <2>1 DEF TypeOK, Leg
    <3>2. QED
      BY <1>2, <2>1, <3>1 DEF SwapInv, RevealUncontested, Claim
  <2>2. CASE l = "liq"
    <3> SUFFICES ASSUME "initiator" \in diligent
                 PROVE  age.liq <= React /\ mempool'.liq = {"claim"}
      BY <1>2, <2>2 DEF RevealUncontested
    <3>1. age.liq <= React
      BY <2>2 DEF Claim
    <3>2. "refund" \notin mempool.liq
      <4>1. "refund" \in mempool.liq => age.liq + 1 >= Delay("liq")
        BY DEF SwapInv, SpendsJustified, Leg
      <4>2. QED
        BY <1>0, <3>1, <4>1 DEF TimelockOrder, Arithmetic
    <3>3. mempool.liq \subseteq {"claim"}
      BY <1>1, <3>2 DEF TypeOK, Branch, Leg
    <3>4. QED
      BY <1>1, <1>2, <2>2, <3>1, <3>3 DEF TypeOK, Leg
  <2>3. QED
    BY <2>1, <2>2 DEF Leg
<1>8. QED
    BY <1>1, <1>3, <1>4, <1>5, <1>6, <1>7 DEF SwapInv

(***************************************************************************)
(* A refund preserves the invariant: it is valid, hence late, and a        *)
(* diligent initiator's claim of the Liquid leg was early.                 *)
(***************************************************************************)
LEMMA RefundStep ==
    ASSUME SwapInv, NEW l \in Leg, Refund(l), TimelockOrder
    PROVE  SwapInv'
<1>1. TypeOK /\ TypeOK'
    BY TypeStep DEF SwapInv, Next
<1>0. Arithmetic
    BY <1>1, Numbers
<1>2. /\ leg[l] = "locked" /\ age[l] + 1 >= Delay(l)
      /\ mempool' = [mempool EXCEPT ![l] = @ \cup {"refund"}]
      /\ UNCHANGED <<diligent, leg, age, secret, waited>>
    BY <1>1, MatureIsDelay DEF Refund
<1>3. SpendsJustified'
    BY <1>1, <1>2 DEF SwapInv, SpendsJustified, TypeOK, Delay
<1>4. LiqStartsFresh'
    BY <1>1, <1>2 DEF SwapInv, LiqStartsFresh, TypeOK, Leg
<1>5. LiqRefundedInTime' /\ BtcClaimedInTime'
    BY <1>2 DEF SwapInv, LiqRefundedInTime, BtcClaimedInTime, Delay
<1>6. RevealUncontested'
  <2>1. CASE l = "btc"
    <3>1. mempool'.liq = mempool.liq
      BY <1>1, <1>2, <2>1 DEF TypeOK, Leg
    <3>2. QED
      BY <1>2, <3>1 DEF SwapInv, RevealUncontested
  <2>2. CASE l = "liq"
    <3>1. ~(age.liq <= React)
      BY <1>0, <1>2, <2>2 DEF TimelockOrder, Arithmetic
    <3>2. ~("initiator" \in diligent /\ secret)
      BY <1>2, <2>2, <3>1 DEF SwapInv, RevealUncontested
    <3>3. QED
      BY <1>2, <3>2 DEF RevealUncontested
  <2>3. QED
    BY <2>1, <2>2 DEF Leg
<1>7. QED
    BY <1>1, <1>3, <1>4, <1>5, <1>6 DEF SwapInv

(***************************************************************************)
(* A block without a spend preserves the invariant: when it takes an age   *)
(* to its limit, the party that could act counts one more block, and that  *)
(* count is bounded.                                                       *)
(***************************************************************************)
LEMMA EmptyBlockStep ==
    ASSUME SwapInv, NEW l \in Leg, EmptyBlock(l), TimelockOrder
    PROVE  SwapInv'
<1>1. TypeOK /\ TypeOK'
    BY TypeStep DEF SwapInv, Next
<1>0. Arithmetic /\ Arithmetic'
    <2>1. Arithmetic
      BY <1>1, Numbers
    <2>2. /\ age'.liq \in Nat /\ age'.btc \in Nat
          /\ waited'["responder"]["liq"] \in 0..React
          /\ waited'["responder"]["btc"] \in 0..React
      BY <1>1 DEF TypeOK, Leg, Party
    <2>3. QED
      BY <2>1, <2>2 DEF Arithmetic, Delay
<1>2. /\ leg[l] = "locked" /\ mempool[l] = {}
      /\ age' = [age EXCEPT ![l] = @ + 1]
      /\ UNCHANGED <<diligent, leg, mempool, secret>>
    BY DEF EmptyBlock
<1>3. waited'["responder"][l] = IF Owes("responder", l) THEN waited["responder"][l] + 1
                                ELSE waited["responder"][l]
    BY <1>1 DEF EmptyBlock, TypeOK, Party
<1>4. \A m \in Leg \ {l} : /\ age'[m] = age[m]
                            /\ waited'["responder"][m] = waited["responder"][m]
    BY <1>1 DEF EmptyBlock, TypeOK, Party
<1>5. age'[l] = age[l] + 1
    BY <1>1, <1>2 DEF TypeOK
<1>6. SpendsJustified'
  <2>1. ASSUME NEW m \in Leg, "refund" \in mempool[m] PROVE age'[m] + 1 >= Delay(m)
    <3>1. m # l
      BY <1>2, <2>1
    <3>2. QED
      BY <1>4, <2>1, <3>1 DEF SwapInv, SpendsJustified
  <2>2. QED
    BY <1>2, <2>1 DEF SwapInv, SpendsJustified, Delay
<1>7. LiqStartsFresh'
    BY <1>2, <1>4 DEF SwapInv, LiqStartsFresh, Leg
<1>8. LiqRefundedInTime'
  <2> SUFFICES ASSUME "responder" \in diligent, leg.liq = "locked"
               PROVE  /\ age'.liq <= Delay("liq") - 1 + waited'["responder"]["liq"]
                      /\ leg.btc # "refunded"
                      /\ leg.btc = "locked" => age'.btc <= age'.liq + Lead
    BY <1>2 DEF LiqRefundedInTime, Delay
  <2>1. /\ age.liq <= Delay("liq") - 1 + waited["responder"]["liq"]
        /\ leg.btc # "refunded"
        /\ leg.btc = "locked" => age.btc <= age.liq + Lead
    BY DEF SwapInv, LiqRefundedInTime
  <2>2. CASE l = "btc"
    <3>1. age.btc < age.liq + Lead
      BY <2>2 DEF EmptyBlock
    <3>2. age'.btc = age.btc + 1 /\ age'.liq = age.liq
          /\ waited'["responder"]["liq"] = waited["responder"]["liq"]
      BY <1>4, <1>5, <2>2 DEF Leg
    <3>3. QED
      BY <1>0, <2>1, <3>1, <3>2 DEF Arithmetic
  <2>3. CASE l = "liq"
    <3>1. age'.liq = age.liq + 1 /\ age'.btc = age.btc
      BY <1>4, <1>5, <2>3 DEF Leg
    <3>2. age'.liq <= Delay("liq") - 1 + waited'["responder"]["liq"]
      <4>1. CASE age.liq + 1 >= Delay("liq")
        <5>1. Owes("responder", "liq")
          BY <1>1, <1>2, <2>3, <4>1, MatureIsDelay DEF Owes, RefundDue, Refunder
        <5>2. waited'["responder"]["liq"] = waited["responder"]["liq"] + 1
          BY <1>3, <2>3, <5>1
        <5>3. QED
          BY <1>0, <2>1, <3>1, <5>2 DEF Arithmetic
      <4>2. CASE age.liq + 1 < Delay("liq")
        BY <1>0, <3>1, <4>2 DEF Arithmetic
      <4>3. QED
        BY <1>0, <4>1, <4>2 DEF Arithmetic
    <3>3. QED
      BY <1>0, <2>1, <3>1, <3>2 DEF Arithmetic
  <2>4. QED
    BY <2>2, <2>3 DEF Leg
<1>9. BtcClaimedInTime'
  <2> DEFINE Limit == Delay("liq") - 1 + React + Lead
  <2> SUFFICES ASSUME "responder" \in diligent, secret
               PROVE  /\ leg.btc # "refunded"
                      /\ leg.btc = "locked" => age'.btc <= Limit + waited'["responder"]["btc"]
    BY <1>2 DEF BtcClaimedInTime, Delay
  <2>1. /\ leg.btc # "refunded"
        /\ leg.btc = "locked" => age.btc <= Limit + waited["responder"]["btc"]
    BY DEF SwapInv, BtcClaimedInTime
  <2>2. CASE l = "btc"
    <3>1. Owes("responder", "btc")
      BY <1>2, <2>2 DEF Owes, ClaimDue, Claimer
    <3>2. age'.btc = age.btc + 1
          /\ waited'["responder"]["btc"] = waited["responder"]["btc"] + 1
      BY <1>3, <1>5, <2>2, <3>1
    <3>3. QED
      BY <1>0, <2>1, <3>2 DEF Arithmetic
  <2>3. CASE l = "liq"
    BY <1>4, <2>1, <2>3 DEF Leg
  <2>4. QED
    BY <2>2, <2>3 DEF Leg
<1>10. RevealUncontested'
  <2>1. CASE l = "btc"
    BY <1>2, <1>4, <2>1 DEF SwapInv, RevealUncontested, Leg
  <2>2. CASE l = "liq"
    BY <1>2, <2>2 DEF SwapInv, RevealUncontested
  <2>3. QED
    BY <2>1, <2>2 DEF Leg
<1>11. QED
    BY <1>1, <1>6, <1>7, <1>8, <1>9, <1>10 DEF SwapInv

(***************************************************************************)
(* While a diligent responder has the Liquid leg at stake, or the preimage *)
(* is public, no refund of the Bitcoin leg is in a mempool.                *)
(***************************************************************************)
LEMMA NoBtcRefund ==
    ASSUME SwapInv, TimelockOrder, "responder" \in diligent,
           leg.btc = "locked", leg.liq = "locked" \/ secret
    PROVE  "refund" \notin mempool.btc
<1>1. Arithmetic
    BY Numbers DEF SwapInv
<1>2. "refund" \in mempool.btc => age.btc + 1 >= Delay("btc")
    BY DEF SwapInv, SpendsJustified, Leg
<1>3. CASE secret
    <2>1. age.btc <= Delay("liq") - 1 + React + Lead + waited["responder"]["btc"]
      BY <1>3 DEF SwapInv, BtcClaimedInTime
    <2>2. QED
      BY <1>1, <1>2, <2>1 DEF TimelockOrder, Arithmetic
<1>4. CASE leg.liq = "locked"
    <2>1. age.btc <= age.liq + Lead
          /\ age.liq <= Delay("liq") - 1 + waited["responder"]["liq"]
      BY <1>4 DEF SwapInv, LiqRefundedInTime
    <2>2. QED
      BY <1>1, <1>2, <2>1 DEF TimelockOrder, Arithmetic
<1>5. QED
    BY <1>3, <1>4

(***************************************************************************)
(* A confirmation preserves the invariant: by NoBtcRefund it never refunds *)
(* the Bitcoin leg under a diligent responder.                             *)
(***************************************************************************)
LEMMA ConfirmStep ==
    ASSUME SwapInv, NEW l \in Leg, Confirm(l), TimelockOrder
    PROVE  SwapInv'
<1>1. TypeOK /\ TypeOK'
    BY TypeStep DEF SwapInv, Next
<1>2. PICK branch \in mempool[l] :
          leg' = [leg EXCEPT ![l] = IF branch = "claim" THEN "claimed" ELSE "refunded"]
    BY DEF Confirm
<1>3. /\ leg[l] = "locked"
      /\ mempool' = [mempool EXCEPT ![l] = {}]
      /\ UNCHANGED <<diligent, age, secret, waited>>
    BY DEF Confirm
<1>4. branch = "claim" \/ branch = "refund"
    BY <1>1 DEF TypeOK, Branch
<1>5. leg'[l] = (IF branch = "claim" THEN "claimed" ELSE "refunded") /\ mempool'[l] = {}
    BY <1>1, <1>2, <1>3 DEF TypeOK
<1>6. \A m \in Leg \ {l} : leg'[m] = leg[m] /\ mempool'[m] = mempool[m]
    BY <1>1, <1>2, <1>3 DEF TypeOK
<1>7. "responder" \in diligent /\ l = "btc" /\ (leg.liq = "locked" \/ secret)
          => leg'.btc = "claimed"
    BY <1>3, <1>4, <1>5, NoBtcRefund
<1>8. SpendsJustified'
  <2> SUFFICES ASSUME NEW m \in Leg
               PROVE  /\ leg'[m] = "claimed" \/ "claim" \in mempool'[m] => secret
                      /\ "refund" \in mempool'[m] => age[m] + 1 >= Delay(m)
    BY <1>3 DEF SpendsJustified, Delay
  <2>1. CASE m = l
    BY <1>2, <1>4, <1>5, <2>1 DEF SwapInv, SpendsJustified
  <2>2. CASE m # l
    BY <1>6, <2>2 DEF SwapInv, SpendsJustified
  <2>3. QED
    BY <2>1, <2>2
<1>9. LiqStartsFresh'
    BY <1>3, <1>5, <1>6 DEF SwapInv, LiqStartsFresh, Leg
<1>10. LiqRefundedInTime'
  <2>1. CASE l = "btc"
    BY <1>3, <1>6, <1>7, <2>1 DEF SwapInv, LiqRefundedInTime, Leg, Delay
  <2>2. CASE l = "liq"
    BY <1>5, <2>2 DEF LiqRefundedInTime
  <2>3. QED
    BY <2>1, <2>2 DEF Leg
<1>11. BtcClaimedInTime'
  <2>1. CASE l = "btc"
    BY <1>3, <1>7, <2>1 DEF BtcClaimedInTime
  <2>2. CASE l = "liq"
    BY <1>3, <1>6, <2>2 DEF SwapInv, BtcClaimedInTime, Leg, Delay
  <2>3. QED
    BY <2>1, <2>2 DEF Leg
<1>12. RevealUncontested'
  <2>1. CASE l = "btc"
    BY <1>3, <1>6, <2>1 DEF SwapInv, RevealUncontested, Leg
  <2>2. CASE l = "liq"
    BY <1>2, <1>3, <1>5, <2>2 DEF SwapInv, RevealUncontested
  <2>3. QED
    BY <2>1, <2>2 DEF Leg
<1>13. QED
    BY <1>1, <1>8, <1>9, <1>10, <1>11, <1>12 DEF SwapInv

(***************************************************************************)
(* The invariant is inductive once the delays are ordered.                 *)
(***************************************************************************)
LEMMA InvStep ==
    ASSUME TimelockOrder
    PROVE  SwapInv /\ [Next]_vars => SwapInv'
<1> SUFFICES ASSUME SwapInv, [Next]_vars PROVE SwapInv'
    OBVIOUS
<1>1. CASE LockLiq
    BY <1>1, LockLiqStep
<1>2. ASSUME NEW l \in Leg, Claim(l) PROVE SwapInv'
    BY <1>2, ClaimStep
<1>3. ASSUME NEW l \in Leg, Refund(l) PROVE SwapInv'
    BY <1>3, RefundStep
<1>4. ASSUME NEW l \in Leg, EmptyBlock(l) PROVE SwapInv'
    BY <1>4, EmptyBlockStep
<1>5. ASSUME NEW l \in Leg, Confirm(l) PROVE SwapInv'
    BY <1>5, ConfirmStep
<1>6. CASE UNCHANGED vars
    BY <1>6 DEF vars, SwapInv, TypeOK, SpendsJustified, LiqStartsFresh,
                LiqRefundedInTime, BtcClaimedInTime, RevealUncontested, Delay
<1>7. QED
    BY <1>1, <1>2, <1>3, <1>4, <1>5, <1>6 DEF Next

(***************************************************************************)
(* Ordered delays keep every reachable state in the invariant.             *)
(***************************************************************************)
THEOREM SwapInvariant ==
    ASSUME TimelockOrder
    PROVE  Spec => []SwapInv
<1>1. SwapInv /\ [Next]_vars => SwapInv'
    BY InvStep
<1>2. QED
    BY InvInit, <1>1, PTL DEF Spec

(***************************************************************************)
(* With ordered delays a diligent responder never loses both legs, for     *)
(* every delay, reaction time and lead, and whatever the initiator does.   *)
(***************************************************************************)
THEOREM ResponderIsSafe ==
    ASSUME TimelockOrder
    PROVE  Spec => []ResponderSafe
<1>1. SwapInv => ResponderSafe
  <2> SUFFICES ASSUME SwapInv, "responder" \in diligent, leg.liq = "claimed"
               PROVE  leg.btc # "refunded"
    BY DEF ResponderSafe
  <2>1. secret
    BY DEF SwapInv, SpendsJustified, Leg
  <2>2. QED
    BY <2>1 DEF SwapInv, BtcClaimedInTime
<1>2. QED
    BY <1>1, SwapInvariant, PTL

(***************************************************************************)
(* With ordered delays a diligent initiator never pays for a leg that is   *)
(* refunded under its claim.                                               *)
(***************************************************************************)
THEOREM InitiatorIsSafe ==
    ASSUME TimelockOrder
    PROVE  Spec => []InitiatorSafe
<1>1. SwapInv => InitiatorSafe
  <2> SUFFICES ASSUME SwapInv, "initiator" \in diligent, leg.btc = "claimed"
               PROVE  leg.liq # "refunded"
    BY DEF InitiatorSafe
  <2>1. secret
    BY DEF SwapInv, SpendsJustified, Leg
  <2>2. QED
    BY <2>1 DEF SwapInv, RevealUncontested
<1>2. QED
    BY <1>1, SwapInvariant, PTL
-----------------------------------------------------------------------------
(***************************************************************************)
(* A step of the swap is a step of the exchange or a stutter: broadcasting *)
(* the Liquid claim is the reveal, and a confirmation is the claim or the  *)
(* refund.                                                                 *)
(***************************************************************************)
LEMMA ExchangeStep ==
    ASSUME TimelockOrder, SwapInv, [Next]_vars
    PROVE  [Exchange!Next]_(Exchange!vars)
<1>1. TypeOK
    BY DEF SwapInv
<1>2. CASE LockLiq
  <2>1. Exchange!Lock
    BY <1>2 DEF LockLiq, Exchange!Lock
  <2>2. QED
    BY <2>1 DEF Exchange!Next
<1>3. ASSUME NEW l \in Leg, Claim(l) PROVE [Exchange!Next]_(Exchange!vars)
  <2>1. /\ leg[l] = "locked" /\ secret' = TRUE /\ UNCHANGED <<diligent, leg>>
    BY <1>3 DEF Claim
  <2>2. CASE secret
    BY <1>1, <2>1, <2>2 DEF Exchange!vars, TypeOK
  <2>3. CASE ~secret
    <3>1. l = "liq"
      BY <1>3, <2>3 DEF Claim, Leg
    <3>2. "responder" \in diligent => leg.btc # "refunded"
      BY <2>1, <3>1 DEF SwapInv, LiqRefundedInTime
    <3>3. leg.btc # "claimed"
      BY <2>3 DEF SwapInv, SpendsJustified, Leg
    <3>4. "responder" \in diligent => leg.btc = "locked"
      BY <1>1, <3>2, <3>3 DEF TypeOK, Leg
    <3>5. Exchange!Reveal
      BY <2>1, <3>1, <3>4 DEF Exchange!Reveal
    <3>6. QED
      BY <3>5 DEF Exchange!Next
  <2>4. QED
    BY <2>2, <2>3
<1>4. ASSUME NEW l \in Leg, Refund(l) PROVE [Exchange!Next]_(Exchange!vars)
    BY <1>4 DEF Refund, Exchange!vars
<1>5. ASSUME NEW l \in Leg, EmptyBlock(l) PROVE [Exchange!Next]_(Exchange!vars)
    BY <1>5 DEF EmptyBlock, Exchange!vars
<1>6. ASSUME NEW l \in Leg, Confirm(l) PROVE [Exchange!Next]_(Exchange!vars)
  <2>0. l \in {"btc", "liq"}
    BY DEF Leg
  <2>1. PICK branch \in mempool[l] :
            leg' = [leg EXCEPT ![l] = IF branch = "claim" THEN "claimed" ELSE "refunded"]
    BY <1>6 DEF Confirm
  <2>2. leg[l] = "locked" /\ UNCHANGED <<diligent, secret>>
    BY <1>6 DEF Confirm
  <2>3. branch \in {"claim", "refund"}
    BY <1>1, <2>1 DEF TypeOK, Branch
  <2>4. CASE branch = "claim"
    <3>1. secret
      BY <2>1, <2>4 DEF SwapInv, SpendsJustified
    <3>2. Exchange!Claim(l)
      BY <2>1, <2>2, <2>4, <3>1 DEF Exchange!Claim
    <3>3. QED
      BY <2>0, <3>2, Zenon DEF Exchange!Next
  <2>5. CASE branch = "refund"
    <3>1. l = "btc" /\ "responder" \in diligent => ~secret
      BY <2>1, <2>2, <2>5, NoBtcRefund
    <3>2. l = "liq" /\ "initiator" \in diligent => ~secret
      BY <2>1, <2>2, <2>5 DEF SwapInv, RevealUncontested
    <3>3. Exchange!Exposed(l) \in diligent => ~secret
      BY <3>1, <3>2 DEF Exchange!Exposed, Leg
    <3>4. Exchange!Refund(l)
      BY <2>1, <2>2, <2>5, <3>3 DEF Exchange!Refund
    <3>5. QED
      BY <2>0, <3>4, Zenon DEF Exchange!Next
  <2>6. QED
    BY <2>3, <2>4, <2>5
<1>7. CASE UNCHANGED vars
    BY <1>7 DEF vars, Exchange!vars
<1>8. QED
    BY <1>2, <1>3, <1>4, <1>5, <1>6, <1>7 DEF Next

(***************************************************************************)
(* With ordered delays the two HTLCs implement the timeless exchange.      *)
(***************************************************************************)
THEOREM SwapIsExchange ==
    ASSUME TimelockOrder
    PROVE  Spec => ExchangeSpec
<1>1. Init => Exchange!Init
    BY DEF Init, Exchange!Init, Leg, Party
<1>2. SwapInv /\ [Next]_vars => [Exchange!Next]_(Exchange!vars)
    BY ExchangeStep
<1>3. QED
    BY <1>1, <1>2, SwapInvariant, PTL DEF Spec, ExchangeSpec, Exchange!Spec
=============================================================================
