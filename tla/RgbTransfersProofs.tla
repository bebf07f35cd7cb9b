------------------------- MODULE RgbTransfersProofs -------------------------
(***************************************************************************)
(* Theorems about RgbTransfers, for any coins, supplies and arguments and  *)
(* any number of operations.                                               *)
(***************************************************************************)
EXTENDS RgbTransfers, FiniteSums

\* What an operation assigns, to one seal or two, is what it claims.
Balances(op) ==
    \/ DOMAIN op.outs = {1} /\ op.outs[1].amount = op.claims
    \/ DOMAIN op.outs = {1, 2} /\ op.outs[1].amount + op.outs[2].amount = op.claims

Balanced == \A k \in DOMAIN ops : Balances(ops[k])

\* An operation is its content, and a transition names the genesis of its contract.
Identified ==
    /\ \A i, j \in DOMAIN ops : ops[i] = ops[j] => i = j
    /\ \A k \in DOMAIN ops \ Geneses :
          ops[k].contract \in Geneses /\ ops[k].prev \in DOMAIN ops

OpsInv == TypeOK /\ Balanced /\ Identified

(***************************************************************************)
(* Valid is what its recursion says: a genesis is valid, and a transition  *)
(* is when it moves what a valid operation has assigned.                   *)
(***************************************************************************)
ValidIsRecursive ==
    /\ Valid \subseteq DOMAIN ops
    /\ \A k \in DOMAIN ops :
          k \in Valid <=> ops[k].prev = 0 \/ (Moves(k) /\ ops[k].prev \in Valid)

LEMMA PrevBefore ==
    ASSUME TypeOK
    PROVE  /\ DOMAIN ops = 1..Len(ops) /\ Len(ops) \in Nat
           /\ \A k \in DOMAIN ops :
                 /\ k \in Nat /\ ops[k].prev \in 0..(k - 1) /\ ops[k].contract \in 0..(k - 1)
                 /\ ops[k].prev # 0 => ops[k].prev \in DOMAIN ops
<1>1. ops \in Seq(Operation)
    BY DEF TypeOK
<1>2. DOMAIN ops = 1..Len(ops) /\ Len(ops) \in Nat
    BY <1>1
<1>3. ASSUME NEW k \in DOMAIN ops
      PROVE  k \in Nat /\ ops[k].prev \in 0..(k - 1) /\ ops[k].contract \in 0..(k - 1)
  <2>1. ops[k] \in Operation
      BY <1>1
  <2>2. ops[k].prev \in Nat /\ ops[k].contract \in Nat
      BY <2>1 DEF Operation
  <2>3. QED
      BY <1>2, <2>2 DEF TypeOK
<1>4. QED
    BY <1>2, <1>3

LEMMA ValidDef == TypeOK => ValidIsRecursive
<1> SUFFICES ASSUME TypeOK PROVE ValidIsRecursive
    OBVIOUS
<1> DEFINE D == DOMAIN ops
           Once(v) == [k \in D |-> ops[k].prev = 0 \/ (Moves(k) /\ v[ops[k].prev])]
           valid == CHOOSE v : v = Once(v)
           Q == { n \in Nat : \E v : \A k \in D : k =< n => v[k] = Once(v)[k] }
<1>1. 0 \in Q
  <2>1. \A k \in D : ~(k =< 0)
      BY PrevBefore
  <2>2. QED
      BY <2>1
<1>2. ASSUME NEW n \in Nat, n \in Q
      PROVE  n + 1 \in Q
  <2>1. PICK v : \A k \in D : k =< n => v[k] = Once(v)[k]
      BY <1>2
  <2>2. ASSUME NEW k \in D, k =< n + 1
        PROVE  Once(v)[k] = Once(Once(v))[k]
    <3>1. CASE ops[k].prev = 0
        BY <3>1
    <3>2. CASE ops[k].prev # 0
      <4>1. ops[k].prev \in D /\ ops[k].prev =< n
          BY <2>2, <3>2, PrevBefore
      <4>2. Once(v)[ops[k].prev] = v[ops[k].prev]
          BY <2>1, <4>1
      <4>3. QED
          BY <4>2
    <3>3. QED
        BY <3>1, <3>2
  <2> HIDE DEF Once
  <2>3. QED
      BY <2>2
<1>3. Len(ops) \in Q
  <2>1. Nat \subseteq Q
    <3> HIDE DEF Q
    <3> QED
        BY <1>1, <1>2, NatInduct
  <2>2. QED
      BY <2>1, PrevBefore
<1>4. PICK v : \A k \in D : v[k] = Once(v)[k]
    BY <1>3, PrevBefore
<1>5. Once(v) = Once(Once(v))
  <2>1. ASSUME NEW k \in D
        PROVE  Once(v)[k] = Once(Once(v))[k]
    <3>1. ops[k].prev # 0 => ops[k].prev \in D
        BY PrevBefore
    <3>2. ops[k].prev # 0 => Once(v)[ops[k].prev] = v[ops[k].prev]
        BY <1>4, <3>1
    <3>3. QED
        BY <3>2
  <2>2. QED
      BY <2>1
<1>6. valid = Once(valid)
    BY <1>5
<1>7. Valid = { k \in D : valid[k] }
    BY DEF Valid
<1> HIDE DEF valid
<1>8. QED
    BY <1>6, <1>7, PrevBefore DEF ValidIsRecursive
-----------------------------------------------------------------------------
(***************************************************************************)
(* Operations are kept by their content.                                   *)
(***************************************************************************)
LEMMA BuiltFacts ==
    ASSUME NEW known \in Seq(Operation), NEW op \in Operation,
           \A i, j \in DOMAIN known : known[i] = known[j] => i = j
    PROVE  LET new == Built(known, op)
               id == OpId(known, op)
           IN  /\ new \in Seq(Operation)
               /\ DOMAIN known \subseteq DOMAIN new
               /\ \A k \in DOMAIN known : new[k] = known[k]
               /\ id \in DOMAIN new /\ new[id] = op
               /\ DOMAIN new \subseteq DOMAIN known \cup {id}
               /\ id \notin DOMAIN known =>
                     id = Len(known) + 1 /\ \A k \in DOMAIN known : known[k] # op
               /\ \A i, j \in DOMAIN new : new[i] = new[j] => i = j
<1>1. CASE Same(known, op) = {}
  <2>1. \A k \in DOMAIN known : known[k] # op
      BY <1>1 DEF Same
  <2>2. Built(known, op) = Append(known, op) /\ OpId(known, op) = Len(known) + 1
      BY <1>1 DEF Built, OpId
  <2> DEFINE new == Append(known, op)
  <2>3. /\ new \in Seq(Operation) /\ Len(known) \in Nat
        /\ DOMAIN known = 1..Len(known) /\ DOMAIN new = 1..(Len(known) + 1)
        /\ \A k \in DOMAIN known : new[k] = known[k]
        /\ new[Len(known) + 1] = op
      OBVIOUS
  <2> HIDE DEF new
  <2>4. \A i, j \in DOMAIN new : new[i] = new[j] => i = j
      BY <2>1, <2>3
  <2>5. QED
      BY <2>1, <2>2, <2>3, <2>4 DEF new
<1>2. CASE Same(known, op) # {}
  <2>1. OpId(known, op) \in Same(known, op)
      BY <1>2 DEF OpId
  <2>2. OpId(known, op) \in DOMAIN known /\ known[OpId(known, op)] = op
      BY <2>1 DEF Same
  <2>3. Built(known, op) = known
      BY <1>2 DEF Built
  <2>4. QED
      BY <2>2, <2>3
<1>3. QED
    BY <1>1, <1>2

(***************************************************************************)
(* The operations of a call: the genesis and the transition.               *)
(***************************************************************************)
LEMMA IssueFacts ==
    ASSUME NEW supply \in Nat \ {0}, NEW aliceSeal \in Seals
    PROVE  LET genesis == issue(supply, aliceSeal)
           IN  /\ genesis \in Operation
               /\ genesis.prev = 0 /\ genesis.contract = 0 /\ genesis.claims = supply
               /\ DOMAIN genesis.outs = {1}
               /\ genesis.outs[1].seal = aliceSeal /\ genesis.outs[1].amount = supply
<1>1. Assign(aliceSeal, supply) \in Allocation
    BY DEF Assign, Allocation
<1>2. QED
    BY <1>1 DEF issue, Assign, Operation

LEMMA TransitionFacts ==
    ASSUME NEW contract \in Nat, NEW prev \in Nat, NEW claims \in Nat \ {0},
           NEW send \in Nat \ {0}, NEW bob \in Seals, NEW change \in Seals \cup {None},
           Sendable(claims, send, change)
    PROVE  LET op == build_transfer_from(contract, prev, claims, send, bob, change)
           IN  /\ op \in Operation
               /\ op.prev = prev /\ op.contract = contract /\ op.claims = claims
               /\ Balances(op) /\ op.outs[1].seal = bob
               /\ 2 \in DOMAIN op.outs => change \in Seals /\ op.outs[2].seal = change
<1>1. CASE change = None \/ claims = send
  <2>1. send = claims
      BY <1>1 DEF Sendable
  <2>2. Assign(bob, send) \in Allocation
      BY DEF Assign, Allocation
  <2>3. Assignments(claims, send, bob, change) = <<Assign(bob, send)>>
      BY <1>1 DEF Assignments
  <2>4. QED
      BY <2>1, <2>2, <2>3 DEF build_transfer_from, Assign, Operation, Balances
<1>2. CASE ~(change = None \/ claims = send)
  <2>1. change \in Seals /\ send =< claims /\ claims - send \in Nat \ {0}
      BY <1>2 DEF Sendable
  <2>2. Assign(bob, send) \in Allocation /\ Assign(change, claims - send) \in Allocation
      BY <2>1 DEF Assign, Allocation
  <2> DEFINE outs == <<Assign(bob, send), Assign(change, claims - send)>>
  <2>3. Assignments(claims, send, bob, change) = outs
      BY <1>2 DEF Assignments
  <2>4. /\ outs \in Seq(Allocation) /\ DOMAIN outs = {1, 2}
        /\ outs[1] = Assign(bob, send) /\ outs[2] = Assign(change, claims - send)
      BY <2>2
  <2> HIDE DEF outs
  <2>5. outs[1].amount + outs[2].amount = claims /\ outs[1].seal = bob /\ outs[2].seal = change
      BY <2>1, <2>4 DEF Assign
  <2>6. QED
      BY <2>1, <2>3, <2>4, <2>5 DEF build_transfer_from, Operation, Balances
<1>3. QED
    BY <1>1, <1>2

\* What a chained transfer says it consumes, and the default.
ClaimsOf(supply, consume, prevAmount) ==
    IF consume # 0 /\ prevAmount # 0 THEN prevAmount ELSE supply

\* The operations after a call: the old ones, the genesis g and the transition t.
Extends(genesis, g, transition, t) ==
    /\ ops' \in Seq(Operation)
    /\ g \in DOMAIN ops' /\ ops'[g] = genesis
    /\ t \in DOMAIN ops' /\ ops'[t] = transition
    /\ DOMAIN ops \subseteq DOMAIN ops' /\ DOMAIN ops' \subseteq DOMAIN ops \cup {g, t}
    /\ \A k \in DOMAIN ops : ops'[k] = ops[k]
    /\ g \notin DOMAIN ops => \A k \in DOMAIN ops : ops[k] # genesis
    /\ \A i, j \in DOMAIN ops' : ops'[i] = ops'[j] => i = j
    /\ g < t

LEMMA TransferOps ==
    ASSUME OpsInv,
           NEW supply \in Supplies, NEW aliceSeal \in AliceSeals,
           NEW consume \in {0} \cup DOMAIN ops, NEW prevAmount \in Nat, NEW send \in Sends,
           NEW bob \in Seals, NEW change \in Seals \cup {None}, NEW close,
           rgb20_transfer(supply, aliceSeal, consume, prevAmount, send, bob, change, close)
    PROVE  LET genesis == issue(supply, aliceSeal)
               claims == ClaimsOf(supply, consume, prevAmount)
               op(g) == build_transfer_from(g, IF consume # 0 THEN consume ELSE g, claims, send,
                                            bob, change)
           IN  /\ Sendable(claims, send, change) /\ claims \in Nat \ {0}
               /\ supply \in Nat \ {0} /\ send \in Nat \ {0} /\ aliceSeal \in Seals
               /\ \E g, t \in DOMAIN ops' :
                     /\ Extends(genesis, g, op(g), t)
                     /\ g = OpId(ops, genesis)
                     /\ \E shown \in Int :
                           anchors' = anchors \cup {[op |-> t, seal |-> AnchorSeal(aliceSeal, close),
                                                    shown |-> shown]}
               /\ UNCHANGED <<scripted, closing>>
<1> DEFINE genesis == issue(supply, aliceSeal)
           g == OpId(ops, genesis)
           issued == Built(ops, genesis)
           claims == ClaimsOf(supply, consume, prevAmount)
           op == build_transfer_from(g, IF consume # 0 THEN consume ELSE g, claims, send,
                                     bob, change)
           t == OpId(issued, op)
           shown == IF change = None THEN 0 ELSE supply - send
<1>1. /\ Sendable(claims, send, change)
      /\ ops' = Built(issued, op)
      /\ anchors' = anchors \cup {[op |-> t, seal |-> AnchorSeal(aliceSeal, close), shown |-> shown]}
      /\ UNCHANGED <<scripted, closing>>
    BY DEF rgb20_transfer, ClaimsOf
<1>2. /\ supply \in Nat \ {0} /\ send \in Nat \ {0} /\ aliceSeal \in Seals
      /\ claims \in Nat \ {0} /\ shown \in Int
    BY TransferArguments DEF ClaimsOf
<1>3. /\ genesis \in Operation /\ genesis.prev = 0
    BY <1>2, IssueFacts
<1>4. /\ ops \in Seq(Operation) /\ DOMAIN ops = 1..Len(ops) /\ Len(ops) \in Nat
      /\ \A i, j \in DOMAIN ops : ops[i] = ops[j] => i = j
      /\ \A k \in DOMAIN ops : ops[k].prev \in 0..(k - 1) /\ ops[k].contract \in 0..(k - 1)
    BY PrevBefore DEF OpsInv, TypeOK, Identified
<1> HIDE DEF genesis, g, issued, claims, op, t, shown
<1>5. /\ issued \in Seq(Operation)
      /\ DOMAIN ops \subseteq DOMAIN issued /\ DOMAIN issued \subseteq DOMAIN ops \cup {g}
      /\ \A k \in DOMAIN ops : issued[k] = ops[k]
      /\ g \in DOMAIN issued /\ issued[g] = genesis
      /\ g \notin DOMAIN ops => \A k \in DOMAIN ops : ops[k] # genesis
      /\ \A i, j \in DOMAIN issued : issued[i] = issued[j] => i = j
    BY <1>3, <1>4, BuiltFacts DEF issued, g
<1>6. /\ DOMAIN issued = 1..Len(issued) /\ Len(issued) \in Nat /\ g \in Nat \ {0}
  <2>1. DOMAIN issued = 1..Len(issued) /\ Len(issued) \in Nat
      BY <1>5
  <2>2. QED
      BY <2>1, <1>5
<1>7. op \in Operation /\ op.contract = g /\ op.prev # 0
  <2> DEFINE p == IF consume # 0 THEN consume ELSE g
  <2>1. p \in Nat \ {0}
      BY <1>4, <1>6
  <2>2. op = build_transfer_from(g, p, claims, send, bob, change)
      BY DEF op
  <2> HIDE DEF p
  <2>3. Sendable(claims, send, change) /\ claims \in Nat \ {0} /\ send \in Nat \ {0} /\ g \in Nat
      BY <1>1, <1>2, <1>6
  <2>4. /\ build_transfer_from(g, p, claims, send, bob, change) \in Operation
        /\ build_transfer_from(g, p, claims, send, bob, change).contract = g
        /\ build_transfer_from(g, p, claims, send, bob, change).prev = p
      BY <2>1, <2>3, TransitionFacts
  <2>5. QED
      BY <2>1, <2>2, <2>4
<1>8. /\ ops' \in Seq(Operation)
      /\ DOMAIN issued \subseteq DOMAIN ops' /\ DOMAIN ops' \subseteq DOMAIN issued \cup {t}
      /\ \A k \in DOMAIN issued : ops'[k] = issued[k]
      /\ t \in DOMAIN ops' /\ ops'[t] = op
      /\ t \notin DOMAIN issued => t = Len(issued) + 1
      /\ \A i, j \in DOMAIN ops' : ops'[i] = ops'[j] => i = j
  <2> DEFINE new == Built(issued, op)
  <2>1. /\ new \in Seq(Operation)
        /\ DOMAIN issued \subseteq DOMAIN new /\ DOMAIN new \subseteq DOMAIN issued \cup {t}
        /\ \A k \in DOMAIN issued : new[k] = issued[k]
        /\ t \in DOMAIN new /\ new[t] = op
        /\ t \notin DOMAIN issued => t = Len(issued) + 1
        /\ \A i, j \in DOMAIN new : new[i] = new[j] => i = j
    <3>1. op \in Operation
        BY <1>7
    <3>2. issued \in Seq(Operation) /\ \A i, j \in DOMAIN issued : issued[i] = issued[j] => i = j
        BY <1>5
    <3>3. QED
        BY <3>1, <3>2, BuiltFacts DEF t
  <2>2. ops' = new
      BY <1>1
  <2> HIDE DEF new
  <2>3. QED
      BY <2>1, <2>2
<1>9. g < t
  <2>1. CASE t \in DOMAIN ops
      BY <2>1, <1>4, <1>5, <1>7, <1>8
  <2>2. CASE t \notin DOMAIN ops /\ t \in DOMAIN issued
      BY <2>2, <1>3, <1>5, <1>7, <1>8
  <2>3. CASE t \notin DOMAIN issued
      BY <2>3, <1>5, <1>6, <1>8
  <2>4. QED
      BY <2>1, <2>2, <2>3
<1>10. Extends(genesis, g, op, t)
    BY <1>5, <1>8, <1>9 DEF Extends
<1>11. g \in DOMAIN ops' /\ t \in DOMAIN ops'
    BY <1>5, <1>8
<1>12. QED
    BY <1>1, <1>2, <1>10, <1>11 DEF genesis, g, claims, op

(***************************************************************************)
(* The arguments of a call, whoever makes it.                              *)
(***************************************************************************)
LEMMA OutFacts ==
    ASSUME OpsInv
    PROVE  \A k \in DOMAIN ops :
             /\ ops[k] \in Operation /\ 1 \in DOMAIN ops[k].outs
             /\ \A n \in DOMAIN ops[k].outs :
                   /\ n \in {1, 2} /\ ops[k].outs[n] \in Allocation
                   /\ ops[k].outs[n].seal \in Seals /\ ops[k].outs[n].amount \in Nat \ {0}
<1> SUFFICES ASSUME NEW k \in DOMAIN ops
             PROVE  /\ ops[k] \in Operation /\ 1 \in DOMAIN ops[k].outs
                    /\ \A n \in DOMAIN ops[k].outs :
                          /\ n \in {1, 2} /\ ops[k].outs[n] \in Allocation
                          /\ ops[k].outs[n].seal \in Seals
                          /\ ops[k].outs[n].amount \in Nat \ {0}
    OBVIOUS
<1>1. ops[k] \in Operation
    BY DEF OpsInv, TypeOK
<1>2. ops[k].outs \in Seq(Allocation)
    BY <1>1 DEF Operation
<1>3. DOMAIN ops[k].outs = {1} \/ DOMAIN ops[k].outs = {1, 2}
    BY DEF OpsInv, Balanced, Balances
<1>4. \A n \in DOMAIN ops[k].outs : ops[k].outs[n] \in Allocation
    BY <1>2
<1>5. QED
    BY <1>1, <1>3, <1>4 DEF Allocation

LEMMA SealFacts ==
    /\ Kept \subseteq Coins /\ Coins \subseteq Seals /\ None \notin Seals
    /\ AliceSeals \subseteq Seals /\ Kept \cap (Wallet \ Locked) = {}
BY TransferArguments DEF Kept, Coins, Seals

LEMMA CallFacts ==
    ASSUME OpsInv, Transfer \/ ScriptedTransfer
    PROVE  \E supply \in Supplies, aliceSeal \in AliceSeals, consume \in {0} \cup DOMAIN ops,
              prevAmount \in Nat, send \in Sends, bob \in Seals,
              change \in Seals \cup {None}, close \in Seals \cup {None} :
             rgb20_transfer(supply, aliceSeal, consume, prevAmount, send, bob, change, close)
<1>1. CASE Transfer
  <2>1. /\ BobSeals \subseteq Seals /\ ChangeSeals \subseteq Seals /\ CloseSeals \subseteq Seals
        /\ {0} \cup PrevAmounts \subseteq Nat
      BY TransferArguments
  <2>2. PICK supply \in Supplies, aliceSeal \in AliceSeals, consume \in {0} \cup DOMAIN ops,
             prevAmount \in {0} \cup PrevAmounts, send \in Sends, bob \in BobSeals,
             change \in ChangeSeals \cup {None}, close \in CloseSeals \cup {None} :
            rgb20_transfer(supply, aliceSeal, consume, prevAmount, send, bob, change, close)
      BY <1>1 DEF Transfer
  <2>3. /\ prevAmount \in Nat /\ bob \in Seals /\ change \in Seals \cup {None}
        /\ close \in Seals \cup {None}
      BY <2>1
  <2>4. QED
      BY <2>2, <2>3
<1>2. CASE ScriptedTransfer
  <2>1. PICK supply \in Supplies, aliceSeal \in AliceSeals \cap Kept,
             consume \in {0} \cup (Valid \ Geneses), send \in Sends, bob \in Fresh,
             change \in Fresh \cup {None} :
            rgb20_transfer(supply, aliceSeal, consume,
                           IF consume = 0 THEN 0 ELSE ops[consume].outs[1].amount, send,
                           bob, change,
                           IF consume = 0 THEN None ELSE ops[consume].outs[1].seal)
      BY <1>2 DEF ScriptedTransfer
  <2> DEFINE prevAmount == IF consume = 0 THEN 0 ELSE ops[consume].outs[1].amount
             close == IF consume = 0 THEN None ELSE ops[consume].outs[1].seal
  <2>2. Fresh \subseteq Seals
      BY SealFacts DEF Fresh
  <2>3. Valid \subseteq DOMAIN ops
      BY ValidDef DEF OpsInv, ValidIsRecursive
  <2>4. prevAmount \in Nat /\ close \in Seals \cup {None}
      BY <2>3, OutFacts
  <2>5. /\ consume \in {0} \cup DOMAIN ops /\ bob \in Seals /\ change \in Seals \cup {None}
        /\ aliceSeal \in AliceSeals
      BY <2>2, <2>3
  <2>6. rgb20_transfer(supply, aliceSeal, consume, prevAmount, send, bob, change, close)
      BY <2>1
  <2> HIDE DEF prevAmount, close
  <2>7. QED
      BY <2>4, <2>5, <2>6
<1>3. QED
    BY <1>1, <1>2

(***************************************************************************)
(* What a call leaves.                                                     *)
(***************************************************************************)
LEMMA TransferStep ==
    ASSUME OpsInv, Transfer \/ ScriptedTransfer
    PROVE  /\ \E genesis, transition \in Operation : \E g, t \in DOMAIN ops' :
                 /\ Extends(genesis, g, transition, t)
                 /\ genesis.prev = 0 /\ genesis.contract = 0
                 /\ Balances(genesis) /\ DOMAIN genesis.outs = {1}
                 /\ transition.contract = g /\ Balances(transition)
                 /\ transition.prev \in DOMAIN ops \cup {g}
                 /\ \E a \in [op : {t}, seal : Seals, shown : Int] : anchors' = anchors \cup {a}
           /\ UNCHANGED <<scripted, closing>>
<1>1. PICK supply \in Supplies, aliceSeal \in AliceSeals, consume \in {0} \cup DOMAIN ops,
           prevAmount \in Nat, send \in Sends, bob \in Seals,
           change \in Seals \cup {None}, close \in Seals \cup {None} :
          rgb20_transfer(supply, aliceSeal, consume, prevAmount, send, bob, change, close)
    BY CallFacts
<1> DEFINE genesis == issue(supply, aliceSeal)
           claims == ClaimsOf(supply, consume, prevAmount)
           prev(g) == IF consume # 0 THEN consume ELSE g
           op(g) == build_transfer_from(g, prev(g), claims, send, bob, change)
<1>2. /\ Sendable(claims, send, change) /\ claims \in Nat \ {0}
      /\ supply \in Nat \ {0} /\ send \in Nat \ {0} /\ aliceSeal \in Seals
      /\ UNCHANGED <<scripted, closing>>
    BY <1>1, TransferOps
<1>3. PICK g \in DOMAIN ops', t \in DOMAIN ops' :
          /\ Extends(genesis, g, op(g), t)
          /\ \E shown \in Int :
                anchors' = anchors \cup {[op |-> t, seal |-> AnchorSeal(aliceSeal, close),
                                         shown |-> shown]}
    BY <1>1, TransferOps
<1>4. AnchorSeal(aliceSeal, close) \in Seals
    BY <1>2 DEF AnchorSeal
<1>5. \E a \in [op : {t}, seal : Seals, shown : Int] : anchors' = anchors \cup {a}
    BY <1>3, <1>4
<1>6. /\ genesis \in Operation /\ genesis.prev = 0 /\ genesis.contract = 0
      /\ Balances(genesis) /\ DOMAIN genesis.outs = {1}
    BY <1>2, IssueFacts DEF Balances
<1>7. g \in Nat /\ prev(g) \in Nat /\ prev(g) \in DOMAIN ops \cup {g}
  <2>1. ops' \in Seq(Operation)
      BY <1>3 DEF Extends
  <2>2. g \in Nat
      BY <2>1
  <2>3. QED
      BY <2>2, PrevBefore DEF OpsInv
<1>8. op(g) \in Operation /\ op(g).contract = g /\ op(g).prev = prev(g) /\ Balances(op(g))
  <2> DEFINE p == prev(g)
  <2>1. p \in Nat
      BY <1>7
  <2> HIDE DEF p, claims
  <2> DEFINE o == build_transfer_from(g, p, claims, send, bob, change)
  <2>2. Sendable(claims, send, change) /\ claims \in Nat \ {0} /\ send \in Nat \ {0} /\ g \in Nat
      BY <1>2, <1>7
  <2>3. o \in Operation /\ o.contract = g /\ o.prev = p /\ Balances(o)
      BY <2>1, <2>2, TransitionFacts
  <2>4. QED
      BY <2>3 DEF p
<1> HIDE DEF genesis, op, prev, claims
<1>9. QED
    BY <1>2, <1>3, <1>5, <1>6, <1>7, <1>8

(***************************************************************************)
(* What a spend leaves: it closes open coins, for an operation printed or  *)
(* for none.                                                               *)
(***************************************************************************)
SpendOf(coins, k) ==
    /\ coins \subseteq Coins /\ \A c \in coins : IsOpen(c)
    /\ k \in {Nothing} \cup DOMAIN ops
    /\ Spend(coins, k)

LEMMA SpendStep ==
    ASSUME OpsInv, NEW c, NEW k \in Printed \cup {Nothing},
           Payment \/ WitnessTx(c, k) \/ HtlcSpend(c, k)
    PROVE  \E coins, o : SpendOf(coins, o)
<1>1. Printed \subseteq DOMAIN ops
    BY DEF OpsInv, TypeOK, Printed
<1>2. \A d \in Funding : d \in Coins /\ IsOpen(d)
    BY DEF Funding, Coins
<1>3. CASE Payment
  <2>1. PICK funding \in SUBSET Funding : Spend(funding, Nothing)
      BY <1>3 DEF Payment
  <2>2. SpendOf(funding, Nothing)
      BY <2>1, <1>2 DEF SpendOf
  <2>3. QED
      BY <2>2
<1>4. CASE WitnessTx(c, k)
  <2>1. PICK funding \in SUBSET Funding : Spend({c} \cup funding, k)
      BY <1>4 DEF WitnessTx
  <2>2. SpendOf({c} \cup funding, k)
      BY <2>1, <1>1, <1>2, <1>4 DEF SpendOf, WitnessTx, Coins
  <2>3. QED
      BY <2>2
<1>5. CASE HtlcSpend(c, k)
  <2>1. SpendOf({c}, k)
      BY <1>1, <1>5 DEF SpendOf, HtlcSpend, Coins
  <2>2. QED
      BY <2>1
<1>6. QED
    BY <1>3, <1>4, <1>5

\* A step is a call, a spend or nothing.
LEMMA StepCases ==
    ASSUME OpsInv, [Next]_vars
    PROVE  \/ Transfer \/ ScriptedTransfer
           \/ \E coins, o : SpendOf(coins, o)
           \/ UNCHANGED vars
<1>1. CASE Payment
    BY <1>1, SpendStep
<1>2. CASE \E c \in Named, k \in Printed : WitnessTx(c, k)
    BY <1>2, SpendStep
<1>3. CASE \E c \in Named, k \in Printed \cup {Nothing} : HtlcSpend(c, k)
    BY <1>3, SpendStep
<1>4. CASE \E k \in Printed : ScriptedSpend(k)
    BY <1>4, SpendStep DEF ScriptedSpend
<1>5. QED
    BY <1>1, <1>2, <1>3, <1>4 DEF Next, FreeNext, ScriptNext
-----------------------------------------------------------------------------
LEMMA OpsInit == Init => OpsInv
BY DEF Init, OpsInv, TypeOK, Balanced, Identified

LEMMA TransferKeeps ==
    ASSUME OpsInv, Transfer \/ ScriptedTransfer
    PROVE  OpsInv'
<1>1. PICK genesis \in Operation, transition \in Operation, g \in DOMAIN ops', t \in DOMAIN ops' :
         /\ Extends(genesis, g, transition, t)
         /\ genesis.prev = 0 /\ genesis.contract = 0
         /\ Balances(genesis) /\ DOMAIN genesis.outs = {1}
         /\ transition.contract = g /\ Balances(transition)
         /\ transition.prev \in DOMAIN ops \cup {g}
         /\ \E a \in [op : {t}, seal : Seals, shown : Int] : anchors' = anchors \cup {a}
    BY TransferStep
<1>2. UNCHANGED <<scripted, closing>>
    BY TransferStep
<1>3. /\ ops' \in Seq(Operation)
      /\ ops'[g] = genesis /\ ops'[t] = transition /\ g < t
      /\ DOMAIN ops \subseteq DOMAIN ops' /\ DOMAIN ops' \subseteq DOMAIN ops \cup {g, t}
      /\ \A k \in DOMAIN ops : ops'[k] = ops[k]
      /\ \A i, j \in DOMAIN ops' : ops'[i] = ops'[j] => i = j
    BY <1>1 DEF Extends
<1>4. /\ DOMAIN ops' = 1..Len(ops') /\ Len(ops') \in Nat
      /\ DOMAIN ops = 1..Len(ops) /\ Len(ops) \in Nat
      /\ g \in Nat \ {0} /\ t \in Nat
  <2>1. DOMAIN ops' = 1..Len(ops') /\ Len(ops') \in Nat
      BY <1>3
  <2>2. QED
      BY <2>1, PrevBefore DEF OpsInv
<1>5. \A k \in DOMAIN ops' : ops'[k].contract < k /\ ops'[k].prev < k
  <2> SUFFICES ASSUME NEW k \in DOMAIN ops'
               PROVE  ops'[k].contract < k /\ ops'[k].prev < k
      OBVIOUS
  <2>1. CASE k \in DOMAIN ops
      BY <2>1, <1>3 DEF OpsInv, TypeOK
  <2>2. CASE k = g
      BY <2>2, <1>1, <1>3, <1>4
  <2>3. CASE k = t /\ k \notin DOMAIN ops
      BY <2>3, <1>1, <1>3, <1>4
  <2>4. QED
      BY <2>1, <2>2, <2>3, <1>3
<1>6. anchors' \subseteq [op : DOMAIN ops', seal : Seals, shown : Int]
  <2>1. anchors \subseteq [op : DOMAIN ops', seal : Seals, shown : Int]
      BY <1>3 DEF OpsInv, TypeOK
  <2>2. [op : {t}, seal : Seals, shown : Int] \subseteq [op : DOMAIN ops', seal : Seals, shown : Int]
      OBVIOUS
  <2>3. QED
      BY <2>1, <2>2, <1>1
<1>7. closing' \in [Coins -> {Open, Nothing} \cup DOMAIN ops']
    BY <1>2, <1>3 DEF OpsInv, TypeOK
<1>8. TypeOK'
    BY <1>2, <1>3, <1>5, <1>6, <1>7 DEF OpsInv, TypeOK
<1>9. Balanced'
    BY <1>1, <1>3 DEF OpsInv, Balanced
<1>10. Identified'
  <2> SUFFICES ASSUME NEW k \in DOMAIN ops', ops'[k].prev # 0
               PROVE  /\ ops'[k].contract \in DOMAIN ops' /\ ops'[ops'[k].contract].prev = 0
                      /\ ops'[k].prev \in DOMAIN ops'
      BY <1>3 DEF Identified, Geneses
  <2>1. CASE k \in DOMAIN ops
    <3>1. ops'[k] = ops[k]
        BY <2>1, <1>3
    <3>2. /\ ops[k].contract \in DOMAIN ops /\ ops[ops[k].contract].prev = 0
          /\ ops[k].prev \in DOMAIN ops
        BY <2>1, <3>1 DEF OpsInv, Identified, Geneses
    <3>3. QED
        BY <3>1, <3>2, <1>3
  <2>2. CASE k = g
      BY <2>2, <1>1, <1>3
  <2>3. CASE k = t
      BY <2>3, <1>1, <1>3
  <2>4. QED
      BY <2>1, <2>2, <2>3, <1>3
<1>11. QED
    BY <1>8, <1>9, <1>10 DEF OpsInv

LEMMA OpsStep == OpsInv /\ [Next]_vars => OpsInv'
<1> SUFFICES ASSUME OpsInv, [Next]_vars PROVE OpsInv'
    OBVIOUS
<1>1. CASE \E coins, o : SpendOf(coins, o)
  <2>1. PICK coins, o : SpendOf(coins, o)
      BY <1>1
  <2>2. /\ UNCHANGED <<scripted, ops, anchors>>
        /\ closing' \in [Coins -> {Open, Nothing} \cup DOMAIN ops]
      BY <2>1 DEF SpendOf, Spend, OpsInv, TypeOK
  <2>3. QED
      BY <2>2 DEF OpsInv, TypeOK, Balanced, Identified, Geneses
<1>2. CASE UNCHANGED vars
    BY <1>2 DEF vars, OpsInv, TypeOK, Balanced, Identified, Geneses
<1>3. QED
    BY <1>1, <1>2, StepCases, TransferKeeps

LEMMA OpsInvariant == Spec => []OpsInv
BY OpsInit, OpsStep, PTL DEF Spec

(***************************************************************************)
(* Whatever the arguments, what a command builds is an operation with its  *)
(* allocations of positive amounts, and an anchor names one.               *)
(***************************************************************************)
THEOREM TransfersTypeCorrect == Spec => []TypeOK
BY OpsInvariant, PTL DEF OpsInv
-----------------------------------------------------------------------------
(***************************************************************************)
(* The units of a set of allocations; those of an operation come to what   *)
(* it claims, and what is held of a contract to what is live of it.        *)
(***************************************************************************)
Total(outs) == SumFunctionOnSet(Amount, outs)

OutsOf(k) == { out \in Outs : out[1] = k }

LiveOf(g) == { out \in Live : ContractOf(out[1]) = g }

LEMMA OutsFacts ==
    ASSUME OpsInv
    PROVE  /\ IsFiniteSet(Outs)
           /\ \A out \in Outs :
                 /\ out = <<out[1], out[2]>> /\ out[1] \in DOMAIN ops /\ out[2] \in {1, 2}
                 /\ out[2] \in DOMAIN ops[out[1]].outs
                 /\ SealOf(out) \in Seals
                 /\ Amount[out] \in Nat \ {0} /\ Amount[out] = ops[out[1]].outs[out[2]].amount
           /\ \A k \in DOMAIN ops : \A n \in DOMAIN ops[k].outs : <<k, n>> \in Outs
           /\ \A k \in DOMAIN ops : <<k, 1>> \in Outs
<1>1. \A k \in DOMAIN ops : \A n \in DOMAIN ops[k].outs : <<k, n>> \in Outs
    BY DEF Outs
<1>2. ASSUME NEW out \in Outs
      PROVE  /\ out = <<out[1], out[2]>> /\ out[1] \in DOMAIN ops /\ out[2] \in {1, 2}
             /\ out[2] \in DOMAIN ops[out[1]].outs
             /\ SealOf(out) \in Seals
             /\ Amount[out] \in Nat \ {0} /\ Amount[out] = ops[out[1]].outs[out[2]].amount
  <2>1. PICK k \in DOMAIN ops : out \in {k} \X DOMAIN ops[k].outs
      BY DEF Outs
  <2>2. out = <<out[1], out[2]>> /\ out[1] = k /\ out[2] \in DOMAIN ops[k].outs
      BY <2>1
  <2>3. Amount[out] = ops[out[1]].outs[out[2]].amount
      BY DEF Amount
  <2>4. QED
      BY <2>2, <2>3, OutFacts DEF SealOf
<1>3. IsFiniteSet(Outs)
  <2> DEFINE D == DOMAIN ops
  <2>1. D = 1..Len(ops) /\ Len(ops) \in Nat
      BY PrevBefore DEF OpsInv
  <2>2. IsFiniteSet(D) /\ IsFiniteSet(1..2)
    <3>1. 0 \in Int /\ 1 \in Int /\ 2 \in Int /\ Len(ops) \in Int
        BY <2>1
    <3>2. IsFiniteSet(1..Len(ops))
        BY <3>1, FS_Interval
    <3>3. IsFiniteSet(1..2)
        BY <3>1, FS_Interval
    <3> HIDE DEF D
    <3>4. QED
        BY <2>1, <3>2, <3>3
  <2>3. Outs \subseteq D \X (1..2)
    <3>1. \A k \in D : DOMAIN ops[k].outs \subseteq 1..2
        BY OutFacts
    <3>2. \A k \in D : {k} \X DOMAIN ops[k].outs \subseteq D \X (1..2)
        BY <3>1
    <3>3. QED
        BY <3>2 DEF Outs
  <2> HIDE DEF D
  <2>4. IsFiniteSet(D \X (1..2))
      BY <2>2, FS_Product
  <2>5. QED
      BY <2>3, <2>4, FS_Subset
<1>4. \A k \in DOMAIN ops : <<k, 1>> \in Outs
    BY <1>1, OutFacts
<1>5. QED
    BY <1>1, <1>2, <1>3, <1>4

LEMMA TotalFacts ==
    ASSUME OpsInv, NEW S \in SUBSET Outs
    PROVE  /\ IsFiniteSet(S) /\ Total(S) \in Nat
           /\ \A x \in S : Amount[x] \in Nat
           /\ \A T \in SUBSET S : Total(T) =< Total(S)
<1>1. IsFiniteSet(S) /\ \A x \in S : Amount[x] \in Nat
    BY OutsFacts, FS_Subset
<1>2. Total(S) \in Nat
    BY <1>1, SumType DEF Total
<1>3. \A T \in SUBSET S : Total(T) =< Total(S)
    BY <1>1, SumMonotone DEF Total
<1>4. QED
    BY <1>1, <1>2, <1>3

LEMMA OperationTotal ==
    ASSUME OpsInv, NEW k \in DOMAIN ops
    PROVE  Total(OutsOf(k)) = ops[k].claims
<1> DEFINE f == Amount
<1>1. <<k, 1>> \in Outs /\ f[<<k, 1>>] \in Nat /\ f[<<k, 1>>] = ops[k].outs[1].amount
    BY OutsFacts
<1>2. SumFunctionOnSet(f, {}) = 0
    BY SumEmpty
<1>3. SumFunctionOnSet(f, {<<k, 1>>}) = f[<<k, 1>>]
  <2>1. \A y \in {} \cup {<<k, 1>>} : f[y] \in Nat
      BY <1>1
  <2> HIDE DEF f
  <2>2. SumFunctionOnSet(f, {} \cup {<<k, 1>>}) = f[<<k, 1>>] + SumFunctionOnSet(f, {})
      BY <2>1, SumAdd, FS_EmptySet
  <2>3. {} \cup {<<k, 1>>} = {<<k, 1>>}
      OBVIOUS
  <2>4. QED
      BY <1>1, <1>2, <2>2, <2>3
<1>4. CASE DOMAIN ops[k].outs = {1} /\ ops[k].outs[1].amount = ops[k].claims
  <2>1. OutsOf(k) = {<<k, 1>>}
    <3>1. \A out \in Outs : out[1] = k => out = <<k, 1>>
        BY <1>4, OutsFacts
    <3>2. QED
        BY <1>1, <3>1 DEF OutsOf
  <2>2. QED
      BY <1>1, <1>3, <1>4, <2>1 DEF Total
<1>5. CASE /\ DOMAIN ops[k].outs = {1, 2}
           /\ ops[k].outs[1].amount + ops[k].outs[2].amount = ops[k].claims
  <2>1. <<k, 2>> \in Outs
      BY <1>5, OutsFacts
  <2>2. f[<<k, 2>>] \in Nat /\ f[<<k, 2>>] = ops[k].outs[2].amount
      BY <2>1, OutsFacts
  <2>3. OutsOf(k) = {<<k, 1>>} \cup {<<k, 2>>}
    <3>1. \A out \in Outs : out[1] = k => out = <<k, 1>> \/ out = <<k, 2>>
        BY <1>5, OutsFacts
    <3>2. QED
        BY <1>1, <2>1, <3>1 DEF OutsOf
  <2>4. SumFunctionOnSet(f, {<<k, 1>>} \cup {<<k, 2>>})
            = f[<<k, 2>>] + SumFunctionOnSet(f, {<<k, 1>>})
    <3>1. \A y \in {<<k, 1>>} \cup {<<k, 2>>} : f[y] \in Nat
        BY <1>1, <2>2
    <3>2. <<k, 2>> \notin {<<k, 1>>}
        OBVIOUS
    <3>3. IsFiniteSet({<<k, 1>>})
        BY FS_Singleton, Zenon
    <3> HIDE DEF f
    <3>4. QED
        BY <3>1, <3>2, <3>3, SumAdd
  <2>5. ops[k].claims = f[<<k, 1>>] + f[<<k, 2>>]
      BY <1>1, <1>5, <2>2
  <2>6. Total(OutsOf(k)) = f[<<k, 2>>] + f[<<k, 1>>]
      BY <1>3, <2>3, <2>4 DEF Total
  <2> HIDE DEF f
  <2>7. QED
      BY <1>1, <2>2, <2>5, <2>6
<1>6. QED
    BY <1>4, <1>5 DEF OpsInv, Balanced, Balances

LEMMA LiveTotal ==
    ASSUME OpsInv, NEW g \in Geneses
    PROVE  Circulating(Held[g]) = Total(LiveOf(g))
<1> DEFINE Part == [s \in Seals |-> { out \in Live : ContractOf(out[1]) = g /\ SealOf(out) = s }]
           f == Amount
           h == Held[g]
<1>1. Live \subseteq Outs
    BY DEF Live
<1>2. IsFiniteSet(Live) /\ \A x \in Live : f[x] \in Nat
    BY <1>1, TotalFacts
<1>3. \A s \in Seals : h[s] = SumFunctionOnSet(f, Part[s])
    BY DEF Held
<1>4. \A s \in Seals : Part[s] \subseteq Live
    OBVIOUS
<1>5. \A s, r \in Seals : s # r => Part[s] \cap Part[r] = {}
    OBVIOUS
<1>6. UNION { Part[s] : s \in Seals } = LiveOf(g)
  <2>1. \A out \in Live : SealOf(out) \in Seals
      BY <1>1, OutsFacts
  <2>2. QED
      BY <2>1 DEF LiveOf
<1>7. IsFiniteSet(Seals)
    BY TransferArguments
<1>8. Circulating(h) = SumFunctionOnSet(h, Seals)
    BY DEF Circulating
<1> HIDE DEF Part, f, h
<1>9. SumFunctionOnSet(h, Seals) = SumFunctionOnSet(f, UNION { Part[s] : s \in Seals })
    BY <1>2, <1>3, <1>4, <1>5, <1>7, SumOfParts
<1>10. QED
    BY <1>6, <1>8, <1>9 DEF f, h, Total
-----------------------------------------------------------------------------
(***************************************************************************)
(* A chain of operations, each consuming the first output of another for   *)
(* what it carries, and none that of the same, passes on what its first    *)
(* one claims.                                                             *)
(***************************************************************************)
IsChain(D, r) ==
    /\ D \subseteq DOMAIN ops /\ r \in D /\ ops[r].prev \notin D
    /\ \A j \in D \ {r} : ops[j].prev \in D /\ ops[j].claims = Consumed(j).amount
    /\ \A i, j \in D \ {r} : ops[i].prev = ops[j].prev => i = j

Unspent(D) ==
    { out \in Outs : /\ out[1] \in D
                     /\ ~(out[2] = 1 /\ \E j \in D : ops[j].prev = out[1]) }

LEMMA ChainConserves ==
    ASSUME OpsInv, NEW D, NEW r, IsChain(D, r)
    PROVE  Total(Unspent(D)) = ops[r].claims
<1> DEFINE Q == { n \in Nat : \A E : IsChain(E, r) /\ E \subseteq 1..n =>
                     Total(Unspent(E)) = ops[r].claims }
<1>1. 0 \in Q
  <2>1. \A E : ~(IsChain(E, r) /\ E \subseteq 1..0)
      BY DEF IsChain
  <2>2. QED
      BY <2>1
<1>2. ASSUME NEW n \in Nat, n \in Q
      PROVE  n + 1 \in Q
  <2> DEFINE m == n + 1
  <2> SUFFICES ASSUME NEW E, IsChain(E, r), E \subseteq 1..m
               PROVE  Total(Unspent(E)) = ops[r].claims
      OBVIOUS
  <2>1. \A j \in E : j \in DOMAIN ops /\ j \in Nat /\ ops[j].prev \in Nat /\ ops[j].prev < j
      BY PrevBefore DEF IsChain, OpsInv
  <2>2. \A j \in E : r =< j
    <3>1. E \in SUBSET Nat /\ E # {} /\ r \in E
        BY <2>1 DEF IsChain
    <3>2. PICK x \in E : \A y \in E : x =< y
        BY <3>1, LeastExists
    <3>3. ops[x].prev \notin E
        BY <2>1, <3>2
    <3>4. x = r
        BY <3>3 DEF IsChain
    <3>5. QED
        BY <3>2, <3>4
  <2>3. CASE m \notin E
    <3>1. E \subseteq 1..n
        BY <2>3
    <3>2. QED
        BY <3>1, <1>2
  <2>4. CASE m = r
    <3>1. E = {r}
        BY <2>1, <2>2, <2>4 DEF IsChain
    <3>2. Unspent(E) = OutsOf(r)
        BY <3>1 DEF Unspent, OutsOf, IsChain
    <3>3. QED
        BY <2>1, <3>1, <3>2, OperationTotal
  <2>5. CASE m \in E /\ m # r
    <3> DEFINE F == E \ {m}
               p == ops[m].prev
               first == <<p, 1>>
    <3>1. /\ p \in F /\ p \in DOMAIN ops /\ m \in DOMAIN ops
          /\ ops[m].claims = ops[p].outs[1].amount
        BY <2>1, <2>5 DEF IsChain, Consumed
    <3>2. \A j \in E : ops[j].prev # m
        BY <2>1
    <3>3. IsChain(F, r)
      <4>1. \A j \in F \ {r} : ops[j].prev \in F /\ ops[j].claims = Consumed(j).amount
          BY <3>2 DEF IsChain
      <4>2. QED
          BY <4>1, <2>5 DEF IsChain
    <3>4. Total(Unspent(F)) = ops[r].claims
      <4>1. F \subseteq 1..n
          BY <2>1
      <4>2. QED
          BY <4>1, <3>3, <1>2
    <3>5. \A j \in F : ops[j].prev # p
        BY <2>5, <3>1 DEF IsChain
    <3>6. first \in Unspent(F) /\ first \in Outs
      <4>1. first \in Outs
          BY <3>1, OutsFacts
      <4>2. QED
          BY <4>1, <3>1, <3>5 DEF Unspent
    <3>7. Unspent(E) = (Unspent(F) \ {first}) \cup OutsOf(m)
      <4>1. ASSUME NEW out \in Outs
            PROVE  out \in Unspent(E) <=> out \in (Unspent(F) \ {first}) \cup OutsOf(m)
        <5>1. out = <<out[1], out[2]>>
            BY OutsFacts
        <5>2. out = first <=> out[1] = p /\ out[2] = 1
            BY <5>1
        <5>3. CASE out[1] = m
            BY <5>3, <2>5, <3>2 DEF Unspent, OutsOf
        <5>4. CASE out[1] # m
          <6>1. out \notin OutsOf(m)
              BY <5>4 DEF OutsOf
          <6>2. out[1] \in E <=> out[1] \in F
              BY <5>4
          <6>3. (\E j \in E : ops[j].prev = out[1])
                    <=> (\E j \in F : ops[j].prev = out[1]) \/ out[1] = p
              BY <2>5
          <6> HIDE DEF first, F, p
          <6>4. QED
              BY <5>2, <6>1, <6>2, <6>3, <3>6 DEF Unspent
        <5>5. QED
            BY <5>3, <5>4
      <4>2. /\ Unspent(E) \subseteq Outs
            /\ (Unspent(F) \ {first}) \cup OutsOf(m) \subseteq Outs
          BY DEF Unspent, OutsOf
      <4> HIDE DEF first, F, m
      <4>3. QED
          BY <4>1, <4>2
    <3>8. Total(Unspent(F)) = Amount[first] + Total(Unspent(F) \ {first})
      <4>1. Unspent(F) \in SUBSET Outs
          BY DEF Unspent
      <4>2. IsFiniteSet(Unspent(F)) /\ \A x \in Unspent(F) : Amount[x] \in Nat
          BY <4>1, TotalFacts
      <4>3. QED
          BY <4>2, <3>6, SumRemove DEF Total
    <3>9. Total((Unspent(F) \ {first}) \cup OutsOf(m))
              = Total(Unspent(F) \ {first}) + Total(OutsOf(m))
      <4> DEFINE A == Unspent(F) \ {first}
                 B == OutsOf(m)
      <4>1. A \in SUBSET Outs /\ B \in SUBSET Outs
          BY DEF Unspent, OutsOf
      <4>2. A \cap B = {}
          BY DEF Unspent, OutsOf
      <4>3. /\ IsFiniteSet(A) /\ IsFiniteSet(B)
            /\ \A x \in A \cup B : Amount[x] \in Nat
          BY <4>1, TotalFacts
      <4> HIDE DEF A, B
      <4>4. SumFunctionOnSet(Amount, A \cup B)
                = SumFunctionOnSet(Amount, A) + SumFunctionOnSet(Amount, B)
          BY <4>2, <4>3, SumUnion
      <4>5. QED
          BY <4>4 DEF A, B, Total
    <3>10. Total(OutsOf(m)) = Amount[first]
      <4>1. Total(OutsOf(m)) = ops[m].claims
          BY <3>1, OperationTotal
      <4>2. Amount[first] = ops[p].outs[1].amount
          BY <3>6, OutsFacts
      <4>3. QED
          BY <4>1, <4>2, <3>1
    <3>11. Amount[first] \in Nat /\ Total(Unspent(F) \ {first}) \in Nat
      <4>1. Unspent(F) \ {first} \in SUBSET Outs
          BY DEF Unspent
      <4>2. QED
          BY <4>1, <3>6, TotalFacts, OutsFacts
    <3> HIDE DEF F, first, m, p
    <3>12. QED
        BY <3>4, <3>7, <3>8, <3>9, <3>10, <3>11
  <2>6. QED
      BY <2>3, <2>4, <2>5
<1>3. Len(ops) \in Q
  <2>1. Nat \subseteq Q
    <3> HIDE DEF Q
    <3> QED
        BY <1>1, <1>2, NatInduct
  <2>2. QED
      BY <2>1, PrevBefore DEF OpsInv
<1>4. QED
    BY <1>3, PrevBefore DEF IsChain, OpsInv
-----------------------------------------------------------------------------
(***************************************************************************)
(* The valid operations of a contract are a chain: the closing of a seal   *)
(* is for one operation.  What is live of them has not been spent.         *)
(***************************************************************************)
ValidOf(g) == { k \in Valid : ContractOf(k) = g }

LEMMA ValidFacts ==
    ASSUME OpsInv
    PROVE  /\ Valid \subseteq DOMAIN ops /\ Geneses \subseteq Valid
           /\ \A k \in Valid \ Geneses :
                 /\ Moves(k) /\ ops[k].prev \in Valid
                 /\ ContractOf(ops[k].prev) = ContractOf(k)
           /\ \A k \in Geneses : ops[k].prev = 0 /\ ContractOf(k) = k
BY ValidDef DEF ValidIsRecursive, OpsInv, Geneses, Moves, ContractOf

LEMMA ContractIsChain ==
    ASSUME OpsInv, NEW g \in Geneses
    PROVE  IsChain(ValidOf(g), g)
<1> DEFINE D == ValidOf(g)
<1>1. D \subseteq DOMAIN ops /\ g \in D
    BY ValidFacts DEF ValidOf
<1>2. ops[g].prev \notin D
    BY <1>1, ValidFacts, PrevBefore DEF OpsInv
<1>3. ASSUME NEW j \in D \ {g}
      PROVE  /\ Moves(j) /\ ops[j].prev \in D
             /\ ops[j].claims = Consumed(j).amount /\ closing[Consumed(j).seal] = j
  <2>1. j \in Valid \ Geneses
      BY ValidFacts DEF ValidOf
  <2>2. QED
      BY <2>1, ValidFacts DEF ValidOf, Moves
<1>4. ASSUME NEW i \in D \ {g}, NEW j \in D \ {g}, ops[i].prev = ops[j].prev
      PROVE  i = j
  <2>1. Consumed(i) = Consumed(j)
      BY <1>4 DEF Consumed
  <2>2. QED
      BY <1>3, <2>1
<1>5. QED
    BY <1>1, <1>2, <1>3, <1>4 DEF IsChain

LEMMA LiveIsUnspent ==
    ASSUME OpsInv, NEW g \in Geneses
    PROVE  LiveOf(g) \subseteq Unspent(ValidOf(g))
<1> SUFFICES ASSUME NEW out \in LiveOf(g), out[2] = 1,
                    NEW j \in ValidOf(g), ops[j].prev = out[1]
             PROVE  FALSE
    BY DEF LiveOf, Live, Unspent, ValidOf
<1>1. /\ out \in Outs /\ out[1] \in DOMAIN ops
      /\ SealOf(out) \in Coins => IsOpen(SealOf(out))
    BY OutsFacts DEF LiveOf, Live
<1>2. j \in Valid \ Geneses
    BY <1>1, PrevBefore DEF ValidOf, Geneses, OpsInv
<1>3. Moves(j) /\ SealOf(out) = Consumed(j).seal
    BY <1>2, ValidFacts DEF SealOf, Consumed
<1>4. closing[SealOf(out)] = j /\ IsOpen(SealOf(out))
    BY <1>1, <1>3 DEF Moves
<1>5. j \in Nat
    BY <1>2, ValidFacts, PrevBefore DEF OpsInv
<1>6. QED
    BY <1>4, <1>5 DEF IsOpen, Open

LEMMA ContractTotal ==
    ASSUME OpsInv, NEW g \in Geneses
    PROVE  /\ Total(Unspent(ValidOf(g))) = ops[g].claims
           /\ Total(LiveOf(g)) =< ops[g].claims
<1>1. Total(Unspent(ValidOf(g))) = ops[g].claims
    BY ContractIsChain, ChainConserves
<1>2. Unspent(ValidOf(g)) \in SUBSET Outs
    BY DEF Unspent
<1>3. Total(LiveOf(g)) =< Total(Unspent(ValidOf(g)))
    BY <1>2, LiveIsUnspent, TotalFacts
<1>4. QED
    BY <1>1, <1>3

(***************************************************************************)
(* Whatever is built, with whatever arguments, and whoever spends what,    *)
(* nobody can prove to hold more units of a contract than were issued.     *)
(***************************************************************************)
THEOREM SupplyIsFixed == Spec => []SupplyNeverGrows
<1>1. OpsInv => SupplyNeverGrows
    BY LiveTotal, ContractTotal DEF SupplyNeverGrows
<1>2. QED
    BY <1>1, OpsInvariant, PTL
-----------------------------------------------------------------------------
(***************************************************************************)
(* Operations are added, coins are closed once: what is valid stays so.    *)
(***************************************************************************)
Grows ==
    /\ DOMAIN ops \subseteq DOMAIN ops'
    /\ \A k \in DOMAIN ops : ops'[k] = ops[k]
    /\ \A c \in Coins : ~IsOpen(c) => closing'[c] = closing[c]

LEMMA StepGrows ==
    ASSUME OpsInv, [Next]_vars
    PROVE  Grows
<1>1. CASE Transfer \/ ScriptedTransfer
  <2>1. PICK genesis, g, transition, t : Extends(genesis, g, transition, t)
      BY <1>1, TransferStep
  <2>2. closing' = closing
      BY <1>1, TransferStep
  <2>3. QED
      BY <2>1, <2>2 DEF Extends, Grows
<1>2. CASE \E coins, o : SpendOf(coins, o)
  <2>1. PICK coins, o : SpendOf(coins, o)
      BY <1>2
  <2>2. ops' = ops /\ \A c \in Coins : ~IsOpen(c) => closing'[c] = closing[c]
      BY <2>1 DEF SpendOf, Spend
  <2>3. QED
      BY <2>2 DEF Grows
<1>3. CASE UNCHANGED vars
    BY <1>3 DEF vars, Grows
<1>4. QED
    BY <1>1, <1>2, <1>3, StepCases

LEMMA ValidGrows ==
    ASSUME OpsInv, OpsInv', Grows
    PROVE  Valid \subseteq Valid'
<1>1. ValidIsRecursive
    BY ValidDef DEF OpsInv
<1>2. ValidIsRecursive'
  <2>1. TypeOK'
      BY DEF OpsInv
  <2>2. QED
      BY <2>1, ValidDef, PTL
<1>3. SUFFICES ASSUME Valid \ Valid' # {} PROVE FALSE
    OBVIOUS
<1>4. Valid \ Valid' \in SUBSET Nat
    BY <1>1, PrevBefore DEF ValidIsRecursive, OpsInv
<1>5. PICK k \in Valid \ Valid' : \A j \in Valid \ Valid' : k =< j
    BY <1>3, <1>4, LeastExists
<1>6. k \in DOMAIN ops /\ k \in DOMAIN ops' /\ ops'[k] = ops[k] /\ ops[k].prev < k
      /\ k \in Nat /\ ops[k].prev \in Nat
    BY <1>1, <1>5, PrevBefore DEF ValidIsRecursive, Grows, OpsInv
<1>7. ops[k].prev # 0 /\ Moves(k) /\ ops[k].prev \in Valid
    BY <1>1, <1>2, <1>5, <1>6 DEF ValidIsRecursive
<1>8. ops[k].prev \in Valid' /\ ops[k].prev \in DOMAIN ops
    BY <1>1, <1>5, <1>6, <1>7 DEF ValidIsRecursive
<1>9. Moves(k)'
  <2>1. ops'[ops[k].prev] = ops[ops[k].prev]
      BY <1>8 DEF Grows
  <2>2. Consumed(k)' = Consumed(k) /\ ContractOf(ops[k].prev)' = ContractOf(ops[k].prev)
      BY <1>6, <2>1 DEF Consumed, ContractOf
  <2>3. /\ Consumed(k).seal \in Coins /\ closing[Consumed(k).seal] = k
        /\ ContractOf(ops[k].prev) = ops[k].contract /\ ops[k].claims = Consumed(k).amount
      BY <1>7 DEF Moves
  <2>4. ~IsOpen(Consumed(k).seal)
      BY <1>6, <2>3 DEF IsOpen, Open
  <2>5. closing'[Consumed(k).seal] = k
      BY <2>3, <2>4 DEF Grows
  <2>6. QED
      BY <1>6, <2>2, <2>3, <2>5 DEF Moves
<1>10. k \in Valid'
    BY <1>2, <1>6, <1>8, <1>9 DEF ValidIsRecursive
<1>11. QED
    BY <1>5, <1>10
-----------------------------------------------------------------------------
(***************************************************************************)
(* The script: every transfer says what it consumes, every allocation has  *)
(* a seal of its own which is kept from other payments, and a seal is      *)
(* closed for a valid transfer of what is on it, the one its anchor names. *)
(***************************************************************************)
ClaimsRight ==
    \A k \in DOMAIN ops \ Geneses :
        ContractOf(ops[k].prev) = ops[k].contract /\ ops[k].claims = Consumed(k).amount

SealsApart ==
    /\ \A x \in Outs : SealOf(x) \in Kept
    /\ \A x, y \in Outs : SealOf(x) = SealOf(y) => x = y

ClosedByMoves ==
    \A c \in Kept : ~IsOpen(c) => /\ closing[c] \in Valid \ Geneses
                                  /\ c = Consumed(closing[c]).seal

AnchorsRight ==
    \A a \in anchors : a.op \in DOMAIN ops \ Geneses /\ a.seal = Consumed(a.op).seal

ScriptKept == ClaimsRight /\ SealsApart /\ ClosedByMoves /\ AnchorsRight

ScriptInv == OpsInv /\ (scripted => ScriptKept)

LEMMA ScriptInit == Init => ScriptInv
<1> SUFFICES ASSUME Init PROVE ScriptInv
    OBVIOUS
<1>1. DOMAIN ops = {} /\ anchors = {} /\ \A c \in Kept : IsOpen(c)
    BY SealFacts DEF Init, IsOpen
<1>2. Outs = {}
    BY <1>1 DEF Outs
<1>3. QED
    BY <1>1, <1>2, OpsInit
    DEF ScriptInv, ScriptKept, ClaimsRight, SealsApart, ClosedByMoves, AnchorsRight

(***************************************************************************)
(* A call of the script.                                                   *)
(***************************************************************************)
ScriptedCall(genesis, g, transition, t) ==
    /\ Extends(genesis, g, transition, t)
    /\ genesis.prev = 0 /\ DOMAIN genesis.outs = {1}
    /\ genesis.outs[1].seal \in Kept \cap AliceSeals
    /\ g \notin DOMAIN ops => genesis.outs[1].seal \notin Assigned
    /\ t \notin DOMAIN ops
    /\ transition.outs[1].seal \in Fresh
    /\ \/ DOMAIN transition.outs = {1}
       \/ /\ DOMAIN transition.outs = {1, 2} /\ transition.outs[2].seal \in Fresh
          /\ transition.outs[1].seal # transition.outs[2].seal
    /\ transition.contract = g /\ transition.prev \in DOMAIN ops'
    /\ (IF ops'[transition.prev].prev = 0 THEN transition.prev
        ELSE ops'[transition.prev].contract) = g
    /\ transition.claims = ops'[transition.prev].outs[1].amount
    /\ \E a : /\ anchors' = anchors \cup {a}
              /\ a.op = t /\ a.seal = ops'[transition.prev].outs[1].seal
    /\ UNCHANGED <<scripted, closing>>

LEMMA ScriptedCallMakes ==
    ASSUME OpsInv,
           NEW supply \in Supplies, NEW aliceSeal \in AliceSeals,
           NEW consume \in {0} \cup DOMAIN ops, NEW prevAmount \in Nat, NEW send \in Sends,
           NEW bob \in Seals, NEW change \in Seals \cup {None}, NEW close,
           aliceSeal \in Kept, bob \in Fresh, change \in Fresh \cup {None}, bob # change,
           Same(ops, issue(supply, aliceSeal)) = {} => aliceSeal \notin Assigned,
           consume # 0 => /\ consume \notin Geneses
                          /\ ops[ops[consume].contract] = issue(supply, aliceSeal),
           prevAmount = IF consume = 0 THEN 0 ELSE ops[consume].outs[1].amount,
           close = IF consume = 0 THEN None ELSE ops[consume].outs[1].seal,
           rgb20_transfer(supply, aliceSeal, consume, prevAmount, send, bob, change, close)
    PROVE  \E genesis, g, transition, t : ScriptedCall(genesis, g, transition, t)
<1> DEFINE genesis == issue(supply, aliceSeal)
           claims == ClaimsOf(supply, consume, prevAmount)
           op(g) == build_transfer_from(g, IF consume # 0 THEN consume ELSE g, claims, send,
                                        bob, change)
<1>1. Fresh \subseteq Seals /\ Fresh \subseteq Kept /\ Fresh \cap Assigned = {}
    BY SealFacts DEF Fresh
<1>2. /\ Sendable(claims, send, change) /\ claims \in Nat \ {0}
      /\ supply \in Nat \ {0} /\ send \in Nat \ {0} /\ aliceSeal \in Seals
      /\ UNCHANGED <<scripted, closing>>
    BY TransferOps
<1>3. PICK g \in DOMAIN ops', t \in DOMAIN ops' :
         /\ Extends(genesis, g, op(g), t)
         /\ \E shown \in Int :
               anchors' = anchors \cup {[op |-> t, seal |-> AnchorSeal(aliceSeal, close),
                                        shown |-> shown]}
    BY ONLY OpsInv, TransferOps,
            rgb20_transfer(supply, aliceSeal, consume, prevAmount, send, bob, change, close)
<1> DEFINE prev == IF consume # 0 THEN consume ELSE g
           transition == op(g)
<1>4. /\ genesis.prev = 0 /\ DOMAIN genesis.outs = {1}
      /\ genesis.outs[1].seal = aliceSeal /\ genesis.outs[1].amount = supply
      /\ genesis.claims = supply
    BY <1>2, IssueFacts
<1>5. /\ g \in Nat /\ prev \in Nat
      /\ ops'[g] = genesis /\ ops'[t] = transition
      /\ DOMAIN ops \subseteq DOMAIN ops' /\ \A k \in DOMAIN ops : ops'[k] = ops[k]
      /\ \A i, j \in DOMAIN ops' : ops'[i] = ops'[j] => i = j
      /\ g \notin DOMAIN ops => \A k \in DOMAIN ops : ops[k] # genesis
  <2> HIDE DEF genesis, op
  <2>1. ops' \in Seq(Operation)
      BY <1>3 DEF Extends
  <2>2. g \in Nat
      BY <2>1
  <2>3. QED
      BY <1>3, <2>2, PrevBefore DEF Extends, OpsInv
<1>6. /\ transition.prev = prev /\ transition.contract = g /\ transition.claims = claims
      /\ Balances(transition) /\ transition.outs[1].seal = bob
      /\ 2 \in DOMAIN transition.outs => change \in Seals /\ transition.outs[2].seal = change
  <2>1. /\ Sendable(claims, send, change) /\ claims \in Nat \ {0} /\ send \in Nat \ {0}
        /\ g \in Nat /\ prev \in Nat
      BY <1>2, <1>5
  <2>2. transition = build_transfer_from(g, prev, claims, send, bob, change)
      OBVIOUS
  <2> HIDE DEF claims, prev, op
  <2> DEFINE o == build_transfer_from(g, prev, claims, send, bob, change)
  <2>3. /\ o.prev = prev /\ o.contract = g /\ o.claims = claims /\ Balances(o)
        /\ o.outs[1].seal = bob
      BY <2>1, TransitionFacts
  <2>4. 2 \in DOMAIN o.outs => change \in Seals /\ o.outs[2].seal = change
      BY <2>1, TransitionFacts
  <2> HIDE DEF o
  <2>5. QED
      BY <2>2, <2>3, <2>4 DEF o
<1> HIDE DEF genesis, op
<1>7. genesis.outs[1].seal \in Kept \cap AliceSeals
    BY <1>4
<1>8. g \notin DOMAIN ops => genesis.outs[1].seal \notin Assigned
  <2>1. ASSUME g \notin DOMAIN ops PROVE Same(ops, genesis) = {}
      BY <1>5, <2>1 DEF Same
  <2>2. QED
      BY <1>4, <2>1 DEF genesis
<1>9. t \notin DOMAIN ops
  <2>1. SUFFICES ASSUME t \in DOMAIN ops PROVE FALSE
      OBVIOUS
  <2>2. ops[t].outs[1].seal = bob
      BY <1>5, <1>6, <2>1
  <2>3. <<t, 1>> \in Outs /\ SealOf(<<t, 1>>) = bob
      BY <2>1, <2>2, OutsFacts DEF SealOf
  <2>4. QED
      BY <1>1, <2>3 DEF Assigned
<1>10. \/ DOMAIN transition.outs = {1}
       \/ /\ DOMAIN transition.outs = {1, 2} /\ transition.outs[2].seal \in Fresh
          /\ transition.outs[1].seal # transition.outs[2].seal
  <2>1. change # None => change \in Fresh
      OBVIOUS
  <2>2. DOMAIN transition.outs = {1} \/ DOMAIN transition.outs = {1, 2}
      BY <1>6 DEF Balances
  <2>3. QED
      BY <1>6, <2>1, <2>2, SealFacts
<1>11. /\ transition.prev \in DOMAIN ops'
       /\ (IF ops'[transition.prev].prev = 0 THEN transition.prev
           ELSE ops'[transition.prev].contract) = g
       /\ transition.claims = ops'[transition.prev].outs[1].amount
       /\ AnchorSeal(aliceSeal, close) = ops'[transition.prev].outs[1].seal
  <2>1. CASE consume = 0
    <3>1. transition.prev = g
        BY <1>6, <2>1
    <3>2. claims = supply /\ AnchorSeal(aliceSeal, close) = aliceSeal
        BY <2>1 DEF ClaimsOf, AnchorSeal
    <3>3. QED
        BY <1>4, <1>5, <1>6, <3>1, <3>2
  <2>2. CASE consume # 0
    <3>1. /\ consume \in DOMAIN ops \ Geneses /\ consume \in DOMAIN ops
          /\ transition.prev = consume /\ ops'[consume] = ops[consume]
          /\ ops[consume].prev # 0 /\ ops[ops[consume].contract] = genesis
        BY <1>5, <1>6, <2>2 DEF Geneses, genesis
    <3>2. ops[consume].contract \in DOMAIN ops
        BY <3>1 DEF OpsInv, Identified, Geneses
    <3>3. ops[consume].contract = g
        BY <1>5, <3>1, <3>2
    <3>4. ops[consume].outs[1].amount \in Nat \ {0} /\ ops[consume].outs[1].seal \in Seals
        BY <3>1, OutFacts
    <3>5. claims = ops[consume].outs[1].amount
        BY <2>2, <3>4 DEF ClaimsOf
    <3>6. AnchorSeal(aliceSeal, close) = ops[consume].outs[1].seal
        BY <2>2, <3>4, SealFacts DEF AnchorSeal
    <3>7. QED
        BY <1>5, <1>6, <3>1, <3>3, <3>5, <3>6
  <2>3. QED
      BY <2>1, <2>2
<1>12. transition.outs[1].seal \in Fresh
    BY <1>6
<1>13. \E a : /\ anchors' = anchors \cup {a}
              /\ a.op = t /\ a.seal = ops'[transition.prev].outs[1].seal
  <2>1. PICK shown \in Int :
           anchors' = anchors \cup {[op |-> t, seal |-> AnchorSeal(aliceSeal, close),
                                    shown |-> shown]}
      BY <1>3
  <2> DEFINE a == [op |-> t, seal |-> AnchorSeal(aliceSeal, close), shown |-> shown]
  <2>2. anchors' = anchors \cup {a} /\ a.op = t /\ a.seal = AnchorSeal(aliceSeal, close)
      BY <2>1
  <2> HIDE DEF a, transition
  <2>3. QED
      BY <1>11, <2>2
<1>14. ScriptedCall(genesis, g, transition, t)
  <2>1. Extends(genesis, g, transition, t)
      BY <1>3
  <2> HIDE DEF transition, prev, claims
  <2>2. QED
      BY <2>1, <1>2, <1>4, <1>6, <1>7, <1>8, <1>9, <1>10, <1>11, <1>12, <1>13
      DEF ScriptedCall
<1>15. QED
    BY <1>14

LEMMA ScriptedCallStep ==
    ASSUME OpsInv, ScriptedTransfer
    PROVE  \E genesis, g, transition, t : ScriptedCall(genesis, g, transition, t)
<1>1. PICK supply \in Supplies, aliceSeal \in AliceSeals \cap Kept,
           consume \in {0} \cup (Valid \ Geneses), send \in Sends, bob \in Fresh,
           change \in Fresh \cup {None} :
        /\ bob # change
        /\ Same(ops, issue(supply, aliceSeal)) = {} => aliceSeal \notin Assigned
        /\ consume # 0 => ops[ops[consume].contract] = issue(supply, aliceSeal)
        /\ rgb20_transfer(supply, aliceSeal, consume,
                          IF consume = 0 THEN 0 ELSE ops[consume].outs[1].amount, send,
                          bob, change,
                          IF consume = 0 THEN None ELSE ops[consume].outs[1].seal)
    BY DEF ScriptedTransfer
<1>2. PICK prevAmount, close :
         /\ prevAmount = IF consume = 0 THEN 0 ELSE ops[consume].outs[1].amount
         /\ close = IF consume = 0 THEN None ELSE ops[consume].outs[1].seal
         /\ rgb20_transfer(supply, aliceSeal, consume, prevAmount, send, bob, change, close)
    BY <1>1
<1>3. Fresh \subseteq Seals
    BY SealFacts DEF Fresh
<1>4. Valid \subseteq DOMAIN ops
    BY ValidDef DEF OpsInv, ValidIsRecursive
<1>5. /\ consume \in {0} \cup DOMAIN ops /\ prevAmount \in Nat
      /\ bob \in Seals /\ change \in Seals \cup {None} /\ aliceSeal \in AliceSeals
      /\ consume # 0 => consume \notin Geneses
    BY <1>1, <1>2, <1>3, <1>4, OutFacts
<1>6. QED
    BY <1>1, <1>2, <1>5, ScriptedCallMakes

LEMMA ScriptedCallKeeps ==
    ASSUME OpsInv, OpsInv', ScriptKept, Valid \subseteq Valid',
           NEW genesis, NEW g, NEW transition, NEW t,
           ScriptedCall(genesis, g, transition, t)
    PROVE  ScriptKept'
<1>1. /\ g \in DOMAIN ops' /\ ops'[g] = genesis /\ t \in DOMAIN ops' /\ ops'[t] = transition
      /\ DOMAIN ops \subseteq DOMAIN ops' /\ DOMAIN ops' \subseteq DOMAIN ops \cup {g, t}
      /\ \A k \in DOMAIN ops : ops'[k] = ops[k]
    BY DEF ScriptedCall, Extends
<1>2. /\ genesis.prev = 0 /\ transition.prev \in DOMAIN ops' /\ t \notin DOMAIN ops
      /\ UNCHANGED <<scripted, closing>>
    BY DEF ScriptedCall
<1>3. transition.prev # 0
  <2>1. DOMAIN ops' = 1..Len(ops') /\ Len(ops') \in Nat
      BY DEF OpsInv, TypeOK
  <2>2. QED
      BY <1>2, <2>1
<1>4. t \notin Geneses' /\ g \in Geneses'
      /\ \A k \in DOMAIN ops : k \in Geneses <=> k \in Geneses'
    BY <1>1, <1>2, <1>3 DEF Geneses
<1>5. \A k \in DOMAIN ops \ Geneses :
         /\ ops[k].prev \in DOMAIN ops /\ Consumed(k)' = Consumed(k)
         /\ ContractOf(ops[k].prev)' = ContractOf(ops[k].prev)
  <2> SUFFICES ASSUME NEW k \in DOMAIN ops \ Geneses
               PROVE  /\ ops[k].prev \in DOMAIN ops /\ Consumed(k)' = Consumed(k)
                      /\ ContractOf(ops[k].prev)' = ContractOf(ops[k].prev)
      OBVIOUS
  <2>1. ops[k].prev \in DOMAIN ops
      BY DEF OpsInv, Identified
  <2>2. ops'[k] = ops[k] /\ ops'[ops[k].prev] = ops[ops[k].prev]
      BY <1>1, <2>1
  <2>3. QED
      BY <2>1, <2>2 DEF Consumed, ContractOf
<1>6. ClaimsRight'
  <2> SUFFICES ASSUME NEW k \in (DOMAIN ops \ Geneses)'
               PROVE  (ContractOf(ops[k].prev) = ops[k].contract
                       /\ ops[k].claims = Consumed(k).amount)'
      BY DEF ClaimsRight
  <2>1. CASE k \in DOMAIN ops
      BY <2>1, <1>1, <1>4, <1>5 DEF ScriptKept, ClaimsRight
  <2>2. CASE k = t
    <3>1. /\ transition.contract = g
          /\ (IF ops'[transition.prev].prev = 0 THEN transition.prev
              ELSE ops'[transition.prev].contract) = g
          /\ transition.claims = ops'[transition.prev].outs[1].amount
        BY DEF ScriptedCall
    <3>2. QED
        BY <2>2, <3>1, <1>1 DEF ContractOf, Consumed
  <2>3. k # g
      BY <1>4
  <2>4. QED
      BY <2>1, <2>2, <2>3, <1>1
<1>7. \A out \in Outs : out \in Outs' /\ SealOf(out)' = SealOf(out)
  <2> SUFFICES ASSUME NEW out \in Outs
               PROVE  out \in Outs' /\ SealOf(out)' = SealOf(out)
      OBVIOUS
  <2>1. PICK k \in DOMAIN ops : out \in {k} \X DOMAIN ops[k].outs
      BY DEF Outs
  <2>2. k \in DOMAIN ops' /\ ops'[k] = ops[k] /\ out[1] = k
      BY <1>1, <2>1
  <2>3. QED
      BY <2>1, <2>2 DEF Outs, SealOf
<1>8. \A out \in Outs' :
         \/ out \in Outs
         \/ /\ out = <<g, 1>> /\ SealOf(out)' = genesis.outs[1].seal
            /\ genesis.outs[1].seal \in Kept \cap AliceSeals
            /\ genesis.outs[1].seal \notin Assigned
         \/ /\ out = <<t, 1>> /\ SealOf(out)' = transition.outs[1].seal
            /\ transition.outs[1].seal \in Fresh
         \/ /\ out = <<t, 2>> /\ SealOf(out)' = transition.outs[2].seal
            /\ transition.outs[2].seal \in Fresh
            /\ transition.outs[1].seal # transition.outs[2].seal
  <2> SUFFICES ASSUME NEW out \in Outs', out \notin Outs
               PROVE  \/ /\ out = <<g, 1>> /\ SealOf(out)' = genesis.outs[1].seal
                         /\ genesis.outs[1].seal \in Kept \cap AliceSeals
                         /\ genesis.outs[1].seal \notin Assigned
                      \/ /\ out = <<t, 1>> /\ SealOf(out)' = transition.outs[1].seal
                         /\ transition.outs[1].seal \in Fresh
                      \/ /\ out = <<t, 2>> /\ SealOf(out)' = transition.outs[2].seal
                         /\ transition.outs[2].seal \in Fresh
                         /\ transition.outs[1].seal # transition.outs[2].seal
      OBVIOUS
  <2>1. PICK k \in DOMAIN ops' : out \in {k} \X DOMAIN ops'[k].outs
      BY DEF Outs
  <2>2. out = <<k, out[2]>> /\ out[1] = k /\ out[2] \in DOMAIN ops'[k].outs
      BY <2>1
  <2>3. k \notin DOMAIN ops
      BY <2>1, <1>1 DEF Outs
  <2>4. CASE k = g
    <3>1. /\ DOMAIN genesis.outs = {1} /\ genesis.outs[1].seal \in Kept \cap AliceSeals
          /\ genesis.outs[1].seal \notin Assigned
        BY <2>3, <2>4 DEF ScriptedCall
    <3>2. out = <<g, 1>> /\ SealOf(out)' = genesis.outs[1].seal
        BY <1>1, <2>2, <2>4, <3>1 DEF SealOf
    <3>3. QED
        BY <3>1, <3>2
  <2>5. CASE k = t
    <3>1. SealOf(out)' = transition.outs[out[2]].seal
        BY <1>1, <2>2, <2>5 DEF SealOf
    <3>2. transition.outs[1].seal \in Fresh
        BY DEF ScriptedCall
    <3>3. \/ DOMAIN transition.outs = {1}
          \/ /\ DOMAIN transition.outs = {1, 2} /\ transition.outs[2].seal \in Fresh
             /\ transition.outs[1].seal # transition.outs[2].seal
        BY DEF ScriptedCall
    <3>4. out[2] \in DOMAIN transition.outs
        BY <1>1, <2>2, <2>5
    <3>5. CASE out[2] = 1
        BY <3>1, <3>2, <3>5, <2>2, <2>5
    <3>6. CASE out[2] = 2
        BY <3>1, <3>3, <3>4, <3>6, <2>2, <2>5
    <3>7. QED
        BY <3>3, <3>4, <3>5, <3>6
  <2>6. QED
      BY <1>1, <2>3, <2>4, <2>5
<1>9. SealsApart'
  <2>1. /\ Fresh \subseteq Kept /\ Fresh \cap AliceSeals = {}
        /\ \A out \in Outs : SealOf(out) \in Kept /\ SealOf(out) \notin Fresh
      BY DEF Fresh, Assigned, ScriptKept, SealsApart
  <2>2. \A out \in Outs' : SealOf(out)' \in Kept
      BY <1>7, <1>8, <2>1
  <2>3. ASSUME NEW x \in Outs', NEW y \in Outs', SealOf(x)' = SealOf(y)'
        PROVE  x = y
    <3>1. CASE x \in Outs /\ y \in Outs
      <4>1. SealOf(x) = SealOf(y)
          BY <1>7, <2>3, <3>1
      <4>2. QED
          BY <3>1, <4>1 DEF ScriptKept, SealsApart
    <3>2. \A z \in Outs : SealOf(z)' \in Assigned
        BY <1>7 DEF Assigned
    <3>3. \A c \in Fresh : c \notin Assigned /\ c \notin AliceSeals
        BY DEF Fresh
    <3>4. CASE x \in Outs /\ y \notin Outs
        BY <1>8, <2>3, <3>2, <3>3, <3>4
    <3>5. CASE x \notin Outs /\ y \in Outs
        BY <1>8, <2>3, <3>2, <3>3, <3>5
    <3>6. CASE x \notin Outs /\ y \notin Outs
        BY <1>8, <2>3, <3>3, <3>6
    <3>7. QED
        BY <3>1, <3>4, <3>5, <3>6
  <2>4. QED
      BY <2>2, <2>3 DEF SealsApart
<1>10. ClosedByMoves'
  <2> SUFFICES ASSUME NEW c \in Kept, ~IsOpen(c)'
               PROVE  (/\ closing[c] \in Valid \ Geneses
                       /\ c = Consumed(closing[c]).seal)'
      BY DEF ClosedByMoves, Kept
  <2>1. PICK k : k = closing[c] /\ k = closing'[c] /\ ~IsOpen(c)
      BY <1>2 DEF IsOpen
  <2>2. k \in Valid \ Geneses /\ c = Consumed(k).seal
      BY <2>1 DEF ScriptKept, ClosedByMoves
  <2>3. k \in DOMAIN ops \ Geneses
      BY <2>2, ValidFacts
  <2>4. k \in Valid' \ Geneses' /\ Consumed(k)' = Consumed(k)
      BY <1>4, <1>5, <2>2, <2>3
  <2>5. Consumed(k)'.seal = c
      BY <2>2, <2>4
  <2>6. QED
      BY <2>1, <2>4, <2>5 DEF Consumed
<1>11. AnchorsRight'
  <2>1. PICK a : /\ anchors' = anchors \cup {a}
                 /\ a.op = t /\ a.seal = ops'[transition.prev].outs[1].seal
      BY DEF ScriptedCall
  <2>2. ASSUME NEW b \in anchors
        PROVE  b.op \in DOMAIN ops' \ Geneses' /\ b.seal = Consumed(b.op)'.seal
    <3>1. b.op \in DOMAIN ops \ Geneses /\ b.seal = Consumed(b.op).seal
        BY DEF ScriptKept, AnchorsRight
    <3>2. QED
        BY <3>1, <1>1, <1>4, <1>5
  <2>3. a.op \in DOMAIN ops' \ Geneses' /\ a.seal = Consumed(t)'.seal
      BY <1>1, <1>4, <2>1 DEF Consumed
  <2>4. QED
      BY <2>1, <2>2, <2>3 DEF AnchorsRight, Consumed
<1>12. QED
    BY <1>6, <1>9, <1>10, <1>11 DEF ScriptKept

(***************************************************************************)
(* A spend of the script closes at most one coin that is kept, for a       *)
(* transfer of what is on it.                                              *)
(***************************************************************************)
SpendForTransfer(coins, k) ==
    \A c \in coins \cap Kept :
        /\ k \in DOMAIN ops \ Geneses /\ ops[k].prev \in Valid
        /\ c = Consumed(k).seal

LEMMA ScriptedSpendKeeps ==
    ASSUME OpsInv, OpsInv', ScriptKept, Valid \subseteq Valid',
           NEW coins, NEW k, Spend(coins, k), SpendForTransfer(coins, k)
    PROVE  ScriptKept'
<1>1. /\ ops' = ops /\ anchors' = anchors
      /\ \A c \in Coins : closing'[c] = IF c \in coins THEN k ELSE closing[c]
    BY DEF Spend
<1>2. ClaimsRight' /\ SealsApart' /\ AnchorsRight'
    BY <1>1 DEF ScriptKept, ClaimsRight, SealsApart, AnchorsRight, ContractOf, Consumed,
                Geneses, Outs, SealOf
<1>3. ASSUME NEW c \in Kept, ~IsOpen(c)'
      PROVE  (closing[c] \in Valid \ Geneses /\ c = Consumed(closing[c]).seal)'
  <2>1. Geneses' = Geneses /\ c \in Coins
      BY <1>1, SealFacts DEF Geneses
  <2>2. PICK j : j = closing'[c]
      OBVIOUS
  <2>3. Consumed(j)' = Consumed(j)
      BY <1>1 DEF Consumed
  <2>4. CASE c \notin coins
    <3>1. j = closing[c] /\ ~IsOpen(c)
        BY <1>1, <1>3, <2>1, <2>2, <2>4 DEF IsOpen
    <3>2. j \in Valid \ Geneses /\ c = Consumed(j).seal
        BY <3>1 DEF ScriptKept, ClosedByMoves
    <3>3. QED
        BY <2>1, <2>2, <2>3, <3>2 DEF Consumed
  <2>5. CASE c \in coins
    <3>1. j = k /\ k \in DOMAIN ops \ Geneses /\ ops[k].prev \in Valid /\ c = Consumed(k).seal
        BY <1>1, <2>1, <2>2, <2>5 DEF SpendForTransfer
    <3>2. ContractOf(ops[k].prev) = ops[k].contract /\ ops[k].claims = Consumed(k).amount
        BY <3>1 DEF ScriptKept, ClaimsRight
    <3>3. Moves(k)'
        BY <1>1, <2>1, <2>2, <3>1, <3>2 DEF Moves, Consumed, ContractOf
    <3>4. ValidIsRecursive'
      <4>1. TypeOK'
          BY DEF OpsInv
      <4>2. QED
          BY <4>1, ValidDef, PTL
    <3>5. k \in Valid'
        BY <1>1, <3>1, <3>3, <3>4 DEF ValidIsRecursive
    <3>6. QED
        BY <2>1, <2>2, <2>3, <3>1, <3>5 DEF Consumed
  <2>6. QED
      BY <2>4, <2>5
<1>4. ClosedByMoves'
    BY <1>3 DEF ClosedByMoves, Kept
<1>5. QED
    BY <1>2, <1>4 DEF ScriptKept

LEMMA ScriptStep == ScriptInv /\ [Next]_vars => ScriptInv'
<1> SUFFICES ASSUME ScriptInv, [Next]_vars PROVE ScriptInv'
    OBVIOUS
<1>1. OpsInv /\ OpsInv'
    BY OpsStep DEF ScriptInv
<1>2. Valid \subseteq Valid'
    BY <1>1, StepGrows, ValidGrows
<1>3. SUFFICES ASSUME scripted' PROVE ScriptKept'
    BY <1>1 DEF ScriptInv
<1>4. CASE UNCHANGED vars
  <2>1. ScriptKept
      BY <1>3, <1>4 DEF ScriptInv, vars
  <2>2. ScriptKept' = ScriptKept
      BY <1>4 DEF vars, ScriptKept, ClaimsRight, SealsApart, ClosedByMoves, AnchorsRight,
                  ContractOf, Consumed, Geneses, Outs, SealOf, IsOpen, Valid, Moves
  <2>3. QED
      BY <2>1, <2>2
<1>5. CASE Next
  <2>1. scripted' = scripted
    <3>1. Transfer \/ ScriptedTransfer => scripted' = scripted
        BY <1>1, TransferStep
    <3>2. QED
        BY <1>1, <1>5, <3>1, StepCases DEF SpendOf, Spend, vars
  <2>2. ScriptKept /\ ScriptNext
      BY <1>3, <1>5, <2>1 DEF ScriptInv, Next
  <2>3. CASE ScriptedTransfer
      BY <1>1, <1>2, <2>2, <2>3, ScriptedCallStep, ScriptedCallKeeps
  <2>4. Funding \cap Kept = {}
      BY SealFacts DEF Funding
  <2>5. CASE Payment
    <3>1. PICK funding \in SUBSET Funding : Spend(funding, Nothing)
        BY <2>5 DEF Payment
    <3>2. SpendForTransfer(funding, Nothing)
        BY <2>4, <3>1 DEF SpendForTransfer
    <3>3. QED
        BY <1>1, <1>2, <2>2, <3>1, <3>2, ScriptedSpendKeeps
  <2>6. ASSUME NEW k \in Printed, ScriptedSpend(k)
        PROVE  ScriptKept'
    <3>1. k \in DOMAIN ops \ Geneses
        BY <2>2 DEF Printed, ScriptKept, AnchorsRight
    <3>2. PICK coins : Spend(coins, k) /\ coins \cap Kept \subseteq {Consumed(k).seal}
        BY <2>4, <2>6 DEF ScriptedSpend, WitnessTx, HtlcSpend
    <3>3. SpendForTransfer(coins, k)
        BY <2>6, <3>1, <3>2 DEF SpendForTransfer, ScriptedSpend
    <3>4. QED
        BY <1>1, <1>2, <2>2, <3>2, <3>3, ScriptedSpendKeeps
  <2>7. QED
      BY <2>2, <2>3, <2>5, <2>6 DEF ScriptNext
<1>6. QED
    BY <1>4, <1>5

LEMMA ScriptInvariant == Spec => []ScriptInv
BY ScriptInit, ScriptStep, PTL DEF Spec
-----------------------------------------------------------------------------
LEMMA NothingUnspentIsClosed ==
    ASSUME OpsInv, ScriptKept, NEW g \in Geneses
    PROVE  Unspent(ValidOf(g)) = LiveOf(g)
<1>1. ASSUME NEW out \in Unspent(ValidOf(g))
      PROVE  out \in LiveOf(g)
  <2>1. out \in Outs /\ out[1] \in Valid /\ ContractOf(out[1]) = g
      BY DEF Unspent, ValidOf
  <2>2. SUFFICES ASSUME SealOf(out) \in Coins, ~IsOpen(SealOf(out)) PROVE FALSE
      BY <2>1 DEF LiveOf, Live
  <2>3. PICK j : j = closing[SealOf(out)]
      OBVIOUS
  <2>4. j \in Valid \ Geneses /\ SealOf(out) = Consumed(j).seal
      BY <2>1, <2>2, <2>3 DEF ScriptKept, SealsApart, ClosedByMoves
  <2>5. /\ ops[j].prev \in DOMAIN ops /\ ContractOf(j) = ContractOf(ops[j].prev)
      BY <2>4, ValidFacts
  <2>6. out = <<ops[j].prev, 1>>
    <3>1. <<ops[j].prev, 1>> \in Outs /\ SealOf(<<ops[j].prev, 1>>) = SealOf(out)
        BY <2>4, <2>5, OutsFacts DEF SealOf, Consumed
    <3>2. QED
        BY <2>1, <3>1 DEF ScriptKept, SealsApart
  <2>7. j \in ValidOf(g)
      BY <2>1, <2>4, <2>5, <2>6 DEF ValidOf
  <2>8. QED
      BY <2>6, <2>7 DEF Unspent
<1>2. QED
    BY <1>1, LiveIsUnspent

(***************************************************************************)
(* With the script's arguments nothing is lost on the way, whatever else   *)
(* the wallet pays and whoever closes a seal first.                        *)
(***************************************************************************)
THEOREM ScriptConserves == Spec => []NothingLost
<1>1. ScriptInv => NothingLost
  <2> SUFFICES ASSUME ScriptInv, scripted, NEW g \in Geneses
               PROVE  Circulating(Held[g]) = ops[g].claims
      BY DEF NothingLost
  <2>1. OpsInv /\ ScriptKept
      BY DEF ScriptInv
  <2>2. QED
      BY <2>1, LiveTotal, NothingUnspentIsClosed, ContractTotal
<1>2. QED
    BY <1>1, ScriptInvariant, PTL

(***************************************************************************)
(* With the script's arguments the anchors that `verify' accepts are those *)
(* of the transfers that have moved the asset.                             *)
(***************************************************************************)
THEOREM ScriptHopsMove == Spec => []HopsMove
<1>1. ScriptInv => HopsMove
  <2> SUFFICES ASSUME ScriptInv, scripted, NEW a \in anchors
               PROVE  Verifies(a) <=> a.op \in Valid
      BY DEF HopsMove
  <2>1. OpsInv /\ ScriptKept
      BY DEF ScriptInv
  <2>2. PICK k : k = a.op
      OBVIOUS
  <2>3. k \in DOMAIN ops \ Geneses /\ a.seal = Consumed(k).seal
      BY <2>1, <2>2 DEF ScriptKept, AnchorsRight
  <2>4. ASSUME Verifies(a) PROVE k \in Valid
    <3>1. closing[a.seal] = k /\ a.seal \in Kept
      <4>1. ops[k].prev \in DOMAIN ops
          BY <2>1, <2>3 DEF OpsInv, Identified
      <4>2. <<ops[k].prev, 1>> \in Outs /\ SealOf(<<ops[k].prev, 1>>) = a.seal
          BY <2>1, <2>3, <4>1, OutsFacts DEF SealOf, Consumed
      <4>3. QED
          BY <2>1, <2>2, <2>4, <4>2 DEF Verifies, ScriptKept, SealsApart
    <3>2. ~IsOpen(a.seal)
        BY <2>1, <2>3, <3>1, PrevBefore DEF IsOpen, Open, OpsInv
    <3>3. QED
        BY <2>1, <3>1, <3>2 DEF ScriptKept, ClosedByMoves
  <2>5. ASSUME k \in Valid PROVE Verifies(a)
    <3>1. Moves(k)
        BY <2>1, <2>3, <2>5, ValidFacts
    <3>2. QED
        BY <2>2, <2>3, <3>1 DEF Moves, Verifies
  <2>6. QED
      BY <2>2, <2>4, <2>5
<1>2. QED
    BY <1>1, ScriptInvariant, PTL
-----------------------------------------------------------------------------
(***************************************************************************)
(* The ledger.  What a contract gains on the outpoints that stay is no     *)
(* more than it had on those that are closed when it has no more in all.   *)
(***************************************************************************)
LEMMA LedgerSums ==
    /\ \A f, S : Ledger!SumFunctionOnSet(f, S) = SumFunctionOnSet(f, S)
    /\ \A f : Ledger!SumFunction(f) = SumFunctionOnSet(f, DOMAIN f)
BY DEF Ledger!SumFunctionOnSet, SumFunctionOnSet, Ledger!SumFunction, SumFunction,
       Ledger!FoldFunctionOnSet, FoldFunctionOnSet, Ledger!MapThenFoldSet, MapThenFoldSet

LEMMA LedgerCardinality == \A S : Ledger!Cardinality(S) = Cardinality(S)
BY DEF Ledger!Cardinality, Cardinality

LEMMA ClosedBalance ==
    ASSUME NEW closed \in SUBSET Seals, NEW before, NEW after,
           \A s \in Seals : before[s] \in Nat /\ after[s] \in Nat,
           \A s \in closed : after[s] = 0,
           \A s \in Seals \ closed : after[s] >= before[s],
           SumFunctionOnSet(after, Seals) =< SumFunctionOnSet(before, Seals)
    PROVE  Ledger!Arrived(before, after, closed) =< Ledger!Released(before, closed)
<1> DEFINE stays == Seals \ closed
           gain == [s \in stays |-> after[s] - before[s]]
<1>1. IsFiniteSet(Seals) /\ IsFiniteSet(stays) /\ IsFiniteSet(closed)
    BY TransferArguments, FS_Subset
<1>2. /\ stays \cap closed = {} /\ stays \cup closed = Seals
      /\ \A s \in stays : /\ gain[s] \in Nat /\ before[s] \in Nat /\ after[s] \in Nat
                          /\ after[s] = gain[s] + before[s]
    OBVIOUS
<1>3. /\ Ledger!Arrived(before, after, closed) = SumFunctionOnSet(gain, stays)
      /\ Ledger!Released(before, closed) = SumFunctionOnSet(before, closed)
    BY LedgerSums DEF Ledger!Arrived, Ledger!Released
<1> HIDE DEF stays, gain
<1>4. SumFunctionOnSet(after, stays)
          = SumFunctionOnSet(gain, stays) + SumFunctionOnSet(before, stays)
    BY <1>1, <1>2, SumPlus
<1>5. SumFunctionOnSet(after, stays \cup closed)
          = SumFunctionOnSet(after, stays) + SumFunctionOnSet(after, closed)
    BY <1>1, <1>2, SumUnion
<1>6. SumFunctionOnSet(before, stays \cup closed)
          = SumFunctionOnSet(before, stays) + SumFunctionOnSet(before, closed)
    BY <1>1, <1>2, SumUnion
<1>7. SumFunctionOnSet(after, closed) = 0
    BY <1>1, SumZero
<1>8. /\ SumFunctionOnSet(gain, stays) \in Nat /\ SumFunctionOnSet(before, stays) \in Nat
      /\ SumFunctionOnSet(before, closed) \in Nat
    BY <1>1, <1>2, SumType
<1>9. /\ SumFunctionOnSet(after, Seals) = SumFunctionOnSet(after, stays)
      /\ SumFunctionOnSet(before, Seals)
             = SumFunctionOnSet(before, stays) + SumFunctionOnSet(before, closed)
  <2>1. SumFunctionOnSet(after, stays) \in Nat
      BY <1>1, <1>2, SumType
  <2>2. stays \cup closed = Seals
      BY <1>2
  <2>3. /\ SumFunctionOnSet(after, Seals) = SumFunctionOnSet(after, stays \cup closed)
        /\ SumFunctionOnSet(before, Seals) = SumFunctionOnSet(before, stays \cup closed)
      BY ONLY <2>2, Zenon
  <2>4. QED
      BY ONLY <1>5, <1>6, <1>7, <2>1, <2>3
<1>10. QED
    BY <1>3, <1>4, <1>8, <1>9

LEMMA NothingArrives ==
    ASSUME NEW closed \in SUBSET Seals, NEW before, NEW after,
           \A s \in Seals \ closed : before[s] \in Nat /\ after[s] = before[s]
    PROVE  Ledger!Arrived(before, after, closed) = 0
<1> DEFINE stays == Seals \ closed
           gain == [s \in stays |-> after[s] - before[s]]
<1>1. IsFiniteSet(stays)
    BY TransferArguments, FS_Subset
<1>2. \A s \in stays : gain[s] = 0
    OBVIOUS
<1>3. Ledger!Arrived(before, after, closed) = SumFunctionOnSet(gain, stays)
    BY LedgerSums DEF Ledger!Arrived
<1> HIDE DEF stays, gain
<1>4. QED
    BY <1>1, <1>2, <1>3, SumZero

(***************************************************************************)
(* What is held, as totals of the allocations on each outpoint.            *)
(***************************************************************************)
On(g, s) == { out \in Live : ContractOf(out[1]) = g /\ SealOf(out) = s }

LEMMA HeldIs == Held = [g \in Geneses |-> [s \in Seals |-> Total(On(g, s))]]
BY DEF Held, On, Total

HeldRight ==
    /\ DOMAIN Held = Geneses
    /\ \A g \in Geneses : DOMAIN Held[g] = Seals /\ Held[g] = [s \in Seals |-> Held[g][s]]
    /\ \A g \in Geneses, s \in Seals :
          /\ Held[g][s] \in Nat /\ Held[g][s] = Total(On(g, s))
          /\ On(g, s) \in SUBSET Outs
          /\ On(g, s) = {} => Held[g][s] = 0

LEMMA HeldFacts == OpsInv => HeldRight
<1> SUFFICES ASSUME OpsInv PROVE HeldRight
    OBVIOUS
<1>1. \A g, s : On(g, s) \in SUBSET Outs
    BY DEF On, Live
<1>2. \A g, s : Total(On(g, s)) \in Nat
    BY <1>1, TotalFacts
<1>3. Total({}) = 0
    BY SumEmpty DEF Total
<1>4. QED
    BY <1>1, <1>2, <1>3, HeldIs DEF HeldRight

OutsRight ==
    /\ IsFiniteSet(Outs)
    /\ \A out \in Outs :
          /\ out = <<out[1], out[2]>> /\ out[1] \in DOMAIN ops /\ out[2] \in DOMAIN ops[out[1]].outs
          /\ SealOf(out) \in Seals /\ Amount[out] \in Nat

LEMMA OutsAlways == OpsInv => OutsRight
BY OutsFacts DEF OutsRight

(***************************************************************************)
(* A call makes nothing valid but a new contract: a transition that is new *)
(* is not anchored yet.                                                    *)
(***************************************************************************)
LEMMA TransferBound ==
    ASSUME OpsInv, Transfer \/ ScriptedTransfer
    PROVE  Len(ops') =< MaxOps + MaxScripted
<1>1. Len(ops') =< IF scripted THEN MaxScripted ELSE MaxOps
    BY CallFacts DEF rgb20_transfer
<1>2. Len(ops') \in Nat
  <2>1. ops' \in Seq(Operation)
      BY TransferStep DEF Extends
  <2>2. QED
      BY <2>1
<1>3. QED
    BY <1>1, <1>2, TransferArguments

LEMMA CallAddsContract ==
    ASSUME OpsInv, OpsInv', Transfer \/ ScriptedTransfer
    PROVE  \E g \in Geneses' :
             /\ g \in 1..(MaxOps + MaxScripted) /\ DOMAIN ops'[g].outs = {1}
             /\ Geneses' = Geneses \cup {g} /\ Valid' = Valid \cup {g}
             /\ g \in DOMAIN ops => g \in Geneses
<1>1. PICK genesis \in Operation, transition \in Operation, g \in DOMAIN ops', t \in DOMAIN ops' :
         /\ Extends(genesis, g, transition, t)
         /\ genesis.prev = 0 /\ genesis.contract = 0
         /\ Balances(genesis) /\ DOMAIN genesis.outs = {1}
         /\ transition.contract = g /\ Balances(transition)
         /\ transition.prev \in DOMAIN ops \cup {g}
         /\ \E a \in [op : {t}, seal : Seals, shown : Int] : anchors' = anchors \cup {a}
    BY TransferStep
<1>2. closing' = closing /\ Grows
    BY TransferStep, <1>1 DEF Grows, Extends
<1>3. /\ ops'[g] = genesis /\ ops'[t] = transition
      /\ DOMAIN ops \subseteq DOMAIN ops' /\ DOMAIN ops' \subseteq DOMAIN ops \cup {g, t}
      /\ \A k \in DOMAIN ops : ops'[k] = ops[k]
    BY <1>1 DEF Extends
<1>4. /\ DOMAIN ops' = 1..Len(ops') /\ Len(ops') \in Nat
      /\ DOMAIN ops = 1..Len(ops) /\ Len(ops) \in Nat
    BY DEF OpsInv, TypeOK
<1>5. g \in 1..(MaxOps + MaxScripted)
    BY <1>4, TransferBound, TransferArguments
<1>6. transition.prev # 0
    BY <1>1, <1>4
<1>7. Geneses' = Geneses \cup {g} /\ (g \in DOMAIN ops => g \in Geneses)
    BY <1>1, <1>3, <1>6 DEF Geneses
<1>8. ValidIsRecursive /\ ValidIsRecursive'
  <2>1. TypeOK /\ TypeOK'
      BY DEF OpsInv
  <2>2. QED
      BY <2>1, ValidDef, PTL
<1>9. Valid \subseteq Valid'
    BY <1>2, ValidGrows
<1>10. g \in Valid'
    BY <1>1, <1>3, <1>8 DEF ValidIsRecursive
<1>11. ASSUME NEW k \in Valid', k \notin DOMAIN ops PROVE k = g
  <2>1. SUFFICES ASSUME k = t, k # g PROVE FALSE
      BY <1>3, <1>8, <1>11 DEF ValidIsRecursive
  <2>2. Moves(k)'
      BY <1>3, <1>6, <1>8, <2>1 DEF ValidIsRecursive
  <2>3. Consumed(k)'.seal \in Coins /\ closing'[Consumed(k)'.seal] = k
      BY <2>2 DEF Moves
  <2>4. k \in {Open, Nothing} \cup DOMAIN ops
      BY <1>2, <2>3 DEF OpsInv, TypeOK
  <2>5. k \in Nat \ {0}
      BY <1>1, <1>4, <2>1
  <2>6. QED
      BY <1>11, <2>4, <2>5 DEF Open, Nothing
<1>12. ASSUME NEW k \in Valid', k \in DOMAIN ops PROVE k \in Valid
  <2> DEFINE X == { j \in DOMAIN ops : j \in Valid' /\ j \notin Valid }
  <2>1. SUFFICES ASSUME X # {} PROVE FALSE
      BY <1>12
  <2>2. X \in SUBSET Nat
      BY <1>4
  <2>3. PICK j \in X : \A i \in X : j =< i
      BY <2>1, <2>2, LeastExists
  <2>4. /\ ops'[j] = ops[j] /\ ops[j].prev < j /\ j \in Nat /\ ops[j].prev \in Nat
        /\ ops[j].prev # 0 => ops[j].prev \in DOMAIN ops
      BY <1>3, PrevBefore DEF OpsInv
  <2>5. ops[j].prev # 0
      BY <1>8 DEF ValidIsRecursive
  <2>6. Moves(j)' /\ ops[j].prev \in Valid'
      BY <1>3, <1>8, <2>4, <2>5 DEF ValidIsRecursive
  <2>7. Moves(j)
    <3>1. ops'[ops[j].prev] = ops[ops[j].prev]
        BY <1>3, <2>4, <2>5
    <3>2. QED
        BY <1>2, <2>4, <2>6, <3>1 DEF Moves, Consumed, ContractOf
  <2>8. ops[j].prev \in Valid
      BY <2>3, <2>4, <2>5, <2>6
  <2>9. QED
      BY <1>8, <2>7, <2>8 DEF ValidIsRecursive
<1>13. Valid' = Valid \cup {g}
    BY <1>9, <1>10, <1>11, <1>12
<1>14. QED
    BY <1>1, <1>3, <1>5, <1>7, <1>10, <1>13

LEMMA OutsGrow ==
    ASSUME OpsInv, OpsInv', Grows
    PROVE  /\ \A out : out \in Outs <=> out \in Outs' /\ out[1] \in DOMAIN ops
           /\ \A out \in Outs : /\ SealOf(out)' = SealOf(out) /\ Amount'[out] = Amount[out]
                                /\ ContractOf(out[1])' = ContractOf(out[1])
<1>1. DOMAIN ops \subseteq DOMAIN ops' /\ \A k \in DOMAIN ops : ops'[k] = ops[k]
    BY DEF Grows
<1>2. ASSUME NEW out
      PROVE  out \in Outs <=> out \in Outs' /\ out[1] \in DOMAIN ops
  <2>1. out \in Outs <=> \E k \in DOMAIN ops : out \in {k} \X DOMAIN ops[k].outs
      BY DEF Outs
  <2>2. out \in Outs' <=> \E k \in DOMAIN ops' : out \in {k} \X DOMAIN ops'[k].outs
      BY DEF Outs
  <2>3. \A k : out \in {k} \X DOMAIN ops[k].outs => out[1] = k
      OBVIOUS
  <2>4. \A k : out \in {k} \X DOMAIN ops'[k].outs => out[1] = k
      OBVIOUS
  <2>5. QED
      BY <1>1, <2>1, <2>2, <2>3, <2>4
<1>3. ASSUME NEW out \in Outs
      PROVE  /\ SealOf(out)' = SealOf(out) /\ Amount'[out] = Amount[out]
             /\ ContractOf(out[1])' = ContractOf(out[1])
  <2>1. out \in Outs' /\ out[1] \in DOMAIN ops /\ ops'[out[1]] = ops[out[1]]
      BY <1>1, <1>2
  <2>2. Amount'[out] = ops'[out[1]].outs[out[2]].amount
      BY <2>1 DEF Amount
  <2>3. Amount[out] = ops[out[1]].outs[out[2]].amount
      BY DEF Amount
  <2>4. QED
      BY <2>1, <2>2, <2>3 DEF SealOf, ContractOf
<1>4. QED
    BY <1>2, <1>3

LEMMA CallKeepsLedger ==
    ASSUME OpsInv, OpsInv', Transfer \/ ScriptedTransfer
    PROVE  Ledger!Next \/ UNCHANGED Held
<1>1. PICK g \in Geneses' :
         /\ g \in 1..(MaxOps + MaxScripted) /\ DOMAIN ops'[g].outs = {1}
         /\ Geneses' = Geneses \cup {g} /\ Valid' = Valid \cup {g}
         /\ g \in DOMAIN ops => g \in Geneses
    BY CallAddsContract
<1>2. closing' = closing /\ Grows
  <2>1. PICK genesis, n, transition, t : Extends(genesis, n, transition, t)
      BY TransferStep
  <2>2. QED
      BY <2>1, TransferStep DEF Grows, Extends
<1>3. HeldRight /\ HeldRight' /\ OutsRight'
  <2>1. OpsInv' => HeldRight' /\ OutsRight'
      BY HeldFacts, OutsAlways, PTL
  <2>2. QED
      BY <2>1, HeldFacts
<1>4. /\ Geneses \subseteq DOMAIN ops /\ Valid \subseteq DOMAIN ops
      /\ Geneses \subseteq Valid
      /\ \A k \in Valid : ContractOf(k) \in Geneses
  <2>1. \A k \in DOMAIN ops : ContractOf(k) \in Geneses
      BY DEF OpsInv, Identified, ContractOf, Geneses
  <2>2. QED
      BY <2>1, ValidFacts DEF Geneses
<1>5. \A c : IsOpen(c)' <=> IsOpen(c)
    BY <1>2 DEF IsOpen
<1>6. ASSUME NEW out \in Live', out \notin Live
      PROVE  out[1] = g /\ g \notin DOMAIN ops
  <2>1. out \in Outs' /\ out[1] \in Valid \cup {g}
        /\ (SealOf(out)' \in Coins => IsOpen(SealOf(out))')
      BY <1>1 DEF Live
  <2>2. SUFFICES ASSUME out[1] \in DOMAIN ops, out[1] \in Valid PROVE FALSE
      BY <1>1, <1>4, <2>1
  <2>3. out \in Outs /\ SealOf(out)' = SealOf(out)
      BY <1>2, <2>1, <2>2, OutsGrow
  <2>4. QED
      BY <1>2, <1>6, <2>1, <2>2, <2>3 DEF Live, IsOpen
<1>7. ASSUME NEW out \in Live PROVE out \in Live'
  <2>1. out \in Outs /\ out[1] \in Valid /\ (SealOf(out) \in Coins => IsOpen(SealOf(out)))
      BY DEF Live
  <2>2. out \in Outs' /\ SealOf(out)' = SealOf(out)
      BY <1>2, <2>1, OutsGrow
  <2>3. QED
      BY <1>1, <1>2, <2>1, <2>2 DEF Live, IsOpen
<1>8. ASSUME NEW c \in Geneses, NEW s \in Seals
      PROVE  Held'[c][s] = Held[c][s]
  <2> DEFINE X == On(c, s)
  <2>1. On(c, s)' = X
    <3>1. ASSUME NEW out \in Live, NEW out2 \in Live', out2 = out
          PROVE  ContractOf(out2[1])' = ContractOf(out[1]) /\ SealOf(out2)' = SealOf(out)
        BY <1>2, <3>1, OutsGrow DEF Live
    <3>2. ASSUME NEW out \in Live', out \notin Live PROVE ContractOf(out[1])' # c
      <4>1. out[1] = g /\ g \notin DOMAIN ops /\ g \in Geneses'
          BY <1>1, <1>6, <3>2
      <4>2. ContractOf(out[1])' = g
          BY <4>1 DEF ContractOf, Geneses
      <4>3. QED
          BY <1>4, <4>1, <4>2
    <3>3. On(c, s)' = { out \in Live' : ContractOf(out[1])' = c /\ SealOf(out)' = s }
        BY DEF On
    <3>4. X = { out \in Live : ContractOf(out[1]) = c /\ SealOf(out) = s }
        BY DEF On
    <3> HIDE DEF X
    <3>5. \A out : out \in On(c, s)' <=> out \in X
        BY <1>7, <3>1, <3>2, <3>3, <3>4
    <3>6. QED
        BY <3>5
  <2>2. /\ Held[c][s] = SumFunctionOnSet(Amount, X)
        /\ X \in SUBSET Outs
      BY <1>3 DEF HeldRight, Total
  <2>3. Held'[c][s] = SumFunctionOnSet(Amount', X)
    <3>1. c \in Geneses'
        BY <1>1
    <3>2. Held'[c][s] = Total(On(c, s))'
        BY <1>3, <3>1 DEF HeldRight
    <3>3. Total(On(c, s))' = SumFunctionOnSet(Amount', On(c, s)')
        BY DEF Total
    <3> HIDE DEF X
    <3>4. SumFunctionOnSet(Amount', On(c, s)') = SumFunctionOnSet(Amount', X)
        BY ONLY <2>1, Zenon
    <3>5. QED
        BY ONLY <3>2, <3>3, <3>4
  <2>4. /\ IsFiniteSet(X) /\ \A x \in X : Amount[x] \in Nat
        /\ \A x \in X : Amount'[x] = Amount[x]
      BY <1>2, <2>2, TotalFacts, OutsGrow
  <2> HIDE DEF X
  <2>5. SumFunctionOnSet(Amount', X) = SumFunctionOnSet(Amount, X)
      BY <2>4, SumSame
  <2>6. QED
      BY <2>2, <2>3, <2>5
<1>9. ASSUME NEW c \in Geneses
      PROVE  Held'[c] = Held[c]
  <2>1. c \in Geneses'
      BY <1>1
  <2>2. Held'[c] = [s \in Seals |-> Held'[c][s]] /\ Held[c] = [s \in Seals |-> Held[c][s]]
      BY <1>3, <2>1 DEF HeldRight
  <2>3. QED
      BY <1>8, <2>2
<1>10. CASE g \in DOMAIN ops
  <2>1. Geneses' = Geneses
      BY <1>1, <1>10
  <2>2. DOMAIN Held = Geneses /\ DOMAIN Held' = Geneses
      BY <1>3, <2>1 DEF HeldRight
  <2>3. Held = [c \in Geneses |-> Held[c]] /\ Held' = [c \in Geneses |-> Held'[c]]
    <3>1. Held = [c \in Geneses |-> Held[c]]
        BY DEF Held
    <3>2. Held' = [c \in Geneses' |-> Held'[c]]
        BY DEF Held
    <3>3. QED
        BY <2>1, <3>1, <3>2
  <2>4. QED
      BY <1>9, <2>3
<1>11. CASE g \notin DOMAIN ops
  <2> DEFINE there == { s \in Seals : Held'[g][s] > 0 }
  <2>1. PICK seal : seal = SealOf(<<g, 1>>)'
      OBVIOUS
  <2>2. ASSUME NEW s \in Seals, s # seal PROVE Held'[g][s] = 0
    <3>1. SUFFICES ASSUME NEW out \in On(g, s)' PROVE FALSE
        BY <1>1, <1>3 DEF HeldRight
    <3>2. out \in Live' /\ ContractOf(out[1])' = g /\ SealOf(out)' = s
        BY DEF On
    <3>3. out \notin Live
      <4>1. ASSUME out \in Live PROVE FALSE
        <5>1. out \in Outs /\ out[1] \in Valid
            BY <4>1 DEF Live
        <5>2. ContractOf(out[1]) = g
            BY <1>2, <3>2, <5>1, OutsGrow
        <5>3. QED
            BY <1>4, <1>11, <5>1, <5>2
      <4>2. QED
          BY <4>1
    <3>4. out[1] = g /\ out \in Outs'
        BY <1>6, <3>2, <3>3 DEF Live
    <3>5. out = <<g, 1>>
        BY <1>1, <1>3, <3>4 DEF OutsRight
    <3>6. QED
        BY <2>1, <2>2, <3>2, <3>5
  <2>3. Cardinality(there) =< 1
    <3>1. there \subseteq {seal}
        BY <2>2
    <3>2. IsFiniteSet({seal}) /\ Cardinality({seal}) = 1
        BY FS_Singleton, Zenon
    <3> HIDE DEF there
    <3>3. Cardinality(there) =< Cardinality({seal})
        BY <3>1, <3>2, FS_Subset
    <3>4. QED
        BY <3>2, <3>3
  <2>4. DOMAIN Held = Geneses /\ DOMAIN Held' = Geneses \cup {g} /\ g \notin Geneses
      BY <1>1, <1>3, <1>4, <1>11 DEF HeldRight
  <2>5. Ledger!Issued(Held, Held')
      BY <1>1, <1>9, <2>3, <2>4, LedgerCardinality DEF Ledger!Issued
  <2>6. QED
      BY <2>5 DEF Ledger!Next
<1>12. QED
    BY <1>10, <1>11

(***************************************************************************)
(* What a spend makes valid: nothing, or a chain of transitions that were  *)
(* built before it, from the one it anchors.  That one consumes what sat   *)
(* on a coin the spend closes.                                             *)
(***************************************************************************)
Moved(N, k, coins) ==
    /\ IsChain(N, k) /\ ops[k].prev \in Valid \ N
    /\ Consumed(k).seal \in coins /\ ops[k].claims = Consumed(k).amount
    /\ \A j \in N : ContractOf(j) = ContractOf(k)
    /\ ContractOf(ops[k].prev) = ContractOf(k)

LEMMA SpendFacts ==
    ASSUME OpsInv, NEW coins, NEW k, SpendOf(coins, k)
    PROVE  /\ ops' = ops /\ coins \subseteq Coins /\ Grows
           /\ \A c \in coins : IsOpen(c) /\ closing'[c] = k
           /\ \A c \in Coins \ coins : closing'[c] = closing[c]
           /\ \A c \in Coins : IsOpen(c)' <=> IsOpen(c) /\ c \notin coins
<1>1. /\ ops' = ops /\ coins \subseteq Coins /\ \A c \in coins : IsOpen(c)
      /\ \A c \in Coins : closing'[c] = IF c \in coins THEN k ELSE closing[c]
    BY DEF SpendOf, Spend
<1>2. k # Open
    BY PrevBefore DEF SpendOf, OpsInv, Open, Nothing
<1>3. QED
    BY <1>1, <1>2 DEF IsOpen, Grows

LEMMA NewlyValid ==
    ASSUME OpsInv, OpsInv', NEW coins, NEW k, SpendOf(coins, k)
    PROVE  \E N : /\ Valid' = Valid \cup N /\ Valid \cap N = {}
                  /\ \A j \in N : closing'[Consumed(j).seal] = j
                  /\ N # {} => Moved(N, k, coins)
<1>1. /\ ops' = ops /\ coins \subseteq Coins /\ Grows
      /\ \A c \in coins : IsOpen(c) /\ closing'[c] = k
      /\ \A c \in Coins \ coins : closing'[c] = closing[c]
    BY SpendFacts
<1>2. PICK N : N = Valid' \ Valid
    OBVIOUS
<1>3. Valid \subseteq Valid'
    BY <1>1, ValidGrows
<1>4. ValidIsRecursive /\ ValidIsRecursive'
  <2>1. TypeOK /\ TypeOK'
      BY DEF OpsInv
  <2>2. QED
      BY <2>1, ValidDef, PTL
<1>5. N \subseteq DOMAIN ops /\ N \in SUBSET Nat
  <2>1. N \subseteq DOMAIN ops
      BY <1>1, <1>2, <1>4 DEF ValidIsRecursive
  <2>2. QED
      BY <2>1, PrevBefore DEF OpsInv
<1>6. ASSUME NEW j \in N
      PROVE  /\ ops[j].prev # 0 /\ ops[j].prev \in DOMAIN ops
             /\ ops[j].prev \in Valid \/ ops[j].prev \in N
             /\ ContractOf(ops[j].prev) = ContractOf(j)
             /\ ops[j].claims = Consumed(j).amount
             /\ Consumed(j).seal \in Coins /\ closing'[Consumed(j).seal] = j
             /\ ops[j].prev \in Valid => j = k /\ Consumed(j).seal \in coins
  <2>1. j \in DOMAIN ops /\ j \in Valid' /\ j \notin Valid
      BY <1>2, <1>5
  <2>2. ops[j].prev # 0
      BY <1>4, <2>1 DEF ValidIsRecursive
  <2>3. Moves(j)' /\ ops[j].prev \in Valid'
      BY <1>1, <1>4, <2>1, <2>2 DEF ValidIsRecursive
  <2>4. /\ ContractOf(ops[j].prev) = ops[j].contract /\ ops[j].claims = Consumed(j).amount
        /\ Consumed(j).seal \in Coins /\ closing'[Consumed(j).seal] = j
      BY <1>1, <2>3 DEF Moves, ContractOf, Consumed
  <2>5. ASSUME ops[j].prev \in Valid PROVE j = k /\ Consumed(j).seal \in coins
    <3>1. ~Moves(j)
        BY <1>4, <2>1, <2>5 DEF ValidIsRecursive
    <3>2. closing[Consumed(j).seal] # j
        BY <2>4, <3>1 DEF Moves
    <3>3. Consumed(j).seal \in coins
        BY <1>1, <2>4, <3>2
    <3>4. QED
        BY <1>1, <2>4, <3>3
  <2>6. ops[j].prev \in Valid \/ ops[j].prev \in N
      BY <1>2, <2>3
  <2>7. ops[j].prev \in DOMAIN ops /\ ContractOf(j) = ops[j].contract
      BY <2>1, <2>2, PrevBefore DEF OpsInv, ContractOf
  <2>8. QED
      BY <2>2, <2>4, <2>5, <2>6, <2>7
<1>7. ASSUME N # {} PROVE Moved(N, k, coins)
  <2>1. \A j \in N : ops[j].prev < j
      BY <1>5, PrevBefore DEF OpsInv
  <2>2. k \in N /\ ops[k].prev \in Valid
    <3>1. PICK j \in N : \A i \in N : j =< i
        BY <1>5, <1>7, LeastExists
    <3>2. ops[j].prev \notin N
        BY <1>5, <2>1, <3>1, PrevBefore DEF OpsInv
    <3>3. QED
        BY <1>6, <3>2
  <2>3. \A j \in N \ {k} : ops[j].prev \in N
      BY <1>6
  <2>4. \A i, j \in N : ops[i].prev = ops[j].prev => i = j
    <3>1. \A i, j \in N : ops[i].prev = ops[j].prev => Consumed(i) = Consumed(j)
        BY DEF Consumed
    <3>2. QED
        BY <1>6, <3>1
  <2>5. IsChain(N, k)
      BY <1>2, <1>5, <1>6, <2>2, <2>3, <2>4 DEF IsChain
  <2>6. \A j \in N : ContractOf(j) = ContractOf(k)
    <3> DEFINE X == { j \in N : ContractOf(j) # ContractOf(k) }
    <3>1. SUFFICES ASSUME X # {} PROVE FALSE
        OBVIOUS
    <3>2. PICK j \in X : \A i \in X : j =< i
        BY <1>5, <3>1, LeastExists
    <3>3. j # k /\ ops[j].prev \in N /\ ContractOf(ops[j].prev) = ContractOf(j)
        BY <1>6, <2>3
    <3>4. ops[j].prev \in X
        BY <3>3
    <3>5. QED
        BY <1>5, <2>1, <3>2, <3>4
  <2>7. QED
      BY <1>2, <1>6, <2>2, <2>5, <2>6 DEF Moved
<1>8. QED
    BY <1>2, <1>3, <1>6, <1>7

(***************************************************************************)
(* What is live after a spend: what was live elsewhere, and of what became *)
(* valid no more than its chain has not spent itself.                      *)
(***************************************************************************)
Becomes(N, k, coins) ==
    /\ Valid' = Valid \cup N /\ Valid \cap N = {}
    /\ \A j \in N : closing'[Consumed(j).seal] = j
    /\ N # {} => Moved(N, k, coins)

LEMMA SpendLive ==
    ASSUME OpsInv, OpsInv', NEW coins, NEW k, SpendOf(coins, k), NEW N, Becomes(N, k, coins)
    PROVE  /\ \A out \in Live : SealOf(out) \notin coins => out \in Live'
           /\ \A out \in Live' : /\ SealOf(out) \notin coins /\ out \in Outs
                                 /\ out \in Live \/ (out \in Unspent(N) /\ N # {})
<1>1. /\ ops' = ops /\ coins \subseteq Coins
      /\ \A c \in Coins : IsOpen(c)' <=> IsOpen(c) /\ c \notin coins
    BY SpendFacts
<1>2. Outs' = Outs /\ \A out : SealOf(out)' = SealOf(out)
    BY <1>1 DEF Outs, SealOf
<1>3. \A out : out \in Live' <=>
         /\ out \in Outs /\ out[1] \in Valid \cup N
         /\ SealOf(out) \in Coins => IsOpen(SealOf(out)) /\ SealOf(out) \notin coins
  <2>1. \A out : out \in Live' <=>
           /\ out \in Outs' /\ out[1] \in Valid'
           /\ SealOf(out)' \in Coins => IsOpen(SealOf(out))'
      BY DEF Live
  <2>2. \A out : IsOpen(SealOf(out))' <=> closing'[SealOf(out)'] = Open
      BY DEF IsOpen
  <2>3. \A c \in Coins : closing'[c] = Open <=> IsOpen(c) /\ c \notin coins
      BY <1>1 DEF IsOpen
  <2>4. QED
      BY <1>2, <2>1, <2>2, <2>3 DEF Becomes
<1>4. ASSUME NEW out \in Live, SealOf(out) \notin coins PROVE out \in Live'
    BY <1>3, <1>4 DEF Live
<1>5. ASSUME NEW out \in Live'
      PROVE  /\ SealOf(out) \notin coins /\ out \in Outs
             /\ out \in Live \/ (out \in Unspent(N) /\ N # {})
  <2>1. SealOf(out) \notin coins /\ out \in Outs
      BY <1>1, <1>3
  <2>2. CASE out[1] \in Valid
      BY <1>3, <2>1, <2>2 DEF Live
  <2>3. CASE out[1] \in N
    <3>1. SUFFICES ASSUME out[2] = 1, NEW j \in N, ops[j].prev = out[1] PROVE FALSE
        BY <2>1, <2>3 DEF Unspent
    <3>2. SealOf(out) = Consumed(j).seal
        BY <3>1 DEF SealOf, Consumed
    <3>3. Moved(N, k, coins) /\ closing'[SealOf(out)] = j
        BY <3>2 DEF Becomes
    <3>4. j \in DOMAIN ops /\ ops[j].prev \in DOMAIN ops
        BY <2>3, <3>1, <3>3 DEF Moved, IsChain
    <3>5. j \in Nat
        BY <3>4, PrevBefore DEF OpsInv
    <3>6. SealOf(out) \in Coins
      <4>1. j \in Valid'
          BY <3>1 DEF Becomes
      <4>2. TypeOK'
          BY DEF OpsInv
      <4>3. ValidIsRecursive'
          BY <4>2, ValidDef, PTL
      <4>4. ops[j].prev # 0
          BY <3>4, PrevBefore DEF OpsInv
      <4>5. Moves(j)'
          BY <1>1, <3>4, <4>1, <4>3, <4>4 DEF ValidIsRecursive
      <4>6. QED
          BY <1>1, <3>2, <4>5 DEF Moves, Consumed
    <3>7. closing'[SealOf(out)] = Open
        BY <1>1, <1>3, <3>6 DEF IsOpen
    <3>8. QED
        BY <3>3, <3>5, <3>7 DEF Open
  <2>4. QED
      BY <1>3, <2>2, <2>3
<1>6. QED
    BY <1>4, <1>5

\* Only the contract of a transfer that becomes valid may gain on an outpoint.
LEMMA SpendGains ==
    ASSUME OpsInv, OpsInv', NEW coins, NEW k, SpendOf(coins, k), NEW N, Becomes(N, k, coins),
           NEW out \in Live', out \notin Live
    PROVE  N # {} /\ ContractOf(out[1]) = ContractOf(k)
BY SpendLive DEF Becomes, Moved, Unspent

LEMMA SpendTotal ==
    ASSUME OpsInv, OpsInv', NEW coins, NEW k, SpendOf(coins, k), NEW N, Becomes(N, k, coins),
           NEW g \in Geneses, NEW after,
           after = { out \in Live' : ContractOf(out[1]) = g }
    PROVE  Total(after) =< Total(LiveOf(g))
<1>1. LiveOf(g) \in SUBSET Outs /\ after \in SUBSET Outs
    BY SpendLive DEF LiveOf, Live
<1>2. CASE N = {} \/ ContractOf(k) # g
  <2>1. after \subseteq LiveOf(g)
      BY <1>2, SpendGains DEF LiveOf
  <2>2. QED
      BY <1>1, <2>1, TotalFacts
<1>3. CASE N # {} /\ ContractOf(k) = g
  <2> DEFINE p == ops[k].prev
             first == <<p, 1>>
             rest == LiveOf(g) \ {first}
             new == Unspent(N)
  <2>1. /\ IsChain(N, k) /\ p \in Valid /\ p \notin N /\ ContractOf(p) = g
        /\ Consumed(k).seal \in coins /\ ops[k].claims = Consumed(k).amount
      BY <1>3 DEF Becomes, Moved
  <2>2. /\ first \in Outs /\ SealOf(first) = Consumed(k).seal
        /\ Amount[first] = ops[k].claims /\ Amount[first] \in Nat
    <3>1. first \in Outs
        BY <2>1, ValidFacts, OutsFacts
    <3>2. QED
        BY <2>1, <3>1, OutsFacts DEF SealOf, Consumed
  <2>3. first \in LiveOf(g) /\ first \notin after
    <3>1. IsOpen(SealOf(first))
        BY <2>1, <2>2, SpendFacts
    <3>2. first \in Live
        BY <2>1, <2>2, <3>1 DEF Live
    <3>3. first \notin Live'
        BY <2>1, <2>2, SpendLive
    <3>4. QED
        BY <2>1, <3>2, <3>3 DEF LiveOf
  <2>4. after \subseteq rest \cup new
    <3>1. \A out \in after : out \in LiveOf(g) \/ out \in new
        BY SpendLive DEF LiveOf
    <3>2. QED
        BY <2>3, <3>1
  <2>5. rest \cap new = {}
    <3>1. \A out \in rest : out[1] \in Valid
        BY DEF LiveOf, Live
    <3>2. \A out \in new : out[1] \in N
        BY DEF Unspent
    <3>3. QED
        BY <3>1, <3>2 DEF Becomes
  <2>6. rest \in SUBSET Outs /\ new \in SUBSET Outs
      BY <1>1 DEF Unspent
  <2>7. Total(new) = ops[k].claims
      BY <2>1, ChainConserves
  <2> HIDE DEF rest, new, first
  <2>8. Total(LiveOf(g)) = Amount[first] + Total(rest)
    <3>1. IsFiniteSet(LiveOf(g)) /\ \A x \in LiveOf(g) : Amount[x] \in Nat
        BY <1>1, TotalFacts
    <3>2. SumFunctionOnSet(Amount, LiveOf(g))
              = Amount[first] + SumFunctionOnSet(Amount, LiveOf(g) \ {first})
        BY <2>3, <3>1, SumRemove
    <3>3. QED
        BY <3>2 DEF Total, rest
  <2>9. Total(rest \cup new) = Total(rest) + Total(new)
    <3>1. /\ IsFiniteSet(rest) /\ IsFiniteSet(new)
          /\ \A x \in rest \cup new : Amount[x] \in Nat
        BY <2>6, TotalFacts
    <3>2. SumFunctionOnSet(Amount, rest \cup new)
              = SumFunctionOnSet(Amount, rest) + SumFunctionOnSet(Amount, new)
        BY <2>5, <3>1, SumUnion
    <3>3. QED
        BY <3>2 DEF Total
  <2>10. Total(after) =< Total(rest \cup new)
    <3>1. rest \cup new \in SUBSET Outs
        BY <2>6
    <3>2. QED
        BY <2>4, <3>1, TotalFacts
  <2>11. Total(after) \in Nat /\ Total(rest) \in Nat /\ Total(new) \in Nat
      BY <1>1, <2>6, TotalFacts
  <2>12. QED
      BY <2>2, <2>7, <2>8, <2>9, <2>10, <2>11
<1>4. QED
    BY <1>2, <1>3

\* The totals of a contract, as an implication that holds after a step as well.
TotalsRight == \A g \in Geneses : SumFunctionOnSet(Held[g], Seals) = Total(LiveOf(g))

LEMMA TotalsFacts == OpsInv => TotalsRight
BY LiveTotal DEF TotalsRight, Circulating

LEMMA SpendKeepsLedger ==
    ASSUME OpsInv, OpsInv', NEW coins, NEW k, SpendOf(coins, k)
    PROVE  Ledger!Next
<1>1. /\ ops' = ops /\ coins \subseteq Coins
      /\ Geneses' = Geneses /\ Outs' = Outs /\ Amount' = Amount
      /\ \A out : SealOf(out)' = SealOf(out) /\ ContractOf(out[1])' = ContractOf(out[1])
  <2>1. ops' = ops /\ coins \subseteq Coins
      BY SpendFacts
  <2>2. QED
      BY <2>1 DEF Geneses, Outs, Amount, SealOf, ContractOf
<1>2. PICK N : Becomes(N, k, coins)
    BY NewlyValid DEF Becomes
<1>3. /\ HeldRight /\ HeldRight' /\ TotalsRight /\ TotalsRight'
  <2>1. OpsInv' => HeldRight' /\ TotalsRight'
      BY HeldFacts, TotalsFacts, PTL
  <2>2. QED
      BY <2>1, HeldFacts, TotalsFacts
<1>4. PICK before, after : before = Held /\ after = Held'
    OBVIOUS
<1> DEFINE later(c, s) == { out \in Live' : ContractOf(out[1]) = c /\ SealOf(out) = s }
<1>5. ASSUME NEW c \in Geneses, NEW s \in Seals
      PROVE  /\ before[c][s] \in Nat /\ after[c][s] \in Nat
             /\ before[c][s] = Total(On(c, s)) /\ after[c][s] = Total(later(c, s))
             /\ On(c, s) \in SUBSET Outs /\ later(c, s) \in SUBSET Outs
             /\ later(c, s) = {} => after[c][s] = 0
  <2>1. c \in Geneses'
      BY <1>1
  <2>2. /\ before[c][s] \in Nat /\ before[c][s] = Total(On(c, s)) /\ On(c, s) \in SUBSET Outs
      BY <1>3, <1>4 DEF HeldRight
  <2>3. On(c, s)' = later(c, s)
      BY <1>1 DEF On
  <2>4. /\ after[c][s] \in Nat /\ after[c][s] = Total(On(c, s))'
        /\ On(c, s)' \in SUBSET Outs' /\ (On(c, s)' = {} => after[c][s] = 0)
      BY <1>3, <1>4, <2>1 DEF HeldRight
  <2>5. Total(On(c, s))' = Total(later(c, s))
    <3>1. Total(On(c, s))' = SumFunctionOnSet(Amount', On(c, s)')
        BY DEF Total
    <3> HIDE DEF later
    <3>2. SumFunctionOnSet(Amount', On(c, s)') = SumFunctionOnSet(Amount, later(c, s))
        BY ONLY <1>1, <2>3, Zenon
    <3>3. QED
        BY <3>1, <3>2 DEF Total
  <2> HIDE DEF later
  <2>6. later(c, s) \in SUBSET Outs /\ (later(c, s) = {} => after[c][s] = 0)
      BY <1>1, <2>3, <2>4
  <2>7. QED
      BY <2>2, <2>4, <2>5, <2>6
<1>6. ASSUME NEW c \in Geneses, NEW s \in coins
      PROVE  s \in Seals => after[c][s] = 0
  <2>1. later(c, s) = {}
      BY <1>2, SpendLive
  <2>2. QED
      BY <1>5, <2>1
<1>7. ASSUME NEW c \in Geneses, NEW s \in Seals, s \notin coins
      PROVE  after[c][s] >= before[c][s]
  <2>1. On(c, s) \subseteq later(c, s)
      BY <1>2, <1>7, SpendLive DEF On
  <2> HIDE DEF later
  <2>2. Total(On(c, s)) =< Total(later(c, s))
      BY <1>5, <2>1, TotalFacts
  <2>3. QED
      BY <1>5, <2>2
<1>8. ASSUME NEW c \in Geneses, NEW s \in Seals, N = {} \/ ContractOf(k) # c
      PROVE  after[c][s] =< before[c][s]
  <2>1. later(c, s) \subseteq On(c, s)
      BY <1>2, <1>8, SpendGains DEF On
  <2> HIDE DEF later
  <2>2. Total(later(c, s)) =< Total(On(c, s))
      BY <1>5, <2>1, TotalFacts
  <2>3. QED
      BY <1>5, <2>2
<1>9. ASSUME NEW c \in Geneses
      PROVE  SumFunctionOnSet(after[c], Seals) =< SumFunctionOnSet(before[c], Seals)
  <2>1. SumFunctionOnSet(before[c], Seals) = Total(LiveOf(c))
      BY <1>3, <1>4 DEF TotalsRight
  <2>2. SumFunctionOnSet(after[c], Seals) = Total(LiveOf(c))'
    <3>1. c \in Geneses'
        BY <1>1
    <3>2. QED
        BY <1>3, <1>4, <3>1 DEF TotalsRight
  <2>3. PICK live : live = { out \in Live' : ContractOf(out[1]) = c }
      OBVIOUS
  <2>4. LiveOf(c)' = live
      BY <1>1, <2>3 DEF LiveOf
  <2>5. Total(LiveOf(c))' = SumFunctionOnSet(Amount', LiveOf(c)')
      BY DEF Total
  <2>6. SumFunctionOnSet(Amount', LiveOf(c)') = SumFunctionOnSet(Amount, live)
      BY ONLY <1>1, <2>4, Zenon
  <2>7. Total(live) =< Total(LiveOf(c))
      BY <1>2, <2>3, SpendTotal
  <2>8. QED
      BY <2>1, <2>2, <2>5, <2>6, <2>7 DEF Total
<1> HIDE DEF later
<1> DEFINE closed == Ledger!Emptied(before, after)
<1>10. DOMAIN before = Geneses /\ DOMAIN after = Geneses
    BY <1>1, <1>3, <1>4 DEF HeldRight
<1>11. closed = { s \in Seals : /\ \E c \in Geneses : before[c][s] > 0
                                /\ \A c \in Geneses : after[c][s] = 0 }
    BY <1>10 DEF Ledger!Emptied
<1>12. closed \in SUBSET Seals
    BY <1>11
<1>13. \A c \in Geneses : \A s \in closed : after[c][s] = 0
    BY <1>11
<1>14. ASSUME NEW c \in Geneses, NEW s \in Seals \ closed
       PROVE  after[c][s] >= before[c][s]
  <2>1. CASE s \in coins
    <3>1. after[c][s] = 0 /\ \A d \in Geneses : after[d][s] = 0
        BY <1>6, <2>1
    <3>2. ~(before[c][s] > 0)
        BY <1>11, <3>1
    <3>3. QED
        BY <1>5, <3>1, <3>2
  <2>2. QED
      BY <1>7, <2>1
<1> HIDE DEF closed
<1>15. ASSUME NEW c \in Geneses
       PROVE  Ledger!Arrived(before[c], after[c], closed)
                  =< Ledger!Released(before[c], closed)
    BY <1>5, <1>9, <1>12, <1>13, <1>14, ClosedBalance
<1>16. ASSUME NEW c \in Geneses, N = {} \/ ContractOf(k) # c
       PROVE  Ledger!Arrived(before[c], after[c], closed) = 0
  <2>1. \A s \in Seals \ closed : before[c][s] \in Nat /\ after[c][s] = before[c][s]
      BY <1>5, <1>8, <1>14, <1>16
  <2>2. QED
      BY <1>12, <2>1, NothingArrives
<1>17. Cardinality({ c \in Geneses : Ledger!Arrived(before[c], after[c], closed) > 0 }) =< 1
  <2> DEFINE gains == { c \in Geneses : Ledger!Arrived(before[c], after[c], closed) > 0 }
  <2>1. PICK d : d = ContractOf(k)
      OBVIOUS
  <2>2. gains \subseteq {d}
      BY <1>16, <2>1
  <2>3. IsFiniteSet({d}) /\ Cardinality({d}) = 1
      BY FS_Singleton, Zenon
  <2> HIDE DEF gains
  <2>4. Cardinality(gains) =< Cardinality({d})
      BY <2>2, <2>3, FS_Subset
  <2>5. QED
      BY <2>3, <2>4 DEF gains
<1>18. Ledger!Closed(before, after)
  <2>1. DOMAIN after = DOMAIN before /\ DOMAIN before = Geneses
      BY <1>10
  <2>2. closed \in {Ledger!Emptied(before, after)}
      BY DEF closed
  <2>3. \A c \in DOMAIN before :
           /\ \A s \in Seals \ closed : after[c][s] >= before[c][s]
           /\ Ledger!Arrived(before[c], after[c], closed) =< Ledger!Released(before[c], closed)
      BY <1>14, <1>15, <2>1
  <2>4. Ledger!Cardinality({ c \in DOMAIN before :
                             Ledger!Arrived(before[c], after[c], closed) > 0 }) =< 1
      BY <1>17, <2>1, LedgerCardinality
  <2>5. QED
      BY <2>1, <2>2, <2>3, <2>4 DEF Ledger!Closed
<1>19. QED
    BY <1>4, <1>18 DEF Ledger!Next

(***************************************************************************)
(* Whatever is built and whoever spends what, the transfers keep a ledger: *)
(* units stay where they are until their seal is closed, and a closing     *)
(* moves no more than was there, of one contract at most.                  *)
(***************************************************************************)
THEOREM TransfersKeepLedger == Spec => LedgerKept
<1>1. Init => Ledger!Init
  <2> SUFFICES ASSUME Init PROVE Ledger!Init
      OBVIOUS
  <2>1. Geneses = {}
      BY DEF Init, Geneses
  <2>2. QED
      BY <2>1, HeldIs DEF Ledger!Init
<1>2. OpsInv /\ OpsInv' /\ [Next]_vars => [Ledger!Next]_Held
  <2> SUFFICES ASSUME OpsInv, OpsInv', [Next]_vars PROVE Ledger!Next \/ Held' = Held
      OBVIOUS
  <2>1. CASE Transfer \/ ScriptedTransfer
      BY <2>1, CallKeepsLedger
  <2>2. CASE \E coins, o : SpendOf(coins, o)
      BY <2>2, SpendKeepsLedger
  <2>3. CASE UNCHANGED vars
      BY <2>3 DEF vars, Held, Live, Outs, SealOf, Amount, ContractOf, Geneses, IsOpen, Valid,
                  Moves, Consumed
  <2>4. QED
      BY <2>1, <2>2, <2>3, StepCases
<1>3. QED
    BY <1>1, <1>2, OpsInvariant, PTL DEF Spec, LedgerKept, Ledger!Spec
=============================================================================
