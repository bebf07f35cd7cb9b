-------------------------- MODULE CovenantsProofs ---------------------------
(***************************************************************************)
(* What holds of the covenants for every set of seals, payloads and other  *)
(* spends, and for chains of any length.                                   *)
(*                                                                         *)
(* The inductive invariant says which output each seal is (CoinsKnown),    *)
(* that nothing is spent that was not made (SpentMade), that whatever      *)
(* closed a seal satisfied its program (ClosedAccepted), that what was     *)
(* tampered with does not, and that what was not is good (BuiltRight) as   *)
(* long as the coins under covenants are (CoinsSound).                     *)
(***************************************************************************)
EXTENDS Covenants, FiniteSums, SequenceTheorems

\* In chain c the coin op is there, under the covenant p.
Locks(c, op, p) ==
    /\ op[1] \in DOMAIN c /\ op[2] \in DOMAIN c[op[1]].tx.outs
    /\ c[op[1]].tx.outs[op[2]].script = Covenant(p)

CoinsKnown == \A s \in Seals : coin[s] # NoCoin => Locks(chain, coin[s], Program[s])

SpentMade == \A op \in Spent : IsOutput(op)

ClosedAccepted ==
    \A i \in DOMAIN chain :
        /\ chain[i].tx.lock < chain[i].height
        /\ \A s \in chain[i].closes : Accepts(Program[s], chain[i].tx)

\* What the node requires of a transaction that spends a coin of this worth.
Sound(tx, worth) ==
    /\ tx.fund["lbtc"] + worth = AmountOf(tx.outs, "lbtc")
    /\ tx.fund["usdt"] = AmountOf(tx.outs, "usdt")
    /\ NoEmptyOutput(tx)
    /\ InLbtc(tx.outs)

\* Where arguments leave change and nobody changes the asset of a gate.
Orderly == LeavesChange /\ GatesInLbtc

BuiltRight ==
    \A b \in built :
        \E op \in Nat \X Nat :
            /\ b.tx.ins = {op} /\ Locks(chain, op, Program[b.seal])
            /\ b.tamper # "none" => ~Accepts(Program[b.seal], b.tx)
            /\ b.tamper = "none" =>
                  /\ Accepts(Program[b.seal], b.tx)
                  /\ Orderly => At(op).asset = "lbtc" /\ Sound(b.tx, At(op).amount)

\* The coin of a seal has not lost its worth.
SoundCoin(s) ==
    /\ At(coin[s]).asset = "lbtc" /\ At(coin[s]).amount > 0
    /\ s \notin Gates => At(coin[s]).amount = Worth[s]

CoinsSound == Orderly => \A s \in Seals : coin[s] # NoCoin => SoundCoin(s)

CovenantInv ==
    /\ TypeOK
    /\ CoinsKnown
    /\ GateStands
    /\ SpentMade
    /\ ClosedAccepted
    /\ CoinsSound
    /\ BuiltRight
-----------------------------------------------------------------------------
\* Scripts and outputs are what they look like.
LEMMA Scripts ==
    /\ \A payload \in SUBSET Seals : Opret(payload) \in Script
    /\ \A p \in Programs : Covenant(p) \in Script
    /\ Vault \in Script /\ Staker \in Script /\ Funding \in Script
    /\ Recipient \in Script /\ FeeScript \in Script
  BY DEF Script

LEMMA OutputTyped ==
    ASSUME NEW asset \in {"lbtc", "usdt"}, NEW amount \in Nat, NEW script \in Script
    PROVE  Output(asset, amount, script) \in TxOut
  BY DEF Output, TxOut

LEMMA PayTyped ==
    ASSUME NEW tx \in Tx, NEW k \in DOMAIN tx.outs, NEW owner \in Script
    PROVE  Pay(tx, k, owner) \in Tx
<1>1. tx.outs \in Seq(TxOut)
  BY DEF Tx
<1>2. tx.outs[k] \in TxOut
  BY <1>1
<1>3. [tx.outs[k] EXCEPT !.script = owner] \in TxOut
  BY <1>2 DEF TxOut
<1>4. [tx.outs EXCEPT ![k].script = owner] \in Seq(TxOut)
  BY <1>1, <1>3
<1> QED
  BY <1>4 DEF Pay, Tx

LEMMA ShortBackingTyped ==
    ASSUME NEW tx \in Tx, NEW k \in DOMAIN tx.outs
    PROVE  ShortBacking(tx, k) \in Tx
<1>1. tx.outs \in Seq(TxOut)
  BY DEF Tx
<1>2. tx.outs[k] \in TxOut
  BY <1>1
<1>3. Tranche - 1 \in Nat
  BY CovenantAssumptions
<1>4. [tx.outs[k] EXCEPT !.amount = Tranche - 1] \in TxOut
  BY <1>2, <1>3 DEF TxOut
<1>5. [tx.outs EXCEPT ![k].amount = Tranche - 1] \in Seq(TxOut)
  BY <1>1, <1>4
<1>6. Output("usdt", 1, Funding) \in TxOut
  BY OutputTyped, Scripts
<1>7. Append([tx.outs EXCEPT ![k].amount = Tranche - 1], Output("usdt", 1, Funding)) \in Seq(TxOut)
  BY <1>5, <1>6
<1> QED
  BY <1>7 DEF ShortBacking, Tx
-----------------------------------------------------------------------------
(***************************************************************************)
(* What a list of outputs carries, output by output.                       *)
(***************************************************************************)
LEMMA EntryOfSeq ==
    ASSUME NEW S, NEW seq \in Seq(S), NEW i \in DOMAIN seq
    PROVE  i \in 1..Len(seq) /\ seq[i] \in S
  OBVIOUS

LEMMA ShareTyped ==
    ASSUME NEW out \in TxOut, NEW asset
    PROVE  Share(out, asset) \in Nat
  BY DEF Share, TxOut

LEMMA AmountUpTo ==
    ASSUME NEW outs \in Seq(TxOut), NEW asset
    PROVE  LET shares == [k \in DOMAIN outs |-> Share(outs[k], asset)]
               Sum(n) == SumFunctionOnSet(shares, 1..n)
           IN  /\ AmountOf(outs, asset) = Sum(Len(outs))
               /\ Sum(0) = 0
               /\ \A n \in 0..(Len(outs) - 1) :
                     /\ Sum(n) \in Nat
                     /\ Sum(n + 1) = Sum(n) + Share(outs[n + 1], asset)
<1> DEFINE shares == [k \in DOMAIN outs |-> Share(outs[k], asset)]
           Sum(n) == SumFunctionOnSet(shares, 1..n)
<1>1. DOMAIN outs = 1..Len(outs) /\ Len(outs) \in Nat
  OBVIOUS
<1>2. \A k \in 1..Len(outs) : shares[k] = Share(outs[k], asset) /\ shares[k] \in Nat
  BY <1>1, EntryOfSeq, ShareTyped
<1>3. AmountOf(outs, asset) = Sum(Len(outs))
  BY <1>1 DEF AmountOf, SumFunction
<1>4. Sum(0) = 0
  BY SumEmpty
<1>5. ASSUME NEW n \in 0..(Len(outs) - 1)
      PROVE  Sum(n) \in Nat /\ Sum(n + 1) = Sum(n) + Share(outs[n + 1], asset)
  <2>0. n \in Nat /\ n + 1 <= Len(outs)
    BY <1>1
  <2>1. /\ IsFiniteSet(1..n) /\ n + 1 \notin 1..n /\ 1..(n + 1) = (1..n) \cup {n + 1}
        /\ 1..(n + 1) \subseteq 1..Len(outs)
    <3>1. IsFiniteSet(1..n)
      BY <2>0, FS_Interval
    <3> QED
      BY <1>1, <2>0, <3>1
  <2>2. \A k \in (1..n) \cup {n + 1} : shares[k] \in Nat
    BY <1>2, <2>1
  <2> HIDE DEF shares
  <2>3. Sum(n) \in Nat
    BY <2>1, <2>2, SumType
  <2>4. Sum(n + 1) = shares[n + 1] + Sum(n)
    BY <2>1, <2>2, SumAdd
  <2>5. shares[n + 1] = Share(outs[n + 1], asset) /\ shares[n + 1] \in Nat
    BY <1>2, <2>1, <1>1
  <2> QED
    BY <2>3, <2>4, <2>5
<1> QED
  BY <1>3, <1>4, <1>5

LEMMA AmountsOfFew ==
    ASSUME NEW outs \in Seq(TxOut), NEW asset
    PROVE  LET amount(k) == Share(outs[k], asset)
               total == AmountOf(outs, asset)
           IN  /\ Len(outs) = 1 => total = amount(1)
               /\ Len(outs) = 2 => total = amount(1) + amount(2)
               /\ Len(outs) = 3 => total = amount(1) + amount(2) + amount(3)
               /\ Len(outs) = 4 => total = amount(1) + amount(2) + amount(3) + amount(4)
               /\ Len(outs) = 5 =>
                     total = amount(1) + amount(2) + amount(3) + amount(4) + amount(5)
               /\ Len(outs) = 6 =>
                     total = amount(1) + amount(2) + amount(3) + amount(4) + amount(5) + amount(6)
<1> DEFINE shares == [k \in DOMAIN outs |-> Share(outs[k], asset)]
           Sum(n) == SumFunctionOnSet(shares, 1..n)
<1>1. /\ AmountOf(outs, asset) = Sum(Len(outs)) /\ Sum(0) = 0
      /\ \A n \in 0..(Len(outs) - 1) :
            Sum(n) \in Nat /\ Sum(n + 1) = Sum(n) + Share(outs[n + 1], asset)
  BY AmountUpTo
<1>2. Len(outs) \in Nat /\ \A k \in 1..Len(outs) : Share(outs[k], asset) \in Nat
  BY EntryOfSeq, ShareTyped
<1> HIDE DEF Sum
<1>3. Len(outs) >= 1 => Sum(1) = Share(outs[1], asset)
  BY <1>1, <1>2
<1>4. Len(outs) >= 2 => Sum(2) = Sum(1) + Share(outs[2], asset)
  BY <1>1, <1>2
<1>5. Len(outs) >= 3 => Sum(3) = Sum(2) + Share(outs[3], asset)
  BY <1>1, <1>2
<1>6. Len(outs) >= 4 => Sum(4) = Sum(3) + Share(outs[4], asset)
  BY <1>1, <1>2
<1>7. Len(outs) >= 5 => Sum(5) = Sum(4) + Share(outs[5], asset)
  BY <1>1, <1>2
<1>8. Len(outs) >= 6 => Sum(6) = Sum(5) + Share(outs[6], asset)
  BY <1>1, <1>2
<1>9. AmountOf(outs, asset) = Sum(Len(outs)) /\ Len(outs) \in Nat
  BY <1>1
<1> DEFINE amount(k) == Share(outs[k], asset)
           total == AmountOf(outs, asset)
<1>10. Len(outs) >= 2 => Sum(2) = amount(1) + amount(2)
  BY <1>3, <1>4, <1>9
<1>11. Len(outs) >= 3 => Sum(3) = amount(1) + amount(2) + amount(3)
  BY <1>5, <1>9, <1>10
<1>12. Len(outs) >= 4 => Sum(4) = amount(1) + amount(2) + amount(3) + amount(4)
  BY <1>6, <1>9, <1>11
<1>13. Len(outs) >= 5 => Sum(5) = amount(1) + amount(2) + amount(3) + amount(4) + amount(5)
  BY <1>7, <1>9, <1>12
<1>14. Len(outs) >= 6 =>
          Sum(6) = amount(1) + amount(2) + amount(3) + amount(4) + amount(5) + amount(6)
  BY <1>8, <1>9, <1>13
<1>15. \A k : Len(outs) = k => total = Sum(k)
  BY <1>9, Zenon
<1> HIDE DEF total
<1>16. /\ Len(outs) = 1 => total = Sum(1)
       /\ Len(outs) = 2 => total = Sum(2)
       /\ Len(outs) = 3 => total = Sum(3)
       /\ Len(outs) = 4 => total = Sum(4)
       /\ Len(outs) = 5 => total = Sum(5)
       /\ Len(outs) = 6 => total = Sum(6)
  BY <1>15, Zenon
<1> QED
  BY <1>3, <1>9, <1>10, <1>11, <1>12, <1>13, <1>14, <1>16 DEF total

LEMMA OneCoin ==
    ASSUME NEW op, NEW asset, Share(At(op), asset) \in Nat
    PROVE  CoinsOf({op}, asset) = Share(At(op), asset)
<1> DEFINE shares == [c \in {op} |-> Share(At(c), asset)]
<1>1. shares[op] = Share(At(op), asset) /\ DOMAIN shares = {op}
  OBVIOUS
<1>2. CoinsOf({op}, asset) = SumFunctionOnSet(shares, {op})
  BY <1>1 DEF CoinsOf, SumFunction
<1> HIDE DEF shares
<1>3. IsFiniteSet({}) /\ \A c \in {} \cup {op} : shares[c] \in Nat
  BY <1>1, FS_EmptySet
<1>4. SumFunctionOnSet(shares, {} \cup {op}) = shares[op] + SumFunctionOnSet(shares, {})
  BY <1>3, SumAdd
<1> QED
  BY <1>1, <1>2, <1>4, SumEmpty
-----------------------------------------------------------------------------
\* The parts of a step that only add to what is there.
LEMMA EmitTyped ==
    ASSUME TypeOK, NEW s \in Seals, NEW tx, NEW tampered \in Tx, NEW tamper \in Tampers,
           Emit(s, tx, tamper, tampered)
    PROVE  TypeOK'
  BY DEF Emit, TypeOK

LEMMA AcceptTyped ==
    ASSUME TypeOK, NEW tx \in Tx, Accept(tx)
    PROVE  TypeOK'
<1> DEFINE closes == { s \in Seals : coin[s] \in tx.ins }
           entry == [tx |-> tx, height |-> height + 1, closes |-> closes]
<1>1. entry \in [tx : Tx, height : Nat, closes : SUBSET Seals]
  BY DEF TypeOK
<1>2. chain' = Append(chain, entry)
  BY DEF Accept
<1>3. chain' \in Seq([tx : Tx, height : Nat, closes : SUBSET Seals])
  BY <1>1, <1>2 DEF TypeOK
<1>4. coin' \in [Seals -> Nat \X Nat]
  <2>1. \A p \in Programs : Recreated(p) \in Nat
    BY DEF Recreated
  <2>2. Len(chain) + 1 \in Nat
    BY DEF TypeOK
  <2>3. \A s \in Seals : <<Len(chain) + 1, Recreated(Program[s])>> \in Nat \X Nat
    BY <2>1, <2>2, CovenantAssumptions
  <2> QED
    BY <2>3 DEF Accept, TypeOK
<1>5. kept' \in [Seals -> BOOLEAN]
  BY DEF Accept, TypeOK
<1> QED
  BY <1>3, <1>4, <1>5 DEF Accept, TypeOK

LEMMA FundTyped ==
    ASSUME TypeOK, NEW s \in Seals, Fund(s)
    PROVE  TypeOK'
<1> DEFINE tx == [ins |-> {}, fund |-> [lbtc |-> Worth[s], usdt |-> 0],
                  outs |-> <<Output("lbtc", Worth[s], Covenant(Program[s]))>>,
                  lock |-> 0, payload |-> {}, preimage |-> FALSE]
           entry == [tx |-> tx, height |-> height + 1, closes |-> {}]
<1>1. Output("lbtc", Worth[s], Covenant(Program[s])) \in TxOut
  BY OutputTyped, Scripts, CovenantAssumptions
<1>2. tx \in Tx
  <2>1. tx.outs \in Seq(TxOut)
    BY <1>1
  <2>2. tx.fund \in [{"lbtc", "usdt"} -> Nat]
    BY CovenantAssumptions
  <2> QED
    BY <2>1, <2>2 DEF Tx
<1>3. entry \in [tx : Tx, height : Nat, closes : SUBSET Seals]
  BY <1>2 DEF TypeOK
<1>4. chain' = Append(chain, entry)
  BY DEF Fund
<1>5. coin' \in [Seals -> Nat \X Nat]
  BY DEF Fund, TypeOK
<1> QED
  BY <1>3, <1>4, <1>5 DEF Fund, TypeOK

\* A coin of the chain carries an amount.
LEMMA CoinTyped ==
    ASSUME TypeOK, NEW op \in Nat \X Nat, IsOutput(op)
    PROVE  At(op) \in TxOut
<1>1. op[1] \in DOMAIN chain /\ op[2] \in DOMAIN chain[op[1]].tx.outs
  BY DEF IsOutput
<1>2. chain[op[1]].tx \in Tx
  <2>1. chain \in Seq([tx : Tx, height : Nat, closes : SUBSET Seals])
    BY DEF TypeOK
  <2>2. chain[op[1]] \in [tx : Tx, height : Nat, closes : SUBSET Seals]
    BY <1>1, <2>1, EntryOfSeq
  <2> QED
    BY <2>2
<1>3. chain[op[1]].tx.outs \in Seq(TxOut)
  BY <1>2 DEF Tx
<1> QED
  BY <1>1, <1>3 DEF At
-----------------------------------------------------------------------------
(***************************************************************************)
(* The transactions that are sent: those of others, and those built.       *)
(***************************************************************************)
LEMMA AnySpendTyped ==
    ASSUME TypeOK, AnySpend
    PROVE  \E tx \in Tx : Accept(tx) /\ tx.outs \in Layouts
<1>1. PICK closed \in SUBSET Seals, outs \in Layouts, payload \in Payloads :
        /\ OwnSpend(closed, outs, payload).fund \in [{"lbtc", "usdt"} -> Nat]
        /\ Accept(OwnSpend(closed, outs, payload))
  BY DEF AnySpend
<1> DEFINE tx == OwnSpend(closed, outs, payload)
           ins == { coin[s] : s \in closed }
           known == \E i \in DOMAIN chain : chain[i].tx.preimage
<1>2. ins \in SUBSET (Nat \X Nat)
  BY DEF TypeOK
<1>3. outs \in Seq(TxOut) /\ payload \in SUBSET Seals
  BY CovenantAssumptions
<1>4. height \in Nat
  BY DEF TypeOK
<1>5. tx = [ins |-> ins, fund |-> tx.fund, outs |-> outs, lock |-> height,
            payload |-> payload, preimage |-> known]
  BY DEF OwnSpend
<1>6. tx.fund \in [{"lbtc", "usdt"} -> Nat] /\ tx.outs \in Layouts
  BY <1>1, <1>5
<1>7. known \in BOOLEAN
  OBVIOUS
<1> HIDE DEF tx, ins, known
<1>8. tx \in Tx
  BY <1>2, <1>3, <1>4, <1>5, <1>6, <1>7 DEF Tx
<1>9. Accept(tx)
  BY <1>1 DEF tx
<1> QED
  BY <1>6, <1>8, <1>9
-----------------------------------------------------------------------------
(***************************************************************************)
(* What a command prints spends its coin: if tampered with, not in a way   *)
(* the program of the coin accepts; otherwise in a way the node accepts.   *)
(***************************************************************************)
Prints(s) ==
    \E tx, tampered \in Tx, tamper \in Tampers :
        /\ Emit(s, tx, tamper, tampered)
        /\ tampered.ins = {coin[s]}
        /\ tamper # "none" => ~Accepts(Program[s], tampered)
        /\ tamper = "none" =>
              /\ Accepts(Program[s], tampered)
              /\ LeavesChange /\ SoundCoin(s) => Sound(tampered, At(coin[s]).amount)

LEMMA PrintsOne ==
    ASSUME NEW s \in Seals, NEW tx \in Tx, NEW tampered \in Tx, NEW tamper \in Tampers,
           Emit(s, tx, tamper, tampered),
           tampered.ins = {coin[s]}, tamper # "none", ~Accepts(Program[s], tampered)
    PROVE  Prints(s)
  BY Zenon DEF Prints

LEMMA UntamperedPrints ==
    ASSUME NEW s \in Seals, NEW tx \in Tx, tx.ins = {coin[s]}, Emit(s, tx, "none", tx),
           LeavesChange /\ SoundCoin(s) => Sound(tx, At(coin[s]).amount)
    PROVE  Prints(s)
<1>1. "none" \in Tampers
  BY DEF Tampers
<1>2. Accepts(Program[s], tx)
  BY DEF Emit
<1> QED
  BY <1>1, <1>2, Zenon DEF Prints

LEMMA PayChanges ==
    ASSUME NEW tx \in Tx, NEW k \in DOMAIN tx.outs, NEW owner \in Script
    PROVE  /\ Pay(tx, k, owner).outs[k].script = owner
           /\ Pay(tx, k, owner).ins = tx.ins
           /\ Pay(tx, k, owner).payload = tx.payload
<1>1. tx.outs \in Seq(TxOut)
  BY DEF Tx
<1>2. tx.outs[k] \in TxOut
  BY <1>1, EntryOfSeq
<1> QED
  BY <1>1, <1>2 DEF Pay, Tx, TxOut

LEMMA ShortBackingChanges ==
    ASSUME NEW tx \in Tx, NEW k \in DOMAIN tx.outs
    PROVE  /\ ShortBacking(tx, k).outs[k].amount = Tranche - 1
           /\ ShortBacking(tx, k).ins = tx.ins
<1>1. tx.outs \in Seq(TxOut) /\ k \in 1..Len(tx.outs)
  BY EntryOfSeq DEF Tx
<1>2. tx.outs[k] \in TxOut
  BY <1>1, EntryOfSeq
<1> DEFINE short == [tx.outs EXCEPT ![k].amount = Tranche - 1]
<1>3. short \in Seq(TxOut) /\ Len(short) = Len(tx.outs)
  <2>1. Tranche - 1 \in Nat
    BY CovenantAssumptions
  <2>2. [tx.outs[k] EXCEPT !.amount = Tranche - 1] \in TxOut
    BY <1>2, <2>1 DEF TxOut
  <2> QED
    BY <1>1, <2>2
<1>4. short[k].amount = Tranche - 1
  BY <1>1, <1>2 DEF TxOut
<1>5. ShortBacking(tx, k) = [tx EXCEPT !.outs = Append(short, Output("usdt", 1, Funding))]
  BY DEF ShortBacking
<1> HIDE DEF short
<1>6. Append(short, Output("usdt", 1, Funding))[k] = short[k]
  BY <1>1, <1>3
<1> QED
  BY <1>4, <1>5, <1>6 DEF Tx

\* Scripts of different kinds differ.
LEMMA ScriptsDiffer ==
    /\ \A payload : Opret(payload) # Funding /\ Opret(payload) # Recipient
    /\ \A p : Covenant(p) # Funding
    /\ Staker # Funding
    /\ \A p, payload : Covenant(p) # Opret(payload) /\ ~IsOpret(Covenant(p))
    /\ \A p : Covenant(p) \notin {Vault, Staker, Recipient, FeeScript}
    /\ \A p, q : Covenant(p) = Covenant(q) => p = q
  BY DEF Opret, Covenant, Key, Funding, Recipient, Staker, Vault, FeeScript, IsOpret

LEMMA SpendPrints ==
    ASSUME TypeOK, NEW s \in Seals, Program[s] = "rgb_anchor", Unspent(coin[s]),
           NEW payload \in SUBSET Seals, NEW preimage \in BOOLEAN,
           Spend(s, payload, preimage)
    PROVE  Prints(s)
<1> DEFINE worth == At(coin[s]).amount
           paid == <<Output("lbtc", worth - FeeSat, Recipient), Output("lbtc", FeeSat, FeeScript)>>
           outs(anchored) == IF anchored THEN <<Output("lbtc", 0, Opret(payload))>> \o paid
                             ELSE paid
           tx(anchored) == [ins |-> {coin[s]}, fund |-> [lbtc |-> 0, usdt |-> 0],
                            outs |-> outs(anchored), lock |-> 0, payload |-> payload,
                            preimage |-> preimage]
<1>1. PICK anchored \in BOOLEAN, dropAnchor \in BOOLEAN :
        /\ worth >= FeeSat
        /\ dropAnchor => anchored
        /\ Emit(s, tx(anchored), IF dropAnchor THEN "drop-anchor" ELSE "none",
                 IF dropAnchor THEN [tx(anchored) EXCEPT !.outs = Tail(outs(anchored))]
                 ELSE tx(anchored))
  BY DEF Spend, Covers
<1>2. coin[s] \in Nat \X Nat /\ worth \in Nat
  <2>1. coin[s] \in Nat \X Nat
    BY DEF TypeOK
  <2> QED
    BY <2>1, CoinTyped DEF Unspent, TxOut
<1>3. /\ Output("lbtc", worth - FeeSat, Recipient) \in TxOut
      /\ Output("lbtc", FeeSat, FeeScript) \in TxOut
      /\ Output("lbtc", 0, Opret(payload)) \in TxOut
  <2>1. worth - FeeSat \in Nat /\ FeeSat \in Nat
    BY <1>1, <1>2 DEF FeeSat
  <2> QED
    BY <2>1, OutputTyped, Scripts
<1>4. paid \in Seq(TxOut) /\ Len(paid) = 2
  BY <1>3
<1>4a. /\ paid[1] = Output("lbtc", worth - FeeSat, Recipient)
       /\ paid[2] = Output("lbtc", FeeSat, FeeScript)
  OBVIOUS
<1>5. paid[1].script = Recipient
  BY DEF Output
<1> HIDE DEF worth, paid
<1>6. outs(anchored) \in Seq(TxOut)
  BY <1>3, <1>4
<1>7. tx(anchored) \in Tx
  <2>1. [lbtc |-> 0, usdt |-> 0] \in [{"lbtc", "usdt"} -> Nat]
    OBVIOUS
  <2> QED
    BY <1>2, <1>6, <2>1 DEF Tx
<1>8. LeavesChange /\ SoundCoin(s) => Sound(tx(anchored), worth)
  <2> SUFFICES ASSUME LeavesChange, SoundCoin(s)
               PROVE  Sound(tx(anchored), worth)
    OBVIOUS
  <2>1. worth > FeeSat
    BY <1>1, <1>2 DEF SoundCoin, LeavesChange, Gates, worth, FeeSat
  <2>2. CASE anchored
    <3>1. /\ Len(outs(anchored)) = 3 /\ outs(anchored)[1] = Output("lbtc", 0, Opret(payload))
          /\ outs(anchored)[2] = paid[1] /\ outs(anchored)[3] = paid[2]
      <4> DEFINE anchor == Output("lbtc", 0, Opret(payload))
      <4>1. outs(anchored) = <<anchor>> \o paid
        BY <2>2
      <4>2. <<anchor>> \in Seq(TxOut) /\ Len(<<anchor>>) = 1 /\ <<anchor>>[1] = anchor
        BY <1>3
      <4> DEFINE first == <<anchor>>
      <4>3. /\ outs(anchored) = first \o paid
            /\ first \in Seq(TxOut) /\ Len(first) = 1 /\ first[1] = anchor
        BY <4>1, <4>2
      <4> HIDE DEF outs, first, anchor
      <4>4. /\ Len(outs(anchored)) = 3 /\ outs(anchored)[1] = anchor
            /\ outs(anchored)[2] = paid[1] /\ outs(anchored)[3] = paid[2]
        <5>1. \A i \in 1..3 : (first \o paid)[i] = IF i <= 1 THEN first[i] ELSE paid[i - 1]
          BY <1>4, <4>3, ConcatProperties
        <5>2. Len(first \o paid) = 3
          BY <1>4, <4>3, ConcatProperties
        <5> QED
          BY <4>3, <5>1, <5>2
      <4> QED
        BY <4>4 DEF anchor
    <3>2. \A asset : AmountOf(outs(anchored), asset) =
              Share(outs(anchored)[1], asset) + Share(outs(anchored)[2], asset) +
              Share(outs(anchored)[3], asset)
      BY <1>6, <3>1, AmountsOfFew, Zenon
    <3>3. DOMAIN outs(anchored) = 1..3
      BY <1>6, <3>1
    <3> HIDE DEF outs
    <3> QED
      BY <1>2, <1>4a, <2>1, <3>1, <3>2, <3>3
         DEF Sound, NoEmptyOutput, InLbtc, Share, Output, IsOpret, Opret, FeeSat
  <2>3. CASE ~anchored
    <3>1. outs(anchored) = paid /\ Len(outs(anchored)) = 2
      BY <1>4, <2>3
    <3>2. \A asset : AmountOf(outs(anchored), asset) =
              Share(outs(anchored)[1], asset) + Share(outs(anchored)[2], asset)
      BY <1>6, <3>1, AmountsOfFew, Zenon
    <3>3. DOMAIN outs(anchored) = 1..2
      BY <1>6, <3>1
    <3> HIDE DEF outs
    <3> QED
      BY <1>2, <1>4a, <2>1, <3>1, <3>2, <3>3
         DEF Sound, NoEmptyOutput, InLbtc, Share, Output, FeeSat
  <2> QED
    BY <2>2, <2>3
<1>9. CASE dropAnchor
  <2> DEFINE tampered == [tx(anchored) EXCEPT !.outs = Tail(outs(anchored))]
  <2>1. Tail(outs(anchored)) = paid
    BY <1>1, <1>3, <1>4, <1>9
  <2>2. tampered \in Tx /\ tampered.ins = {coin[s]} /\ tampered.outs = paid
        /\ tampered.payload = payload
    BY <1>4, <1>7, <2>1 DEF Tx
  <2>3. ~Accepts(Program[s], tampered)
    BY <1>5, <2>2, ScriptsDiffer DEF Accepts, RgbAnchorCovenant, AnchorShaped
  <2>4. Emit(s, tx(anchored), "drop-anchor", tampered)
    BY <1>1, <1>9
  <2> HIDE DEF tx, tampered
  <2>5. "drop-anchor" \in Tampers
    BY DEF Tampers
  <2> QED
    BY <1>7, <2>2, <2>3, <2>4, <2>5, PrintsOne
<1>10. CASE ~dropAnchor
  <2>1. Emit(s, tx(anchored), "none", tx(anchored))
    BY <1>1, <1>10
  <2>2. tx(anchored).ins = {coin[s]}
    OBVIOUS
  <2> HIDE DEF tx
  <2>3. LeavesChange /\ SoundCoin(s) => Sound(tx(anchored), At(coin[s]).amount)
    BY <1>8 DEF worth
  <2> QED
    BY <1>7, <2>1, <2>2, <2>3, UntamperedPrints
<1> QED
  BY <1>9, <1>10

\* Whatever the program, it wants the anchor.
LEMMA DropAnchorPrints ==
    ASSUME NEW s \in Seals, NEW tx \in Tx, tx.ins = {coin[s]}, 1 \in DOMAIN tx.outs,
           Emit(s, tx, "drop-anchor", Pay(tx, 1, Funding))
    PROVE  Prints(s)
<1> DEFINE tampered == Pay(tx, 1, Funding)
<1>1. Funding \in Script
  BY Scripts
<1>2. tampered \in Tx /\ tampered.outs[1].script = Funding /\ tampered.ins = tx.ins
  BY <1>1, PayTyped, PayChanges
<1>3. ~AnchorShaped(tampered)
  BY <1>2, ScriptsDiffer DEF AnchorShaped
<1>4. Program[s] \in Programs
  BY CovenantAssumptions
<1>5. ~Accepts(Program[s], tampered)
  BY <1>3, <1>4 DEF Accepts, Programs, RgbAnchorCovenant, MintGateCovenant,
                    MintGateBurnCovenant, StakingCovenant
<1>6. Emit(s, tx, "drop-anchor", tampered)
  OBVIOUS
<1>7. "drop-anchor" \in Tampers
  BY DEF Tampers
<1> HIDE DEF tampered
<1> QED
  BY <1>2, <1>5, <1>6, <1>7, PrintsOne

LEMMA PaidAwayPrints ==
    ASSUME NEW s \in Seals, NEW tx \in Tx, tx.ins = {coin[s]}, NEW k \in DOMAIN tx.outs,
           NEW tamper \in Tampers, tamper # "none",
           Emit(s, tx, tamper, Pay(tx, k, Funding)),
           \A other : other.outs[k].script = Funding => ~Accepts(Program[s], other)
    PROVE  Prints(s)
<1> DEFINE tampered == Pay(tx, k, Funding)
<1>1. Funding \in Script
  BY Scripts
<1>2. tampered \in Tx /\ tampered.outs[k].script = Funding /\ tampered.ins = tx.ins
  BY <1>1, PayTyped, PayChanges
<1>3. Emit(s, tx, tamper, tampered)
  OBVIOUS
<1> HIDE DEF tampered
<1>4. ~Accepts(Program[s], tampered)
  BY <1>2
<1> QED
  BY <1>2, <1>3, <1>4, PrintsOne

LEMMA ShortBackingPrints ==
    ASSUME NEW s \in Seals, NEW tx \in Tx, tx.ins = {coin[s]}, NEW k \in DOMAIN tx.outs,
           Emit(s, tx, "wrong-amount", ShortBacking(tx, k)),
           \A other : other.outs[k].amount = Tranche - 1 => ~Accepts(Program[s], other)
    PROVE  Prints(s)
<1> DEFINE tampered == ShortBacking(tx, k)
<1>1. tampered \in Tx /\ tampered.outs[k].amount = Tranche - 1 /\ tampered.ins = tx.ins
  BY ShortBackingTyped, ShortBackingChanges
<1>2. Emit(s, tx, "wrong-amount", tampered)
  OBVIOUS
<1>3. "wrong-amount" \in Tampers
  BY DEF Tampers
<1> HIDE DEF tampered
<1>4. ~Accepts(Program[s], tampered)
  BY <1>1
<1> QED
  BY <1>1, <1>2, <1>3, <1>4, PrintsOne

LEMMA MintSpendPrints ==
    ASSUME TypeOK, NEW s \in Seals, Program[s] = "mint_gate", Unspent(coin[s]),
           NEW payload \in SUBSET Seals, NEW feeInput \in FeeInputs,
           MintSpend(s, payload, feeInput)
    PROVE  Prints(s)
<1> DEFINE gate == At(coin[s]).amount
           change == feeInput - (RecipientSat + FeeSat)
           outs == << Output("lbtc", 0, Opret(payload)),
                      Output("usdt", Tranche, Vault),
                      Output("lbtc", RecipientSat, Recipient),
                      Output("lbtc", gate, Covenant(Program[s])),
                      Output("lbtc", change, Funding),
                      Output("lbtc", FeeSat, FeeScript) >>
           tx == [ins |-> {coin[s]}, fund |-> [lbtc |-> feeInput, usdt |-> Tranche],
                  outs |-> outs, lock |-> 0, payload |-> payload, preimage |-> FALSE]
<1>1. /\ Covers(feeInput, RecipientSat + FeeSat)
      /\ \/ Emit(s, tx, "none", tx)
         \/ Emit(s, tx, "drop-anchor", Pay(tx, 1, Funding))
         \/ Emit(s, tx, "no-recreate", Pay(tx, 4, Funding))
         \/ Emit(s, tx, "wrong-amount", ShortBacking(tx, 2))
  BY DEF MintSpend
<1>2. coin[s] \in Nat \X Nat /\ gate \in Nat
  <2>1. coin[s] \in Nat \X Nat
    BY DEF TypeOK
  <2> QED
    BY <2>1, CoinTyped DEF Unspent, TxOut
<1>3. /\ change \in Nat /\ feeInput \in Nat
      /\ Tranche \in Nat /\ RecipientSat \in Nat /\ FeeSat \in Nat
  BY <1>1, CovenantAssumptions DEF Covers, RecipientSat, FeeSat
<1>4. outs \in Seq(TxOut) /\ DOMAIN outs = 1..6
  <2> HIDE DEF gate, change
  <2>1. Opret(payload) \in Script /\ Covenant(Program[s]) \in Script
    BY Scripts, CovenantAssumptions
  <2>2. /\ Output("lbtc", 0, Opret(payload)) \in TxOut
        /\ Output("usdt", Tranche, Vault) \in TxOut
        /\ Output("lbtc", RecipientSat, Recipient) \in TxOut
        /\ Output("lbtc", gate, Covenant(Program[s])) \in TxOut
        /\ Output("lbtc", change, Funding) \in TxOut
        /\ Output("lbtc", FeeSat, FeeScript) \in TxOut
    BY <1>2, <1>3, <2>1, OutputTyped, Scripts
  <2> QED
    BY <2>2
<1>4a. ASSUME LeavesChange, SoundCoin(s)
       PROVE  /\ AmountOf(outs, "lbtc") = feeInput + gate /\ AmountOf(outs, "usdt") = Tranche
              /\ \A k \in DOMAIN outs : outs[k].amount = 0 => IsOpret(outs[k].script)
              /\ InLbtc(outs)
  <2>1. gate > 0 /\ change > 0 /\ Tranche > 0
    BY <1>1, <1>2, <1>3, <1>4a, CovenantAssumptions
       DEF SoundCoin, LeavesChange, Covers, RecipientSat, FeeSat
  <2>2. Len(outs) = 6
    OBVIOUS
  <2>3. \A asset : AmountOf(outs, asset) =
            Share(outs[1], asset) + Share(outs[2], asset) + Share(outs[3], asset) +
            Share(outs[4], asset) + Share(outs[5], asset) + Share(outs[6], asset)
    BY <1>4, <2>2, AmountsOfFew, Zenon
  <2> HIDE DEF gate, change
  <2>4. AmountOf(outs, "lbtc") = feeInput + gate
    <3>1. AmountOf(outs, "lbtc") =
              Share(outs[1], "lbtc") + Share(outs[2], "lbtc") +
              Share(outs[3], "lbtc") + Share(outs[4], "lbtc") +
              Share(outs[5], "lbtc") + Share(outs[6], "lbtc")
      BY <2>3, Zenon
    <3>2. /\ Share(outs[1], "lbtc") = 0
          /\ Share(outs[2], "lbtc") = 0
          /\ Share(outs[3], "lbtc") = RecipientSat
          /\ Share(outs[4], "lbtc") = gate
          /\ Share(outs[5], "lbtc") = change
          /\ Share(outs[6], "lbtc") = FeeSat
      BY DEF Share, Output
    <3> HIDE DEF outs
    <3> QED
      BY <1>2, <1>3, <3>1, <3>2 DEF change, RecipientSat, FeeSat
  <2>5. AmountOf(outs, "usdt") = Tranche
    <3>1. AmountOf(outs, "usdt") =
              Share(outs[1], "usdt") + Share(outs[2], "usdt") +
              Share(outs[3], "usdt") + Share(outs[4], "usdt") +
              Share(outs[5], "usdt") + Share(outs[6], "usdt")
      BY <2>3, Zenon
    <3>2. /\ Share(outs[1], "usdt") = 0
          /\ Share(outs[2], "usdt") = Tranche
          /\ Share(outs[3], "usdt") = 0
          /\ Share(outs[4], "usdt") = 0
          /\ Share(outs[5], "usdt") = 0
          /\ Share(outs[6], "usdt") = 0
      BY DEF Share, Output
    <3> HIDE DEF outs
    <3> QED
      BY <1>2, <1>3, <3>1, <3>2
  <2>6. \A k \in 1..6 : outs[k].amount = 0 => IsOpret(outs[k].script)
    BY <1>2, <1>3, <2>1 DEF Output, IsOpret, Opret, RecipientSat, FeeSat
  <2>7. \A k \in 1..6 : outs[k].asset = "lbtc" \/ outs[k].script \in {Vault, Opret(payload)}
    BY DEF Output
  <2> HIDE DEF outs
  <2>8. InLbtc(outs)
    BY <1>4, <2>7, ScriptsDiffer DEF InLbtc
  <2> QED
    BY <1>4, <2>4, <2>5, <2>6, <2>8
<1> HIDE DEF outs
<1>5. tx \in Tx /\ tx.ins = {coin[s]} /\ tx.outs = outs
  <2>1. [lbtc |-> feeInput, usdt |-> Tranche] \in [{"lbtc", "usdt"} -> Nat]
    BY <1>3
  <2> QED
    BY <1>2, <1>4, <2>1 DEF Tx
<1>5a. LeavesChange /\ SoundCoin(s) => Sound(tx, At(coin[s]).amount)
  BY <1>4a, <1>5 DEF Sound, NoEmptyOutput, gate
<1> HIDE DEF tx
<1>6. \A other : other.outs[4].script = Funding => ~Accepts(Program[s], other)
  BY ScriptsDiffer DEF Accepts, MintGateCovenant
<1>7. \A other : other.outs[2].amount = Tranche - 1 => ~Accepts(Program[s], other)
  BY CovenantAssumptions DEF Accepts, MintGateCovenant, BacksTranche
<1>8. "no-recreate" \in Tampers
  BY DEF Tampers
<1>9. 1 \in DOMAIN tx.outs /\ 2 \in DOMAIN tx.outs /\ 4 \in DOMAIN tx.outs
  BY <1>4, <1>5
<1>10. CASE Emit(s, tx, "none", tx)
  BY <1>5, <1>5a, <1>10, UntamperedPrints
<1>11. CASE Emit(s, tx, "drop-anchor", Pay(tx, 1, Funding))
  BY <1>5, <1>9, <1>11, DropAnchorPrints
<1>12. CASE Emit(s, tx, "no-recreate", Pay(tx, 4, Funding))
  BY <1>5, <1>6, <1>8, <1>9, <1>12, PaidAwayPrints
<1>13. CASE Emit(s, tx, "wrong-amount", ShortBacking(tx, 2))
  BY <1>5, <1>7, <1>9, <1>13, ShortBackingPrints
<1> QED
  BY <1>1, <1>10, <1>11, <1>12, <1>13

LEMMA MintSpendBurnPrints ==
    ASSUME TypeOK, NEW s \in Seals, Program[s] = "mint_gate_burn", Unspent(coin[s]),
           NEW payload \in SUBSET Seals, NEW feeInput \in FeeInputs,
           MintSpendBurn(s, payload, feeInput)
    PROVE  Prints(s)
<1> DEFINE gate == At(coin[s]).amount
           change == feeInput - (RecipientSat + FeeSat)
           outs == << Output("usdt", Tranche, Opret(payload)),
                      Output("lbtc", RecipientSat, Recipient),
                      Output("lbtc", gate, Covenant(Program[s])),
                      Output("lbtc", change, Funding),
                      Output("lbtc", FeeSat, FeeScript) >>
           tx == [ins |-> {coin[s]}, fund |-> [lbtc |-> feeInput, usdt |-> Tranche],
                  outs |-> outs, lock |-> 0, payload |-> payload, preimage |-> FALSE]
<1>1. /\ Covers(feeInput, RecipientSat + FeeSat)
      /\ \/ Emit(s, tx, "none", tx)
         \/ Emit(s, tx, "drop-anchor", Pay(tx, 1, Funding))
         \/ Emit(s, tx, "no-recreate", Pay(tx, 3, Funding))
         \/ Emit(s, tx, "wrong-amount", ShortBacking(tx, 1))
  BY DEF MintSpendBurn
<1>2. coin[s] \in Nat \X Nat /\ gate \in Nat
  <2>1. coin[s] \in Nat \X Nat
    BY DEF TypeOK
  <2> QED
    BY <2>1, CoinTyped DEF Unspent, TxOut
<1>3. /\ change \in Nat /\ feeInput \in Nat
      /\ Tranche \in Nat /\ RecipientSat \in Nat /\ FeeSat \in Nat
  BY <1>1, CovenantAssumptions DEF Covers, RecipientSat, FeeSat
<1>4. outs \in Seq(TxOut) /\ DOMAIN outs = 1..5
  <2> HIDE DEF gate, change
  <2>1. Opret(payload) \in Script /\ Covenant(Program[s]) \in Script
    BY Scripts, CovenantAssumptions
  <2>2. /\ Output("usdt", Tranche, Opret(payload)) \in TxOut
        /\ Output("lbtc", RecipientSat, Recipient) \in TxOut
        /\ Output("lbtc", gate, Covenant(Program[s])) \in TxOut
        /\ Output("lbtc", change, Funding) \in TxOut
        /\ Output("lbtc", FeeSat, FeeScript) \in TxOut
    BY <1>2, <1>3, <2>1, OutputTyped, Scripts
  <2> QED
    BY <2>2
<1>4a. ASSUME LeavesChange, SoundCoin(s)
       PROVE  /\ AmountOf(outs, "lbtc") = feeInput + gate /\ AmountOf(outs, "usdt") = Tranche
              /\ \A k \in DOMAIN outs : outs[k].amount = 0 => IsOpret(outs[k].script)
              /\ InLbtc(outs)
  <2>1. gate > 0 /\ change > 0 /\ Tranche > 0
    BY <1>1, <1>2, <1>3, <1>4a, CovenantAssumptions
       DEF SoundCoin, LeavesChange, Covers, RecipientSat, FeeSat
  <2>2. Len(outs) = 5
    OBVIOUS
  <2>3. \A asset : AmountOf(outs, asset) =
            Share(outs[1], asset) + Share(outs[2], asset) + Share(outs[3], asset) +
            Share(outs[4], asset) + Share(outs[5], asset)
    BY <1>4, <2>2, AmountsOfFew, Zenon
  <2> HIDE DEF gate, change
  <2>4. AmountOf(outs, "lbtc") = feeInput + gate
    <3>1. AmountOf(outs, "lbtc") =
              Share(outs[1], "lbtc") + Share(outs[2], "lbtc") +
              Share(outs[3], "lbtc") + Share(outs[4], "lbtc") +
              Share(outs[5], "lbtc")
      BY <2>3, Zenon
    <3>2. /\ Share(outs[1], "lbtc") = 0
          /\ Share(outs[2], "lbtc") = RecipientSat
          /\ Share(outs[3], "lbtc") = gate
          /\ Share(outs[4], "lbtc") = change
          /\ Share(outs[5], "lbtc") = FeeSat
      BY DEF Share, Output
    <3> HIDE DEF outs
    <3> QED
      BY <1>2, <1>3, <3>1, <3>2 DEF change, RecipientSat, FeeSat
  <2>5. AmountOf(outs, "usdt") = Tranche
    <3>1. AmountOf(outs, "usdt") =
              Share(outs[1], "usdt") + Share(outs[2], "usdt") +
              Share(outs[3], "usdt") + Share(outs[4], "usdt") +
              Share(outs[5], "usdt")
      BY <2>3, Zenon
    <3>2. /\ Share(outs[1], "usdt") = Tranche
          /\ Share(outs[2], "usdt") = 0
          /\ Share(outs[3], "usdt") = 0
          /\ Share(outs[4], "usdt") = 0
          /\ Share(outs[5], "usdt") = 0
      BY DEF Share, Output
    <3> HIDE DEF outs
    <3> QED
      BY <1>2, <1>3, <3>1, <3>2
  <2>6. \A k \in 1..5 : outs[k].amount = 0 => IsOpret(outs[k].script)
    BY <1>2, <1>3, <2>1 DEF Output, IsOpret, Opret, RecipientSat, FeeSat
  <2>7. \A k \in 1..5 : outs[k].asset = "lbtc" \/ outs[k].script \in {Vault, Opret(payload)}
    BY DEF Output
  <2> HIDE DEF outs
  <2>8. InLbtc(outs)
    BY <1>4, <2>7, ScriptsDiffer DEF InLbtc
  <2> QED
    BY <1>4, <2>4, <2>5, <2>6, <2>8
<1> HIDE DEF outs
<1>5. tx \in Tx /\ tx.ins = {coin[s]} /\ tx.outs = outs
  <2>1. [lbtc |-> feeInput, usdt |-> Tranche] \in [{"lbtc", "usdt"} -> Nat]
    BY <1>3
  <2> QED
    BY <1>2, <1>4, <2>1 DEF Tx
<1>5a. LeavesChange /\ SoundCoin(s) => Sound(tx, At(coin[s]).amount)
  BY <1>4a, <1>5 DEF Sound, NoEmptyOutput, gate
<1> HIDE DEF tx
<1>6. \A other : other.outs[3].script = Funding => ~Accepts(Program[s], other)
  BY ScriptsDiffer DEF Accepts, MintGateBurnCovenant
<1>7. \A other : other.outs[1].amount = Tranche - 1 => ~Accepts(Program[s], other)
  BY CovenantAssumptions DEF Accepts, MintGateBurnCovenant, BacksTranche
<1>8. "no-recreate" \in Tampers
  BY DEF Tampers
<1>9. 1 \in DOMAIN tx.outs /\ 3 \in DOMAIN tx.outs
  BY <1>4, <1>5
<1>10. CASE Emit(s, tx, "none", tx)
  BY <1>5, <1>5a, <1>10, UntamperedPrints
<1>11. CASE Emit(s, tx, "drop-anchor", Pay(tx, 1, Funding))
  BY <1>5, <1>9, <1>11, DropAnchorPrints
<1>12. CASE Emit(s, tx, "no-recreate", Pay(tx, 3, Funding))
  BY <1>5, <1>6, <1>8, <1>9, <1>12, PaidAwayPrints
<1>13. CASE Emit(s, tx, "wrong-amount", ShortBacking(tx, 1))
  BY <1>5, <1>7, <1>9, <1>13, ShortBackingPrints
<1> QED
  BY <1>1, <1>10, <1>11, <1>12, <1>13

LEMMA UnstakeSpendPrints ==
    ASSUME TypeOK, NEW s \in Seals, Program[s] = "staking", Unspent(coin[s]),
           NEW payload \in SUBSET Seals, NEW feeInput \in FeeInputs, NEW principal \in Principals,
           UnstakeSpend(s, payload, feeInput, principal)
    PROVE  Prints(s)
<1> DEFINE stake == At(coin[s]).amount
           change == stake + feeInput - (principal + FeeSat)
           outs == << Output("lbtc", 0, Opret(payload)),
                      Output("lbtc", principal, Staker),
                      Output("lbtc", change, Funding),
                      Output("lbtc", FeeSat, FeeScript) >>
           tx == [ins |-> {coin[s]}, fund |-> [lbtc |-> feeInput, usdt |-> 0],
                  outs |-> outs, lock |-> Maturity, payload |-> payload, preimage |-> FALSE]
<1>1. /\ Covers(stake + feeInput, principal + FeeSat)
      /\ \/ Emit(s, tx, "none", tx)
         \/ Emit(s, tx, "drop-anchor", Pay(tx, 1, Funding))
         \/ Emit(s, tx, "wrong-dest", Pay(tx, 2, Funding))
  BY DEF UnstakeSpend
<1>2. coin[s] \in Nat \X Nat /\ stake \in Nat
  <2>1. coin[s] \in Nat \X Nat
    BY DEF TypeOK
  <2> QED
    BY <2>1, CoinTyped DEF Unspent, TxOut
<1> HIDE DEF stake
<1>3. change \in Nat /\ feeInput \in Nat /\ principal \in Nat /\ FeeSat \in Nat
  BY <1>1, <1>2, CovenantAssumptions DEF Covers, FeeSat
<1>4. outs \in Seq(TxOut) /\ DOMAIN outs = 1..4
  <2> HIDE DEF change
  <2>1. /\ Output("lbtc", 0, Opret(payload)) \in TxOut
        /\ Output("lbtc", principal, Staker) \in TxOut
        /\ Output("lbtc", change, Funding) \in TxOut
        /\ Output("lbtc", FeeSat, FeeScript) \in TxOut
    BY <1>2, <1>3, OutputTyped, Scripts
  <2> QED
    BY <2>1
<1>4a. ASSUME LeavesChange, SoundCoin(s)
       PROVE  /\ AmountOf(outs, "lbtc") = feeInput + stake /\ AmountOf(outs, "usdt") = 0
              /\ \A k \in DOMAIN outs : outs[k].amount = 0 => IsOpret(outs[k].script)
              /\ InLbtc(outs)
  <2>1. stake > 0 /\ change > 0 /\ principal > 0
    BY <1>1, <1>2, <1>3, <1>4a, CovenantAssumptions
       DEF SoundCoin, LeavesChange, Covers, FeeSat, Gates, stake
  <2>2. Len(outs) = 4
    OBVIOUS
  <2>3. \A asset : AmountOf(outs, asset) =
            Share(outs[1], asset) + Share(outs[2], asset) + Share(outs[3], asset) +
            Share(outs[4], asset)
    BY <1>4, <2>2, AmountsOfFew, Zenon
  <2> HIDE DEF stake, change
  <2>4. AmountOf(outs, "lbtc") = feeInput + stake
    <3>1. AmountOf(outs, "lbtc") =
              Share(outs[1], "lbtc") + Share(outs[2], "lbtc") +
              Share(outs[3], "lbtc") + Share(outs[4], "lbtc")
      BY <2>3, Zenon
    <3>2. /\ Share(outs[1], "lbtc") = 0
          /\ Share(outs[2], "lbtc") = principal
          /\ Share(outs[3], "lbtc") = change
          /\ Share(outs[4], "lbtc") = FeeSat
      BY DEF Share, Output
    <3> HIDE DEF outs
    <3> QED
      BY <1>2, <1>3, <3>1, <3>2 DEF change, RecipientSat, FeeSat
  <2>5. AmountOf(outs, "usdt") = 0
    <3>1. AmountOf(outs, "usdt") =
              Share(outs[1], "usdt") + Share(outs[2], "usdt") +
              Share(outs[3], "usdt") + Share(outs[4], "usdt")
      BY <2>3, Zenon
    <3>2. /\ Share(outs[1], "usdt") = 0
          /\ Share(outs[2], "usdt") = 0
          /\ Share(outs[3], "usdt") = 0
          /\ Share(outs[4], "usdt") = 0
      BY DEF Share, Output
    <3> HIDE DEF outs
    <3> QED
      BY <1>2, <1>3, <3>1, <3>2
  <2>6. \A k \in 1..4 : outs[k].amount = 0 => IsOpret(outs[k].script)
    BY <1>2, <1>3, <2>1 DEF Output, IsOpret, Opret, RecipientSat, FeeSat
  <2>7. \A k \in 1..4 : outs[k].asset = "lbtc" \/ outs[k].script \in {Vault, Opret(payload)}
    BY DEF Output
  <2> HIDE DEF outs
  <2>8. InLbtc(outs)
    BY <1>4, <2>7, ScriptsDiffer DEF InLbtc
  <2> QED
    BY <1>4, <2>4, <2>5, <2>6, <2>8
<1> HIDE DEF outs
<1>5. tx \in Tx /\ tx.ins = {coin[s]} /\ tx.outs = outs
  <2>1. [lbtc |-> feeInput, usdt |-> 0] \in [{"lbtc", "usdt"} -> Nat]
    BY <1>3
  <2> QED
    BY <1>2, <1>4, <2>1, CovenantAssumptions DEF Tx
<1>5a. LeavesChange /\ SoundCoin(s) => Sound(tx, At(coin[s]).amount)
  BY <1>4a, <1>5 DEF Sound, NoEmptyOutput, stake
<1> HIDE DEF tx
<1>6. \A other : other.outs[2].script = Funding => ~Accepts(Program[s], other)
  BY ScriptsDiffer DEF Accepts, StakingCovenant
<1>7. "wrong-dest" \in Tampers
  BY DEF Tampers
<1>8. 1 \in DOMAIN tx.outs /\ 2 \in DOMAIN tx.outs
  BY <1>4, <1>5
<1>9. CASE Emit(s, tx, "none", tx)
  BY <1>5, <1>5a, <1>9, UntamperedPrints
<1>10. CASE Emit(s, tx, "drop-anchor", Pay(tx, 1, Funding))
  BY <1>5, <1>8, <1>10, DropAnchorPrints
<1>11. CASE Emit(s, tx, "wrong-dest", Pay(tx, 2, Funding))
  BY <1>5, <1>6, <1>7, <1>8, <1>11, PaidAwayPrints
<1> QED
  BY <1>1, <1>9, <1>10, <1>11

LEMMA BuildPrints ==
    ASSUME TypeOK, Build
    PROVE  \E s \in Seals : Unspent(coin[s]) /\ Prints(s)
<1>1. PICK s \in Seals, payload \in Payloads :
        /\ Unspent(coin[s])
        /\ \/ Program[s] = "rgb_anchor" /\ \E preimage \in BOOLEAN : Spend(s, payload, preimage)
           \/ /\ Program[s] = "mint_gate"
              /\ \E feeInput \in FeeInputs : MintSpend(s, payload, feeInput)
           \/ /\ Program[s] = "mint_gate_burn"
              /\ \E feeInput \in FeeInputs : MintSpendBurn(s, payload, feeInput)
           \/ /\ Program[s] = "staking"
              /\ \E feeInput \in FeeInputs, principal \in Principals :
                    UnstakeSpend(s, payload, feeInput, principal)
  BY DEF Build
<1>2. payload \in SUBSET Seals /\ FeeInputs \subseteq Nat /\ Principals \subseteq Nat
  BY CovenantAssumptions
<1> QED
  BY <1>1, <1>2, SpendPrints, MintSpendPrints, MintSpendBurnPrints, UnstakeSpendPrints
-----------------------------------------------------------------------------
(***************************************************************************)
(* The chain only grows: what it holds stays, and what one more            *)
(* transaction spends is spent.                                            *)
(***************************************************************************)
LEMMA ChainGrows ==
    ASSUME TypeOK, NEW entry, chain' = Append(chain, entry)
    PROVE  /\ DOMAIN chain' = DOMAIN chain \cup {Len(chain) + 1}
           /\ Len(chain) \in Nat /\ DOMAIN chain = 1..Len(chain)
           /\ chain'[Len(chain) + 1] = entry
           /\ \A i \in DOMAIN chain : chain'[i] = chain[i]
  BY DEF TypeOK

LEMMA OutputsStay ==
    ASSUME TypeOK, NEW entry, chain' = Append(chain, entry)
    PROVE  /\ \A op : IsOutput(op) => IsOutput(op)' /\ At(op)' = At(op)
           /\ \A op, p : Locks(chain, op, p) => Locks(chain', op, p)
           /\ Spent' = Spent \cup entry.tx.ins
<1>1. /\ DOMAIN chain' = DOMAIN chain \cup {Len(chain) + 1}
      /\ chain'[Len(chain) + 1] = entry
      /\ \A i \in DOMAIN chain : chain'[i] = chain[i]
  BY ChainGrows
<1>2. \A op : IsOutput(op) => IsOutput(op)' /\ At(op)' = At(op)
  BY <1>1 DEF IsOutput, At
<1>3. \A op, p : Locks(chain, op, p) => Locks(chain', op, p)
  BY <1>1 DEF Locks
<1>4. Spent' = Spent \cup entry.tx.ins
  BY <1>1 DEF Spent
<1> QED
  BY <1>2, <1>3, <1>4

\* A coin that has not been made is not spent either, and the next ones are new.
LEMMA FreshCoin ==
    ASSUME TypeOK, SpentMade, NEW k
    PROVE  <<Len(chain) + 1, k>> \notin Spent /\ ~IsOutput(<<Len(chain) + 1, k>>)
  BY DEF TypeOK, SpentMade, IsOutput

LEMMA NoCoinIsNone ==
    ASSUME TypeOK
    PROVE  ~IsOutput(NoCoin)
  BY DEF TypeOK, IsOutput, NoCoin

\* Whoever closes a seal has satisfied its program.
LEMMA ClosingAccepted ==
    ASSUME TypeOK, CoinsKnown, NEW tx, NodeAccepts(tx), NEW s \in Seals, coin[s] \in tx.ins
    PROVE  Accepts(Program[s], tx) /\ coin[s] # NoCoin
<1>1. Unspent(coin[s])
  BY DEF NodeAccepts, WellFormed
<1>2. coin[s] # NoCoin
  BY <1>1, NoCoinIsNone DEF Unspent
<1>3. At(coin[s]).script = Covenant(Program[s])
  BY <1>2 DEF CoinsKnown, Locks, At
<1>4. Program[s] \in Programs
  BY CovenantAssumptions
<1> QED
  BY <1>2, <1>3, <1>4 DEF NodeAccepts, CovenantsHold

\* The gate is where Recreated says.
LEMMA GateRecreated ==
    ASSUME NEW g \in Gates, NEW tx \in Tx, Accepts(Program[g], tx)
    PROVE  /\ Recreated(Program[g]) \in DOMAIN tx.outs
           /\ tx.outs[Recreated(Program[g])].script = Covenant(Program[g])
<1>1. DOMAIN tx.outs = 1..Len(tx.outs) /\ Len(tx.outs) \in Nat
  BY DEF Tx
<1>2. CASE Program[g] = "mint_gate"
  BY <1>1, <1>2 DEF Accepts, MintGateCovenant, Recreated
<1>3. CASE Program[g] = "mint_gate_burn"
  BY <1>1, <1>3 DEF Accepts, MintGateBurnCovenant, Recreated
<1> QED
  BY <1>2, <1>3 DEF Gates

(***************************************************************************)
(* What is locked is an output.  As long as its coin is an output, nothing *)
(* about a printed transaction or a coin of some worth changes.            *)
(***************************************************************************)
LEMMA LockedIsOutput ==
    ASSUME NEW op, NEW p, Locks(chain, op, p)
    PROVE  IsOutput(op)
  BY DEF Locks, IsOutput

LEMMA BuiltStaysRight ==
    ASSUME BuiltRight, built' = built, NEW entry, TypeOK, chain' = Append(chain, entry)
    PROVE  BuiltRight'
<1> SUFFICES ASSUME NEW b \in built
             PROVE  \E op \in Nat \X Nat :
                       /\ b.tx.ins = {op} /\ Locks(chain', op, Program[b.seal])
                       /\ b.tamper # "none" => ~Accepts(Program[b.seal], b.tx)
                       /\ b.tamper = "none" =>
                             /\ Accepts(Program[b.seal], b.tx)
                             /\ Orderly => At(op)'.asset = "lbtc" /\ Sound(b.tx, At(op)'.amount)
  BY Zenon DEF BuiltRight
<1>1. PICK op \in Nat \X Nat :
        /\ b.tx.ins = {op} /\ Locks(chain, op, Program[b.seal])
        /\ b.tamper # "none" => ~Accepts(Program[b.seal], b.tx)
        /\ b.tamper = "none" =>
              /\ Accepts(Program[b.seal], b.tx)
              /\ Orderly => At(op).asset = "lbtc" /\ Sound(b.tx, At(op).amount)
  BY Zenon DEF BuiltRight
<1>2. Locks(chain', op, Program[b.seal]) /\ At(op)' = At(op)
  BY <1>1, OutputsStay, LockedIsOutput
<1> QED
  BY <1>1, <1>2

LEMMA CoinStaysSound ==
    ASSUME TypeOK, CoinsKnown, CoinsSound, Orderly, NEW entry, chain' = Append(chain, entry),
           NEW s \in Seals, coin'[s] = coin[s], coin[s] # NoCoin
    PROVE  SoundCoin(s)'
<1>1. SoundCoin(s) /\ IsOutput(coin[s])
  BY LockedIsOutput DEF CoinsSound, CoinsKnown
<1>2. At(coin[s])' = At(coin[s])
  BY <1>1, OutputsStay DEF At
<1> QED
  BY <1>1, <1>2 DEF SoundCoin
-----------------------------------------------------------------------------
(***************************************************************************)
(* Each kind of step keeps the invariant.                                  *)
(***************************************************************************)
LEMMA FundKeeps ==
    ASSUME CovenantInv, NEW s \in Seals, Fund(s)
    PROVE  CovenantInv'
<1> USE DEF CovenantInv
<1> DEFINE tx == [ins |-> {}, fund |-> [lbtc |-> Worth[s], usdt |-> 0],
                  outs |-> <<Output("lbtc", Worth[s], Covenant(Program[s]))>>,
                  lock |-> 0, payload |-> {}, preimage |-> FALSE]
           entry == [tx |-> tx, height |-> height + 1, closes |-> {}]
           new == <<Len(chain) + 1, 1>>
<1>1. chain' = Append(chain, entry) /\ coin' = [coin EXCEPT ![s] = new] /\ built' = built
  BY DEF Fund
<1>2. entry.tx.ins = {} /\ entry.closes = {} /\ entry.tx.lock < entry.height
  BY DEF TypeOK
<1>3. /\ DOMAIN entry.tx.outs = {1} /\ entry.tx.outs[1].script = Covenant(Program[s])
      /\ entry.tx.outs[1].asset = "lbtc" /\ entry.tx.outs[1].amount = Worth[s]
  BY DEF Output
<1> HIDE DEF entry
<1>4. /\ \A op : IsOutput(op) => IsOutput(op)'
      /\ \A op, p : Locks(chain, op, p) => Locks(chain', op, p)
      /\ Spent' = Spent
  BY <1>1, <1>2, OutputsStay
<1>5. /\ DOMAIN chain' = DOMAIN chain \cup {Len(chain) + 1}
      /\ chain'[Len(chain) + 1] = entry
      /\ \A i \in DOMAIN chain : chain'[i] = chain[i]
  BY <1>1, ChainGrows
<1>5a. chain'[new[1]].tx.outs[new[2]] = entry.tx.outs[1]
  BY <1>5
<1>6. Locks(chain', new, Program[s]) /\ new \notin Spent'
  BY <1>3, <1>4, <1>5, FreshCoin DEF Locks
<1>7. coin'[s] = new /\ \A t \in Seals \ {s} : coin'[t] = coin[t]
  BY <1>1 DEF TypeOK
<1> HIDE DEF new
<1>8. TypeOK'
  BY FundTyped
<1>9. CoinsKnown'
  <2>1. \A t \in Seals \ {s} : coin[t] # NoCoin => Locks(chain', coin[t], Program[t])
    BY <1>4 DEF CoinsKnown
  <2>2. \A t \in Seals : coin'[t] # NoCoin => Locks(chain', coin'[t], Program[t])
    BY <2>1, <1>6, <1>7
  <2> QED
    BY <2>2 DEF CoinsKnown
<1>10. GateStands'
  <2>1. \A t \in Gates \ {s} : coin[t] # NoCoin => coin[t] \notin Spent'
    BY <1>4 DEF GateStands, Unspent
  <2>2. \A t \in Gates : coin'[t] # NoCoin => coin'[t] \notin Spent'
    BY <2>1, <1>6, <1>7 DEF Gates
  <2> QED
    BY <2>2, <1>9 DEF GateStands, CoinsKnown, Locks, Unspent, IsOutput, At, Gates
<1>11. SpentMade'
  BY <1>4 DEF SpentMade
<1>12. ClosedAccepted'
  BY <1>2, <1>5 DEF ClosedAccepted
<1>13. CoinsSound'
  <2> SUFFICES ASSUME Orderly, NEW t \in Seals, coin'[t] # NoCoin
               PROVE  SoundCoin(t)'
    BY DEF CoinsSound
  <2>1. CASE t = s
    <3>1. Worth[s] \in Nat \ {0}
      BY CovenantAssumptions
    <3>2. At(coin[s])' = entry.tx.outs[1]
      BY <1>5a, <1>7 DEF At
    <3> QED
      BY <1>3, <2>1, <3>1, <3>2 DEF SoundCoin
  <2>2. CASE t # s
    BY <1>1, <1>7, <2>2, CoinStaysSound
  <2> QED
    BY <2>1, <2>2
<1>14. BuiltRight'
  BY <1>1, BuiltStaysRight
<1> QED
  BY <1>8, <1>9, <1>10, <1>11, <1>12, <1>13, <1>14

LEMMA AcceptKeeps ==
    ASSUME CovenantInv, NEW tx \in Tx, Accept(tx), Orderly => InLbtc(tx.outs)
    PROVE  CovenantInv'
<1> USE DEF CovenantInv
<1> DEFINE closes == { s \in Seals : coin[s] \in tx.ins }
           entry == [tx |-> tx, height |-> height + 1, closes |-> closes]
           next(s) == <<Len(chain) + 1, Recreated(Program[s])>>
<1>1. /\ chain' = Append(chain, entry) /\ built' = built /\ NodeAccepts(tx)
      /\ coin' = [s \in Seals |-> IF s \in closes \cap Gates THEN next(s) ELSE coin[s]]
  BY DEF Accept
<1>2. entry.tx = tx /\ entry.closes = closes /\ entry.tx.lock < entry.height
  <2>1. tx.lock <= height /\ tx.lock \in Nat /\ height \in Nat
    BY <1>1 DEF NodeAccepts, WellFormed, Final, Tx, TypeOK
  <2> QED
    BY <2>1
<1>3. \A s \in closes : Accepts(Program[s], tx) /\ coin[s] # NoCoin
  BY <1>1, ClosingAccepted
<1> HIDE DEF entry
<1>4. /\ \A op : IsOutput(op) => IsOutput(op)'
      /\ \A op, p : Locks(chain, op, p) => Locks(chain', op, p)
      /\ Spent' = Spent \cup tx.ins
  BY <1>1, <1>2, OutputsStay
<1>5. /\ DOMAIN chain' = DOMAIN chain \cup {Len(chain) + 1}
      /\ chain'[Len(chain) + 1] = entry
      /\ \A i \in DOMAIN chain : chain'[i] = chain[i]
  BY <1>1, ChainGrows
<1>6. \A op \in tx.ins : IsOutput(op)
  BY <1>1 DEF NodeAccepts, WellFormed, Unspent
<1>7. \A s \in closes \cap Gates :
        Locks(chain', next(s), Program[s]) /\ next(s) \notin Spent'
  <2> SUFFICES ASSUME NEW s \in closes \cap Gates
               PROVE  Locks(chain', next(s), Program[s]) /\ next(s) \notin Spent'
    OBVIOUS
  <2>1. /\ Recreated(Program[s]) \in DOMAIN tx.outs
        /\ tx.outs[Recreated(Program[s])].script = Covenant(Program[s])
    BY <1>3, GateRecreated
  <2>2. next(s) \notin Spent /\ ~IsOutput(next(s))
    BY FreshCoin
  <2> QED
    BY <2>1, <2>2, <1>2, <1>4, <1>5, <1>6 DEF Locks
<1>7a. ASSUME Orderly, NEW s \in closes \cap Gates
       PROVE  LET out == chain'[next(s)[1]].tx.outs[next(s)[2]]
              IN  out.asset = "lbtc" /\ out.amount > 0
  <2>1. /\ Recreated(Program[s]) \in DOMAIN tx.outs
        /\ tx.outs[Recreated(Program[s])].script = Covenant(Program[s])
    BY <1>3, GateRecreated
  <2>2. chain'[next(s)[1]].tx.outs[next(s)[2]] = tx.outs[Recreated(Program[s])]
    BY <1>2, <1>5
  <2>3. tx.outs[Recreated(Program[s])].amount # 0
    BY <1>1, <2>1, ScriptsDiffer DEF NodeAccepts, WellFormed, NoEmptyOutput
  <2>4. tx.outs[Recreated(Program[s])].asset = "lbtc"
    BY <1>7a, <2>1, CovenantAssumptions DEF InLbtc
  <2>5. tx.outs[Recreated(Program[s])].amount \in Nat
    <3>1. tx.outs \in Seq(TxOut)
      BY DEF Tx
    <3>2. tx.outs[Recreated(Program[s])] \in TxOut
      BY <2>1, <3>1, EntryOfSeq
    <3> QED
      BY <3>2 DEF TxOut
  <2> QED
    BY <2>2, <2>3, <2>4, <2>5
<1>8. /\ \A s \in closes \cap Gates : coin'[s] = next(s)
      /\ \A s \in Seals : s \notin closes \cap Gates => coin'[s] = coin[s]
  BY <1>1
<1> HIDE DEF next
<1>9. TypeOK'
  BY AcceptTyped
<1>10. CoinsKnown'
  <2>1. \A t \in Seals : coin[t] # NoCoin => Locks(chain', coin[t], Program[t])
    BY <1>4 DEF CoinsKnown
  <2>2. \A t \in Seals : coin'[t] # NoCoin => Locks(chain', coin'[t], Program[t])
    BY <2>1, <1>7, <1>8
  <2> QED
    BY <2>2 DEF CoinsKnown
<1>11. GateStands'
  <2>1. \A t \in Gates \ closes : coin[t] # NoCoin => coin[t] \notin Spent'
    BY <1>4 DEF GateStands, Unspent, Gates
  <2>2. \A t \in Gates : coin'[t] # NoCoin => coin'[t] \notin Spent'
    BY <2>1, <1>7, <1>8 DEF Gates
  <2> QED
    BY <2>2, <1>10 DEF GateStands, CoinsKnown, Locks, Unspent, IsOutput, At, Gates
<1>12. SpentMade'
  BY <1>4, <1>6 DEF SpentMade
<1>13. ClosedAccepted'
  BY <1>2, <1>3, <1>5 DEF ClosedAccepted
<1>14. CoinsSound'
  <2> SUFFICES ASSUME Orderly, NEW t \in Seals, coin'[t] # NoCoin
               PROVE  SoundCoin(t)'
    BY DEF CoinsSound
  <2>1. CASE t \in closes \cap Gates
    <3>1. At(coin[t])' = chain'[next(t)[1]].tx.outs[next(t)[2]]
      BY <1>8, <2>1 DEF At
    <3> QED
      BY <1>7a, <2>1, <3>1 DEF SoundCoin
  <2>2. CASE t \notin closes \cap Gates
    BY <1>1, <1>8, <2>2, CoinStaysSound
  <2> QED
    BY <2>1, <2>2
<1>15. BuiltRight'
  BY <1>1, BuiltStaysRight
<1> QED
  BY <1>9, <1>10, <1>11, <1>12, <1>13, <1>14, <1>15

LEMMA BuildKeeps ==
    ASSUME CovenantInv, Build
    PROVE  CovenantInv'
<1> USE DEF CovenantInv
<1>1. PICK s \in Seals : Unspent(coin[s]) /\ Prints(s)
  BY BuildPrints
<1>2. PICK tx \in Tx, tampered \in Tx, tamper \in Tampers :
        /\ Emit(s, tx, tamper, tampered)
        /\ tampered.ins = {coin[s]}
        /\ tamper # "none" => ~Accepts(Program[s], tampered)
        /\ tamper = "none" =>
              /\ Accepts(Program[s], tampered)
              /\ LeavesChange /\ SoundCoin(s) => Sound(tampered, At(coin[s]).amount)
  BY <1>1, Zenon DEF Prints
<1> DEFINE b == [seal |-> s, tx |-> tampered, tamper |-> tamper]
<1>3. built' = built \cup {b} /\ chain' = chain /\ coin' = coin
  BY <1>2 DEF Emit
<1>4. TypeOK'
  BY <1>2, EmitTyped
<1>5. coin[s] \in Nat \X Nat /\ coin[s] # NoCoin /\ Locks(chain, coin[s], Program[s])
  BY <1>1, NoCoinIsNone DEF Unspent, CoinsKnown, TypeOK
<1>6. Orderly => LeavesChange /\ SoundCoin(s)
  BY <1>5 DEF CoinsSound, Orderly
<1>7. /\ b.tx.ins = {coin[s]} /\ Locks(chain, coin[s], Program[b.seal])
      /\ b.tamper # "none" => ~Accepts(Program[b.seal], b.tx)
      /\ b.tamper = "none" =>
            /\ Accepts(Program[b.seal], b.tx)
            /\ Orderly => At(coin[s]).asset = "lbtc" /\ Sound(b.tx, At(coin[s]).amount)
  BY <1>2, <1>5, <1>6 DEF SoundCoin
<1> HIDE DEF b
<1>8. BuiltRight'
  <2>1. \A c \in built' : c \in built \/ c = b
    BY <1>3
  <2>2. \A op : At(op)' = At(op)
    BY <1>3 DEF At
  <2> QED
    BY <1>3, <1>5, <1>7, <2>1, <2>2, Zenon DEF BuiltRight
<1>9. CoinsSound'
  BY <1>3 DEF CoinsSound, SoundCoin, At
<1> QED
  BY <1>3, <1>4, <1>8, <1>9
     DEF CoinsKnown, GateStands, SpentMade, ClosedAccepted, IsOutput, At,
                                Spent, Unspent

LEMMA OthersKeep ==
    ASSUME CovenantInv, Mine \/ UNCHANGED vars
    PROVE  CovenantInv'
<1>1. chain' = chain /\ coin' = coin /\ kept' = kept /\ built' = built /\ height' \in Nat
  BY DEF CovenantInv, Mine, vars, TypeOK
<1>2. TypeOK'
  BY <1>1 DEF CovenantInv, TypeOK
<1>3. (CoinsKnown /\ GateStands)' /\ (SpentMade /\ ClosedAccepted)'
  BY <1>1 DEF CovenantInv, CoinsKnown, GateStands, SpentMade, ClosedAccepted,
              IsOutput, At, Spent, Unspent
<1>4. CoinsSound' /\ BuiltRight'
  BY <1>1 DEF CovenantInv, CoinsSound, SoundCoin, BuiltRight, At
<1> QED
  BY <1>2, <1>3, <1>4 DEF CovenantInv

\* What was tampered with is refused in every state.
LEMMA TamperedNotAccepted ==
    ASSUME CovenantInv, NEW b \in built, b.tamper # "none"
    PROVE  ~NodeAccepts(b.tx)
<1>1. PICK op \in Nat \X Nat : b.tx.ins = {op} /\ Locks(chain, op, Program[b.seal])
  BY Zenon DEF CovenantInv, BuiltRight
<1>2. ~Accepts(Program[b.seal], b.tx)
  BY Zenon DEF CovenantInv, BuiltRight
<1>3. Program[b.seal] \in Programs
  BY CovenantAssumptions DEF CovenantInv, TypeOK
<1> QED
  BY <1>1, <1>2, <1>3 DEF NodeAccepts, CovenantsHold, Locks, At

LEMMA CovenantInvHolds == Spec => []CovenantInv
<1>1. Init => CovenantInv
  BY DEF Init, CovenantInv, TypeOK, CoinsKnown, GateStands, SpentMade, ClosedAccepted,
         CoinsSound, BuiltRight, Spent, NoCoin, Gates
<1>2. CovenantInv /\ [Next]_vars => CovenantInv'
  <2> SUFFICES ASSUME CovenantInv, [Next]_vars
               PROVE  CovenantInv'
    OBVIOUS
  <2>1. CASE \E s \in Seals : Fund(s)
    BY <2>1, FundKeeps
  <2>2. CASE Build
    BY <2>2, BuildKeeps
  <2>3. CASE Send
    <3>1. PICK b \in built : Accept(b.tx)
      BY <2>3 DEF Send
    <3>2. b.tx \in Tx
      BY <3>1 DEF CovenantInv, TypeOK
    <3>3. b.tamper = "none"
      BY <3>1, TamperedNotAccepted DEF Accept
    <3>4. Orderly => InLbtc(b.tx.outs)
      BY <3>1, <3>3, Zenon DEF CovenantInv, BuiltRight, Sound
    <3> QED
      BY <3>1, <3>2, <3>4, AcceptKeeps
  <2>4. CASE AnySpend
    <3>1. PICK tx \in Tx : Accept(tx) /\ tx.outs \in Layouts
      BY <2>4, AnySpendTyped DEF CovenantInv
    <3>2. Orderly => InLbtc(tx.outs)
      BY <3>1 DEF Orderly, GatesInLbtc
    <3> QED
      BY <3>1, <3>2, AcceptKeeps
  <2>5. CASE Mine \/ UNCHANGED vars
    BY <2>5, OthersKeep
  <2> QED
    BY <2>1, <2>2, <2>3, <2>4, <2>5 DEF Next
<1> QED
  BY <1>1, <1>2, PTL DEF Spec
-----------------------------------------------------------------------------
\* The variables of Covenants have the types of TypeOK.
THEOREM CovenantTypeCorrect == Spec => []TypeOK
<1>1. CovenantInv => TypeOK
  BY DEF CovenantInv
<1> QED
  BY <1>1, CovenantInvHolds, PTL

(***************************************************************************)
(* However many gates there are, and whoever spends them, together or not: *)
(* a funded gate always is an unspent coin under its covenant.             *)
(***************************************************************************)
THEOREM GatesStandForEver == Spec => []GateStands
<1>1. CovenantInv => GateStands
  BY DEF CovenantInv
<1> QED
  BY <1>1, CovenantInvHolds, PTL

(***************************************************************************)
(* No seal is closed without an anchor, no stake before its maturity or in *)
(* a transaction whose second output does not pay the staker.              *)
(***************************************************************************)
THEOREM SealsClosedByTheRules == Spec => []ClosedByTheRules
<1>1. CovenantInv => ClosedByTheRules
  <2> SUFFICES ASSUME CovenantInv, NEW i \in DOMAIN chain, NEW s \in chain[i].closes
               PROVE  /\ IsOpret(chain[i].tx.outs[1].script)
                      /\ Program[s] = "staking" =>
                            chain[i].height > Maturity /\ chain[i].tx.outs[2].script = Staker
    BY DEF ClosedByTheRules
  <2> DEFINE tx == chain[i].tx
  <2>1. Accepts(Program[s], tx) /\ tx.lock < chain[i].height
    BY DEF CovenantInv, ClosedAccepted
  <2>2. chain[i] \in [tx : Tx, height : Nat, closes : SUBSET Seals]
    BY EntryOfSeq DEF CovenantInv, TypeOK
  <2>3. s \in Seals /\ Program[s] \in Programs /\ tx.lock \in Nat /\ chain[i].height \in Nat
    BY <2>2, CovenantAssumptions DEF Tx
  <2>4. AnchorShaped(tx)
    BY <2>1, <2>3 DEF Accepts, Programs, RgbAnchorCovenant, MintGateCovenant,
                      MintGateBurnCovenant, StakingCovenant
  <2>5. IsOpret(tx.outs[1].script)
    BY <2>4 DEF AnchorShaped, IsOpret, Opret
  <2>6. ASSUME Program[s] = "staking"
        PROVE  chain[i].height > Maturity /\ tx.outs[2].script = Staker
    BY <2>1, <2>3, <2>6, CovenantAssumptions DEF Accepts, StakingCovenant
  <2> QED
    BY <2>5, <2>6
<1> QED
  BY <1>1, CovenantInvHolds, PTL

(***************************************************************************)
(* When every gate has a covenant of its own, each mint has a deposit of   *)
(* its own, also in a transaction that spends several gates.               *)
(***************************************************************************)
THEOREM EveryMintBacked ==
    ASSUME \A g, h \in Gates : Program[g] = Program[h] => g = h
    PROVE  Spec => []OwnDeposit
<1>1. CovenantInv => OwnDeposit
  <2> SUFFICES ASSUME CovenantInv, NEW i \in DOMAIN chain,
                      NEW g \in chain[i].closes \cap Gates, NEW h \in chain[i].closes \cap Gates
               PROVE  /\ BacksTranche(chain[i].tx.outs[Deposit(Program[g])])
                      /\ \/ chain[i].tx.outs[Deposit(Program[g])].script = Vault
                         \/ IsOpret(chain[i].tx.outs[Deposit(Program[g])].script)
                      /\ g # h => Deposit(Program[g]) # Deposit(Program[h])
    BY DEF OwnDeposit
  <2>1. Accepts(Program[g], chain[i].tx)
    BY DEF CovenantInv, ClosedAccepted
  <2>2. CASE Program[g] = "mint_gate"
    <3>1. MintGateCovenant(chain[i].tx)
      BY <2>1, <2>2 DEF Accepts
    <3>2. g # h => Program[h] = "mint_gate_burn"
      BY <2>2 DEF Gates
    <3> QED
      BY <2>2, <3>1, <3>2 DEF MintGateCovenant, Deposit
  <2>3. CASE Program[g] = "mint_gate_burn"
    <3>1. MintGateBurnCovenant(chain[i].tx)
      BY <2>1, <2>3 DEF Accepts
    <3>2. g # h => Program[h] = "mint_gate"
      BY <2>3 DEF Gates
    <3> QED
      BY <2>3, <3>1, <3>2 DEF MintGateBurnCovenant, AnchorShaped, IsOpret, Opret, Deposit
  <2> QED
    BY <2>2, <2>3 DEF Gates
<1> QED
  BY <1>1, CovenantInvHolds, PTL

(***************************************************************************)
(* What the commands tamper with is refused by the node in every state.    *)
(***************************************************************************)
THEOREM TamperedAlwaysRefused == Spec => []TamperedRefused
<1>1. CovenantInv => TamperedRefused
  BY TamperedNotAccepted DEF TamperedRefused
<1> QED
  BY <1>1, CovenantInvHolds, PTL

(***************************************************************************)
(* What the commands print untampered is accepted whenever its coin is     *)
(* there and its lock time has come, if their arguments leave some change  *)
(* and every spend that re-creates a gate does so in L-BTC.                *)
(***************************************************************************)
THEOREM BuiltSpendsAreServed ==
    ASSUME LeavesChange, GatesInLbtc
    PROVE  Spec => []BuiltIsAccepted
<1>1. CovenantInv => BuiltIsAccepted
  <2> SUFFICES ASSUME CovenantInv, NEW b \in built, b.tamper = "none",
                      \A op \in b.tx.ins : Unspent(op), Final(b.tx)
               PROVE  NodeAccepts(b.tx)
    BY DEF BuiltIsAccepted
  <2>1. PICK op \in Nat \X Nat :
          /\ b.tx.ins = {op} /\ Locks(chain, op, Program[b.seal])
          /\ b.tamper # "none" => ~Accepts(Program[b.seal], b.tx)
          /\ b.tamper = "none" =>
                /\ Accepts(Program[b.seal], b.tx)
                /\ Orderly => At(op).asset = "lbtc" /\ Sound(b.tx, At(op).amount)
    BY Zenon DEF CovenantInv, BuiltRight
  <2>2. At(op).asset = "lbtc" /\ Sound(b.tx, At(op).amount) /\ Accepts(Program[b.seal], b.tx)
    BY <2>1 DEF Orderly
  <2>3. At(op).amount \in Nat /\ b.tx \in Tx
    <3>1. TypeOK
      BY DEF CovenantInv
    <3>2. At(op) \in TxOut
      BY <2>1, <3>1, LockedIsOutput, CoinTyped
    <3> QED
      BY <3>1, <3>2 DEF TxOut, TypeOK
  <2>4. Share(At(op), "lbtc") = At(op).amount /\ Share(At(op), "usdt") = 0
    BY <2>2 DEF Share
  <2>5. CoinsOf(b.tx.ins, "lbtc") = At(op).amount /\ CoinsOf(b.tx.ins, "usdt") = 0
    BY <2>1, <2>3, <2>4, OneCoin
  <2>6. Balanced(b.tx)
    BY <2>2, <2>3, <2>5 DEF Balanced, Sound, Tx
  <2>7. CovenantsHold(b.tx)
    BY <2>1, <2>2, ScriptsDiffer DEF CovenantsHold, Locks, At
  <2> QED
    BY <2>2, <2>6, <2>7 DEF NodeAccepts, WellFormed, Sound
<1> QED
  BY <1>1, CovenantInvHolds, PTL
=============================================================================
