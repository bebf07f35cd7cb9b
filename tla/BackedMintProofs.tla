-------------------------- MODULE BackedMintProofs --------------------------
(***************************************************************************)
(* What the two checks of backed mints find is so, for every rate, supply, *)
(* set of seals, length of history, number of receivers and width of a     *)
(* u64.  bfa-audit: the history it finds good is the contract's own and    *)
(* its supply is backed.  verify-backed-mint: a gate seal stands for one   *)
(* mint, and the deposits of all receivers cover their mints.              *)
(***************************************************************************)
EXTENDS BfaAudit, MintReceipt, FiniteSums, SequenceTheorems, TLAPS

(***************************************************************************)
(* The sum of verify_backing is the whole sum, cut at the largest u64.     *)
(***************************************************************************)
Values(vault) == [i \in DOMAIN vault |-> vault[i].value]

Capped(n) == IF n < U64 THEN n ELSE U64 - 1

LEMMA LockedIsCapped ==
    ASSUME U64 # 0, NEW vault \in Seq(VaultOut)
    PROVE  Locked(vault) = Capped(SumFunctionOnSet(Values(vault), DOMAIN vault))
<1> DEFINE N == Len(vault)
           F(s) == [n \in 0..N |-> IF n = 0 THEN 0
                                            ELSE AddSaturating(s[n - 1], vault[n].value)]
           sum == CHOOSE s : s = F(s)
           T(n) == SumFunctionOnSet(Values(vault), 1..n)
           s0 == [n \in 0..N |-> Capped(T(n))]
<1>1. /\ U64 \in Nat \ {0} /\ N \in Nat /\ DOMAIN vault = 1..N
      /\ \A i \in 1..N : vault[i].value \in Nat /\ Values(vault)[i] = vault[i].value
  <2>1. U64 \in Nat
      BY TermsParse
  <2>2. N \in Nat /\ DOMAIN vault = 1..N /\ \A i \in 1..N : vault[i] \in VaultOut
      OBVIOUS
  <2>3. 0..(U64 - 1) \subseteq Nat
      BY <2>1
  <2>4. \A out \in VaultOut : out.value \in Nat
      BY <2>3 DEF VaultOut
  <2>5. QED
      BY <2>1, <2>2, <2>4 DEF Values
<1>2. T(0) = 0
  <2>1. 1..0 = {}
      OBVIOUS
  <2>2. QED
      BY <2>1, SumEmpty
<1>3. ASSUME NEW n \in 1..N
      PROVE  T(n) = vault[n].value + T(n - 1) /\ T(n - 1) \in Nat
  <2>1. 1..n = 1..(n - 1) \cup {n} /\ n \notin 1..(n - 1)
      BY <1>1
  <2>2. IsFiniteSet(1..(n - 1))
      BY <1>1, FS_Interval
  <2>3. \A i \in 1..(n - 1) \cup {n} : Values(vault)[i] \in Nat
      BY <1>1
  <2>4. SumFunctionOnSet(Values(vault), 1..(n - 1) \cup {n})
            = Values(vault)[n] + SumFunctionOnSet(Values(vault), 1..(n - 1))
      BY <2>1, <2>2, <2>3, SumAdd
  <2>5. SumFunctionOnSet(Values(vault), 1..(n - 1)) \in Nat
      BY <2>2, <2>3, SumType
  <2>6. T(n) = SumFunctionOnSet(Values(vault), 1..(n - 1) \cup {n})
      BY ONLY <2>1, Zenon
  <2>7. QED
      BY <1>1, <2>4, <2>5, <2>6
<1> HIDE DEF T
<1>4. ASSUME NEW n \in 0..N
      PROVE  s0[n] = F(s0)[n]
  <2>1. CASE n = 0
      BY <1>1, <1>2, <2>1 DEF Capped
  <2>2. CASE n # 0
    <3>1. n \in 1..N /\ n - 1 \in 0..N
        BY <1>1, <2>2
    <3>2. T(n) = vault[n].value + T(n - 1) /\ T(n - 1) \in Nat /\ vault[n].value \in Nat
        BY <1>1, <1>3, <3>1
    <3>3. s0[n - 1] = Capped(T(n - 1)) /\ s0[n] = Capped(T(n))
        BY <3>1
    <3>4. Capped(T(n)) = AddSaturating(Capped(T(n - 1)), vault[n].value)
        BY <1>1, <3>2 DEF Capped, AddSaturating
    <3>5. QED
        BY <2>2, <3>3, <3>4
  <2>3. QED
      BY <2>1, <2>2
<1>5. sum = F(sum)
  <2>1. s0 = F(s0)
      BY <1>4
  <2>2. QED
      BY <2>1
<1>6. Locked(vault) = sum[N]
    BY DEF Locked
<1> HIDE DEF sum
<1> DEFINE Q == { n \in Nat : n =< N => sum[n] = s0[n] }
<1>7. 0 \in Q
  <2>1. 0 \in 0..N
      BY <1>1
  <2>2. QED
      BY <1>4, <1>5, <2>1
<1>8. ASSUME NEW n \in Nat, n \in Q
      PROVE  n + 1 \in Q
  <2> SUFFICES ASSUME n + 1 =< N PROVE sum[n + 1] = s0[n + 1]
      OBVIOUS
  <2>1. n + 1 \in 0..N /\ n + 1 # 0 /\ (n + 1) - 1 = n /\ n =< N
      BY <1>1
  <2>2. sum[n] = s0[n]
      BY <1>8, <2>1
  <2>3. sum[n + 1] = AddSaturating(sum[n], vault[n + 1].value)
      BY <1>5, <2>1
  <2>4. s0[n + 1] = AddSaturating(s0[n], vault[n + 1].value)
      BY <1>4, <2>1
  <2>5. QED
      BY <2>2, <2>3, <2>4
<1>9. N \in Q
  <2> HIDE DEF Q
  <2> QED
      BY <1>1, <1>7, <1>8, NatInduct
<1>10. sum[N] = Capped(T(N))
    BY <1>1, <1>9
<1>11. QED
    BY <1>1, <1>6, <1>10 DEF T

(***************************************************************************)
(* ceil(x / d) is the least whole number that d carries to x.              *)
(***************************************************************************)
LEMMA CeilingIsLeast ==
    ASSUME NEW x \in Nat, NEW d \in Nat \ {0}, NEW n \in Nat
    PROVE  /\ (x + d - 1) \div d \in Nat
           /\ n >= (x + d - 1) \div d <=> n * d >= x
<1> DEFINE q == (x + d - 1) \div d
           r == (x + d - 1) % d
<1>1. q \in Nat /\ r \in 0..(d - 1) /\ x + d - 1 = d * q + r
    OBVIOUS
<1> HIDE DEF q, r
<1>2. d * q >= x /\ d * q < x + d
    BY <1>1
<1>3. ASSUME n >= q PROVE n * d >= x
  <2>1. n * d >= q * d
      BY <1>1, <1>3
  <2>2. QED
      BY <1>1, <1>2, <2>1
<1>4. ASSUME n < q PROVE n * d < x
  <2>1. n + 1 =< q
      BY <1>1, <1>4
  <2>2. (n + 1) * d =< q * d
      BY <1>1, <2>1
  <2>3. (n + 1) * d = n * d + d
      OBVIOUS
  <2>4. QED
      BY <1>1, <1>2, <2>2, <2>3
<1>5. n \in Nat /\ q \in Nat /\ n * d \in Nat
    BY <1>1
<1>6. QED
    BY <1>1, <1>3, <1>4, <1>5 DEF q

(***************************************************************************)
(* What the backing rule says of the deposit.                              *)
(***************************************************************************)
LEMMA BackingMeans ==
    ASSUME U64 # 0, NEW vault \in Seq(VaultOut), NEW required \in Nat
    PROVE  /\ Deposit(vault) \in Nat
           /\ VerifyBacking(vault, required) => Deposit(vault) >= required
           /\ /\ required < U64 /\ Deposit(vault) >= required
              /\ \A i \in DOMAIN vault : vault[i].kind = "backing"
              => VerifyBacking(vault, required)
<1> DEFINE held == [i \in DOMAIN vault |->
                       IF vault[i].kind = "backing" THEN vault[i].value ELSE 0]
<1>1. /\ U64 \in Nat \ {0} /\ IsFiniteSet(DOMAIN vault)
      /\ \A i \in DOMAIN vault : vault[i].value \in Nat
  <2>1. U64 \in Nat
      BY TermsParse
  <2>2. Len(vault) \in Nat /\ DOMAIN vault = 1..Len(vault)
        /\ \A i \in DOMAIN vault : vault[i] \in VaultOut
      OBVIOUS
  <2>3. 0..(U64 - 1) \subseteq Nat
      BY <2>1
  <2>4. \A out \in VaultOut : out.value \in Nat
      BY <2>3 DEF VaultOut
  <2>5. IsFiniteSet(1..Len(vault))
      BY <2>2, FS_Interval
  <2>6. QED
      BY <2>1, <2>2, <2>4, <2>5
<1>2. \A i \in DOMAIN vault : held[i] \in Nat
    BY <1>1
<1>3. Deposit(vault) = SumFunctionOnSet(held, DOMAIN vault)
    BY DEF Deposit
<1>4. ASSUME \A i \in DOMAIN vault : vault[i].kind = "backing"
      PROVE  Locked(vault) = Capped(Deposit(vault))
  <2>1. \A i \in DOMAIN vault : held[i] = Values(vault)[i]
      BY <1>4 DEF Values
  <2>2. SumFunctionOnSet(Values(vault), DOMAIN vault) = SumFunctionOnSet(held, DOMAIN vault)
    <3>1. \A i \in DOMAIN vault : Values(vault)[i] = held[i]
        BY <2>1
    <3> HIDE DEF held
    <3>2. QED
        BY <1>1, <1>2, <3>1, SumSame
  <2>3. QED
      BY <1>3, <2>2, LockedIsCapped
<1> HIDE DEF held
<1>5. Deposit(vault) \in Nat
    BY <1>1, <1>2, <1>3, SumType
<1>6. QED
    BY <1>1, <1>4, <1>5 DEF VerifyBacking, Capped

LEMMA AuditMintMeans ==
    ASSUME NEW c \in Contracts, NEW vault \in Seq(VaultOut), NEW mint \in Nat
    PROVE  /\ AuditMint(c, mint, vault) => Deposit(vault) * c.den >= mint * c.num
           /\ /\ mint * c.num =< (U64 - 1) * c.den
              /\ Deposit(vault) * c.den >= mint * c.num
              /\ \A i \in DOMAIN vault : vault[i].kind = "backing"
              => AuditMint(c, mint, vault)
<1>1. U64 # 0 /\ c.num \in Nat /\ c.den \in Nat \ {0}
    BY TermsParse
<1>2. Deposit(vault) \in Nat
    BY <1>1, BackingMeans
<1>3. mint * c.num \in Nat
    BY <1>1
<1> DEFINE x == mint * c.num
<1> HIDE DEF x
<1>4. /\ (x + c.den - 1) \div c.den \in Nat
      /\ Deposit(vault) >= (x + c.den - 1) \div c.den <=> Deposit(vault) * c.den >= x
    BY <1>1, <1>2, <1>3, CeilingIsLeast DEF x
<1>5. /\ Required(c, mint) \in Nat
      /\ Deposit(vault) >= Required(c, mint) <=> Deposit(vault) * c.den >= mint * c.num
    BY <1>4 DEF Required, x
<1>6. mint * c.num =< (U64 - 1) * c.den => Required(c, mint) < U64
  <2>1. U64 \in Nat \ {0} /\ U64 - 1 \in Nat
    BY TermsParse
  <2>2. U64 - 1 >= (x + c.den - 1) \div c.den <=> (U64 - 1) * c.den >= x
    BY <1>1, <1>3, <2>1, CeilingIsLeast DEF x
  <2>3. Required(c, mint) = (x + c.den - 1) \div c.den
    BY DEF Required, x
  <2>4. (U64 - 1) * c.den \in Int /\ x \in Int
    BY <1>1, <1>3, <2>1 DEF x
  <2>5. QED
    BY <1>5, <2>1, <2>2, <2>3, <2>4 DEF x
<1>7. QED
    BY <1>1, <1>5, <1>6, BackingMeans DEF AuditMint
-----------------------------------------------------------------------------
(***************************************************************************)
(* The chain.  A witness transaction has one taproot output: the scripts   *)
(* build it so, and nothing on chain enforces it.                          *)
(***************************************************************************)
OneAnchor == MaxAnchors <= 1

AnchorsSingle == OneAnchor => \A t \in DOMAIN txs : DOMAIN txs[t].anchors \subseteq {1}

\* What the node knows at one time spends no seal twice.
SpentOnce == \A s, t \in Known : s # t => txs[s].closes \cap txs[t].closes = {}

(***************************************************************************)
(* A new transaction leaves the others what they are, conflicts with no    *)
(* mined one and replaces the waiting ones it conflicts with.              *)
(***************************************************************************)
LEMMA BroadcastGrows ==
    ASSUME NEW S, NEW commitments \in SUBSET S, ChainTypeOK(TxOf(S)), AnchorsSingle,
           Broadcast(commitments)
    PROVE  /\ ChainTypeOK(TxOf(S))' /\ AnchorsSingle'
           /\ SpentOnce => SpentOnce'
           /\ DOMAIN txs \subseteq DOMAIN txs' /\ \A t \in DOMAIN txs : txs'[t] = txs[t]
<1>1. PICK closes \in SUBSET (Seals \ Closed) \ {{}},
           anchors \in SeqOf(commitments, MaxAnchors),
           vault \in VaultOuts :
        /\ txs' = Append(txs, [closes |-> closes, anchors |-> anchors, vault |-> vault])
        /\ mempool' = { t \in mempool : txs[t].closes \cap closes = {} }
                          \cup {Len(txs) + 1}
    BY DEF Broadcast
<1> DEFINE tx == [closes |-> closes, anchors |-> anchors, vault |-> vault]
<1>2. anchors \in Seq(S) /\ (OneAnchor => DOMAIN anchors \subseteq {1})
  <2>1. PICK m \in 0..MaxAnchors : anchors \in [1..m -> commitments]
    BY DEF SeqOf
  <2>2. m \in Nat /\ (OneAnchor => m \in {0, 1})
    BY ChainBounds DEF OneAnchor
  <2>3. anchors \in [1..m -> S]
    BY <2>1, <2>2
  <2>4. anchors \in Seq(S)
    BY <2>2, <2>3
  <2>5. QED
    BY <2>2, <2>3, <2>4
<1>3. tx \in TxOf(S)
    BY <1>2 DEF TxOf
<1>4. /\ txs \in Seq(TxOf(S))
      /\ mempool \subseteq DOMAIN txs /\ mined \subseteq DOMAIN txs \ mempool
    BY DEF ChainTypeOK
<1>5. PICK n \in Nat : n = Len(txs) + 1
    BY <1>4
<1>6. /\ txs' \in Seq(TxOf(S))
      /\ DOMAIN txs' = 1..n /\ DOMAIN txs = 1..(n - 1) /\ n \notin DOMAIN txs
      /\ DOMAIN txs \subseteq DOMAIN txs'
      /\ \A t \in DOMAIN txs' : t = n \/ t \in DOMAIN txs
      /\ \A t \in DOMAIN txs : txs'[t] = txs[t]
      /\ txs'[n] = tx
    BY <1>1, <1>3, <1>4, <1>5
<1>7. mined' = mined
    BY DEF Broadcast
<1>8. ChainTypeOK(TxOf(S))'
  <2>1. mempool' \subseteq mempool \cup {n} /\ n \in DOMAIN txs'
    BY <1>1, <1>5, <1>6
  <2>2. /\ txs' \in Seq(TxOf(S))
        /\ mempool' \subseteq DOMAIN txs' /\ mined' \subseteq DOMAIN txs' \ mempool'
    BY <1>4, <1>6, <1>7, <2>1
  <2>3. QED
    BY <2>2 DEF ChainTypeOK, TxOf
<1>9. AnchorsSingle'
    BY <1>2, <1>6 DEF AnchorsSingle
<1>10. ASSUME SpentOnce PROVE SpentOnce'
  <2>1. \A t \in mined : txs[t].closes \cap closes = {}
    BY <1>1, <1>4 DEF Closed
  <2>2. \A t \in Known' :
            t = n \/ (t \in Known /\ txs'[t] = txs[t] /\ txs[t].closes \cap closes = {})
    BY <1>1, <1>4, <1>5, <1>6, <1>7, <2>1 DEF Known
  <2>3. txs'[n].closes = closes
    BY <1>6
  <2>4. QED
    BY <1>10, <2>2, <2>3 DEF SpentOnce
<1>11. QED
    BY <1>6, <1>8, <1>9, <1>10

LEMMA BlockKeeps ==
    ASSUME NEW S, ChainTypeOK(TxOf(S)), Block
    PROVE  ChainTypeOK(TxOf(S))' /\ Known' = Known /\ txs' = txs
<1>1. PICK t \in mempool : mempool' = mempool \ {t} /\ mined' = mined \cup {t}
    BY DEF Block
<1>2. txs' = txs
    BY DEF Block
<1>3. Known' = Known
    BY <1>1 DEF Known
<1>4. QED
    BY <1>1, <1>2, <1>3 DEF ChainTypeOK, TxOf
-----------------------------------------------------------------------------
(***************************************************************************)
(* bfa-audit.                                                              *)
(***************************************************************************)
\* The vault is paid in the backing asset or in blinded outputs.
NoOtherAsset ==
    \A vault \in VaultOuts : \A i \in DOMAIN vault : vault[i].kind # "other"

\* Every mint read has its witness among the transactions broadcast.
WitnessesKnown ==
    /\ DOMAIN claims = DOMAIN path
    /\ \A i \in DOMAIN claims : claims[i].witness \in DOMAIN txs

\* The auditor counts as the contract does, whatever the file says.
PathFollowed ==
    /\ \A i \in DOMAIN path : Chained(contract, path, i)
    /\ allowance = LeftOf(contract, path, Len(path) + 1)
    /\ allowance > 0 => gate = GateOf(contract, path, Len(path) + 1)

\* As long as no check has failed, the auditor is where the contract is.
PathCarried ==
    OneAnchor /\ ~failed =>
        \A i \in DOMAIN path : Carries(claims[i].witness, contract, path, i)

Pays(i) ==
    Deposit(txs[claims[i].witness].vault) * contract.den >= path[i].mint * contract.num

PathPaid == ~failed => \A i \in DOMAIN path : Pays(i)

\* What failed is still there to be seen.
FailureSeen == NoOtherAsset /\ failed => \E i \in DOMAIN path : ~Genuine(i)

Verdict == (verdict = "ok" => ~failed) /\ (verdict = "failed" => failed)

AuditInv ==
    /\ TypeOK
    /\ AnchorsSingle
    /\ WitnessesKnown
    /\ PathFollowed
    /\ PathCarried
    /\ PathPaid
    /\ FailureSeen
    /\ Verdict

(***************************************************************************)
(* A mint that can be built stays within the allowance and commits to its  *)
(* arguments.                                                              *)
(***************************************************************************)
LEMMA InflateStep ==
    ASSUME TypeOK, NEW mint \in Amounts, NEW newGate \in Seals \cup {NoSeal},
           Builds(allowance, mint, newGate)
    PROVE  /\ Inflate(allowance, mint, newGate) \in Step
           /\ allowance - mint \in 0..contract.max
           /\ allowance > mint => newGate \in Seals
<1>1. mint \in 1..(U64 - 1) /\ U64 \in Nat
    BY ChainBounds, TermsParse
<1>2. contract.max \in 0..(U64 - 1) /\ allowance \in 0..contract.max
    BY TermsParse DEF TypeOK
<1>3. mint <= allowance /\ (allowance > mint => newGate # NoSeal)
    BY DEF Builds
<1>4. allowance \in 0..(U64 - 1)
    BY <1>1, <1>2
<1>5. QED
    BY <1>1, <1>2, <1>3, <1>4 DEF Inflate, Step

(***************************************************************************)
(* Every commitment the issuer can anchor is well-formed.                  *)
(***************************************************************************)
LEMMA CommitmentsTyped == Commitments \subseteq Anchor
<1> SUFFICES ASSUME NEW c \in Contracts, NEW p \in MintPaths(c)
             PROVE  Commitment(c, p) \in Anchor
    BY DEF Commitments
<1>1. MintSteps(c) \subseteq Step
  <2> SUFFICES ASSUME NEW t \in (0..c.max) \X Amounts \X (Seals \cup {NoSeal})
               PROVE  Inflate(t[1], t[2], t[3]) \in Step
    BY DEF MintSteps
  <2>1. t[1] \in 0..c.max /\ t[2] \in Amounts /\ t[3] \in Seals \cup {NoSeal}
    OBVIOUS
  <2>2. c.max \in 0..(U64 - 1) /\ U64 \in Nat
    BY TermsParse
  <2>3. QED
    BY <2>1, <2>2 DEF Inflate, Step
<1>2. PICK n \in 0..MaxMints : p \in [1..n -> MintSteps(c)]
    BY DEF MintPaths, SeqOf
<1>3. n \in Nat
    BY ChainBounds
<1>4. p \in Seq(Step)
    BY <1>1, <1>2, <1>3
<1>5. QED
    BY <1>4 DEF Commitment, Anchor

(***************************************************************************)
(* What is said of a mint of the path depends on the path up to it and on  *)
(* its witness transaction.                                                *)
(***************************************************************************)
LEMMA MintStands ==
    ASSUME NEW i, contract' = contract, path'[i] = path[i],
           LeftOf(contract, path', i) = LeftOf(contract, path, i),
           GateOf(contract, path', i) = GateOf(contract, path, i),
           SubSeq(path', 1, i) = SubSeq(path, 1, i),
           claims'[i] = claims[i],
           txs'[claims[i].witness] = txs[claims[i].witness]
    PROVE  /\ Chained(contract, path, i)' <=> Chained(contract, path, i)
           /\ Carries(claims[i].witness, contract, path, i)'
                  <=> Carries(claims[i].witness, contract, path, i)
           /\ Pays(i)' <=> Pays(i)
           /\ Genuine(i)' <=> Genuine(i)
<1>1. Chained(contract, path, i)' <=> Chained(contract, path, i)
    BY DEF Chained, LeftOf
<1>2. Carries(claims[i].witness, contract, path, i)'
          <=> Carries(claims[i].witness, contract, path, i)
    BY DEF Carries, GateOf, Commitment
<1>3. Pays(i)' <=> Pays(i)
    BY DEF Pays, Deposit
<1>4. Genuine(i)' <=> Genuine(i)
    BY DEF Genuine, GateOf, Commitment, Deposit
<1>5. QED
    BY <1>1, <1>2, <1>3, <1>4

(***************************************************************************)
(* The audit starts at the genesis.                                        *)
(***************************************************************************)
LEMMA AuditInit == Init => AuditInv
<1> SUFFICES ASSUME Init PROVE AuditInv
    OBVIOUS
<1>1. contract \in Contracts /\ contract.max \in Nat /\ contract.gate \in Seals
    BY TermsParse, ChainBounds DEF Init
<1>2. TypeOK
  <2>1. contract.max \in 0..contract.max
    BY <1>1
  <2>2. <<>> \in Seq(WitnessTx) /\ <<>> \in Seq([mint : Amounts, witness : Nat])
        /\ <<>> \in Seq(Step)
    OBVIOUS
  <2>3. /\ mempool \subseteq DOMAIN txs /\ mined \subseteq DOMAIN txs \ mempool
        /\ before \subseteq DOMAIN txs
    BY DEF Init, ChainInit
  <2>4. QED
    BY <1>1, <2>1, <2>2, <2>3, Zenon DEF Init, ChainInit, TypeOK, ChainTypeOK
<1>3. AnchorsSingle /\ WitnessesKnown /\ PathCarried /\ PathPaid /\ FailureSeen /\ Verdict
    BY DEF Init, ChainInit, AnchorsSingle, WitnessesKnown, PathCarried, PathPaid, FailureSeen, Verdict
<1>4. PathFollowed
    BY DEF Init, PathFollowed, LeftOf, GateOf
<1>5. QED
    BY <1>2, <1>3, <1>4 DEF AuditInv

(***************************************************************************)
(* A new transaction takes nothing back that the audit has relied on.      *)
(***************************************************************************)
LEMMA MintKeeps ==
    ASSUME AuditInv, Mint
    PROVE  AuditInv'
<1>1. UNCHANGED <<contract, claims, path, allowance, gate, failed, before, verdict>>
    BY DEF Mint, audit
<1>2. ChainTypeOK(TxOf(Anchor))
    BY DEF AuditInv, TypeOK, WitnessTx
<1>3. Commitments \in SUBSET Anchor /\ Broadcast(Commitments) /\ AnchorsSingle
    BY CommitmentsTyped DEF Mint, AuditInv
<1>4. /\ ChainTypeOK(TxOf(Anchor))' /\ AnchorsSingle'
      /\ DOMAIN txs \subseteq DOMAIN txs' /\ \A t \in DOMAIN txs : txs'[t] = txs[t]
    BY <1>2, <1>3, BroadcastGrows
<1>5. TypeOK'
    BY <1>1, <1>4 DEF AuditInv, TypeOK, WitnessTx
<1>6. WitnessesKnown'
    BY <1>1, <1>4 DEF AuditInv, WitnessesKnown
<1>7. ASSUME NEW i \in DOMAIN path
       PROVE  /\ Chained(contract, path, i)' <=> Chained(contract, path, i)
              /\ Carries(claims[i].witness, contract, path, i)'
                     <=> Carries(claims[i].witness, contract, path, i)
              /\ Pays(i)' <=> Pays(i)
              /\ Genuine(i)' <=> Genuine(i)
  <2>1. txs'[claims[i].witness] = txs[claims[i].witness]
    BY <1>4 DEF AuditInv, WitnessesKnown
  <2>2. QED
    BY <1>1, <2>1, MintStands
<1>8. PathFollowed'
  <2>1. /\ LeftOf(contract, path, Len(path) + 1)' = LeftOf(contract, path, Len(path) + 1)
        /\ GateOf(contract, path, Len(path) + 1)' = GateOf(contract, path, Len(path) + 1)
    BY <1>1 DEF LeftOf, GateOf
  <2>2. QED
    BY <1>1, <1>7, <2>1 DEF AuditInv, PathFollowed
<1>9. PathCarried' /\ PathPaid' /\ FailureSeen' /\ Verdict'
    BY <1>1, <1>7 DEF AuditInv, PathCarried, PathPaid, FailureSeen, Verdict
<1>10. QED
    BY <1>4, <1>5, <1>6, <1>8, <1>9 DEF AuditInv

(***************************************************************************)
(* A claim that passes every check is the next mint of the contract.       *)
(***************************************************************************)
LEMMA ClaimKeeps ==
    ASSUME AuditInv, AuditClaim
    PROVE  AuditInv'
<1>1. PICK mint \in Amounts, newGate \in Seals \cup {NoSeal}, witness \in Known :
          Builds(allowance, mint, newGate) /\ NextClaim(mint, newGate, witness)
    BY DEF AuditClaim
<1> DEFINE step == Inflate(allowance, mint, newGate)
<1>1a. PICK n \in Nat \ {0} : n = Len(path) + 1
    BY DEF AuditInv, TypeOK
<1>2. /\ step \in Step
      /\ allowance - mint \in 0..contract.max
      /\ allowance > mint => newGate \in Seals
    BY <1>1, InflateStep DEF AuditInv
<1>3. /\ path \in Seq(Step)
      /\ txs \in Seq(WitnessTx)
      /\ contract \in Contracts
      /\ claims \in Seq([mint : Amounts, witness : Nat])
      /\ gate \in Seals
      /\ allowance \in Nat
      /\ mint \in Nat \ {0}
      /\ witness \in DOMAIN txs
  <2>1. contract.max \in Nat /\ mint \in Nat \ {0}
    BY TermsParse, ChainBounds DEF AuditInv, TypeOK
  <2>2. QED
    BY <2>1 DEF AuditInv, TypeOK, ChainTypeOK, Known
<1>4. /\ path' = Append(path, step)
      /\ allowance' = allowance - mint
      /\ gate' = IF newGate = NoSeal THEN gate ELSE newGate
      /\ claims' = Append(claims, [mint |-> mint, witness |-> witness])
      /\ UNCHANGED <<txs, mempool, mined, contract, before, verdict>>
      /\ failed' = (failed \/ gate \notin txs[witness].closes
                           \/ ~PaysCommitment(txs[witness], Append(path, step))
                           \/ ~AuditMint(contract, mint, txs[witness].vault))
    BY <1>1 DEF NextClaim, chain
<1>5. /\ path' \in Seq(Step)
      /\ DOMAIN path = 1..(n - 1) /\ DOMAIN path' = 1..n /\ Len(path') = n
      /\ \A i \in 1..(n - 1) : path'[i] = path[i]
      /\ path'[n] = step
    BY <1>1a, <1>2, <1>3, <1>4
<1>5a. /\ DOMAIN claims = 1..(n - 1) /\ DOMAIN claims' = 1..n
       /\ \A i \in 1..(n - 1) : claims'[i] = claims[i]
       /\ claims'[n] = [mint |-> mint, witness |-> witness]
  <2>1. Len(claims) = n - 1 /\ Len(claims) \in Nat
    BY <1>1a, <1>3, <1>5 DEF AuditInv, WitnessesKnown
  <2>2. [mint |-> mint, witness |-> witness] \in [mint : Amounts, witness : Nat]
    BY <1>3
  <2>3. QED
    BY <1>3, <1>4, <1>5, <2>1, <2>2
<1>5b. WitnessesKnown'
  <2>1. \A i \in 1..n : i \in 1..(n - 1) \/ i = n
    BY <1>5
  <2>2. QED
    BY <1>3, <1>4, <1>5, <1>5a, <2>1 DEF AuditInv, WitnessesKnown
<1>6. TypeOK'
  <2>1. witness \in Nat
    BY <1>3
  <2>2. claims' \in Seq([mint : Amounts, witness : Nat])
    BY <1>3, <1>4, <2>1
  <2>3. gate' \in Seals
    BY <1>3, <1>4
  <2>4. failed' \in BOOLEAN
    BY <1>4 DEF AuditInv, TypeOK
  <2>5. QED
    BY <1>2, <1>4, <1>5, <2>2, <2>3, <2>4 DEF AuditInv, TypeOK, ChainTypeOK
<1>7. AnchorsSingle'
    BY <1>4 DEF AuditInv, AnchorsSingle
<1>8. ASSUME NEW i \in 1..n
      PROVE  /\ LeftOf(contract, path', i) = LeftOf(contract, path, i)
             /\ GateOf(contract, path', i) = GateOf(contract, path, i)
    BY <1>5 DEF LeftOf, GateOf
<1>9. ASSUME NEW i \in 1..(n - 1)
      PROVE  /\ Chained(contract, path, i)' <=> Chained(contract, path, i)
             /\ Carries(claims[i].witness, contract, path, i)'
                    <=> Carries(claims[i].witness, contract, path, i)
             /\ Pays(i)' <=> Pays(i)
             /\ Genuine(i)' <=> Genuine(i)
  <2>1. i \in 1..n
    BY <1>5
  <2>2. SubSeq(path', 1, i) = SubSeq(path, 1, i)
    BY <1>2, <1>3, <1>4, <1>5
  <2>3. path'[i] = path[i] /\ claims'[i] = claims[i]
    BY <1>5, <1>5a
  <2>4. txs' = txs /\ contract' = contract
    BY <1>4
  <2>5. QED
    BY <1>8, <2>1, <2>2, <2>3, <2>4, MintStands
<1>10. /\ \A i \in DOMAIN path : Chained(contract, path, i)
       /\ allowance = LeftOf(contract, path, n)
       /\ gate = GateOf(contract, path, n)
       /\ allowance > 0 /\ mint =< allowance
  <2>1. mint =< allowance
    BY <1>1 DEF Builds
  <2>2. allowance > 0
    BY <1>3, <2>1
  <2>3. QED
    BY <1>1a, <2>1, <2>2 DEF AuditInv, PathFollowed
<1>11. /\ path'[n].before = allowance /\ path'[n].mint = mint
       /\ LeftOf(contract, path', n) = allowance
       /\ GateOf(contract, path', n) = gate
       /\ SubSeq(path', 1, n) = path'
       /\ claims'[n].witness = witness
       /\ \A i \in DOMAIN path' : i \in 1..(n - 1) \/ i = n
  <2>1. n \in 1..n
    BY <1>1a
  <2>2. QED
    BY <1>5, <1>5a, <1>8, <1>10, <2>1 DEF Inflate
<1>12. PathFollowed'
  <2>1. Chained(contract, path, n)'
    BY <1>4, <1>10, <1>11 DEF Chained, LeftOf
  <2>2. \A i \in DOMAIN path' : Chained(contract, path, i)'
    BY <1>4, <1>5, <1>9, <1>10, <1>11, <2>1
  <2>3. /\ allowance' = LeftOf(contract, path', n + 1)
        /\ allowance' > 0 => gate' = GateOf(contract, path', n + 1)
    <3>1. n + 1 # 1 /\ (n + 1) - 1 = n
      BY <1>5
    <3>2. /\ LeftOf(contract, path', n + 1) = step.before - step.mint
          /\ GateOf(contract, path', n + 1) = step.gate
      BY <1>5, <3>1 DEF LeftOf, GateOf
    <3>3. allowance' > 0 => allowance > mint
      BY <1>3, <1>4
    <3>4. newGate # NoSeal => gate' = newGate
      BY <1>4
    <3>5. QED
      BY <1>1, <1>4, <3>2, <3>3, <3>4 DEF Inflate, Builds
  <2>4. QED
    BY <1>4, <1>5, <2>2, <2>3 DEF PathFollowed
<1>13. PathCarried'
  <2> SUFFICES ASSUME OneAnchor, ~failed'
               PROVE  \A i \in DOMAIN path' : Carries(claims[i].witness, contract, path, i)'
    BY DEF PathCarried
  <2>1. /\ ~failed
        /\ gate \in txs[witness].closes
        /\ PaysCommitment(txs[witness], path')
    BY <1>4
  <2>2. \A i \in DOMAIN path : Carries(claims[i].witness, contract, path, i)
    BY <2>1 DEF AuditInv, PathCarried
  <2>3. Carries(witness, contract, path', n)
    <3>1. PICK k \in DOMAIN txs[witness].anchors :
              txs[witness].anchors[k] = Commitment(contract, path')
      BY <2>1 DEF PaysCommitment
    <3>2. k = 1 /\ txs[witness].anchors # <<>>
      BY <3>1, <1>3 DEF AuditInv, AnchorsSingle
    <3>3. QED
      BY <1>11, <2>1, <3>1, <3>2 DEF Carries
  <2>4. Carries(claims[n].witness, contract, path, n)'
    BY <1>4, <1>11, <2>3 DEF Carries, GateOf, Commitment
  <2>5. QED
    BY <1>5, <1>9, <1>11, <2>2, <2>4
<1>14. txs[witness].vault \in VaultOuts /\ txs[witness].vault \in Seq(VaultOut)
  <2>1. txs[witness] \in WitnessTx
    BY <1>3
  <2>2. QED
    BY <1>3, <2>1, ChainBounds DEF WitnessTx, TxOf
<1>15. Pays(n)' <=> Deposit(txs[witness].vault) * contract.den >= mint * contract.num
  <2>1. /\ txs'[claims'[n].witness] = txs[witness] /\ path'[n].mint = mint
        /\ contract' = contract
    BY <1>4, <1>11
  <2>2. QED
    BY <2>1 DEF Pays, Deposit
<1>16. PathPaid'
  <2> SUFFICES ASSUME ~failed' PROVE \A i \in DOMAIN path' : Pays(i)'
    BY DEF PathPaid
  <2>1. ~failed /\ AuditMint(contract, mint, txs[witness].vault)
    BY <1>4
  <2>2. Deposit(txs[witness].vault) * contract.den >= mint * contract.num
    BY <1>3, <1>14, <2>1, AuditMintMeans
  <2>3. \A i \in DOMAIN path : Pays(i)
    BY <2>1 DEF AuditInv, PathPaid
  <2>4. QED
    BY <1>5, <1>9, <1>11, <1>15, <2>2, <2>3
<1>17. FailureSeen'
  <2> SUFFICES ASSUME NoOtherAsset, failed' PROVE \E i \in DOMAIN path' : ~Genuine(i)'
    BY DEF FailureSeen
  <2>1. CASE failed
    <3>1. PICK i \in DOMAIN path : ~Genuine(i)
      BY <2>1 DEF AuditInv, FailureSeen
    <3>2. i \in 1..(n - 1) /\ i \in DOMAIN path'
      BY <1>5
    <3>3. QED
      BY <1>9, <3>1, <3>2
  <2>2. CASE ~failed
    <3> SUFFICES ASSUME Genuine(n)' PROVE FALSE
      BY <1>1a, <1>5
    <3>1. /\ gate \in txs[witness].closes
          /\ Commitment(contract, path') \in Range(txs[witness].anchors)
          /\ \A j \in DOMAIN txs[witness].vault : txs[witness].vault[j].kind # "blinded"
          /\ Deposit(txs[witness].vault) * contract.den >= mint * contract.num
          /\ mint * contract.num =< (U64 - 1) * contract.den
      <4>1. /\ txs'[claims'[n].witness] = txs[witness] /\ path'[n].mint = mint
            /\ contract' = contract
            /\ GateOf(contract, path', n) = gate /\ SubSeq(path', 1, n) = path'
        BY <1>4, <1>11
      <4>2. GateOf(contract, path, n)' = gate
        BY <4>1 DEF GateOf
      <4>3. QED
        BY <4>1, <4>2 DEF Genuine, Commitment, Deposit
    <3>2. PaysCommitment(txs[witness], path')
      BY <3>1 DEF PaysCommitment, Range
    <3>3. \A j \in DOMAIN txs[witness].vault : txs[witness].vault[j].kind = "backing"
      <4>1. \A j \in DOMAIN txs[witness].vault : txs[witness].vault[j] \in VaultOut
        BY <1>14
      <4>2. QED
        BY <1>14, <3>1, <4>1 DEF NoOtherAsset, VaultOut
    <3>4. AuditMint(contract, mint, txs[witness].vault)
      BY <1>3, <1>14, <3>1, <3>3, AuditMintMeans
    <3>5. QED
      BY <1>4, <2>2, <3>1, <3>2, <3>4
  <2>3. QED
    BY <2>1, <2>2
<1>18. Verdict'
    BY <1>4 DEF AuditClaim, Verdict
<1>19. QED
    BY <1>6, <1>7, <1>5b, <1>12, <1>13, <1>16, <1>17, <1>18 DEF AuditInv

(***************************************************************************)
(* Every step keeps the invariant.                                         *)
(***************************************************************************)
LEMMA AuditKept ==
    ASSUME AuditInv, UNCHANGED <<txs, contract, claims, path, allowance, gate, failed>>,
           ChainTypeOK(WitnessTx)', before' \subseteq DOMAIN txs,
           verdict' \in {"idle", "running", "ok", "failed", "error"}, Verdict'
    PROVE  AuditInv'
<1>1. ASSUME NEW i \in DOMAIN path
      PROVE  /\ Chained(contract, path, i)' <=> Chained(contract, path, i)
             /\ Carries(claims[i].witness, contract, path, i)'
                    <=> Carries(claims[i].witness, contract, path, i)
             /\ Pays(i)' <=> Pays(i)
             /\ Genuine(i)' <=> Genuine(i)
    BY MintStands
<1>2. PathFollowed'
  <2>1. /\ LeftOf(contract, path, Len(path) + 1)' = LeftOf(contract, path, Len(path) + 1)
        /\ GateOf(contract, path, Len(path) + 1)' = GateOf(contract, path, Len(path) + 1)
    BY DEF LeftOf, GateOf
  <2>2. QED
    BY <1>1, <2>1 DEF AuditInv, PathFollowed
<1>3. PathCarried' /\ PathPaid' /\ FailureSeen'
    BY <1>1 DEF AuditInv, PathCarried, PathPaid, FailureSeen
<1>4. TypeOK'
    BY DEF AuditInv, TypeOK
<1>5. AnchorsSingle' /\ WitnessesKnown'
    BY DEF AuditInv, AnchorsSingle, WitnessesKnown
<1>6. QED
    BY <1>2, <1>3, <1>4, <1>5 DEF AuditInv

LEMMA AuditStep ==
    ASSUME AuditInv, [Next]_vars
    PROVE  AuditInv'
<1>1. CASE Mint
    BY <1>1, MintKeeps
<1>2. CASE AuditClaim
    BY <1>2, ClaimKeeps
<1>3. /\ ChainTypeOK(WitnessTx) /\ before \subseteq DOMAIN txs
      /\ verdict \in {"idle", "running", "ok", "failed", "error"} /\ Verdict
      /\ failed \in BOOLEAN
    BY DEF AuditInv, TypeOK
<1>4. CASE Confirm
  <2>1. ChainTypeOK(WitnessTx)' /\ txs' = txs
    BY <1>3, <1>4, BlockKeeps DEF Confirm, WitnessTx
  <2>2. UNCHANGED <<contract, claims, path, allowance, gate, failed, before, verdict>>
    BY <1>4 DEF Confirm, audit
  <2>3. QED
    BY <1>3, <2>1, <2>2, AuditKept DEF Verdict
<1>5. CASE BeginAudit
    BY <1>3, <1>5, AuditKept DEF BeginAudit, chain, Verdict, ChainTypeOK
<1>6. CASE AuditError
    BY <1>3, <1>6, AuditKept DEF AuditError, chain, Verdict, ChainTypeOK
<1>7. CASE EndAudit
    BY <1>3, <1>7, AuditKept DEF EndAudit, chain, Verdict, ChainTypeOK
<1>8. CASE UNCHANGED vars
    BY <1>3, <1>8, AuditKept DEF vars, chain, audit, Verdict, ChainTypeOK
<1>9. QED
    BY <1>1, <1>2, <1>4, <1>5, <1>6, <1>7, <1>8 DEF Next

(***************************************************************************)
(* bfa-audit: once their transactions are mined, "audit OK" was said only  *)
(* of the mints the contract's gates and first taproot outputs carry, in   *)
(* their order, each consuming what the one before it left, under the      *)
(* terms of the issued contract.                                           *)
(***************************************************************************)
THEOREM AuditFindsTruth ==
    ASSUME OneAnchor
    PROVE  Spec => []HistoryIsTrue
<1>1. AuditInv => HistoryIsTrue
  <2> SUFFICES ASSUME AuditInv, verdict = "ok", Witnesses \subseteq mined, NEW i \in DOMAIN path
               PROVE  Chained(contract, path, i) /\ \E t \in mined : Carries(t, contract, path, i)
    BY DEF HistoryIsTrue, TrueHistory
  <2>1. Chained(contract, path, i) /\ Carries(claims[i].witness, contract, path, i)
    BY DEF AuditInv, PathFollowed, PathCarried, Verdict
  <2>2. claims[i].witness \in mined
    BY DEF AuditInv, WitnessesKnown, Witnesses
  <2>3. QED
    BY <2>1, <2>2
<1>2. AuditInv /\ [Next]_vars => AuditInv'
    BY AuditStep
<1>3. QED
    BY <1>1, <1>2, AuditInit, PTL DEF Spec

(***************************************************************************)
(* The type invariant of the audit.                                        *)
(***************************************************************************)
THEOREM AuditTypeCorrect == Spec => []TypeOK
<1>1. AuditInv => TypeOK
    BY DEF AuditInv
<1>2. AuditInv /\ [Next]_vars => AuditInv'
    BY AuditStep
<1>3. QED
    BY <1>1, <1>2, AuditInit, PTL DEF Spec

(***************************************************************************)
(* bfa-audit, "fully backed": the transactions that an audit has found     *)
(* good pay the vault the rate for every unit minted, for any rate, supply *)
(* and number of mints, each deposit counted once and nothing cut at a     *)
(* u64.  Each mint has a transaction of its own, for the anchor of a       *)
(* transaction says how many mints came before it.                         *)
(***************************************************************************)
THEOREM AuditedSupplyIsBacked ==
    ASSUME OneAnchor
    PROVE  Spec => []SupplyBacked
<1>1. AuditInv => SupplyBacked
  <2> SUFFICES ASSUME AuditInv, verdict = "ok"
               PROVE  SumFunctionOnSet([t \in DOMAIN txs |-> Deposit(txs[t].vault)], Witnesses)
                              * contract.den
                          >= Minted(path) * contract.num
    BY DEF SupplyBacked
  <2> DEFINE D == DOMAIN path
             w == [i \in D |-> claims[i].witness]
             paid == [t \in DOMAIN txs |-> Deposit(txs[t].vault)]
             paidFor == [i \in D |-> paid[w[i]]]
             minted == [i \in D |-> path[i].mint]
  <2>1. /\ path \in Seq(Step) /\ txs \in Seq(WitnessTx) /\ contract \in Contracts
        /\ DOMAIN claims = D /\ \A i \in D : w[i] \in DOMAIN txs
        /\ \A i \in D : Carries(w[i], contract, path, i) /\ Pays(i)
    BY DEF AuditInv, TypeOK, ChainTypeOK, WitnessesKnown, PathCarried, PathPaid, Verdict
  <2>2. IsFiniteSet(D)
    <3>1. D = 1..Len(path) /\ Len(path) \in Nat
      BY <2>1
    <3>2. QED
      BY <3>1, FS_Interval
  <2>3. \A i, j \in D : w[i] = w[j] => i = j
    <3> SUFFICES ASSUME NEW i \in D, NEW j \in D, w[i] = w[j] PROVE i = j
      OBVIOUS
    <3>1. Commitment(contract, SubSeq(path, 1, i)) = Commitment(contract, SubSeq(path, 1, j))
      BY <2>1 DEF Carries
    <3>2. SubSeq(path, 1, i) = SubSeq(path, 1, j)
      BY <3>1 DEF Commitment
    <3>3. Len(SubSeq(path, 1, i)) = i /\ Len(SubSeq(path, 1, j)) = j
      BY <2>1
    <3>4. QED
      BY <3>2, <3>3
  <2>4. /\ contract.num \in Nat /\ contract.den \in Nat /\ U64 # 0
        /\ \A i \in D : path[i].mint \in Nat
    <3>1. contract.num \in Nat /\ contract.den \in Nat \ {0} /\ U64 # 0
      BY <2>1, TermsParse
    <3>2. Amounts \subseteq Nat
      BY ChainBounds, TermsParse
    <3>3. \A i \in D : path[i] \in Step
      BY <2>1
    <3>4. QED
      BY <3>1, <3>2, <3>3 DEF Step
  <2>5. \A i \in D : paidFor[i] \in Nat
    <3> SUFFICES ASSUME NEW i \in D PROVE Deposit(txs[w[i]].vault) \in Nat
      BY <2>1
    <3>1. txs[w[i]] \in WitnessTx
      BY <2>1
    <3>2. txs[w[i]].vault \in Seq(VaultOut)
      BY <3>1, ChainBounds DEF WitnessTx, TxOf
    <3>3. QED
      BY <2>4, <3>2, BackingMeans
  <2>6. \A i \in D : paidFor[i] * contract.den >= minted[i] * contract.num
    BY <2>1 DEF Pays
  <2>7. Witnesses = { w[i] : i \in D }
    BY <2>1 DEF Witnesses
  <2>8. Minted(path) = SumFunctionOnSet(minted, D)
    BY DEF Minted
  <2>9. \A i \in D : paid[w[i]] = paidFor[i] /\ minted[i] \in Nat
    BY <2>4
  <2> HIDE DEF D, w, paid, paidFor, minted
  <2>10. SumFunctionOnSet(paid, { w[i] : i \in D }) = SumFunctionOnSet(paidFor, D)
    BY <2>2, <2>3, <2>5, <2>9, SumImage
  <2>11. SumFunctionOnSet(paidFor, D) * contract.den >= SumFunctionOnSet(minted, D) * contract.num
    BY <2>2, <2>4, <2>5, <2>6, <2>9, SumRate
  <2>12. SumFunctionOnSet(paid, Witnesses) = SumFunctionOnSet(paidFor, D)
    BY ONLY <2>7, <2>10, Zenon
  <2>13. SumFunctionOnSet(paid, Witnesses) * contract.den >= Minted(path) * contract.num
    BY <2>8, <2>11, <2>12
  <2>14. QED
    BY <2>13 DEF paid
<1>2. AuditInv /\ [Next]_vars => AuditInv'
    BY AuditStep
<1>3. QED
    BY <1>1, <1>2, AuditInit, PTL DEF Spec

(***************************************************************************)
(* bfa-audit never fails a good history: where the vault is paid in no     *)
(* other asset, a failed audit has read a mint whose transaction does not  *)
(* close its gate, does not anchor it, hides a deposit or pays too little, *)
(* or whose requirement is more than a u64.                                *)
(***************************************************************************)
THEOREM AuditsFailForCause ==
    ASSUME NoOtherAsset
    PROVE  Spec => []FailsForCause
<1>1. AuditInv => FailsForCause
    BY DEF AuditInv, FailureSeen, Verdict, FailsForCause
<1>2. AuditInv /\ [Next]_vars => AuditInv'
    BY AuditStep
<1>3. QED
    BY <1>1, <1>2, AuditInit, PTL DEF Spec
-----------------------------------------------------------------------------
(***************************************************************************)
(* verify-backed-mint: what receivers learn, each of one mint, from the    *)
(* same kind of chain.                                                     *)
(***************************************************************************)
\* What verify and verify_backing have found good once stays so.
Found(r) ==
    /\ r \in Receipts
    /\ ClosesSeal(txs[r.witness], r.seal)
    /\ AnchorsMint(txs[r.witness], r.mint)

Grounded ==
    /\ \A r \in checking : Found(r)
    /\ \A r \in received :
          /\ Found(r.receipt)
          /\ VerifyBacking(txs[r.receipt.witness].vault, r.receipt.required)
          /\ r.locked = Locked(txs[r.receipt.witness].vault)

ReceiptInv == ChainTypeOK(ReceiptTx) /\ AnchorsSingle /\ SpentOnce /\ Grounded

(***************************************************************************)
(* Nothing has been received before anything was minted.                   *)
(***************************************************************************)
LEMMA ReceiptInvInit == ReceiptInit => ReceiptInv
<1> SUFFICES ASSUME ReceiptInit PROVE ReceiptInv
    OBVIOUS
<1>1. <<>> \in Seq(ReceiptTx)
    OBVIOUS
<1>2. QED
    BY <1>1 DEF ReceiptInit, ChainInit, ReceiptInv, ChainTypeOK, AnchorsSingle, SpentOnce, Known, Grounded

(***************************************************************************)
(* A finding stands as long as its transaction is kept.                    *)
(***************************************************************************)
LEMMA FoundStands ==
    ASSUME DOMAIN txs \subseteq DOMAIN txs', \A t \in DOMAIN txs : txs'[t] = txs[t],
           NEW r, Found(r)
    PROVE  /\ Found(r)'
           /\ r.witness \in DOMAIN txs /\ txs'[r.witness] = txs[r.witness]
<1>1. r \in Receipts /\ r.witness \in DOMAIN txs
    BY DEF Found, Receipts
<1>2. r \in Receipts'
    BY <1>1 DEF Receipts, Mints, MintSteps
<1>3. QED
    BY <1>1, <1>2 DEF Found, ClosesSeal, AnchorsMint

LEMMA GroundedStands ==
    ASSUME Grounded, DOMAIN txs \subseteq DOMAIN txs', \A t \in DOMAIN txs : txs'[t] = txs[t],
           \A r \in checking' : Found(r),
           UNCHANGED received
    PROVE  Grounded'
<1>1. \A r \in checking' : Found(r)'
    BY FoundStands
<1>2. ASSUME NEW r \in received
      PROVE  /\ Found(r.receipt)'
             /\ VerifyBacking(txs[r.receipt.witness].vault, r.receipt.required)'
             /\ r.locked = Locked(txs[r.receipt.witness].vault)'
  <2>1. /\ Found(r.receipt)
        /\ VerifyBacking(txs[r.receipt.witness].vault, r.receipt.required)
        /\ r.locked = Locked(txs[r.receipt.witness].vault)
    BY DEF Grounded
  <2>2. Found(r.receipt)' /\ txs'[r.receipt.witness] = txs[r.receipt.witness]
    BY <2>1, FoundStands
  <2>3. QED
    BY <2>1, <2>2
<1>3. QED
    BY <1>1, <1>2 DEF Grounded

(***************************************************************************)
(* Every step keeps the invariant.                                         *)
(***************************************************************************)
LEMMA ReceiptStep == ReceiptInv /\ [ReceiptNext]_ReceiptVars => ReceiptInv'
<1> SUFFICES ASSUME ReceiptInv, [ReceiptNext]_ReceiptVars PROVE ReceiptInv'
    OBVIOUS
<1>1. CASE ReceiptMint
  <2>1. ChainTypeOK(TxOf(Mints)) /\ AnchorsSingle /\ SpentOnce /\ Broadcast(Mints)
    BY <1>1 DEF ReceiptMint, ReceiptInv, ReceiptTx
  <2>2. /\ ChainTypeOK(TxOf(Mints))' /\ AnchorsSingle' /\ SpentOnce'
        /\ DOMAIN txs \subseteq DOMAIN txs' /\ \A t \in DOMAIN txs : txs'[t] = txs[t]
    BY <2>1, BroadcastGrows
  <2>3. UNCHANGED <<checking, received>>
    BY <1>1 DEF ReceiptMint, receipts
  <2>4. Grounded'
    BY <2>2, <2>3, GroundedStands DEF ReceiptInv, Grounded
  <2>5. QED
    BY <2>2, <2>4 DEF ReceiptInv, ReceiptTx
<1>2. CASE ReceiptConfirm
  <2>1. ChainTypeOK(ReceiptTx)' /\ Known' = Known /\ txs' = txs
    BY <1>2, BlockKeeps DEF ReceiptConfirm, ReceiptInv, ReceiptTx
  <2>2. UNCHANGED <<checking, received>>
    BY <1>2 DEF ReceiptConfirm, receipts
  <2>3. Grounded'
    BY <2>1, <2>2, GroundedStands DEF ReceiptInv, Grounded
  <2>4. QED
    BY <2>1, <2>3 DEF ReceiptInv, AnchorsSingle, SpentOnce
<1>3. CASE Verify
  <2>1. PICK r \in Receipts :
            /\ ClosesSeal(txs[r.witness], r.seal)
            /\ AnchorsMint(txs[r.witness], r.mint)
            /\ checking' = checking \cup {r}
    BY <1>3 DEF Verify
  <2>2. UNCHANGED <<txs, mempool, mined, received>>
    BY <1>3 DEF Verify, chain
  <2>3. \A q \in checking' : Found(q)
    BY <2>1 DEF ReceiptInv, Grounded, Found
  <2>4. Grounded'
    BY <2>2, <2>3, GroundedStands DEF ReceiptInv
  <2>5. QED
    BY <2>2, <2>4 DEF ReceiptInv, ChainTypeOK, AnchorsSingle, SpentOnce, Known
<1>4. CASE CheckBacking
  <2>1. PICK r \in checking :
            /\ checking' = checking \ {r}
            /\ \A q \in received' : q \in received \/
                  /\ VerifyBacking(txs[r.witness].vault, r.required)
                  /\ q = [receipt |-> r, locked |-> Locked(txs[r.witness].vault)]
    BY <1>4 DEF CheckBacking
  <2>2. UNCHANGED <<txs, mempool, mined>>
    BY <1>4 DEF CheckBacking, chain
  <2>3. Found(r) /\ \A q : Found(q)' <=> Found(q)
    <3>1. \A q : Found(q)' <=> Found(q)
      BY <2>2 DEF Found, Receipts, Mints, MintSteps, ClosesSeal, AnchorsMint
    <3>2. QED
      BY <3>1 DEF ReceiptInv, Grounded
  <2>4. ASSUME NEW q \in received'
        PROVE  /\ Found(q.receipt)'
               /\ VerifyBacking(txs[q.receipt.witness].vault, q.receipt.required)'
               /\ q.locked = Locked(txs[q.receipt.witness].vault)'
    <3>1. /\ Found(q.receipt)
          /\ VerifyBacking(txs[q.receipt.witness].vault, q.receipt.required)
          /\ q.locked = Locked(txs[q.receipt.witness].vault)
      BY <2>1, <2>3 DEF ReceiptInv, Grounded
    <3>2. QED
      BY <2>2, <2>3, <3>1
  <2>5. Grounded'
    BY <2>1, <2>3, <2>4 DEF ReceiptInv, Grounded
  <2>6. QED
    BY <2>2, <2>5 DEF ReceiptInv, ChainTypeOK, AnchorsSingle, SpentOnce, Known
<1>5. CASE UNCHANGED ReceiptVars
  <2>1. UNCHANGED <<txs, mempool, mined, checking, received>>
    BY <1>5 DEF ReceiptVars, chain, receipts
  <2>2. Grounded'
    BY <2>1, GroundedStands DEF ReceiptInv, Grounded
  <2>3. QED
    BY <2>1, <2>2 DEF ReceiptInv, ChainTypeOK, AnchorsSingle, SpentOnce, Known
<1>6. QED
    BY <1>1, <1>2, <1>3, <1>4, <1>5 DEF ReceiptNext

LEMMA AmountsFit ==
    ASSUME NEW amount \in Amounts
    PROVE  amount \in Nat \ {0} /\ U64 \in Nat \ {0}
<1>1. amount \in 1..(U64 - 1)
    BY ChainBounds
<1>2. U64 \in Nat
    BY TermsParse
<1>3. QED
    BY <1>1, <1>2

(***************************************************************************)
(* What is settled was found good, in a transaction of a block.            *)
(***************************************************************************)
LEMMA SettledFacts ==
    ASSUME ReceiptInv, NEW r \in Settled
    PROVE  /\ r.witness \in mined /\ r.witness \in DOMAIN txs
           /\ Found(r) /\ r.required \in Nat \ {0}
           /\ U64 # 0 /\ txs[r.witness].vault \in Seq(VaultOut)
           /\ VerifyBacking(txs[r.witness].vault, r.required)
           /\ Sole(r) => r.mint = txs[r.witness].anchors[1]
<1>1. PICK s \in received : r = s.receipt /\ s.receipt.witness \in mined
    BY DEF Settled
<1>2. /\ r.witness \in mined /\ Found(r)
      /\ VerifyBacking(txs[r.witness].vault, r.required)
    BY <1>1 DEF ReceiptInv, Grounded
<1>3. r.witness \in DOMAIN txs /\ r.required \in Amounts
    BY <1>2 DEF Found, Receipts
<1>4. r.required \in Nat \ {0} /\ U64 # 0
    BY <1>3, AmountsFit
<1>5. txs[r.witness].vault \in Seq(VaultOut)
  <2>1. txs[r.witness] \in ReceiptTx
    BY <1>3 DEF ReceiptInv, ChainTypeOK
  <2>2. QED
    BY <2>1, ChainBounds DEF ReceiptTx, TxOf
<1>6. Sole(r) => r.mint = txs[r.witness].anchors[1]
  <2> SUFFICES ASSUME Len(txs[r.witness].anchors) = 1
               PROVE  r.mint = txs[r.witness].anchors[1]
    BY DEF Sole
  <2>1. r.mint \in Range(txs[r.witness].anchors)
    BY <1>2 DEF Found, AnchorsMint
  <2>2. PICK k \in DOMAIN txs[r.witness].anchors : r.mint = txs[r.witness].anchors[k]
    BY <2>1 DEF Range
  <2>3. txs[r.witness].anchors \in Seq(Mints)
    <3>1. txs[r.witness] \in ReceiptTx
      BY <1>3 DEF ReceiptInv, ChainTypeOK
    <3>2. QED
      BY <3>1 DEF ReceiptTx, TxOf
  <2>4. QED
    BY <2>2, <2>3
<1>7. QED
    BY <1>2, <1>3, <1>4, <1>5, <1>6

(***************************************************************************)
(* verify-backed-mint: one gate seal stands for one transaction, and for   *)
(* one mint if that has one taproot output.                                *)
(***************************************************************************)
THEOREM SealsNameOneMint == ReceiptSpec => []OneMintPerSeal
<1>1. ReceiptInv => OneMintPerSeal
  <2> SUFFICES ASSUME ReceiptInv, NEW r \in Settled, NEW s \in Settled,
                      r.seal = s.seal, r.seal # NoSeal
               PROVE  r.witness = s.witness /\ (Sole(r) => r.mint = s.mint)
    BY DEF OneMintPerSeal
  <2>1. /\ r.witness \in mined /\ Found(r)
        /\ s.witness \in mined /\ Found(s)
        /\ Sole(r) => r.mint = txs[r.witness].anchors[1]
        /\ Sole(s) => s.mint = txs[s.witness].anchors[1]
    BY SettledFacts
  <2>2. r.witness = s.witness
    BY <2>1 DEF ReceiptInv, SpentOnce, Found, ClosesSeal, Known
  <2>3. QED
    BY <2>1, <2>2 DEF Sole
<1>2. QED
    BY <1>1, ReceiptInvInit, ReceiptStep, PTL DEF ReceiptSpec

(***************************************************************************)
(* The type invariant of the single-mint check: what is printed as locked  *)
(* is a u64, and at least what was required.                               *)
(***************************************************************************)
THEOREM ReceiptsTypeCorrect == ReceiptSpec => []ReceiptTypeOK
<1>1. ReceiptInv => ReceiptTypeOK
  <2> SUFFICES ASSUME ReceiptInv PROVE ReceiptTypeOK
    OBVIOUS
  <2>1. ChainTypeOK(ReceiptTx)
    BY DEF ReceiptInv
  <2>2. ASSUME NEW t \in DOMAIN txs
        PROVE  txs[t].vault \in VaultOuts
    <3>1. txs[t] \in ReceiptTx
      BY <2>1 DEF ChainTypeOK
    <3>2. QED
      BY <3>1 DEF ReceiptTx, TxOf
  <2>3. checking \subseteq Receipts
    BY DEF ReceiptInv, Grounded, Found
  <2>4. ASSUME NEW r \in received
        PROVE  r.receipt \in Receipts /\ r.locked \in r.receipt.required..(U64 - 1)
    <3> DEFINE vault == txs[r.receipt.witness].vault
    <3>1. /\ r.receipt \in Receipts /\ r.locked = Locked(vault)
          /\ VerifyBacking(vault, r.receipt.required)
      BY DEF ReceiptInv, Grounded, Found
    <3>2. r.receipt.witness \in DOMAIN txs /\ r.receipt.required \in Amounts
      BY <3>1 DEF Receipts
    <3>3. vault \in Seq(VaultOut)
      BY <2>2, <3>2, ChainBounds
    <3>4. U64 \in Nat \ {0} /\ r.receipt.required \in Nat
      BY <3>2, AmountsFit
    <3>5. /\ Locked(vault) = Capped(SumFunctionOnSet(Values(vault), DOMAIN vault))
          /\ SumFunctionOnSet(Values(vault), DOMAIN vault) \in Nat
      <4>1. IsFiniteSet(DOMAIN vault)
        <5>1. DOMAIN vault = 1..Len(vault) /\ Len(vault) \in Nat
          BY <3>3
        <5>2. QED
          BY <5>1, FS_Interval
      <4>2. \A i \in DOMAIN vault : Values(vault)[i] \in Nat
        <5>1. \A i \in DOMAIN vault : vault[i] \in VaultOut
          BY <3>3
        <5>2. \A out \in VaultOut : out.value \in Nat
          BY <3>4 DEF VaultOut
        <5>3. QED
          BY <5>1, <5>2 DEF Values
      <4> HIDE DEF vault
      <4>3. QED
        BY <3>3, <3>4, <4>1, <4>2, LockedIsCapped, SumType
    <3> HIDE DEF vault
    <3>6. Locked(vault) \in 0..(U64 - 1)
      BY <3>4, <3>5 DEF Capped
    <3>7. QED
      BY <3>1, <3>4, <3>6 DEF VerifyBacking
  <2>5. QED
    BY <2>1, <2>3, <2>4 DEF ReceiptTypeOK
<1>2. QED
    BY <1>1, ReceiptInvInit, ReceiptStep, PTL DEF ReceiptSpec

(***************************************************************************)
(* verify-backed-mint: receivers who each ask for their own mint have, all *)
(* of them together, the deposits for all their mints, each deposit        *)
(* counted once: a transaction with one taproot output backs one mint.     *)
(***************************************************************************)
THEOREM ReceiversAreCovered == ReceiptSpec => []MintsCovered
<1>1. ReceiptInv => MintsCovered
  <2> SUFFICES ASSUME ReceiptInv PROVE MintsCovered
    OBVIOUS
  <2> DEFINE honest == { r \in Settled : r.required = Units(r.mint) /\ Sole(r) }
             minted == { <<r.mint, r.witness>> : r \in honest }
             W == { r.witness : r \in honest }
             own == [t \in W |-> <<txs[t].anchors[1], t>>]
             units == [m \in minted |-> Units(m[1])]
             unitsOf == [t \in W |-> Units(txs[t].anchors[1])]
             paid == [t \in DOMAIN txs |-> Deposit(txs[t].vault)]
  <2>1. ASSUME NEW t \in W
        PROVE  /\ t \in DOMAIN txs
               /\ unitsOf[t] \in Nat /\ paid[t] \in Nat /\ paid[t] >= unitsOf[t]
               /\ own[t] \in minted
    <3>1. PICK r \in honest : t = r.witness
      OBVIOUS
    <3>2. /\ r \in Settled /\ r.required = Units(r.mint) /\ Sole(r)
          /\ <<r.mint, r.witness>> \in minted
      OBVIOUS
    <3>3. /\ t \in DOMAIN txs /\ r.required \in Nat \ {0} /\ r.mint = txs[t].anchors[1]
          /\ U64 # 0 /\ txs[t].vault \in Seq(VaultOut)
          /\ VerifyBacking(txs[t].vault, r.required)
      BY <3>1, <3>2, SettledFacts
    <3>4. Deposit(txs[t].vault) \in Nat /\ Deposit(txs[t].vault) >= r.required
      BY <3>3, BackingMeans
    <3>5. /\ unitsOf[t] = r.required
          /\ own[t] = <<r.mint, r.witness>>
          /\ paid[t] = Deposit(txs[t].vault)
      BY <3>1, <3>2, <3>3
    <3>6. QED
      BY <3>2, <3>3, <3>4, <3>5
  <2>2. minted = { own[t] : t \in W }
    <3>1. ASSUME NEW r \in honest
          PROVE  <<r.mint, r.witness>> = own[r.witness] /\ r.witness \in W
      <4>1. r \in Settled /\ Sole(r) /\ r.witness \in W
        OBVIOUS
      <4>2. r.mint = txs[r.witness].anchors[1]
        BY <4>1, SettledFacts
      <4>3. QED
        BY <4>1, <4>2
    <3> HIDE DEF own
    <3>2. QED
      BY <2>1, <3>1
  <2>3. IsFiniteSet(W)
    <3>1. W \subseteq DOMAIN txs
      BY <2>1
    <3>2. IsFiniteSet(DOMAIN txs)
      <4>1. DOMAIN txs = 1..Len(txs) /\ Len(txs) \in Nat
        BY DEF ReceiptInv, ChainTypeOK
      <4>2. QED
        BY <4>1, FS_Interval
    <3>3. QED
      BY <3>1, <3>2, FS_Subset
  <2>4. \A s, t \in W : own[s] = own[t] => s = t
    OBVIOUS
  <2>5. \A t \in W : units[own[t]] = unitsOf[t]
    BY <2>1
  <2>6. MintsCovered <=>
            SumFunctionOnSet(units, minted) =< SumFunctionOnSet(paid, W)
    BY DEF MintsCovered
  <2> HIDE DEF honest, minted, W, own, units, unitsOf, paid
  <2>7. SumFunctionOnSet(units, { own[t] : t \in W }) = SumFunctionOnSet(unitsOf, W)
    <3>1. \A t \in W : unitsOf[t] \in Nat /\ units[own[t]] = unitsOf[t]
      BY <2>1, <2>5
    <3>2. QED
      BY <2>3, <2>4, <3>1, SumImage
  <2>8. SumFunctionOnSet(paid, W) * 1 >= SumFunctionOnSet(unitsOf, W) * 1
    <3>1. \A t \in W : paid[t] \in Nat /\ unitsOf[t] \in Nat /\ paid[t] * 1 >= unitsOf[t] * 1
      BY <2>1
    <3>2. QED
      BY <2>3, <3>1, SumRate
  <2>9. SumFunctionOnSet(paid, W) \in Nat /\ SumFunctionOnSet(unitsOf, W) \in Nat
    BY <2>1, <2>3, SumType
  <2>10. SumFunctionOnSet(units, minted) = SumFunctionOnSet(unitsOf, W)
    BY ONLY <2>2, <2>7, Zenon
  <2>11. QED
    BY <2>6, <2>8, <2>9, <2>10
<1>2. QED
    BY <1>1, ReceiptInvInit, ReceiptStep, PTL DEF ReceiptSpec
=============================================================================
