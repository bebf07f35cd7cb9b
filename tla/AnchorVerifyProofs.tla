------------------------- MODULE AnchorVerifyProofs -------------------------
(***************************************************************************)
(* What anchors promise for any contracts, seals, keys and bounds.         *)
(***************************************************************************)
EXTENDS AnchorVerify, WellFoundedInduction, TLAPS

-----------------------------------------------------------------------------
(***************************************************************************)
(* A non-empty set of naturals has a least element, and a greatest one if  *)
(* it is bounded.                                                          *)
(***************************************************************************)
LEMMA LeastExists ==
    ASSUME NEW S \in SUBSET Nat, S # {}
    PROVE  \E x \in S : \A y \in S : x =< y
<1>1. \E x \in S : \A y \in S : ~ (<<y, x>> \in OpToRel(<, Nat))
    BY WFMin, NatLessThanWellFounded
<1>2. ASSUME NEW x \in S, NEW y \in S, <<y, x>> \notin OpToRel(<, Nat)
      PROVE  x =< y
    BY <1>2 DEF OpToRel
<1>3. QED
    BY <1>1, <1>2

LEMMA GreatestExists ==
    ASSUME NEW n \in Nat, NEW S \in SUBSET (1..n), S # {}
    PROVE  \E x \in S : \A y \in S : x >= y
<1> DEFINE T == { n - i : i \in S }
<1>1. T \in SUBSET Nat /\ T # {}
    <2>1. ASSUME NEW i \in S
          PROVE  n - i \in Nat
        <3>1. i \in 1..n
            OBVIOUS
        <3>2. QED
            BY <3>1
    <2>2. QED
        BY <2>1
<1>2. PICK t \in T : \A u \in T : t =< u
    BY <1>1, LeastExists
<1>3. PICK x \in S : t = n - x
    OBVIOUS
<1>4. ASSUME NEW y \in S
      PROVE  x >= y
    <2>1. n - y \in T
        OBVIOUS
    <2>2. QED
        BY <1>2, <1>3, <2>1
<1>5. QED
    BY <1>4

(***************************************************************************)
(* The commitment slot is the first taproot output.                        *)
(***************************************************************************)
LEMMA FirstIsFirst ==
    ASSUME NEW n \in Nat, NEW outs, Len(outs) = n, NEW i \in 1..n,
           IsP2tr(outs[i]), \A j \in 1..(i - 1) : ~IsP2tr(outs[j])
    PROVE  FirstP2tr(outs) = outs[i]
<1> DEFINE I == { j \in 1..Len(outs) : IsP2tr(outs[j]) }
<1>1. i \in I /\ \A j \in I : i =< j
    OBVIOUS
<1>2. Min(I) = i
    BY <1>1 DEF Min
<1>3. SelectInSeq(outs, IsP2tr) = i
    BY <1>1, <1>2 DEF SelectInSeq
<1>4. QED
    BY <1>3 DEF FirstP2tr

(***************************************************************************)
(* The last entry of a contract that is listed.                            *)
(***************************************************************************)
LEMMA LastIsListed ==
    ASSUME NEW n \in Nat, NEW entries, Len(entries) = n,
           NEW i \in 1..n
    PROVE  /\ LastOf(entries, entries[i].contract) \in 1..n
           /\ entries[LastOf(entries, entries[i].contract)].contract = entries[i].contract
<1> DEFINE c == entries[i].contract
           I == { j \in 1..Len(entries) : entries[j].contract = c }
<1>1. I \in SUBSET (1..n) /\ i \in I
    OBVIOUS
<1>2. \E x \in I : \A y \in I : x >= y
    BY <1>1, GreatestExists
<1>3. Max(I) \in I
    BY <1>2 DEF Max
<1>4. LastOf(entries, c) = Max(I)
    BY <1>1 DEF LastOf, SelectLastInSeq
<1>5. QED
    BY <1>3, <1>4

(***************************************************************************)
(* An MPC root is a map from contracts to messages, and with one entry it  *)
(* is the tree patched_anchor builds.                                      *)
(***************************************************************************)
LEMMA RootTyped ==
    ASSUME NEW entries \in Seq(Entry)
    PROVE  MpcRoot(entries) \in Root
<1> DEFINE n == Len(entries)
           D == { entries[i].contract : i \in DOMAIN entries }
<1>1. n \in Nat /\ DOMAIN entries = 1..n
    OBVIOUS
<1>2. \A i \in 1..n : entries[i] \in Entry
    BY <1>1
<1>3. D \in SUBSET Contracts
    BY <1>1, <1>2 DEF Entry
<1>4. ASSUME NEW c \in D
      PROVE  entries[LastOf(entries, c)].message \in Messages
    <2>1. PICK i \in 1..n : c = entries[i].contract
        BY <1>1
    <2>2. LastOf(entries, c) \in 1..n
        BY <1>1, <2>1, LastIsListed
    <2>3. QED
        BY <1>2, <2>2 DEF Entry
<1>5. MpcRoot(entries) \in [D -> Messages]
    BY <1>4 DEF MpcRoot
<1>6. QED
    BY <1>3, <1>5 DEF Root

LEMMA SingleIsRoot ==
    ASSUME NEW entries \in Seq(Entry), Len(entries) = 1
    PROVE  MpcRoot(entries) = SingleRoot(entries[1])
<1> DEFINE c == entries[1].contract
<1>1. DOMAIN entries = 1..1
    OBVIOUS
<1>2. { entries[i].contract : i \in DOMAIN entries } = {c}
    BY <1>1
<1>3. LastOf(entries, c) \in 1..1
    <2>1. 1 \in 1..1
        OBVIOUS
    <2>2. QED
        BY <2>1, LastIsListed
<1>4. LastOf(entries, c) = 1
    BY <1>3
<1>5. QED
    BY <1>2, <1>4 DEF MpcRoot, SingleRoot

(***************************************************************************)
(* A root under which every entry is proven.                               *)
(***************************************************************************)
Agree(entries) ==
    \A i, j \in DOMAIN entries :
        entries[i].contract = entries[j].contract => entries[i].message = entries[j].message

LEMMA AgreeingProven ==
    ASSUME NEW entries \in Seq(Entry), Agree(entries), NEW i \in DOMAIN entries
    PROVE  Proven(MpcRoot(entries), entries[i])
<1> DEFINE c == entries[i].contract
           k == LastOf(entries, c)
<1>1. Len(entries) \in Nat /\ DOMAIN entries = 1..Len(entries)
    OBVIOUS
<1>2. k \in DOMAIN entries /\ entries[k].contract = c
    <2>1. i \in 1..Len(entries)
        BY <1>1
    <2>2. k \in 1..Len(entries) /\ entries[k].contract = c
        BY <1>1, <2>1, LastIsListed
    <2>3. QED
        BY <1>1, <2>2
<1>3. entries[k].message = entries[i].message
    BY <1>2 DEF Agree
<1>4. c \in DOMAIN MpcRoot(entries) /\ MpcRoot(entries)[c] = entries[i].message
    BY <1>3 DEF MpcRoot
<1>5. MpcRoot(entries) = [x \in DOMAIN MpcRoot(entries) |-> MpcRoot(entries)[x]]
    BY DEF MpcRoot
<1>6. QED
    BY <1>4, <1>5 DEF Proven
-----------------------------------------------------------------------------
(***************************************************************************)
(* The inductive invariant.  Transactions that are not replaced spend      *)
(* disjoint seals, so a seal names one of them; a hop was accepted on a    *)
(* transaction that spends its seal and whose commitment slot is the entry *)
(* alone; the files built carry the root of their entries.                 *)
(***************************************************************************)
SealsSpentOnce ==
    \A t, u \in DOMAIN txs :
        Fetched(t) /\ Fetched(u) /\ txs[t].ins \cap txs[u].ins # {} => t = u

HopHolds(h) ==
    /\ AssertCloses(h.witness, h.seal)
    /\ \E key \in Keys : FirstP2tr(txs[h.witness].outs) = Commit(key, SingleRoot(h.entry))

VerifiedHolds(v) == Verify(v.anchor, v.witness)

FileBuilt(f) == f.root = MpcRoot(f.entries) /\ Agree(f.entries)

AnchorInv ==
    /\ TypeOK
    /\ SealsSpentOnce
    /\ \A h \in hops : HopHolds(h)
    /\ \A v \in verified : VerifiedHolds(v)
    /\ \A f \in files : FileBuilt(f)

LEMMA InitAnchorInv == Init => AnchorInv
<1>1. Init => TypeOK
    BY DEF Init, TypeOK
<1>2. QED
    BY <1>1 DEF Init, AnchorInv, SealsSpentOnce

(***************************************************************************)
(* Both builders produce well-formed files.                                *)
(***************************************************************************)
LEMMA BuildTyped ==
    ASSUME NEW key \in Keys, NEW entries \in Seq(Entry), NEW seal \in Seals \cup {NoSeal},
           NEW f, f = [key |-> key, root |-> MpcRoot(entries), entries |-> entries, seal |-> seal],
           Agree(entries)
    PROVE  f \in Anchor /\ FileBuilt(f)
<1>1. MpcRoot(entries) \in Root
    BY RootTyped
<1>2. QED
    BY <1>1 DEF Anchor, FileBuilt

LEMMA BuildKeeps == ASSUME AnchorInv, BuildAnchor PROVE AnchorInv'
<1>1. UNCHANGED <<txs, verified, hops>>
    BY DEF BuildAnchor
<1>2. ASSUME NEW key \in Keys, NEW labels \in LabelLists, NEW seal \in Seals \cup {NoSeal},
             Build(labels, key, seal)
      PROVE  files' \subseteq Anchor /\ \A f \in files' : FileBuilt(f)
    <2> DEFINE entries == [i \in DOMAIN labels |->
                       [contract |-> labels[i], message |-> SyntheticBundle[labels[i]]]]
               new == [key |-> key, root |-> MpcRoot(entries), entries |-> entries, seal |-> seal]
    <2>1. labels \in Seq(Labels)
        BY AnchorAssumptions
    <2>2. ASSUME NEW l \in Labels
          PROVE  [contract |-> l, message |-> SyntheticBundle[l]] \in Entry
        BY DEF Entry, Contracts, Messages
    <2>3. entries \in Seq(Entry)
        BY <2>1, <2>2
    <2>4. Agree(entries)
        BY <2>1 DEF Agree
    <2>5. new \in Anchor /\ FileBuilt(new)
        BY <2>3, <2>4, BuildTyped
    <2>6. files' = files \cup {new}
        BY <1>2 DEF Build
    <2>7. QED
        BY <2>5, <2>6 DEF AnchorInv, TypeOK
<1>3. ASSUME NEW key \in Keys, NEW asset \in Assets, NEW bundle \in Transfers, NEW seal \in Seals,
             Rgb20Transfer(asset, bundle, key, seal)
      PROVE  files' \subseteq Anchor /\ \A f \in files' : FileBuilt(f)
    <2> DEFINE entries == <<[contract |-> asset, message |-> bundle]>>
               new == [key |-> key, root |-> MpcRoot(entries), entries |-> entries, seal |-> seal]
    <2>1. entries \in Seq(Entry)
        BY DEF Entry, Contracts, Messages
    <2>2. Agree(entries)
        BY DEF Agree
    <2>3. new \in Anchor /\ FileBuilt(new)
        BY <2>1, <2>2, BuildTyped
    <2>4. files' = files \cup {new}
        BY <1>3 DEF Rgb20Transfer
    <2>5. QED
        BY <2>3, <2>4 DEF AnchorInv, TypeOK
<1>4. files' \subseteq Anchor /\ \A f \in files' : FileBuilt(f)
    BY <1>2, <1>3 DEF BuildAnchor
<1>5. TypeOK'
    BY <1>1, <1>4 DEF AnchorInv, TypeOK
<1>6. SealsSpentOnce'
    BY <1>1 DEF AnchorInv, SealsSpentOnce, Fetched
<1>7. \A h \in hops' : HopHolds(h)'
    BY <1>1 DEF AnchorInv, HopHolds, AssertCloses
<1>8. \A v \in verified' : VerifiedHolds(v)'
    BY <1>1 DEF AnchorInv, VerifiedHolds, Verify, AssertCloses
<1>9. \A f \in files' : FileBuilt(f)'
    BY <1>4 DEF FileBuilt
<1>10. QED
    BY <1>5, <1>6, <1>7, <1>8, <1>9 DEF AnchorInv

(***************************************************************************)
(* A transaction conflicts with nothing that is mined, and replaces what   *)
(* it conflicts with in the mempool.                                       *)
(***************************************************************************)
LEMMA BroadcastKeeps == ASSUME AnchorInv, BroadcastWitness PROVE AnchorInv'
<1>1. UNCHANGED <<files, verified, hops>>
    BY DEF BroadcastWitness
<1>2. PICK ins \in SUBSET Seals, n \in 1..MaxOuts :
          \E outs \in [1..n -> Payable] : Broadcast(ins, outs)
    BY DEF BroadcastWitness
<1>2a. PICK outs \in [1..n -> Payable] : Broadcast(ins, outs)
    BY <1>2
<1> DEFINE m == Len(txs)
           new == [ins |-> ins, outs |-> outs, status |-> "mempool"]
           Kept(t) == IF txs[t].status = "mempool" /\ txs[t].ins \cap ins # {}
                      THEN [txs[t] EXCEPT !.status = "replaced"] ELSE txs[t]
           old == [t \in DOMAIN txs |-> Kept(t)]
<1>3. m \in Nat /\ DOMAIN txs = 1..m /\ \A t \in 1..m : txs[t] \in Tx
    BY DEF AnchorInv, TypeOK
<1>4. n \in Nat /\ Payable \subseteq Output
    BY AnchorAssumptions DEF AnchorInv, TypeOK, Payable, Output, Anchor, Tapret, Commit
<1>5. new \in Tx
    BY <1>4 DEF Tx
<1>6. \A t \in 1..m : Kept(t) \in Tx
    BY <1>3 DEF Tx
<1>7. old \in Seq(Tx) /\ Len(old) = m
    BY <1>3, <1>6
<1>8. txs' = Append(old, new)
    BY <1>2a DEF Broadcast
<1>9. /\ txs' \in Seq(Tx)
      /\ DOMAIN txs' = 1..(m + 1)
      /\ txs'[m + 1] = new
      /\ \A t \in 1..m : txs'[t] = Kept(t)
    BY <1>3, <1>5, <1>7, <1>8
<1>10. ASSUME NEW t \in 1..m
       PROVE  /\ txs'[t].ins = txs[t].ins
              /\ txs'[t].outs = txs[t].outs
              /\ txs'[t].status # "replaced" => txs[t].status # "replaced"
              /\ txs'[t].status # "replaced" => txs[t].ins \cap ins = {}
    <2>1. CASE txs[t].status = "mempool" /\ txs[t].ins \cap ins # {}
        BY <1>3, <1>9, <2>1 DEF Tx
    <2>2. CASE txs[t].status = "mempool" /\ txs[t].ins \cap ins = {}
        BY <1>3, <1>9, <2>2 DEF Tx
    <2>3. CASE txs[t].status = "mined"
        <3>1. txs[t].ins \cap ins = {}
            BY <1>2a, <1>3, <2>3 DEF Broadcast, Spent, Mined
        <3>2. QED
            BY <1>3, <1>9, <2>3, <3>1 DEF Tx
    <2>4. CASE txs[t].status = "replaced"
        BY <1>3, <1>9, <2>4 DEF Tx
    <2>5. QED
        BY <1>3, <2>1, <2>2, <2>3, <2>4 DEF Tx
<1>11. TypeOK'
    BY <1>1, <1>3, <1>9 DEF AnchorInv, TypeOK
<1>12. SealsSpentOnce'
    <2> SUFFICES ASSUME NEW t \in 1..(m + 1), NEW u \in 1..(m + 1),
                        txs'[t].status # "replaced", txs'[u].status # "replaced",
                        txs'[t].ins \cap txs'[u].ins # {}
                 PROVE  t = u
        BY <1>9 DEF SealsSpentOnce, Fetched
    <2>1. CASE t \in 1..m /\ u \in 1..m
        BY <1>3, <1>10, <2>1 DEF AnchorInv, SealsSpentOnce, Fetched
    <2>2. CASE t \in 1..m /\ u = m + 1
        BY <1>9, <1>10, <2>2
    <2>3. CASE t = m + 1 /\ u \in 1..m
        BY <1>9, <1>10, <2>3
    <2>4. QED
        BY <1>3, <2>1, <2>2, <2>3
<1>13. \A h \in hops' : HopHolds(h)'
    <2> SUFFICES ASSUME NEW h \in hops PROVE HopHolds(h)'
        BY <1>1
    <2>1. h.witness \in 1..m /\ HopHolds(h)
        BY <1>3 DEF AnchorInv, TypeOK
    <2>2. QED
        BY <1>10, <2>1 DEF HopHolds, AssertCloses
<1>14. \A v \in verified' : VerifiedHolds(v)'
    <2> SUFFICES ASSUME NEW v \in verified PROVE VerifiedHolds(v)'
        BY <1>1
    <2>1. v.witness \in 1..m /\ VerifiedHolds(v)
        BY <1>3 DEF AnchorInv, TypeOK
    <2>2. QED
        BY <1>10, <2>1 DEF VerifiedHolds, Verify, AssertCloses
<1>15. \A f \in files' : FileBuilt(f)'
    BY <1>1 DEF AnchorInv, FileBuilt
<1>16. QED
    BY <1>11, <1>12, <1>13, <1>14, <1>15 DEF AnchorInv

LEMMA MineKeeps == ASSUME AnchorInv, Mine PROVE AnchorInv'
<1>1. UNCHANGED <<files, verified, hops>>
    BY DEF Mine
<1> DEFINE m == Len(txs)
           Taken(t) == IF txs[t].status = "mempool"
                       THEN [txs[t] EXCEPT !.status = "mined"] ELSE txs[t]
<1>2. m \in Nat /\ DOMAIN txs = 1..m /\ \A t \in 1..m : txs[t] \in Tx
    BY DEF AnchorInv, TypeOK
<1>3. txs' = [t \in 1..m |-> Taken(t)]
    BY <1>2 DEF Mine
<1>4. ASSUME NEW t \in 1..m
      PROVE  /\ Taken(t) \in Tx
             /\ txs'[t].ins = txs[t].ins
             /\ txs'[t].outs = txs[t].outs
             /\ txs'[t].status # "replaced" => txs[t].status # "replaced"
    BY <1>2, <1>3 DEF Tx
<1>5. txs' \in Seq(Tx) /\ DOMAIN txs' = 1..m
    BY <1>2, <1>3, <1>4
<1>6. TypeOK'
    BY <1>1, <1>2, <1>5 DEF AnchorInv, TypeOK
<1>7. SealsSpentOnce'
    BY <1>2, <1>4, <1>5 DEF AnchorInv, SealsSpentOnce, Fetched
<1>8. \A h \in hops' : HopHolds(h)'
    <2> SUFFICES ASSUME NEW h \in hops PROVE HopHolds(h)'
        BY <1>1
    <2>1. h.witness \in 1..m /\ HopHolds(h)
        BY <1>2 DEF AnchorInv, TypeOK
    <2>2. QED
        BY <1>4, <2>1 DEF HopHolds, AssertCloses
<1>9. \A v \in verified' : VerifiedHolds(v)'
    <2> SUFFICES ASSUME NEW v \in verified PROVE VerifiedHolds(v)'
        BY <1>1
    <2>1. v.witness \in 1..m /\ VerifiedHolds(v)
        BY <1>2 DEF AnchorInv, TypeOK
    <2>2. QED
        BY <1>4, <2>1 DEF VerifiedHolds, Verify, AssertCloses
<1>10. \A f \in files' : FileBuilt(f)'
    BY <1>1 DEF AnchorInv, FileBuilt
<1>11. QED
    BY <1>6, <1>7, <1>8, <1>9, <1>10 DEF AnchorInv

(***************************************************************************)
(* Receivers look at files that are typed as the ones built.               *)
(***************************************************************************)
LEMMA PresentedTyped == ASSUME TypeOK PROVE Presented \subseteq Anchor
<1>1. files \subseteq Anchor
    BY DEF TypeOK
<1>2. ASSUME NEW f \in files, NEW s \in Seals
      PROVE  [f EXCEPT !.seal = s] \in Anchor
    BY <1>1 DEF Anchor
<1>3. ASSUME NEW f \in files, NEW i \in DOMAIN f.entries, NEW msg \in Messages
      PROVE  [f EXCEPT !.entries[i].message = msg] \in Anchor
    <2> DEFINE es == f.entries
               n == Len(es)
               e == [es[i] EXCEPT !.message = msg]
    <2>1. f \in Anchor
        BY <1>1
    <2>2. es \in Seq(Entry)
        BY <2>1 DEF Anchor
    <2>3. es[i] \in Entry
        BY <2>2
    <2>4. e \in Entry
        BY <2>3 DEF Entry
    <2>5. [es EXCEPT ![i] = e] \in Seq(Entry)
        BY <2>2, <2>4
    <2>6. [f EXCEPT !.entries = [es EXCEPT ![i] = e]] \in Anchor
        BY <2>1, <2>5 DEF Anchor
    <2>7. [f EXCEPT !.entries[i].message = msg] = [f EXCEPT !.entries = [es EXCEPT ![i] = e]]
        OBVIOUS
    <2>8. QED
        BY <2>6, <2>7
<1>4. QED
    BY <1>1, <1>2, <1>3 DEF Presented

LEMMA VerifyKeeps == ASSUME AnchorInv, VerifyAnchor PROVE AnchorInv'
<1>1. UNCHANGED <<files, txs, hops>>
    BY DEF VerifyAnchor
<1>2. PICK a \in Presented, t \in DOMAIN txs :
          /\ Fetched(t)
          /\ Verify(a, t)
          /\ verified' = verified \cup {[anchor |-> a, witness |-> t]}
    BY DEF VerifyAnchor
<1>3. a \in Anchor
    BY <1>2, PresentedTyped DEF AnchorInv
<1>4. TypeOK'
    BY <1>1, <1>2, <1>3 DEF AnchorInv, TypeOK
<1>5. SealsSpentOnce'
    BY <1>1 DEF AnchorInv, SealsSpentOnce, Fetched
<1>6. \A h \in hops' : HopHolds(h)'
    BY <1>1 DEF AnchorInv, HopHolds, AssertCloses
<1>7. \A v \in verified' : VerifiedHolds(v)
    BY <1>2 DEF AnchorInv, VerifiedHolds
<1>8. \A v \in verified' : VerifiedHolds(v)'
    BY <1>1, <1>7 DEF VerifiedHolds, Verify, AssertCloses
<1>9. \A f \in files' : FileBuilt(f)'
    BY <1>1 DEF AnchorInv, FileBuilt
<1>10. QED
    BY <1>4, <1>5, <1>6, <1>8, <1>9 DEF AnchorInv

LEMMA HopKeeps == ASSUME AnchorInv, AcceptHop PROVE AnchorInv'
<1>1. UNCHANGED <<files, txs, verified>>
    BY DEF AcceptHop
<1>2. PICK a \in Presented, t \in DOMAIN txs, seal \in Seals :
          /\ Fetched(t)
          /\ AssertCloses(t, seal)
          /\ \E i \in DOMAIN a.entries :
                /\ VerifyPatched(a, i, t)
                /\ hops' = hops \cup {[seal |-> seal, entry |-> a.entries[i], witness |-> t]}
    BY DEF AcceptHop
<1>3. PICK i \in DOMAIN a.entries :
          /\ VerifyPatched(a, i, t)
          /\ hops' = hops \cup {[seal |-> seal, entry |-> a.entries[i], witness |-> t]}
    BY <1>2
<1>4. a \in Anchor /\ a.entries[i] \in Entry /\ a.key \in Keys
    <2>1. a \in Anchor
        BY <1>2, PresentedTyped DEF AnchorInv
    <2>2. QED
        BY <2>1 DEF Anchor
<1>5. TypeOK'
    BY <1>1, <1>3, <1>4 DEF AnchorInv, TypeOK
<1>6. SealsSpentOnce'
    BY <1>1 DEF AnchorInv, SealsSpentOnce, Fetched
<1>7. HopHolds([seal |-> seal, entry |-> a.entries[i], witness |-> t])
    BY <1>2, <1>3, <1>4 DEF HopHolds, VerifyPatched
<1>8. \A h \in hops' : HopHolds(h)
    BY <1>3, <1>7 DEF AnchorInv
<1>9. \A h \in hops' : HopHolds(h)'
    BY <1>1, <1>8 DEF HopHolds, AssertCloses
<1>10. \A v \in verified' : VerifiedHolds(v)'
    BY <1>1 DEF AnchorInv, VerifiedHolds, Verify, AssertCloses
<1>11. \A f \in files' : FileBuilt(f)'
    BY <1>1 DEF AnchorInv, FileBuilt
<1>12. QED
    BY <1>5, <1>6, <1>9, <1>10, <1>11 DEF AnchorInv

LEMMA AnchorStep == AnchorInv /\ [Next]_vars => AnchorInv'
<1> SUFFICES ASSUME AnchorInv, [Next]_vars PROVE AnchorInv'
    OBVIOUS
<1>1. CASE BuildAnchor
    BY <1>1, BuildKeeps
<1>2. CASE BroadcastWitness
    BY <1>2, BroadcastKeeps
<1>3. CASE Mine
    BY <1>3, MineKeeps
<1>4. CASE VerifyAnchor
    BY <1>4, VerifyKeeps
<1>5. CASE AcceptHop
    BY <1>5, HopKeeps
<1>6. CASE UNCHANGED vars
    BY <1>6 DEF vars, AnchorInv, TypeOK, SealsSpentOnce, Fetched, HopHolds, VerifiedHolds,
                FileBuilt, Verify, AssertCloses
<1>7. QED
    BY <1>1, <1>2, <1>3, <1>4, <1>5, <1>6 DEF Next

(***************************************************************************)
(* AnchorInv always holds.                                                 *)
(***************************************************************************)
THEOREM AnchorInvariant == Spec => []AnchorInv
<1>1. QED
    BY InitAnchorInv, AnchorStep, PTL DEF Spec

(***************************************************************************)
(* The files, transactions and verdicts stay of their types.               *)
(***************************************************************************)
THEOREM AnchorTypeCorrect == Spec => []TypeOK
<1>1. AnchorInv => TypeOK
    BY DEF AnchorInv
<1>2. QED
    BY <1>1, AnchorInvariant, PTL
-----------------------------------------------------------------------------
(***************************************************************************)
(* Of the transactions that spend a seal one at most has not been          *)
(* replaced: two hops accepted on a seal, both of them standing, were      *)
(* accepted on one commitment slot.                                        *)
(***************************************************************************)
LEMMA SameWitness ==
    ASSUME AnchorInv, NEW t \in DOMAIN txs, NEW u \in DOMAIN txs, NEW seal,
           Fetched(t), Fetched(u), AssertCloses(t, seal), AssertCloses(u, seal)
    PROVE  t = u
<1>1. seal \in txs[t].ins \cap txs[u].ins
    BY DEF AssertCloses
<1>2. QED
    BY <1>1 DEF AnchorInv, SealsSpentOnce

LEMMA SingleMessage ==
    ASSUME NEW d, NEW e, d.contract = e.contract, SingleRoot(d) = SingleRoot(e)
    PROVE  d.message = e.message
<1>1. SingleRoot(d)[d.contract] = d.message
    BY DEF SingleRoot
<1>2. SingleRoot(e)[e.contract] = e.message
    BY DEF SingleRoot
<1>3. QED
    BY <1>1, <1>2

(***************************************************************************)
(* However many anchors are built over a seal and whatever order their     *)
(* transactions are broadcast, replaced and mined in, no two hops that     *)
(* stand carry different messages of a contract.                           *)
(***************************************************************************)
LEMMA OneMessage == AnchorInv => OneMessagePerSeal
<1> SUFFICES ASSUME AnchorInv, NEW h \in hops, NEW k \in hops,
                    Fetched(h.witness), Fetched(k.witness),
                    h.seal = k.seal, h.entry.contract = k.entry.contract
             PROVE  h.entry.message = k.entry.message
    BY DEF OneMessagePerSeal
<1>1. HopHolds(h) /\ HopHolds(k) /\ h.witness \in DOMAIN txs /\ k.witness \in DOMAIN txs
    BY DEF AnchorInv, TypeOK
<1>2. h.witness = k.witness
    BY <1>1, SameWitness DEF HopHolds
<1>3. PICK p : FirstP2tr(txs[h.witness].outs) = Commit(p, SingleRoot(h.entry))
    BY <1>1 DEF HopHolds
<1>4. PICK q : FirstP2tr(txs[k.witness].outs) = Commit(q, SingleRoot(k.entry))
    BY <1>1 DEF HopHolds
<1>5. SingleRoot(h.entry) = SingleRoot(k.entry)
    BY <1>2, <1>3, <1>4 DEF Commit
<1>6. QED
    BY <1>5, SingleMessage

THEOREM SealsCarryOneMessage == Spec => []OneMessagePerSeal
<1>1. QED
    BY OneMessage, AnchorInvariant, PTL

(***************************************************************************)
(* With one taproot output, verify's any output is the slot verify-patched *)
(* looks at, and its tree has the one entry the hop was accepted for.      *)
(***************************************************************************)
THEOREM VerifiersReadOneMessage == Spec => []VerifiersAgree
<1>1. AnchorInv => VerifiersAgree
    <2> SUFFICES ASSUME AnchorInv, NEW v \in verified, NEW h \in hops,
                        Fetched(v.witness), Fetched(h.witness), v.anchor.seal = h.seal,
                        OneSlot(txs[v.witness].outs),
                        NEW i \in DOMAIN v.anchor.entries,
                        v.anchor.entries[i].contract = h.entry.contract
                 PROVE  v.anchor.entries[i].message = h.entry.message
        BY DEF VerifiersAgree
    <2> DEFINE a == v.anchor
               e == a.entries[i]
               root == MpcRoot(a.entries)
               outs == txs[v.witness].outs
    <2>1. /\ Verify(a, v.witness) /\ HopHolds(h) /\ h.seal \in Seals
          /\ v.witness \in DOMAIN txs /\ h.witness \in DOMAIN txs
          /\ a \in Anchor
        BY DEF AnchorInv, TypeOK, VerifiedHolds
    <2>2. v.witness = h.witness
        <3>1. AssertCloses(v.witness, h.seal) /\ AssertCloses(h.witness, h.seal)
            BY <2>1, AnchorAssumptions DEF Verify, HopHolds
        <3>2. QED
            BY <2>1, <3>1, SameWitness
    <2>3. Proven(root, e) /\ root = a.root /\ a.root \in Root /\ a.key \in Keys
        BY <2>1 DEF Verify, Anchor
    <2>4. PICK j \in DOMAIN outs : outs[j] = Commit(a.key, root)
        BY <2>1 DEF Verify
    <2>5. FirstP2tr(outs) = outs[j]
        <3>1. outs \in Seq(Output)
            <4>1. txs[v.witness] \in Tx
                BY <2>1 DEF AnchorInv, TypeOK
            <4>2. QED
                BY <4>1 DEF Tx
        <3>2. Len(outs) \in Nat /\ DOMAIN outs = 1..Len(outs)
            BY <3>1
        <3>3. IsP2tr(outs[j])
            BY <2>3, <2>4, AnchorAssumptions DEF IsP2tr, Commit, Tapret
        <3>4. \A k \in 1..(j - 1) : ~IsP2tr(outs[k])
            BY <3>2, <3>3 DEF OneSlot
        <3>5. j \in 1..Len(outs)
            BY <3>2, <2>4
        <3> HIDE DEF outs
        <3>6. QED
            BY <3>1, <3>2, <3>3, <3>4, <3>5, FirstIsFirst
    <2>6. PICK q : FirstP2tr(outs) = Commit(q, SingleRoot(h.entry))
        BY <2>1, <2>2 DEF HopHolds
    <2>7. root = SingleRoot(h.entry)
        BY <2>4, <2>5, <2>6 DEF Commit
    <2>8. root[e.contract] = e.message
        BY <2>3 DEF Proven
    <2>9. QED
        BY <2>7, <2>8 DEF SingleRoot
<1>2. QED
    BY <1>1, AnchorInvariant, PTL

(***************************************************************************)
(* Every entry of an accepted file is a message its transaction carries.   *)
(***************************************************************************)
THEOREM EntriesAreCarried == Spec => []EveryEntryCarried
<1>1. AnchorInv => EveryEntryCarried
    <2> SUFFICES ASSUME AnchorInv, NEW v \in verified, NEW i \in DOMAIN v.anchor.entries
                 PROVE  Carries(v.witness, v.anchor.entries[i])
        BY DEF EveryEntryCarried
    <2> DEFINE a == v.anchor
               e == a.entries[i]
               root == MpcRoot(a.entries)
    <2>1. a \in Anchor
        BY DEF AnchorInv, TypeOK
    <2>2. a.key \in Keys /\ a.entries \in Seq(Entry) /\ a.root \in Root
        BY <2>1 DEF Anchor
    <2>3. Verify(a, v.witness)
        BY DEF AnchorInv, VerifiedHolds
    <2>4. Proven(root, e) /\ root = a.root
        BY <2>3 DEF Verify
    <2>5. PICK j \in DOMAIN txs[v.witness].outs :
              txs[v.witness].outs[j] = Commit(a.key, root)
        BY <2>3 DEF Verify
    <2>6. Commit(a.key, root) \in Tapret
        BY <2>2, <2>4 DEF Commit, Tapret
    <2>7. e.contract \in DOMAIN root /\ root[e.contract] = e.message
        BY <2>4 DEF Proven
    <2>8. Commit(a.key, root).root = root
        BY DEF Commit
    <2>9. QED
        BY <2>5, <2>6, <2>7, <2>8 DEF Carries
<1>2. QED
    BY <1>1, AnchorInvariant, PTL

(***************************************************************************)
(* What rgb-anchor builds verifies, once it is anchored.                   *)
(***************************************************************************)
THEOREM BuiltAnchorsVerify == Spec => []BuiltVerifies
<1>1. AnchorInv => BuiltVerifies
    <2> SUFFICES ASSUME AnchorInv, NEW f \in files, NEW t \in DOMAIN txs, Anchored(f, t)
                 PROVE  /\ Verify(f, t)
                        /\ Len(f.entries) = 1 => VerifyPatched(f, 1, t)
        BY DEF BuiltVerifies
    <2> DEFINE outs == txs[t].outs
               n == Len(outs)
    <2>1. f \in Anchor /\ txs[t] \in Tx /\ FileBuilt(f)
        BY DEF AnchorInv, TypeOK
    <2>2. f.key \in Keys /\ f.entries \in Seq(Entry) /\ f.root \in Root
        BY <2>1 DEF Anchor
    <2>3. outs \in Seq(Output)
        BY <2>1 DEF Tx
    <2>4. n \in Nat /\ DOMAIN outs = 1..n
        BY <2>3
    <2>5. PICK i \in 1..n :
              outs[i] = Commit(f.key, f.root) /\ \A j \in 1..(i - 1) : outs[j] = Wpkh
        BY <2>4 DEF Anchored
    <2>6. Verify(f, t)
        <3>1. \A j \in DOMAIN f.entries : Proven(MpcRoot(f.entries), f.entries[j])
            BY <2>1, <2>2, AgreeingProven DEF FileBuilt
        <3>2. QED
            BY <2>1, <2>4, <2>5, <3>1 DEF Verify, FileBuilt, Anchored
    <2>7. FirstP2tr(outs) = outs[i]
        <3>1. IsP2tr(outs[i])
            BY <2>2, <2>5, AnchorAssumptions DEF IsP2tr, Commit, Tapret
        <3>2. \A j \in 1..(i - 1) : ~IsP2tr(outs[j])
            BY <2>5 DEF IsP2tr
        <3>3. QED
            BY <2>4, <3>1, <3>2, FirstIsFirst
    <2>8. ASSUME Len(f.entries) = 1
          PROVE  VerifyPatched(f, 1, t)
        <3>1. f.root = SingleRoot(f.entries[1])
            BY <2>1, <2>2, <2>8, SingleIsRoot DEF FileBuilt
        <3>2. QED
            BY <2>5, <2>7, <3>1 DEF VerifyPatched
    <2>9. QED
        BY <2>6, <2>8
<1>2. QED
    BY <1>1, AnchorInvariant, PTL
-----------------------------------------------------------------------------
(***************************************************************************)
(* Transactions that are mined stay, so seals stay spent and what was      *)
(* learned from them stays.                                                *)
(***************************************************************************)
MinedStay ==
    \A t \in DOMAIN txs : Mined(t) =>
        t \in DOMAIN txs' /\ Mined(t)' /\ txs'[t].ins = txs[t].ins

LEMMA BroadcastMinedStay == ASSUME AnchorInv, BroadcastWitness PROVE MinedStay
<1>1. PICK ins \in SUBSET Seals, n \in 1..MaxOuts :
          \E outs \in [1..n -> Payable] : Broadcast(ins, outs)
    BY DEF BroadcastWitness
<1>2. PICK outs \in [1..n -> Payable] : Broadcast(ins, outs)
    BY <1>1
<1> DEFINE m == Len(txs)
           new == [ins |-> ins, outs |-> outs, status |-> "mempool"]
           Kept(u) == IF txs[u].status = "mempool" /\ txs[u].ins \cap ins # {}
                      THEN [txs[u] EXCEPT !.status = "replaced"] ELSE txs[u]
           old == [u \in DOMAIN txs |-> Kept(u)]
<1>3. m \in Nat /\ DOMAIN txs = 1..m /\ \A u \in 1..m : txs[u] \in Tx
    BY DEF AnchorInv, TypeOK
<1>4. txs' = Append(old, new)
    BY <1>2 DEF Broadcast
<1>5. \A u \in 1..m : Kept(u) \in Tx
    BY <1>3 DEF Tx
<1>6. old \in Seq(Tx) /\ Len(old) = m
    BY <1>3, <1>5
<1>7. ASSUME NEW t \in 1..m, Mined(t)
      PROVE  t \in DOMAIN txs' /\ txs'[t] = txs[t]
    <2>1. t \in 1..Len(old) /\ old[t] = Kept(t)
        BY <1>3, <1>6
    <2>2. txs' \in Seq(Tx \cup {new}) /\ t \in 1..Len(txs') /\ txs'[t] = old[t]
        BY <1>4, <1>6, <2>1
    <2>3. Kept(t) = txs[t]
        BY <1>7 DEF Mined
    <2>4. QED
        BY <2>1, <2>2, <2>3
<1>8. QED
    BY <1>3, <1>7 DEF MinedStay, Mined

LEMMA StepMinedStay == ASSUME AnchorInv, [Next]_vars PROVE MinedStay
<1>1. CASE BroadcastWitness
    BY <1>1, BroadcastMinedStay
<1>2. CASE Mine
    BY <1>2 DEF Mine, MinedStay, Mined
<1>3. CASE BuildAnchor \/ VerifyAnchor \/ AcceptHop \/ UNCHANGED vars
    <2>1. txs' = txs
        BY <1>3 DEF BuildAnchor, VerifyAnchor, AcceptHop, vars
    <2>2. QED
        BY <2>1 DEF MinedStay, Mined
<1>4. QED
    BY <1>1, <1>2, <1>3 DEF Next

(***************************************************************************)
(* Hops are remembered.                                                    *)
(***************************************************************************)
LEMMA HopsStay == ASSUME [Next]_vars PROVE hops \subseteq hops'
<1>1. CASE AcceptHop
    BY <1>1 DEF AcceptHop
<1>2. CASE BuildAnchor \/ BroadcastWitness \/ Mine \/ VerifyAnchor \/ UNCHANGED vars
    BY <1>2 DEF BuildAnchor, BroadcastWitness, Mine, VerifyAnchor, vars
<1>3. QED
    BY <1>1, <1>2 DEF Next

(***************************************************************************)
(* What a mined hop has learned is of its seal, which is spent, and of one *)
(* message: what SealClosing asks of the state it gets to.                 *)
(***************************************************************************)
ClosedWell ==
    /\ Spent \subseteq Seals
    /\ ClosedOver \subseteq SealClosing!Closing
    /\ \A x \in ClosedOver : x.seal \in Spent
    /\ SealClosing!Functional(ClosedOver)

LEMMA HopsClosedWell == ASSUME AnchorInv PROVE ClosedWell
<1>1. Spent \subseteq Seals
    <2>1. \A t \in DOMAIN txs : txs[t] \in Tx
        BY DEF AnchorInv, TypeOK
    <2>2. \A t \in DOMAIN txs : txs[t].ins \in SUBSET Seals
        BY <2>1 DEF Tx
    <2>3. QED
        BY <2>2 DEF Spent
<1>2. ASSUME NEW x \in ClosedOver
      PROVE  /\ x \in SealClosing!Closing /\ x.seal \in Spent
             /\ \E h \in hops : /\ Mined(h.witness) /\ x.seal = h.seal
                                /\ x.contract = h.entry.contract
                                /\ x.message = h.entry.message
    <2>1. PICK h \in hops :
              /\ Mined(h.witness)
              /\ x = [seal |-> h.seal, contract |-> h.entry.contract, message |-> h.entry.message]
        BY DEF ClosedOver
    <2>2. h.seal \in Seals /\ h.entry \in Entry /\ h.witness \in DOMAIN txs /\ HopHolds(h)
        BY DEF AnchorInv, TypeOK
    <2>3. h.entry.contract \in Contracts /\ h.entry.message \in Messages
        BY <2>2 DEF Entry
    <2>4. h.seal \in Spent
        BY <2>1, <2>2 DEF HopHolds, AssertCloses, Spent
    <2>5. QED
        BY <2>1, <2>2, <2>3, <2>4 DEF SealClosing!Closing
<1>3. SealClosing!Functional(ClosedOver)
    <2> SUFFICES ASSUME NEW x \in ClosedOver, NEW y \in ClosedOver,
                        x.seal = y.seal, x.contract = y.contract
                 PROVE  x.message = y.message
        BY DEF SealClosing!Functional
    <2>1. PICK h \in hops : /\ Mined(h.witness) /\ x.seal = h.seal
                            /\ x.contract = h.entry.contract /\ x.message = h.entry.message
        BY <1>2
    <2>2. PICK k \in hops : /\ Mined(k.witness) /\ y.seal = k.seal
                            /\ y.contract = k.entry.contract /\ y.message = k.entry.message
        BY <1>2
    <2>3. Fetched(h.witness) /\ Fetched(k.witness)
        BY <2>1, <2>2 DEF Mined, Fetched
    <2>4. QED
        BY <2>1, <2>2, <2>3, OneMessage DEF OneMessagePerSeal
<1>4. QED
    BY <1>1, <1>2, <1>3 DEF ClosedWell

(***************************************************************************)
(* The anchors, transactions and hops implement SealClosing.               *)
(***************************************************************************)
THEOREM HopsCloseSeals == Spec => ClosesSeals
<1>1. Init => SealClosing!Init
    BY DEF Init, SealClosing!Init, Spent, ClosedOver
<1>2. AnchorInv => ClosedWell
    BY HopsClosedWell
<1>3. AnchorInv /\ ClosedWell' /\ [Next]_vars => SealClosing!Next
    <2> SUFFICES ASSUME AnchorInv, ClosedWell', [Next]_vars PROVE SealClosing!Next
        OBVIOUS
    <2>1. MinedStay /\ hops \subseteq hops'
        BY StepMinedStay, HopsStay
    <2>2. Spent \subseteq Spent'
        BY <2>1 DEF Spent, MinedStay
    <2>3. ClosedOver \subseteq ClosedOver'
        <3>1. \A h \in hops : h.witness \in DOMAIN txs
            BY DEF AnchorInv, TypeOK
        <3>2. \A h \in hops : Mined(h.witness) => h \in hops' /\ Mined(h.witness)'
            BY <2>1, <3>1 DEF MinedStay
        <3>3. QED
            BY <3>2 DEF ClosedOver
    <2>4. QED
        BY <2>2, <2>3 DEF ClosedWell, SealClosing!Next, SealClosing!Functional
<1>4. QED
    BY <1>1, <1>2, <1>3, AnchorInvariant, PTL DEF Spec, ClosesSeals, SealClosing!Spec
=============================================================================
