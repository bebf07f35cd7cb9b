---------------------------- MODULE AnchorVerify ----------------------------
(***************************************************************************)
(* Anchors: rgb-anchor build and rgb20-transfer commit to messages of      *)
(* contracts and print the taproot address to pay; whoever owns a seal     *)
(* spends it in a witness transaction that pays the address; a receiver    *)
(* checks an anchor file against that transaction, with verify (seal       *)
(* closure, and any output) or with verify-patched (the first taproot      *)
(* output, by rgb-consensus).                                              *)
(*                                                                         *)
(* Hashes are taken for injective: an MPC root is the map it commits to,   *)
(* a tapret output is its internal key and root, a bundle id is a value.   *)
(* The entropy of the tree is the default one.                             *)
(***************************************************************************)
EXTENDS Integers, Sequences, FiniteSets, SequencesExt

CONSTANTS Labels,          \* contracts made up from a label (build)
          SyntheticBundle, \* the bundle id made up from the same label
          Assets,          \* RGB20 contracts
          Transfers,       \* bundle ids of RGB20 transfers
          LabelLists,      \* the --contracts arguments explored
          Keys,            \* internal keys
          Seals, NoSeal,   \* outpoints, and an absent --seal
          Wpkh, OtherP2tr, \* wallet outputs: not taproot, and taproot
          MaxFiles,        \* bound: anchors built
          MaxTxs,          \* bound: transactions broadcast
          MaxOuts,         \* bound: outputs of a transaction
          MaxVerdicts      \* bound: acceptances remembered

Contracts == Labels \cup Assets
Messages == { SyntheticBundle[l] : l \in Labels } \cup Transfers
Entry == [contract : Contracts, message : Messages]
Root == UNION { [D -> Messages] : D \in SUBSET Contracts }
Tapret == [key : Keys, root : Root]

ASSUME AnchorAssumptions ==
    /\ SyntheticBundle \in [Labels -> Messages]
    /\ LabelLists \subseteq Seq(Labels) \ {<<>>}
    /\ NoSeal \notin Seals
    /\ Wpkh \notin Tapret /\ OtherP2tr \notin Tapret /\ Wpkh # OtherP2tr
    /\ MaxFiles \in Nat /\ MaxTxs \in Nat /\ MaxOuts \in Nat /\ MaxVerdicts \in Nat

VARIABLES files,    \* the anchors built
          txs,      \* the transactions broadcast, with what became of them
          verified, \* the anchors verify has accepted
          hops      \* the entries accepted hop by hop of a swap

vars == <<files, txs, verified, hops>>

Anchor == [key : Keys, root : Root, entries : Seq(Entry), seal : Seals \cup {NoSeal}]
Output == Tapret \cup {Wpkh, OtherP2tr}
Tx == [ins : SUBSET Seals, outs : Seq(Output), status : {"mempool", "mined", "replaced"}]

TypeOK ==
    /\ files \subseteq Anchor
    /\ txs \in Seq(Tx)
    /\ verified \subseteq [anchor : Anchor, witness : DOMAIN txs]
    /\ hops \subseteq [seal : Seals, entry : Entry, witness : DOMAIN txs]

Init == files = {} /\ txs = <<>> /\ verified = {} /\ hops = {}
-----------------------------------------------------------------------------
(***************************************************************************)
(* The MPC tree: a map, in which a later message of a contract replaces an *)
(* earlier one.                                                            *)
(***************************************************************************)
LastOf(entries, c) == SelectLastInSeq(entries, LAMBDA e : e.contract = c)

MpcRoot(entries) ==
    [c \in { entries[i].contract : i \in DOMAIN entries } |->
        entries[LastOf(entries, c)].message]

\* The tree patched_anchor builds: one entry, whatever the file lists.
SingleRoot(e) == [c \in {e.contract} |-> e.message]

\* Mutant: the path is there, but nothing is recomputed from the leaf.
ProvenByPath(tree, e) == e.contract \in DOMAIN tree

\* The root recomputed from an entry and the concealed rest of the tree.
Proven(tree, e) ==
    /\ e.contract \in DOMAIN tree
    /\ [tree EXCEPT ![e.contract] = e.message] = tree

Commit(key, root) == [key |-> key, root |-> root]
IsP2tr(out) == out # Wpkh

\* Mutant: whatever the first output is.
FirstOutput(outs) == IF outs = <<>> THEN Wpkh ELSE outs[1]

\* The tapret commitment slot of a transaction.
FirstP2tr(outs) ==
    LET i == SelectInSeq(outs, IsP2tr)
    IN  IF i = 0 THEN Wpkh ELSE outs[i]
-----------------------------------------------------------------------------
\* Mutant: the label itself is committed to.
BuildLabel(labels, key, seal) ==
    LET entries == [i \in DOMAIN labels |->
                       [contract |-> labels[i], message |-> labels[i]]]
    IN  files' = files \cup {[key |-> key, root |-> MpcRoot(entries),
                              entries |-> entries, seal |-> seal]}

(***************************************************************************)
(* rgb-anchor build: an entry for every label, in one tree.                *)
(***************************************************************************)
Build(labels, key, seal) ==
    LET entries == [i \in DOMAIN labels |->
                       [contract |-> labels[i], message |-> SyntheticBundle[labels[i]]]]
    IN  files' = files \cup {[key |-> key, root |-> MpcRoot(entries),
                              entries |-> entries, seal |-> seal]}

(***************************************************************************)
(* rgb-anchor rgb20-transfer: the bundle of one transfer, on the seal it   *)
(* closes.                                                                 *)
(***************************************************************************)
Rgb20Transfer(asset, bundle, key, seal) ==
    LET entries == <<[contract |-> asset, message |-> bundle]>>
    IN  files' = files \cup {[key |-> key, root |-> MpcRoot(entries),
                              entries |-> entries, seal |-> seal]}

BuildAnchor ==
    /\ Cardinality(files) < MaxFiles
    /\ \E key \in Keys :
          \/ \E labels \in LabelLists, seal \in Seals \cup {NoSeal} : Build(labels, key, seal)
          \/ \E asset \in Assets, bundle \in Transfers, seal \in Seals :
                Rgb20Transfer(asset, bundle, key, seal)
    /\ UNCHANGED <<txs, verified, hops>>

Mined(t) == txs[t].status = "mined"

Spent == UNION { txs[t].ins : t \in { u \in DOMAIN txs : Mined(u) } }

(***************************************************************************)
(* A transaction that spends seals, perhaps the wrong ones, and pays       *)
(*      addresses that were printed, in any order, besides wallet outputs. *)
(* It replaces what it conflicts with in the mempool.                      *)
(***************************************************************************)
Payable == { Commit(f.key, f.root) : f \in files } \cup {Wpkh, OtherP2tr}

Broadcast(ins, outs) ==
    /\ ins \cap Spent = {}
    /\ txs' = Append(
          [t \in DOMAIN txs |->
              IF txs[t].status = "mempool" /\ txs[t].ins \cap ins # {}
              THEN [txs[t] EXCEPT !.status = "replaced"] ELSE txs[t]],
          [ins |-> ins, outs |-> outs, status |-> "mempool"])

BroadcastWitness ==
    /\ Len(txs) < MaxTxs
    /\ \E ins \in SUBSET Seals \ {{}}, n \in 1..MaxOuts :
          \E outs \in [1..n -> Payable] : Broadcast(ins, outs)
    /\ UNCHANGED <<files, verified, hops>>

\* generatetoaddress: a block takes the whole mempool.
Mine ==
    /\ \E t \in DOMAIN txs : txs[t].status = "mempool"
    /\ txs' = [t \in DOMAIN txs |->
                  IF txs[t].status = "mempool"
                  THEN [txs[t] EXCEPT !.status = "mined"] ELSE txs[t]]
    /\ UNCHANGED <<files, verified, hops>>
-----------------------------------------------------------------------------
(***************************************************************************)
(* The files receivers are handed: the ones built, and the ones the demos  *)
(* tamper with, another seal or another message in an entry.               *)
(***************************************************************************)
Presented ==
    files
    \cup { [f EXCEPT !.seal = s] : f \in files, s \in Seals }
    \cup UNION { { [f EXCEPT !.entries[i].message = m] : i \in DOMAIN f.entries, m \in Messages }
                 : f \in files }

\* getrawtransaction finds what is in a block and what waits for one.
Fetched(t) == txs[t].status # "replaced"

\* Mutant: the inputs are not looked at.
AssertFetched(t, seal) == Fetched(t)

AssertCloses(t, seal) == seal \in txs[t].ins

\* Mutant: the seal of the file is not looked at.
VerifyUnsealed(a, t) ==
    LET root == MpcRoot(a.entries)
    IN  /\ root = a.root
        /\ \A i \in DOMAIN a.entries : Proven(root, a.entries[i])
        /\ \E i \in DOMAIN txs[t].outs : txs[t].outs[i] = Commit(a.key, root)

(***************************************************************************)
(* rgb-anchor verify: the root is rebuilt from the entries, each of them   *)
(* is proven against it, and some output carries it; a seal, if the file   *)
(* names one, is among the inputs.                                         *)
(***************************************************************************)
Verify(a, t) ==
    LET root == MpcRoot(a.entries)
    IN  /\ root = a.root
        /\ \A i \in DOMAIN a.entries : Proven(root, a.entries[i])
        /\ a.seal # NoSeal => AssertCloses(t, a.seal)
        /\ \E i \in DOMAIN txs[t].outs : txs[t].outs[i] = Commit(a.key, root)

\* Mutant: any taproot output will do, as in verify.
VerifyAnyOutput(a, i, t) ==
    \E j \in DOMAIN txs[t].outs : txs[t].outs[j] = Commit(a.key, SingleRoot(a.entries[i]))

(***************************************************************************)
(* rgb-anchor verify-patched: the chosen entry, alone in its tree, is what *)
(* the first taproot output carries.                                       *)
(***************************************************************************)
VerifyPatched(a, i, t) ==
    FirstP2tr(txs[t].outs) = Commit(a.key, SingleRoot(a.entries[i]))

VerifyAnchor ==
    /\ Cardinality(verified) + Cardinality(hops) < MaxVerdicts
    /\ \E a \in Presented, t \in DOMAIN txs :
          /\ Fetched(t)
          /\ Verify(a, t)
          /\ verified' = verified \cup {[anchor |-> a, witness |-> t]}
    /\ UNCHANGED <<files, txs, hops>>

(***************************************************************************)
(* A hop of the round trip: assert_closes for the seal the asset is known  *)
(* to sit on, then verify-patched (on Bitcoin nothing else).               *)
(***************************************************************************)
AcceptHop ==
    /\ Cardinality(verified) + Cardinality(hops) < MaxVerdicts
    /\ \E a \in Presented, t \in DOMAIN txs, seal \in Seals :
          /\ Fetched(t)
          /\ AssertCloses(t, seal)
          /\ \E i \in DOMAIN a.entries :
                /\ VerifyPatched(a, i, t)
                /\ hops' = hops \cup
                      {[seal |-> seal, entry |-> a.entries[i], witness |-> t]}
    /\ UNCHANGED <<files, txs, verified>>

Next == BuildAnchor \/ BroadcastWitness \/ Mine \/ VerifyAnchor \/ AcceptHop

Spec == Init /\ [][Next]_vars
-----------------------------------------------------------------------------
(***************************************************************************)
(* seal.rs: "The seal is closed by the transaction that spends it; the     *)
(* same transaction MUST embed the anchor commitment".  However many       *)
(* anchors of a seal are built, double-booked, tampered with and fought    *)
(* over in the mempool, the hops accepted on that seal whose transactions  *)
(* have not been replaced carry one message of a contract.                 *)
(***************************************************************************)
OneMessagePerSeal ==
    \A h, k \in hops :
        /\ Fetched(h.witness) /\ Fetched(k.witness)
        /\ h.seal = k.seal /\ h.entry.contract = k.entry.contract
        => h.entry.message = k.entry.message

(***************************************************************************)
(* demo_patched.sh runs verify and verify-patched on one anchor.  Two      *)
(* receivers who are shown different files of one seal, and check them     *)
(* with different commands, have read the same message of a contract, if   *)
(* the transaction has no taproot output besides the commitment.           *)
(***************************************************************************)
OneSlot(outs) == \A i, j \in DOMAIN outs : IsP2tr(outs[i]) /\ IsP2tr(outs[j]) => i = j

VerifiersAgree ==
    \A v \in verified, h \in hops :
        /\ Fetched(v.witness) /\ Fetched(h.witness)
        /\ v.anchor.seal = h.seal
        /\ OneSlot(txs[v.witness].outs)
        => \A i \in DOMAIN v.anchor.entries :
              v.anchor.entries[i].contract = h.entry.contract
                  => v.anchor.entries[i].message = h.entry.message

(***************************************************************************)
(* rgb_anchor.rs, of the inclusion proofs: "the receiver-side flow would   *)
(* work without needing the whole tree".  Every entry of an accepted file, *)
(* duplicates included, is a message the transaction commits to.           *)
(***************************************************************************)
Carries(t, e) ==
    \E i \in DOMAIN txs[t].outs :
        LET out == txs[t].outs[i]
        IN  out \in Tapret /\ e.contract \in DOMAIN out.root /\ out.root[e.contract] = e.message

EveryEntryCarried ==
    \A v \in verified : \A i \in DOMAIN v.anchor.entries :
        Carries(v.witness, v.anchor.entries[i])

(***************************************************************************)
(* What is built by rgb-anchor verifies: once its seal is spent by a       *)
(* transaction with nothing but wallet outputs that are not taproot in     *)
(* front of its address, verify accepts the file, and verify-patched too   *)
(* if it has one entry.                                                    *)
(***************************************************************************)
Anchored(f, t) ==
    /\ Fetched(t)
    /\ f.seal # NoSeal => AssertCloses(t, f.seal)
    /\ \E i \in DOMAIN txs[t].outs :
          /\ txs[t].outs[i] = Commit(f.key, f.root)
          /\ \A j \in 1..(i - 1) : txs[t].outs[j] = Wpkh

BuiltVerifies ==
    \A f \in files, t \in DOMAIN txs :
        Anchored(f, t) =>
            /\ Verify(f, t)
            /\ Len(f.entries) = 1 => VerifyPatched(f, 1, t)

(***************************************************************************)
(* demo_rgb20.sh: "TapretFirst convention requires it be the first P2TR".  *)
(* What verify accepts is in that slot.                                    *)
(***************************************************************************)
CommitmentFirst ==
    \A v \in verified :
        FirstP2tr(txs[v.witness].outs) = Commit(v.anchor.key, v.anchor.root)

(***************************************************************************)
(* rgb_anchor.rs, verify-patched --entry: "Which entry's protocol_id to    *)
(* verify the inclusion for".  Any entry of a built anchor can be chosen.  *)
(***************************************************************************)
AnyEntryVerifies ==
    \A f \in files, t \in DOMAIN txs :
        Anchored(f, t) => \A i \in DOMAIN f.entries : VerifyPatched(f, i, t)

(***************************************************************************)
(* seal.rs: "the seal was closed".  It is so as long as the transaction is *)
(* not replaced, and nothing the commands ask the node for excludes that.  *)
(***************************************************************************)
AcceptedStays ==
    /\ \A v \in verified : Fetched(v.witness)
    /\ \A h \in hops : Fetched(h.witness)

(***************************************************************************)
(* The hops implement SealClosing: a seal is spent once a block holds the  *)
(* transaction, and what has been accepted on it counts from then on.      *)
(***************************************************************************)
ClosedOver ==
    { [seal |-> h.seal, contract |-> h.entry.contract, message |-> h.entry.message] :
        h \in { k \in hops : Mined(k.witness) } }

SealClosing == INSTANCE SealClosing WITH spent <- Spent, closed <- ClosedOver

\* Blocks and acceptances, in any order, are steps SealClosing allows.
ClosesSeals == SealClosing!Spec
=============================================================================
