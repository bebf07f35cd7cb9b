----------------------------- MODULE MintChain -----------------------------
(***************************************************************************)
(* The chain on which a backed contract is minted, as the issuer fills it  *)
(* and the checks of bfa-audit and verify-backed-mint read it.             *)
(*                                                                         *)
(* A witness transaction closes seals, may have taproot outputs, which are *)
(* anchors, and pays the vault.  The node answers a call for the           *)
(* transactions of its mempool as for those of its blocks.                 *)
(***************************************************************************)
EXTENDS BackedMint, FiniteSets, FiniteSetsExt

CONSTANTS Seals,      \* outpoints used as gate seals
          Amounts,    \* mint amounts explored, and requirements
          VaultOuts,  \* vault outputs a transaction may have
          MaxAnchors, \* bound: taproot outputs of one transaction
          MaxTxs,     \* bound: witness transactions broadcast
          MaxMints    \* bound: mints of a history

ASSUME ChainBounds ==
    /\ NoSeal \notin Seals
    /\ \A c \in Contracts : c.gate \in Seals
    /\ Amounts \subseteq 1..(U64 - 1)
    /\ VaultOuts \subseteq Seq(VaultOut)
    /\ MaxAnchors \in Nat /\ MaxTxs \in Nat /\ MaxMints \in Nat

VARIABLES txs,     \* the witness transactions broadcast, oldest first
          mempool, \* those waiting for a block
          mined    \* those in a block; the others have been replaced

chain == <<txs, mempool, mined>>

\* The witness transactions that commit to these.
TxOf(commitments) ==
    [closes : SUBSET Seals \ {{}}, anchors : Seq(commitments), vault : VaultOuts]

ChainTypeOK(witnessTxs) ==
    /\ txs \in Seq(witnessTxs)
    /\ mempool \subseteq DOMAIN txs
    /\ mined \subseteq DOMAIN txs \ mempool

ChainInit == txs = <<>> /\ mempool = {} /\ mined = {}
-----------------------------------------------------------------------------
(***************************************************************************)
(* The mints bfa-mint and ifa-mint build, the first and the chained ones,  *)
(* from an allowance that is the caller's word.                            *)
(***************************************************************************)
MintSteps(c) ==
    { Inflate(t[1], t[2], t[3]) :
        t \in { u \in (0..c.max) \X Amounts \X (Seals \cup {NoSeal}) :
                  Builds(u[1], u[2], u[3]) } }

(***************************************************************************)
(* A witness transaction reaches the node: it closes seals no mined one    *)
(* has closed, perhaps the wrong ones, and replaces what it conflicts      *)
(* with.                                                                   *)
(***************************************************************************)
Closed == UNION { txs[t].closes : t \in mined }

Broadcast(commitments) ==
    /\ Len(txs) < MaxTxs
    /\ \E closes \in SUBSET (Seals \ Closed) \ {{}},
          anchors \in SeqOf(commitments, MaxAnchors),
          vault \in VaultOuts :
          /\ txs' = Append(txs, [closes |-> closes, anchors |-> anchors, vault |-> vault])
          /\ mempool' = { t \in mempool : txs[t].closes \cap closes = {} }
                            \cup {Len(txs) + 1}
    /\ UNCHANGED mined

\* A block takes a transaction.
Block ==
    /\ \E t \in mempool : mempool' = mempool \ {t} /\ mined' = mined \cup {t}
    /\ UNCHANGED txs

\* What getrawtransaction finds.
Known == mempool \cup mined
=============================================================================
