---------------------------- MODULE MintReceipt ----------------------------
(***************************************************************************)
(* verify-backed-mint: a receiver checks the one mint it was paid with,    *)
(* from the file of ifa-mint.  The command is verify followed by the       *)
(* backing rule, each with a request of its own to the node, and the       *)
(* transaction may be mined or replaced in between.                        *)
(*                                                                         *)
(* The issuer anchors what it likes, and a file may say anything: another  *)
(* mint, another seal than the one of the contract, or none.               *)
(***************************************************************************)
EXTENDS MintChain

CONSTANT MaxReceipts \* bound: mints received

ASSUME ReceiptBounds == MaxReceipts \in Nat

VARIABLES checking, \* the receipts whose anchor verify has found good
          received  \* the receipts printed as verified, with what was locked

receipts == <<checking, received>>
ReceiptVars == <<chain, receipts>>

\* What the issuer can anchor.
Mints ==
    UNION { { Commitment(c, p) : p \in SeqOf(MintSteps(c), MaxMints) \ {<<>>} } :
            c \in Contracts }

ReceiptTx == TxOf(Mints)

\* The anchor file, with the transaction's id patched in, and --required.
Receipts == [mint : Mints, seal : Seals \cup {NoSeal}, witness : DOMAIN txs, required : Amounts]

\* Type invariant: in particular what is printed as locked is a u64.
ReceiptTypeOK ==
    /\ ChainTypeOK(ReceiptTx)
    /\ checking \subseteq Receipts
    /\ \A r \in received : r.receipt \in Receipts /\ r.locked \in r.receipt.required..(U64 - 1)

ReceiptInit == ChainInit /\ checking = {} /\ received = {}
-----------------------------------------------------------------------------
\* The issuer broadcasts a witness transaction.
ReceiptMint == Broadcast(Mints) /\ UNCHANGED receipts

ReceiptConfirm == Block /\ UNCHANGED receipts

(***************************************************************************)
(* verify, on the first answer of the node: a file with a seal must name a *)
(* transaction that spends it, and some output pays the commitment.        *)
(***************************************************************************)
\* Mutant: the seal of the file is not looked for.
ClosesAnything(tx, seal) == TRUE

ClosesSeal(tx, seal) == seal # NoSeal => seal \in tx.closes

\* Mutant: any output of the contract's will do.
AnchorsAnyMint(tx, mint) == \E i \in DOMAIN tx.anchors : tx.anchors[i].contract = mint.contract

AnchorsMint(tx, mint) == mint \in Range(tx.anchors)

Verify ==
    /\ Cardinality(checking \cup { r.receipt : r \in received }) < MaxReceipts
    /\ \E r \in Receipts :
          /\ r.witness \in Known
          /\ ClosesSeal(txs[r.witness], r.seal)
          /\ AnchorsMint(txs[r.witness], r.mint)
          /\ checking' = checking \cup {r}
    /\ UNCHANGED <<chain, received>>

(***************************************************************************)
(* verify_backing, on the second answer, or an error.                      *)
(***************************************************************************)
CheckBacking ==
    /\ \E r \in checking :
          /\ checking' = checking \ {r}
          /\ LET vault == txs[r.witness].vault
             IN  received' =
                   IF r.witness \in Known /\ VerifyBacking(vault, r.required)
                   THEN received \cup {[receipt |-> r, locked |-> Locked(vault)]}
                   ELSE received
    /\ UNCHANGED chain

ReceiptNext == ReceiptMint \/ ReceiptConfirm \/ Verify \/ CheckBacking

ReceiptSpec == ReceiptInit /\ [][ReceiptNext]_ReceiptVars
-----------------------------------------------------------------------------
\* The receipts whose transaction is in a block.
Settled == { r.receipt : r \in { s \in received : s.receipt.witness \in mined } }

\* The transaction has one taproot output.  verify accepts a commitment in any
\* output, so one with two of them stands for two mints, and for both deposits.
Sole(r) == Len(txs[r.witness].anchors) = 1

(***************************************************************************)
(* demo_backed_mint.sh: "the anchor, the seal closure, AND the backing,    *)
(* all from the same witness tx".  Receivers who were shown the same gate  *)
(* seal have looked at the same transaction, whatever was replaced between *)
(* the requests; and if that has one taproot output, they have received    *)
(* the same mint.                                                          *)
(***************************************************************************)
OneMintPerSeal ==
    \A r, s \in Settled :
        r.seal = s.seal /\ r.seal # NoSeal =>
            /\ r.witness = s.witness
            /\ Sole(r) => r.mint = s.mint

(***************************************************************************)
(* "every holder can verify the backing of every mint straight from the    *)
(* witness": when each receiver asks for its own mint at the rate of one,  *)
(* in a transaction with one taproot output, the deposits of all of them   *)
(* together cover all their mints, each deposit counted once.              *)
(***************************************************************************)
Units(mint) == Last(mint.path).mint

MintsCovered ==
    LET honest == { r \in Settled : r.required = Units(r.mint) /\ Sole(r) }
        minted == { <<r.mint, r.witness>> : r \in honest }
    IN  SumFunctionOnSet([m \in minted |-> Units(m[1])], minted)
          <= SumFunctionOnSet([t \in DOMAIN txs |-> Deposit(txs[t].vault)],
                              { r.witness : r \in honest })

(***************************************************************************)
(* rgb_anchor.rs: "The full backed-mint verification a receiver runs: the  *)
(* standard anchor + seal-closure checks, then the backing rule".  What is *)
(* verified closes the gate seal of its contract or of the mint before.    *)
(***************************************************************************)
GateToClose(mint) ==
    LET n == Len(mint.path)
    IN  IF n = 1 THEN mint.contract.gate ELSE mint.path[n - 1].gate

GateClosed ==
    \A r \in Settled : r.seal \in {GateToClose(r.mint), NoSeal}
                          => GateToClose(r.mint) \in txs[r.witness].closes

(***************************************************************************)
(* mint.rs, of a mint: "it consumes the gate seal".  A gate of a contract  *)
(* is consumed by one mint.  The seal that is looked for is the one in the *)
(* file, which need not be the gate of the contract.                       *)
(***************************************************************************)
OneMintPerGate ==
    \A r, s \in Settled :
        /\ r.seal # NoSeal /\ s.seal # NoSeal /\ Sole(r) /\ Sole(s)
        /\ r.mint.contract = s.mint.contract
        /\ GateToClose(r.mint) = GateToClose(s.mint)
        => r.mint = s.mint
=============================================================================
