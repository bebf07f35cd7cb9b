------------------------------ MODULE BfaAudit ------------------------------
(***************************************************************************)
(* bfa-audit: an auditor checks the claimed mint history of a contract     *)
(* against the chain, one mint and one getrawtransaction call at a time,   *)
(* while the issuer goes on minting.                                       *)
(*                                                                         *)
(* The issuer may anchor anything the outputs of a transaction permit: a   *)
(* mint built from wrong --allowance or --consume-opid arguments, one that *)
(* closes another seal than its gate, one without its deposit.  The        *)
(* auditor knows only the file, which may say anything, and the            *)
(* transactions it names.                                                  *)
(***************************************************************************)
EXTENDS MintChain

VARIABLES contract,  \* the auditor's contract, from the file
          claims,    \* the mints of the file read so far, with their witness
          path,      \* the transitions rebuilt from them (consume_opid)
          allowance, \* what is left to mint
          gate,      \* the seal the next mint must close
          failed,    \* some check has failed
          before,    \* transactions mined when the audit began
          verdict    \* "idle", "running", "ok", "failed" or "error"

audit == <<contract, claims, path, allowance, gate, failed, before, verdict>>
vars == <<chain, audit>>

Step == [before : 0..(U64 - 1), mint : Amounts, gate : Seals \cup {NoSeal}]

Anchor == [contract : Contracts, path : Seq(Step)]
WitnessTx == TxOf(Anchor)

\* Type invariant: in particular the allowance never leaves 0..max, which is
\* what the checked_sub of the loop is there for.
TypeOK ==
    /\ ChainTypeOK(WitnessTx)
    /\ contract \in Contracts
    /\ claims \in Seq([mint : Amounts, witness : Nat])
    /\ path \in Seq(Step)
    /\ allowance \in 0..contract.max
    /\ gate \in Seals
    /\ failed \in BOOLEAN
    /\ before \subseteq DOMAIN txs
    /\ verdict \in {"idle", "running", "ok", "failed", "error"}

Init ==
    /\ ChainInit
    /\ contract \in Contracts
    /\ claims = <<>>
    /\ path = <<>>
    /\ allowance = contract.max
    /\ gate = contract.gate
    /\ failed = FALSE
    /\ before = {}
    /\ verdict = "idle"
-----------------------------------------------------------------------------
(***************************************************************************)
(* The transitions bfa-mint builds.  Its --consume-opid is the genesis or  *)
(* whatever an earlier call printed, anchored or not, and its --allowance  *)
(* is what the caller says: what is left, or by default the whole supply.  *)
(***************************************************************************)
MintPaths(c) ==
    { p \in SeqOf(MintSteps(c), MaxMints) \ {<<>>} :
        \A i \in DOMAIN p :
            p[i].before \in {c.max, c.max - Minted(SubSeq(p, 1, i - 1))} }

Commitments == UNION { { Commitment(c, p) : p \in MintPaths(c) } : c \in Contracts }

\* The issuer broadcasts a witness transaction.
Mint == Broadcast(Commitments) /\ UNCHANGED audit

Confirm == Block /\ UNCHANGED audit

(***************************************************************************)
(* The auditor reads the file and re-derives the contract.                 *)
(***************************************************************************)
BeginAudit ==
    /\ verdict = "idle"
    /\ verdict' = "running"
    /\ before' = mined
    /\ UNCHANGED <<chain, contract, claims, path, allowance, gate, failed>>

\* Mutant: the anchor may commit to any mint of the contract.
AnchoredAnywhere(tx, p) == \E i \in DOMAIN tx.anchors : tx.anchors[i].contract = contract

\* Some output pays the commitment.
PaysCommitment(tx, p) ==
    \E i \in DOMAIN tx.anchors : tx.anchors[i] = Commitment(contract, p)

(***************************************************************************)
(* One turn of the loop.  The file is read as the loop goes: what it says  *)
(* of a later mint plays no part in the checks of an earlier one.          *)
(***************************************************************************)
NextClaim(mint, newGate, witness) ==
    LET tx == txs[witness]
        p == Append(path, Inflate(allowance, mint, newGate))
        anchored == PaysCommitment(tx, p)
    IN  /\ claims' = Append(claims, [mint |-> mint, witness |-> witness])
        /\ path' = p
        /\ failed' = (failed \/ gate \notin tx.closes
                             \/ ~anchored
                             \/ ~AuditMint(contract, mint, tx.vault))
        /\ allowance' = allowance - mint
        /\ gate' = IF newGate = NoSeal THEN gate ELSE newGate
        /\ UNCHANGED <<chain, contract, before, verdict>>

AuditClaim ==
    /\ verdict = "running"
    /\ Len(claims) < MaxMints
    /\ \E mint \in Amounts, newGate \in Seals \cup {NoSeal} :
          /\ Builds(allowance, mint, newGate)
          /\ \E witness \in Known : NextClaim(mint, newGate, witness)

(***************************************************************************)
(* The file names a mint that cannot be built, or a transaction the node   *)
(* does not have: the command stops.                                       *)
(***************************************************************************)
AuditError ==
    /\ verdict = "running"
    /\ Len(claims) < MaxMints
    /\ verdict' = "error"
    /\ UNCHANGED <<chain, contract, claims, path, allowance, gate, failed, before>>

\* The file ends.
EndAudit ==
    /\ verdict = "running"
    /\ verdict' = IF failed THEN "failed" ELSE "ok"
    /\ UNCHANGED <<chain, contract, claims, path, allowance, gate, failed, before>>

Next == Mint \/ Confirm \/ BeginAudit \/ AuditClaim \/ AuditError \/ EndAudit

Spec == Init /\ [][Next]_vars
-----------------------------------------------------------------------------
(***************************************************************************)
(* What a wallet accepts as the history of a contract: every mint consumes *)
(* the whole allowance left by the one before it, and is the commitment of *)
(* the first taproot output of the transaction that closed its gate (the   *)
(* rule of rgb-consensus, dbc/tapret/mod.rs).                              *)
(***************************************************************************)
\* What the first i - 1 mints of a path leave for the i-th.
GateOf(c, p, i) == IF i = 1 THEN c.gate ELSE p[i - 1].gate
LeftOf(c, p, i) == IF i = 1 THEN c.max ELSE p[i - 1].before - p[i - 1].mint

Carries(t, c, p, i) ==
    /\ GateOf(c, p, i) \in txs[t].closes
    /\ txs[t].anchors # <<>>
    /\ txs[t].anchors[1] = Commitment(c, SubSeq(p, 1, i))

Chained(c, p, i) == p[i].before = LeftOf(c, p, i) /\ p[i].mint <= p[i].before

TrueHistory(c, p) ==
    \A i \in DOMAIN p : Chained(c, p, i) /\ \E t \in mined : Carries(t, c, p, i)

Witnesses == { claims[i].witness : i \in DOMAIN claims }

(***************************************************************************)
(* bfa.rs: "nobody can present the same history under different terms".    *)
(* Once the transactions an audit relied on are in blocks, the history it  *)
(* found good is the contract's own, under the terms it was issued with.   *)
(***************************************************************************)
HistoryIsTrue ==
    verdict = "ok" /\ Witnesses \subseteq mined => TrueHistory(contract, path)

(***************************************************************************)
(* rgb_anchor.rs: "Audit a BFA contract's full mint history against the    *)
(* chain".  With nothing waiting for a block any more, what an audit found *)
(* good is on the chain.                                                   *)
(***************************************************************************)
HistoryOnChain == verdict = "ok" /\ mempool = {} => TrueHistory(contract, path)

(***************************************************************************)
(* "fully backed": the transactions the audit has seen pay the vault, in   *)
(* explicit outputs of the backing asset, the rate for every unit minted,  *)
(* each deposit counted once and the arithmetic done without a limit.      *)
(***************************************************************************)
SupplyBacked ==
    verdict = "ok" =>
        SumFunctionOnSet([t \in DOMAIN txs |-> Deposit(txs[t].vault)], Witnesses)
                * contract.den
            >= Minted(path) * contract.num

(***************************************************************************)
(* mint.rs: "does witness_tx [...] lock at least required_amount of        *)
(* backing_asset", and "blinded vault outputs are rejected".  The audit    *)
(* fails only if some claim names a transaction that does not close the    *)
(* gate, does not anchor the mint, or does not lock enough of the asset,   *)
(* or if what the claim requires exceeds a u64.                            *)
(***************************************************************************)
Genuine(i) ==
    LET tx == txs[claims[i].witness]
    IN  /\ GateOf(contract, path, i) \in tx.closes
        /\ Commitment(contract, SubSeq(path, 1, i)) \in Range(tx.anchors)
        /\ \A j \in DOMAIN tx.vault : tx.vault[j].kind # "blinded"
        /\ Deposit(tx.vault) * contract.den >= path[i].mint * contract.num
        /\ path[i].mint * contract.num <= (U64 - 1) * contract.den

FailsForCause == verdict = "failed" => \E i \in DOMAIN path : ~Genuine(i)

(***************************************************************************)
(* rgb_anchor.rs, of the history file: "any divergence from what was       *)
(* actually anchored on chain shows up as an anchor mismatch".  An audit   *)
(* that succeeds has seen every mint anchored before it began.             *)
(***************************************************************************)
DivergenceShows ==
    verdict = "ok" =>
        \A t \in before :
            txs[t].anchors # <<>> /\ txs[t].anchors[1].contract = contract
                /\ TrueHistory(contract, txs[t].anchors[1].path)
            => Len(txs[t].anchors[1].path) <= Len(path)
=============================================================================
