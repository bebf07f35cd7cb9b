----------------------------- MODULE BackedMint -----------------------------
(***************************************************************************)
(* Minting against a vault: mint.rs (IFA mints and the backing check) and  *)
(* bfa.rs (backing terms in the genesis), without the chain.               *)
(*                                                                         *)
(* A contract is what its id commits to; an operation id commits to the    *)
(* contract and to every operation before it, so that an anchored          *)
(* transition is named by its path: the mints from the genesis up to and   *)
(* including itself.  Hashes are taken for injective.                      *)
(***************************************************************************)
EXTENDS Integers, Sequences, SequencesExt

CONSTANTS Contracts,  \* issue-bfa arguments: [num, den, max, gate]
          U64,        \* one more than the largest u64
          NoSeal      \* no new gate seal

ASSUME TermsParse ==
    /\ U64 \in Nat
    /\ \A c \in Contracts :
          /\ c.num \in 0..(U64 - 1)
          /\ c.den \in 1..(U64 - 1)
          /\ c.max \in 0..(U64 - 1)
          /\ c.gate # NoSeal

(***************************************************************************)
(* build_mint_with: the inflation transition, if there is one.  The seal   *)
(* of the remaining allowance is committed only if there is any.           *)
(***************************************************************************)
\* Mutant: the allowance is not a limit.
BuildsBeyond(before, mint, newGate) == before > mint => newGate # NoSeal

Builds(before, mint, newGate) ==
    /\ mint <= before
    /\ before > mint => newGate # NoSeal

Inflate(before, mint, newGate) ==
    [before |-> before, mint |-> mint,
     gate |-> IF before > mint THEN newGate ELSE NoSeal]

\* What the anchor output of a mint commits to.
Commitment(contract, path) == [contract |-> contract, path |-> path]

(***************************************************************************)
(* required_backing: ceil(minted * num / den), or an error when it does    *)
(* not fit a u64.                                                          *)
(***************************************************************************)
\* Mutant: the division rounds down.
RequiredFloor(contract, minted) == (minted * contract.num) \div contract.den

\* Mutant: one unit too many when the division is exact.
RequiredAbove(contract, minted) == (minted * contract.num) \div contract.den + 1

Required(contract, minted) ==
    (minted * contract.num + contract.den - 1) \div contract.den

(***************************************************************************)
(* verify_backing, on the outputs that pay the vault script: [kind, value] *)
(* with kind "backing" (explicit, the terms' asset), "other" (explicit,    *)
(* another asset) or "blinded" (asset or value).  Anything but the first   *)
(* ends the check with an error.  The sum saturates.                       *)
(***************************************************************************)
\* Mutant: the sum of a wider integer.
AddWider(a, b) == a + b

AddSaturating(a, b) == IF a + b < U64 THEN a + b ELSE U64 - 1

Locked(vault) ==
    LET sum[n \in 0..Len(vault)] ==
            IF n = 0 THEN 0 ELSE AddSaturating(sum[n - 1], vault[n].value)
    IN  sum[Len(vault)]

VerifyBacking(vault, required) ==
    /\ \A i \in DOMAIN vault : vault[i].kind = "backing"
    /\ Locked(vault) >= required

(***************************************************************************)
(* audit_mint.                                                             *)
(***************************************************************************)
AuditMint(contract, minted, vault) ==
    /\ Required(contract, minted) < U64
    /\ VerifyBacking(vault, Required(contract, minted))
-----------------------------------------------------------------------------
(***************************************************************************)
(* What the properties compare, with no limit to the arithmetic: the       *)
(* backing asset that explicit vault outputs hold, and the units a history *)
(* of mints has made.                                                      *)
(***************************************************************************)
VaultOut == [kind : {"backing", "other", "blinded"}, value : 0..(U64 - 1)]

Deposit(vault) ==
    SumFunctionOnSet([i \in DOMAIN vault |->
                         IF vault[i].kind = "backing" THEN vault[i].value ELSE 0],
                     DOMAIN vault)

Minted(path) == SumFunctionOnSet([i \in DOMAIN path |-> path[i].mint], DOMAIN path)
=============================================================================
