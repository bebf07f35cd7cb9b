---------------------------- MODULE RelativeLock ----------------------------
(***************************************************************************)
(* The relative time lock of an HTLC output: what the refund branch of     *)
(* crates/spike-rgb-anchor/src/swap/htlc.rs asks of the chain.             *)
(*                                                                         *)
(* The spend builder writes csv_delay, an unrestricted u32, into the input *)
(* sequence of a refund; the node reads that number by BIP-68 and BIP-112: *)
(* the low 16 bits count, bit 22 changes the unit from blocks to periods   *)
(* of 512 seconds, and bit 31 turns the lock off.  The three widths are    *)
(* constants so that TLC can explore the whole range of a scaled-down u32. *)
(***************************************************************************)
EXTENDS Integers

CONSTANTS ValueMod,     \* 2^16: the bits of a sequence that count
          TypeFlag,     \* 2^22: the lock is in 512-second periods
          DisableFlag   \* 2^31: there is no lock

ASSUME LockWidths ==
    /\ ValueMod \in Nat \ {0}
    /\ TypeFlag \in Nat \ {0}
    /\ DisableFlag \in Nat \ {0}
    /\ ValueMod < TypeFlag
    /\ TypeFlag < DisableFlag

Branch == {"claim", "refund"}

HasFlag(n, flag) == (n \div flag) % 2 = 1

(***************************************************************************)
(* The sequence the builder puts on the input: 0xfffffffd on a claim,      *)
(* which only signals replaceability, and the delay itself on a refund.    *)
(***************************************************************************)
HtlcSequence(branch, csvDelay) ==
    IF branch = "claim" THEN 2 * DisableFlag - 3 ELSE csvDelay

(***************************************************************************)
(* BIP-68, for a version 2 transaction: may an input with this sequence be *)
(* in a block that is `blocks' above the spent output's own and `periods'  *)
(* half-kiloseconds later?                                                 *)
(***************************************************************************)
SequenceSatisfied(sequence, blocks, periods) ==
    \/ HasFlag(sequence, DisableFlag)
    \/ /\ HasFlag(sequence, TypeFlag)
       /\ periods >= sequence % ValueMod
    \/ /\ ~HasFlag(sequence, TypeFlag)
       /\ blocks >= sequence % ValueMod

(***************************************************************************)
(* BIP-112, OP_CHECKSEQUENCEVERIFY: an operand with the disable bit is a   *)
(* no-op, a negative one fails, and otherwise the sequence must be an      *)
(* enabled lock of the same unit, at least as long.                        *)
(***************************************************************************)
CheckSequenceVerify(operand, sequence) ==
    /\ operand >= 0
    /\ \/ HasFlag(operand, DisableFlag)
       \/ /\ ~HasFlag(sequence, DisableFlag)
          /\ HasFlag(sequence, TypeFlag) <=> HasFlag(operand, TypeFlag)
          /\ operand % ValueMod <= sequence % ValueMod

(***************************************************************************)
(* The refund the builder makes for this delay is valid in such a block.   *)
(***************************************************************************)
RefundOpen(csvDelay, blocks, periods) ==
    LET sequence == HtlcSequence("refund", csvDelay)
    IN  /\ CheckSequenceVerify(csvDelay, sequence)
        /\ SequenceSatisfied(sequence, blocks, periods)
=============================================================================
