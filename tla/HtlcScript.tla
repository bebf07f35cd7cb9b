----------------------------- MODULE HtlcScript -----------------------------
(***************************************************************************)
(* One attempt to spend one HTLC output, run opcode by opcode.             *)
(*                                                                         *)
(* swap/htlc.rs emits the bytes of a witness script and of a witness       *)
(* stack; nodes of both chains interpret them.  Here the script is the     *)
(* sequence of its operations, the stack holds abstract items, and one     *)
(* action is one operation.  The run ends in a verdict, which the          *)
(* properties compare with the contract the module's documentation         *)
(* promises: the claimer with the preimage, or the funder after T blocks.  *)
(*                                                                         *)
(* The interpreter (OP_... below) is Bitcoin's and Elements' and is        *)
(* external to the repository.                                             *)
(***************************************************************************)
EXTENDS RelativeLock, Sequences, SequencesExt

CONSTANTS Preimages,    \* the byte strings a spender may present
          Keys,         \* the keys a spender may sign with
          ByteBase,     \* 256: the digits of a script number
          SmallMax,     \* 16: the largest number with an opcode of its own
          MaxNumBytes,  \* 5: the longest operand OP_CSV reads
          Delays,       \* the csv_delay arguments explored
          Ages,         \* the ages, in blocks and in periods, explored
          Sequences     \* sequences a spender may choose by hand

ASSUME ScriptWidths ==
    /\ ByteBase \in Nat /\ ByteBase % 2 = 0
    /\ SmallMax \in 1..(ByteBase \div 2 - 1)
    /\ MaxNumBytes \in Nat
    /\ Delays \subseteq 1..(2 * DisableFlag - 1)
    /\ Sequences \subseteq 0..(2 * DisableFlag - 1)
    /\ Ages \subseteq Nat

VARIABLES funded,   \* the parameters htlc-address was given for the output
          spend,    \* the transaction that tries to spend it
          pc,       \* the next operation; 0 before the script starts
          stack,    \* the script's stack, its top last
          cond,     \* the branch OP_IF selected, "none" outside OP_IF
          verdict   \* "pending", "accept" or "reject"

vars == <<funded, spend, pc, stack, cond, verdict>>

(***************************************************************************)
(* What htlc-address and htlc-spend take: all of it goes into the script.  *)
(***************************************************************************)
Params == [hash : Preimages, claimer : Keys, refund : Keys, csv : Delays]

Item(kind, value) == [kind |-> kind, value |-> value]

(***************************************************************************)
(* push_script_num: little-endian digits, with a zero digit appended when  *)
(* the top one would read as a sign.                                       *)
(***************************************************************************)
Digits[n \in Nat] ==
    IF n = 0 THEN <<>> ELSE <<n % ByteBase>> \o Digits[n \div ByteBase]

\* A delay has at most four digits, and one more for the sign.
ASSUME DelayWidth == \A d \in Delays : Len(Digits[d]) < MaxNumBytes

\* Mutant: the sign byte is forgotten.
PushUnsigned(n) == IF n <= SmallMax THEN <<n>> ELSE Digits[n]

PushScriptNum(n) ==
    IF n <= SmallMax THEN <<n>>
    ELSE IF Last(Digits[n]) >= ByteBase \div 2 THEN Append(Digits[n], 0)
    ELSE Digits[n]

(***************************************************************************)
(* How the node reads those bytes back: the top bit is the sign.           *)
(***************************************************************************)
Magnitude(bytes) ==
    LET from[i \in 1..(Len(bytes) + 1)] ==
            IF i > Len(bytes) THEN 0 ELSE bytes[i] + ByteBase * from[i + 1]
    IN  from[1]

ScriptNum(bytes) ==
    IF bytes = <<>> THEN 0
    ELSE IF Last(bytes) < ByteBase \div 2 THEN Magnitude(bytes)
    ELSE -Magnitude([bytes EXCEPT ![Len(bytes)] = @ - ByteBase \div 2])

Op(name) == [op |-> name, item |-> Item("none", "none")]
Push(item) == [op |-> "PUSH", item |-> item]

\* Mutant: the timeout is pushed and dropped, but never checked.
ScriptWithoutCsv(h) ==
    << Op("IF"), Op("SHA256"), Push(Item("hash", h.hash)), Op("EQUALVERIFY"),
       Push(Item("key", h.claimer)), Op("CHECKSIG"),
       Op("ELSE"), Push(Item("num", PushScriptNum(h.csv))), Op("DROP"),
       Push(Item("key", h.refund)), Op("CHECKSIG"), Op("ENDIF") >>

(***************************************************************************)
(* The witness script of the output.                                       *)
(***************************************************************************)
HtlcWitnessScript(h) ==
    << Op("IF"), Op("SHA256"), Push(Item("hash", h.hash)), Op("EQUALVERIFY"),
       Push(Item("key", h.claimer)), Op("CHECKSIG"),
       Op("ELSE"), Push(Item("num", PushScriptNum(h.csv))), Op("CSV"), Op("DROP"),
       Push(Item("key", h.refund)), Op("CHECKSIG"), Op("ENDIF") >>

\* Mutant: the preimage sits above the branch selector.
WitnessSelectorBuried(s) ==
    IF s.branch = "claim"
    THEN << Item("sig", s.signer), Item("num", <<1>>), Item("data", s.preimage) >>
    ELSE << Item("sig", s.signer), Item("num", <<>>) >>

(***************************************************************************)
(* The witness stack below the script itself.                              *)
(***************************************************************************)
HtlcWitnessStack(s) ==
    IF s.branch = "claim"
    THEN << Item("sig", s.signer), Item("data", s.preimage), Item("num", <<1>>) >>
    ELSE << Item("sig", s.signer), Item("num", <<>>) >>

(***************************************************************************)
(* The spends of an output: htlc-spend rebuilds the script from its own    *)
(* arguments, which may differ from the funded ones, and the library's     *)
(* builder signs with any key.  The sequence is the builder's or, since    *)
(* anybody may write a transaction by hand, one of Sequences.              *)
(***************************************************************************)
Spends(h) ==
    { [args |-> a, branch |-> b, preimage |-> p, signer |-> k,
       sequence |-> q, blocks |-> n, periods |-> t] :
         a \in {h} \cup { [h EXCEPT !.csv = d] : d \in Delays },
         b \in Branch, p \in Preimages, k \in Keys,
         q \in Sequences \cup {HtlcSequence("claim", h.csv),
                               HtlcSequence("refund", h.csv)},
         n \in Ages, t \in Ages }

Init ==
    /\ funded \in Params
    /\ funded.claimer # funded.refund
    /\ spend \in Spends(funded)
    /\ pc = 0
    /\ stack = <<>>
    /\ cond = "none"
    /\ verdict = "pending"
-----------------------------------------------------------------------------
Script == HtlcWitnessScript(spend.args)

Reject ==
    /\ verdict' = "reject"
    /\ UNCHANGED <<funded, spend, pc, stack, cond>>

Continue(newStack, newCond) ==
    /\ pc' = pc + 1
    /\ stack' = newStack
    /\ cond' = newCond
    /\ UNCHANGED <<funded, spend, verdict>>

Top == Last(stack)
Pop == Front(stack)

(***************************************************************************)
(* Before the script runs: the P2WSH program must be the hash of the       *)
(* presented script, and the input's relative lock must have expired.      *)
(***************************************************************************)
Start ==
    /\ verdict = "pending"
    /\ pc = 0
    /\ IF /\ spend.args = funded
          /\ SequenceSatisfied(spend.sequence, spend.blocks, spend.periods)
       THEN Continue(HtlcWitnessStack(spend), "none")
       ELSE Reject

(***************************************************************************)
(* The operation at pc is `name' and the selected branch executes it.      *)
(***************************************************************************)
Executes(name) ==
    /\ verdict = "pending"
    /\ pc \in 1..Len(Script)
    /\ Script[pc].op = name
    /\ cond # "skip"

OpIf ==
    /\ Executes("IF")
    /\ IF stack # <<>> /\ Top.kind = "num"
       THEN Continue(Pop, IF ScriptNum(Top.value) = 0 THEN "skip" ELSE "run")
       ELSE Reject

OpElse ==
    /\ verdict = "pending"
    /\ pc \in 1..Len(Script)
    /\ Script[pc].op = "ELSE"
    /\ Continue(stack, IF cond = "skip" THEN "run" ELSE "skip")

OpEndIf ==
    /\ verdict = "pending"
    /\ pc \in 1..Len(Script)
    /\ Script[pc].op = "ENDIF"
    /\ Continue(stack, "none")

Skip ==
    /\ verdict = "pending"
    /\ pc \in 1..Len(Script)
    /\ cond = "skip"
    /\ Script[pc].op \notin {"ELSE", "ENDIF"}
    /\ Continue(stack, cond)

OpPush ==
    /\ Executes("PUSH")
    /\ Continue(Append(stack, Script[pc].item), cond)

OpSha256 ==
    /\ Executes("SHA256")
    /\ IF stack # <<>>
       THEN Continue(Append(Pop, Item("hash", Top.value)), cond)
       ELSE Reject

OpEqualVerify ==
    /\ Executes("EQUALVERIFY")
    /\ IF Len(stack) >= 2 /\ Top = Last(Pop)
       THEN Continue(Front(Pop), cond)
       ELSE Reject

OpCsv ==
    /\ Executes("CSV")
    /\ IF /\ Len(Top.value) <= MaxNumBytes
          /\ CheckSequenceVerify(ScriptNum(Top.value), spend.sequence)
       THEN Continue(stack, cond)
       ELSE Reject

OpDrop ==
    /\ Executes("DROP")
    /\ Continue(Pop, cond)

(***************************************************************************)
(* OP_CHECKSIG on a wrong key fails the spend: a non-empty signature that  *)
(* does not verify is an error (NULLFAIL).                                 *)
(***************************************************************************)
OpCheckSig ==
    /\ Executes("CHECKSIG")
    /\ IF Len(stack) >= 2 /\ Last(Pop) = Item("sig", Top.value)
       THEN Continue(Append(Front(Pop), Item("num", <<1>>)), cond)
       ELSE Reject

(***************************************************************************)
(* After the last operation exactly one true item must remain.             *)
(***************************************************************************)
Finish ==
    /\ verdict = "pending"
    /\ pc = Len(Script) + 1
    /\ IF stack = << Item("num", <<1>>) >>
       THEN /\ verdict' = "accept"
            /\ UNCHANGED <<funded, spend, pc, stack, cond>>
       ELSE Reject

Next ==
    \/ Start \/ OpIf \/ OpElse \/ OpEndIf \/ Skip \/ OpPush \/ OpSha256
    \/ OpEqualVerify \/ OpCsv \/ OpDrop \/ OpCheckSig \/ Finish

Spec == Init /\ [][Next]_vars
-----------------------------------------------------------------------------
(***************************************************************************)
(* The contract, in the words of htlc.rs: "Claim: reveal the preimage,     *)
(* sign with the claimer key", "Refund: sign with the refund key" once the *)
(* relative lock the transaction declares is as long as the script's and   *)
(* has expired.                                                            *)
(***************************************************************************)
Contract ==
    /\ spend.args = funded
    /\ SequenceSatisfied(spend.sequence, spend.blocks, spend.periods)
    /\ \/ /\ spend.branch = "claim"
          /\ spend.preimage = funded.hash
          /\ spend.signer = funded.claimer
       \/ /\ spend.branch = "refund"
          /\ spend.signer = funded.refund
          /\ CheckSequenceVerify(funded.csv, spend.sequence)

(***************************************************************************)
(* The script and witness bytes htlc.rs emits mean the contract, no more   *)
(* and no less, for every delay a u32 can hold: no branch mix-up, no       *)
(* unbalanced stack, no number that reads back as another one.             *)
(***************************************************************************)
ScriptIsContract == verdict # "pending" => (verdict = "accept" <=> Contract)

(***************************************************************************)
(* Within the 16 bits of BIP-68 nobody, whatever sequence the transaction  *)
(* carries, takes the timeout branch before csv_delay blocks have passed.  *)
(***************************************************************************)
NoEarlyRefund ==
    verdict = "accept" /\ spend.branch = "refund" /\ funded.csv < ValueMod
        => spend.blocks >= funded.csv

(***************************************************************************)
(* Within the same bits, the refund the builder makes is accepted from     *)
(* csv_delay blocks on: the funder's coins are never stuck.                *)
(***************************************************************************)
RefundAvailable ==
    ~ /\ verdict = "reject"
      /\ spend.args = funded
      /\ spend.branch = "refund"
      /\ spend.signer = funded.refund
      /\ spend.sequence = HtlcSequence("refund", funded.csv)
      /\ funded.csv < ValueMod
      /\ spend.blocks >= funded.csv

(***************************************************************************)
(* htlc.rs documents the refund as "sign with the refund key after         *)
(* `csv_delay` blocks", of a u32 it does not restrict.                     *)
(***************************************************************************)
RefundWaitsCsvDelay ==
    verdict = "accept" /\ spend.branch = "refund" => spend.blocks >= funded.csv
=============================================================================
