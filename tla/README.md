# Specifications of the RGB-on-Liquid spike

TLA+ models of this repository's own logic, checked with TLC, and theorems
about them, checked with TLAPS. Paths below are relative to the repository;
`anchor/` abbreviates `crates/spike-rgb-anchor/src/`.

## 1. Inventory

The program is a set of small, mostly stateless commands; its state is on two
chains (Bitcoin and Liquid), in mempools and in JSON files handed from command
to command. What can go wrong is therefore rarely inside one command: it is in
the order and the timing of commands run by different parties.

| Part | State | Operations | Interacts with | Hard part | What makes it correct |
| --- | --- | --- | --- | --- | --- |
| HTLC (`anchor/swap/htlc.rs`) | a P2WSH output | script, witness stack, sequence, two spend builders | the nodes' script interpreters | widths of BIP-68, signs of script numbers, stack order | the bytes mean "preimage and claimer, or funder after T blocks" |
| HTLC commands (`htlc-address`, `htlc-spend-*` in `anchor/bin/rgb_anchor.rs`) | none | derive address, build a spend | HTLC, both chains | arguments repeated by hand between commands; optional anchor output | a spend fits the output it was meant for |
| Atomic swap (`scripts/demo_swap_roundtrip.sh`, `demo_htlc.sh`) | two HTLC outputs, two mempools, two heights, one secret | lock, claim, refund | two parties, two chains | timeouts, racing spends, a party that stops or cheats | nobody who follows the protocol loses both legs; it ends |
| Minimal hashlock swap (`anchor/swap.rs`, `swap/*_leg.rs`, `demo_swap.sh`) | two keyless outputs, two mempools | claim | two parties and whoever reads the mempools | no key, no timeout, fees that replace each other | nothing moves before the preimage is public; an exchange if all follow the script |
| Values of the spends (`htlc_spend`, `swap_claim_*`, `build_*_spend_*`) | none | arguments to outputs | both nodes | unchecked sums before checked ones, debug and release builds | a mined spend pays the fee and the anchor asked for |
| Single-mint check (`verify-backed-mint`) | a file, a request to the node, another one | verify, then backing | node RPC, replacement | the transaction may change between the requests; optional seal; two commitments in one transaction | one transaction per seal; with one taproot output one mint, covered by its deposit |
| RGB20 (`anchor/rgb20.rs`, `rgb20-transfer`) | allocations on seals | issue, transfer, chained transfer | anchors, HTLC claims | a seal spent without an anchor; wrong `--consume-opid`, `--prev-amount`, `--close-seal`; competing transfers | an asset never grows; with the script's arguments nothing is lost |
| Backed minting (`anchor/mint.rs`, `anchor/bfa.rs`, `bfa-mint`) | allowance on a gate seal, vault outputs | issue, mint | anchors, vault | chained allowances, rounding, overflow | supply within the allowance and backed |
| History audit (`bfa-audit`) | loop over a claimed history | one turn per claimed mint | node RPC, chain growing meanwhile | trusting a file; each check is local, the claim is global | success only for the true, backed history |
| Anchors (`anchor/mpc.rs`, `liquid_dbc.rs`, `patched_anchor.rs`, `seal.rs`, `verify`, `verify-patched`) | anchor JSON | build, commit, verify | node RPC, rgb-consensus | two verifiers with different output rules; multi-entry trees; witness transactions that are replaced | a seal carries one message of a contract; what is built verifies; what was accepted in a block stays |
| Simplicity covenants (`crates/spike-simplicity`) | covenant outputs | spend, mint, mint with burn, unstake, each with tamper modes | node, anybody | programs of several inputs look at the same outputs; a transaction is changed after its program was satisfied | gates stand for ever; each mint has a deposit; what is tampered with is refused |
| Tapret spike, RPC client, scripts' set-up, vendored rgb-consensus | - | pure functions, I/O, third-party code | - | - | not modelled, see section 7 |

## 2. Modules

| Module | Models | Code |
| --- | --- | --- |
| `RelativeLock` | sequences and BIP-68/BIP-112 | `htlc.rs` `htlc_sequence`; the node side is external |
| `HtlcScript` | one spend of one HTLC, run opcode by opcode | `htlc.rs` `push_script_num`, `htlc_witness_script`, `htlc_witness_stack`, `p2wsh_spk`; `rgb_anchor.rs` `htlc_address`, `htlc_spend`; the interpreter is external |
| `AtomicExchange` | abstract: two legs against one secret, no time | what the scripts promise |
| `AtomicSwap` | two HTLCs on two growing chains | `demo_swap_roundtrip.sh`, the refund of `demo_htlc.sh` |
| `AtomicSwapProofs` | theorems about `AtomicSwap` | |
| `BackedMint` | minting and the backing rule, as operators | `mint.rs`, `bfa.rs` |
| `MintChain` | the chain a contract is minted on: broadcasts, replacements, blocks; extends `BackedMint` | `mint.rs` `build_mint_with`, `seal.rs` `fetch_witness_tx`, `demo_backed_mint.sh` |
| `BfaAudit` | the audit loop against the chain; extends `MintChain` | `rgb_anchor.rs` `mint_flow`, `bfa_audit` |
| `SealClosing` | abstract: seals spent once, one message of a contract each | `seal.rs`, module comment |
| `AnchorVerify` | anchors built, witness transactions, and what receivers accept | `mpc.rs`, `liquid_dbc.rs`, `patched_anchor.rs`, `seal.rs`; `rgb_anchor.rs` `build`, `rgb20_transfer`, `verify`, `verify_patched`; the patched `Anchor::verify`; `demo_seal.sh`, `demo_rgb20.sh`, `assert_closes` |
| `AnchorVerifyProofs` | theorems about `AnchorVerify` | |
| `MintReceipt` | one mint checked by its receiver; extends `MintChain` | `rgb_anchor.rs` `ifa_mint`, `verify_backed_mint`, `verify` |
| `BackedMintProofs` | theorems about `BfaAudit` and `MintReceipt` | |
| `UnitLedger` | abstract: units on outpoints that move when those are closed | what `demo_swap_roundtrip.sh` says of an asset |
| `RgbTransfers` | issuance, transfers, chained transfers, and the spends that anchor them | `rgb20.rs`; `rgb_anchor.rs` `rgb20_transfer`; `demo_rgb20.sh`, `demo_swap_roundtrip.sh` |
| `RgbTransfersProofs` | theorems about `RgbTransfers` | |
| `HashlockSwap` | the minimal swap with mempools and replacement | `swap.rs`, `bitcoin_leg.rs`, `elements_leg.rs`, `swap_claim_btc`, `swap_claim_liquid`, `demo_swap.sh` |
| `HashlockSwapProofs` | theorems about `HashlockSwap` | |
| `SpendValues` | arguments, sums, outputs and the nodes' rules on amounts | `rgb_anchor.rs` `htlc_spend`, `swap_claim_*`; `htlc.rs` `build_htlc_spend_*`; the leg builders |
| `HtlcProofs` | theorems about `HtlcScript` and `SpendValues` | |
| `Covenants` | the four programs, the four spend commands, and everybody else's spends | `programs/*.simf`, `spike-simplicity/src/main.rs`, `demo_mint_gate.sh`, `demo_staking.sh` |
| `CovenantsProofs` | theorems about `Covenants` | |
| `FiniteSums` | lemmas: induction over naturals and finite sets, sums over finite sets | |
| `MC*` | instances for TLC | |

`HtlcScript` and `AtomicSwap` both extend `RelativeLock`, and `AtomicSwap`
relies on the former: that an output can be claimed or refunded exactly as
`AtomicSwap` lets it is what `ScriptIsContract` says. `AtomicSwap` instantiates
`AtomicExchange` with its own variables `diligent`, `leg` and `secret`, and
`AnchorVerify` instantiates `SealClosing` with `spent` the inputs of mined
transactions and `closed` the messages of the hops accepted in them. `HashlockSwap`
instantiates the same `AtomicExchange` as the HTLC swap, so that the two can be
compared, and `RgbTransfers` instantiates `UnitLedger` with the units that can
be proved to be on each outpoint.

### How state and actions correspond to the code

*HtlcScript.* `funded` is what `htlc-address` was given; `spend` is the
transaction, with the arguments `htlc-spend-*` was given (which may differ),
a signer, a sequence (the builder's or another one) and the age of the output
in the block that would hold it. `Start` is the P2WSH hash check and the
BIP-68 check; each `Op...` action executes one opcode. Signatures and hashes
are symbolic. The claimer and the refunder are taken for two different keys.

*AtomicSwap.* `leg` is the state of each HTLC output, `age` the blocks on top
of it, `mempool` the branches of the broadcast spends, `secret` whether the
preimage is public. The script mines its own blocks; here `EmptyBlock` and
`Confirm` let the chains grow on their own. `diligent` is the set of parties
that run the script and watch; the rest do whatever the outputs permit. The
scripts act at once; a diligent party may here let `React` blocks pass, and
`waited` counts them. `Lead` bounds how far Bitcoin's count may run ahead of
Liquid's, both measured from the HTLC's own block, while both legs are locked.
These two are assumptions about the environment, not code: without some bound
on both, no delays make a swap safe.

*BfaAudit.* `txs` are the transactions broadcast: the seals each spends, the
commitments of its taproot outputs and its vault outputs. `Mint` is the issuer:
any transition `bfa-mint` builds, anchored or not before, in any transaction
(`MintChain!Broadcast`).
`BeginAudit`, `AuditClaim`, `AuditError` and `EndAudit` are the command
`bfa-audit`; one `AuditClaim` is one turn of its loop, and its parameters are
whatever the file says. A contract is its terms, since its id commits to them;
an operation is named by its path from the genesis, since its id commits to
its predecessors. The allowance argument explored is what is left or the whole
supply, the right value and the default. The audit's node also answers from its
mempool: `Mint` broadcasts, `Confirm` mines, and a broadcast may replace what it
conflicts with. `HistoryIsTrue` therefore speaks of verdicts whose transactions
have been mined.

*AnchorVerify.* `files` are the anchor files that `build` and `rgb20-transfer`
print. A file names its witness transaction only once a script has patched the
txid in, so here a receiver chooses the transaction when it checks
(`VerifyAnchor`, `AcceptHop`). `Presented` adds the files the negative tests of
`demo_seal.sh` make. `txs` are all transactions ever broadcast: `Broadcast`
spends any seals that are not spent, pays any addresses that were printed, in
any order, and replaces what it conflicts with; `Mine` is `generatetoaddress`.
`VerifyAnchor` is `rgb-anchor verify`; `AcceptHop` is `assert_closes` followed
by `verify-patched`, all that the Bitcoin hops of the round trip run. Neither
command asks for confirmations: `getrawtransaction` also finds what waits in
the mempool (`Fetched`), so an accepted transaction may still be replaced. The
scripts mine first; nothing here relies on it. `verified` and `hops` remember
what was accepted, whatever became of it. An MPC root is the map it commits to, so that a later message of a
contract replaces an earlier one (`MultiSource.messages`), and an inclusion
proof is the root recomputed with the entry's message in its place.

*MintReceipt.* `Verify` and `CheckBacking` are the two requests of
`verify-backed-mint`; between them the transaction may be mined or replaced.
A receipt is the file, which may name any mint, any seal or none, together with
`--required`. `received` remembers what was printed as verified. `ReceiptMint`
and `ReceiptConfirm` are the chain, shared with `BfaAudit` as `MintChain`; the
specification is `ReceiptSpec`.

*RgbTransfers.* `ops` holds the operations built, named by content as their ids
are, `anchors` what the command printed, and `closing` which operation the
spend of a coin carries. Every command issues its contract anew, so `Transfer`
does, too. The first assignment of a transition is the recipient's, the only one
a chained transfer can consume (`rgb_anchor.rs:881`). `Valid` is what an RGB
client would accept; no command of the repository validates a history, so it is
part of the environment. `scripted`, chosen at the start, tells the round-trip
script (`ScriptNext`: fresh locked seals, the arguments that say what is
consumed) from anybody with any arguments (`FreeNext`). `WitnessTx`,
`HtlcSpend` and `Payment` are the transactions: wallet funding adds any coins
that are not locked. `Named` bounds the coins that free calls close on purpose
to those that some argument names. `Valid` and `Held` are a recursive function
and sums over sets, so that the proofs can use them.

*HashlockSwap.* `greedy` parties, chosen at the start, spend whatever they can;
the others claim the leg that the script tells them to. `Claim` is a spend that
is built from its arguments, accepted and broadcast; a better fee replaces it;
`Confirm` is a block. The preimage is public once any spend is broadcast.

*SpendValues.* A state is one call: the arguments, the build, what is printed
and what a node does with it. `Wrap` is the u64 sum of a release build; a debug
build panics instead. The specification is `ValueSpec`. `swap-claim-liquid` takes an output value and a fee and
subtracts nothing.

*Covenants.* A program is a predicate on the transaction that spends under it,
with outputs by index as in the sources (counted from 1 here). `coin` is the
output that each seal is, `kept` whether every closure so far has committed to
the seal's transition, `built` the raw transactions that `simp` has printed.
`Spend`, `MintSpend`, `MintSpendBurn` and `UnstakeSpend` are the commands; a
tampered transaction has been changed after its program was satisfied, as in
`main.rs:663`, and is signed only then. `Send` broadcasts any of them at any
later time, and `AnySpend` spends any set of coins under covenants with any
outputs explored: no program asks for a signature. The amounts `simp` computes
with are the coins' own: the unchecked u64 sums under its `checked_sub`
(`main.rs:588`, `:737`, `:877`) do not wrap for them, and an amount argument
that misstates a coin is not among the calls modelled. `NodeAccepts` runs every
program again, beside balance, finality and the rule against empty outputs.

## 3. Runs

| Run | Instance | Shows |
| --- | --- | --- |
| `htlc_script` | a u32 of six bits (three count, one ignored, type, disable), a byte of three bits; delays 2, 3, 4, 7, 11, 20, 37 | `ScriptIsContract`, `NoEarlyRefund`, `RefundAvailable` |
| `atomic_swap` | delays 11 (Bitcoin) and 4 (Liquid), `React = Lead = 2` | `SwapInv`, `ResponderSafe`, `InitiatorSafe`, `FundsReturn`, `SwapCompletes`, `ExchangeSpec` |
| `atomic_swap_equal_delays` | delays 5 and 5 as in the script, `React = Lead = 0` | *violated:* `ResponderSafe`, finding 1 |
| `bfa_audit` | two contracts that differ in their rate, supply 2, two transactions, histories of up to two mints, a u64 of three bits | `TypeOK`, `HistoryIsTrue`, `SupplyBacked`, `FailsForCause` |
| `bfa_audit_two_anchors` | one transaction with two taproot outputs | *violated:* `SupplyBacked`, finding 2 |
| `anchor_verify` | two labels, one asset with two transfers, two seals, two files, two transactions of up to two outputs, two acceptances | `TypeOK`, `OneMessagePerSeal`, `VerifiersAgree`, `EveryEntryCarried`, `BuiltVerifies`, `ClosesSeals` |
| `mint_receipt` | one contract, two seals, two transactions with up to two taproot outputs, first mints of one unit, two receipts | `ReceiptTypeOK`, `OneMintPerSeal`, `MintsCovered` |
| `rgb_transfers` | script: three locked coins and a spendable one, an HTLC output, up to five operations; free calls: three operations, supply 2, sends 1 and 2, stated amounts 1 or none, a made-up outpoint | `TypeOK`, `SupplyNeverGrows`, `NothingLost`, `HopsMove`, `LedgerKept` |
| `hashlock_swap` | any of Alice, Bob and an outsider greedy; outputs of 5, arguments 0 to 5 | `TypeOK`, `RevealedByAlice`, `RevealSettles`, `ExchangeSpec`, `BothClaim` |
| `spend_values` | a u64 of twelve values, money up to 5; every call, every coin, both builds and both chains | `FeeAsAsked`, `GoodCallsSucceed` |
| `covenants` | a gate of each kind, a stake and a swapped asset; tranche 2, maturity 1, height 2, three transactions, one built | `TypeOK`, `GateStands`, `ClosedByTheRules`, `OwnDeposit`, `TamperedRefused`, `BuiltIsAccepted` |
| `covenants_principal` | a stake of two, a principal argument of one | *violated:* `PrincipalReturned`, finding 3 |

**Bounds.** *htlc_script:* delays lie below, at and above each threshold: a
small-integer opcode (2), one byte without and with the sign bit (3, 4), the
largest 16-bit-like value (7), an ignored bit (11), the type bit (20), the
disable bit (37); ages lie around 3, 4 and 7. *atomic_swap:* 11 and 4 are the
smallest delays of the order the theorems assume, so that a slip of one block
in a guard shows; `MaxAge = 15` lets both locks expire and every diligent party
use up its reaction time; sequence widths are scaled to 32, 64 and 128, which
no delay here reaches. *bfa_audit:* a supply of 2 can be exhausted by one mint
or by two, the rate 3/2 rounds for one unit, deposits of 5 and 5 saturate a
three-bit u64, a gate may roll on to itself or to another seal, and the two
contracts make a commitment under other terms available; at the other rate, 7,
the requirement for two units exceeds a u64. Transactions have one commitment:
finding 2 is the case of two. *anchor_verify:* two
of everything is what a conflict takes: two anchors over one seal, two
transactions that compete for it, two taproot outputs of which only one is the
slot, two verdicts to compare; the lists of labels have two contracts and one
contract twice. The seals, and the two transfers, are symmetric.
*mint_receipt:* two receivers and two transactions are what a conflict over a
gate takes, two taproot outputs let one of them carry the mints of both, and a
three-bit u64 lets deposits saturate. *rgb_transfers:* three
locked coins let an asset make three hops, as the script's do, or two with
change, and two competing transfers of what is on the HTLC; three free
operations are two contracts with a transfer that mixes them up, or a chain of
two with a wrong amount. *hashlock_swap:* outputs of 5 leave four fees, so a
spend can be replaced several times. *spend_values:* sums reach twice the width
of a word that is more than twice the money, so that sums of two and of three
terms wrap and the money range is exceeded with and without wrapping.
*covenants:* three transactions fund a gate, spend it and spend what it left,
or fund two and spend them together; heights lie below, at and above maturity;
`MCLayouts` has for each output that some program looks at a right one and
wrong ones: a short tranche, a blinded one, a wrong script, an anchor that burns.

Each property of a passing run has a mutant in `PROJECT.json`: a definition
marked *Mutant* in the module, put in place of the one after it, with which the
property fails.

Deadlock is not checked: a spend that has its verdict, a swap whose legs are
both spent, a finished audit with a full chain, and receivers with nothing more
to check have nothing left to do; so do full chains and mined or refused calls.

**Fairness.** `AtomicSwap!FairSpec` assumes that each chain makes progress
(empty blocks up to the bound, and the confirmation of a broadcast spend) and
that a diligent party sends the spend it owes: the script's lines for the
second claim and the refund follow unconditionally. Locking the Liquid leg and
claiming it are nobody's duty: the initiator may always prefer its refund.
`HashlockSwap!FairSpec` assumes that the two claims of `demo_swap.sh` are sent
as long as they can be, which the script does unconditionally one after the
other, and that a block takes what is in a mempool. Neither needs strong
fairness: a claim stays possible until a better one is there, and fees cannot
grow for ever.

## 4. Findings

Three disagreements between the code and what the repository says of it are
runs that end in a violation:

1. Equal delays on both legs (`demo_swap_roundtrip.sh:33`) leave the initiator
   a block in which it can reveal the preimage *and* refund. The atomicity
   claimed at the end of the script needs the order of section 5. (The root
   README leaves timeout selection to a future coordinator.)
2. `bfa-audit` counts one deposit once per mint: two mints anchored in one
   transaction are both reported as backed.
3. The staking covenant fixes where output 1 goes and not what it carries
   (`staking_covenant.simf:40`); `:16` says "the funds are the staker's".

Others were met while modelling. Their statements are defined at the end of
each module, or in its `MC` module. Where a configuration `MC...cfg` of that name is
listed, `tlc -config <file> <module>` finds the statement violated; where a run
is listed, the run's own configuration does, with the statement as its only
INVARIANT.

| Where | Statement | What the code does, and what it says |
| --- | --- | --- |
| run `htlc_script` | `RefundWaitsCsvDelay` | From 2^16 on a `csv_delay` is another lock than the documented one, or none (`htlc.rs:153` against `:40`). |
| `MCBfaAuditOtherAsset` | `FailsForCause` | `verify_backing` fails on any explicit vault output in another asset; its test (`mint.rs:376`) says that such an output "does not count". |
| run `bfa_audit` | `DivergenceShows` | A history that stops early passes; `rgb_anchor.rs:1303`: "any divergence from what was actually anchored on chain shows up". |
| run `bfa_audit` | `HistoryOnChain` | Transactions that wait for a block count (`rgb_anchor.rs:1386`), and may be replaced; `:1323`: "against the chain". |
| run `mint_receipt` | `OneMintPerGate` | The seal compared is the one in the file (`rgb_anchor.rs:1565`), not the gate of the contract: two mints from one gate each close a seal of their own. |
| run `anchor_verify` | `AcceptedStays` | Transactions that wait for a block are accepted (`seal.rs:83`), and may be replaced; `seal.rs:14` says of a verified one that "the seal was closed". |
| `MCMintReceiptNoSeal` | `GateClosed` | A file without a seal skips the closure check (`rgb_anchor.rs:1588`); `:1471`: "the standard anchor + seal-closure checks". |
| `MCAnchorVerifyFirstOutput` | `CommitmentFirst` | `verify` accepts a commitment in any output (`seal.rs:145`); `demo_patched.sh:38` says it must be the first P2TR output. With any output allowed one transaction closes a seal with two transfers of one asset (the mutant `VerifyAnyOutput`). |
| `MCAnchorVerifyAnyEntry` | `AnyEntryVerifies` | `verify-patched --entry` rebuilds a tree of one entry (`rgb_anchor.rs:991`): no anchor of several contracts passes. |
| `MCRgbTransfersVerified` | `VerifiedIsMoved` | A chained transfer without `--close-seal` anchors on the seal of the genesis (`rgb_anchor.rs:854`): it verifies and moves nothing. |
| `MCRgbTransfersPlaceholder` | `PlaceholderWillDo` | An operation id commits to its assignments (`rgb20.rs:209`); `demo_rgb20.sh:48` says the bundle id does not depend on the recipient's seal. The chained mint of `demo_mint_gate.sh:158` uses the same technique. |
| `MCRgbTransfersChange` | `ChangeShown` | The change shown is supply - send (`rgb_anchor.rs:905`) where the transition has what it consumes - send; a debug build panics when it is negative, a release build shows a wrapped number. |
| `MCHashlockSwapAlice`, `MCHashlockSwapWatched` | `NeitherTakesBoth`, `BobCanAlwaysClaim` | The minimal script binds no key (`swap.rs:32`); `demo_swap.sh:20` says both. |
| run `spend_values` | `RoomForFee` | `fee_sat + anchor_total` (`rgb_anchor.rs:716`) wraps in a release build, and a transaction that spends more than its input is printed; nodes refuse it, which is why `FeeAsAsked` holds. |
| `MCCovenantsTwoGates` | `OwnDeposit` | Two contracts behind one gate program mint against one deposit (`mint_gate_covenant.simf:45`); `docs/usdt-options.html:174`: "makes the chain reject unbacked mints". |
| `MCCovenantsGateAsset` | `BuiltIsAccepted` | The programs fix the script of the output that re-creates a gate (`mint_gate_covenant.simf:57`) and neither its asset nor its amount: anybody may re-create the gate in another asset, and `mint-spend`, which pays it in L-BTC (`main.rs:621`), no longer balances. `mint_gate_covenant.simf:19` promises "the same rules for the next minter"; the program's rules are, what `simp` can build is not. |
| `MCCovenantsZeroChange` | `BuiltIsAccepted` | A fee input that just covers recipient and fee leaves a change output of zero (`main.rs:587`), which the node refuses. |
| `MCCovenantsReturn` | `ReturnAnchored` | Any 32 bytes pass for the anchor of an unstake (`staking_covenant.simf:35`); the root README says it cannot be spent without the return transition. |
| `MCCovenantsNegatives` | `OnlyCovenantObjects` | The transaction of the drop-anchor test also breaks a rule of the node; `main.rs:665` says that only the covenant can reject it. |

## 5. Theorems

All hold for every value of the constants that the named assumptions permit.

`AtomicSwapProofs` assumes `LockWidths` and `BlockDelays` (positive widths;
delays that carry neither flag) and, for safety, `TimelockOrder`:

    Delay("liq") > React + 1
    Delay("btc") > Delay("liq") + Lead + 2 * React

* `TypeCorrect`: `Spec => []TypeOK`, without `TimelockOrder`.
* `SwapInvariant`: `Spec => []SwapInv`. Neither safety property is inductive:
  whether a refund can rob a party depends on how old each leg is when the
  preimage comes out. `SwapInv` says how old: while a diligent responder has
  the Liquid leg at stake, that leg is younger than its delay plus the blocks
  the responder has let pass (`LiqRefundedInTime`), and Bitcoin is at most
  `Lead` ahead; from the reveal on the Bitcoin leg ages by at most `React`
  blocks more (`BtcClaimedInTime`), which keeps it short of its own delay.
  The initiator reveals before the Liquid refund is valid
  (`RevealUncontested`).
* `ResponderIsSafe`, `InitiatorIsSafe`: from `SwapInv`, for any behaviour of
  the other party.
* `SwapIsExchange`: `Spec => ExchangeSpec`. Broadcasting the Liquid claim maps
  to `Reveal`, a confirmation to `Claim` or `Refund`, blocks and the other
  broadcasts to stutters.

`HtlcProofs`, the script, assumes `LockWidths`, `ScriptWidths` (an even base of
script numbers, small integers below its half) and `DelayWidth` (a delay fits
into the interpreter's numbers with a byte to spare: four bytes and five, in the
program). Hashes, keys, delays, sequences and ages are any.

* `ScriptMeansContract`: `Spec => []ScriptIsContract`. The invariant `ScriptInv`
  is a symbolic execution: it lists, for each position of the script, the stack
  and the branch flag that a spend of either branch has when it gets there
  (`ClaimRun`, `RefundRun`), and what must have been true for it to get there.
  The verdict follows.
* The arithmetic under it: the digits of a number are the only function that
  counts as `Digits` does (`DigitsUnique`, `DigitsExist`, which make the
  recursive definition usable), the bytes pushed read back as the delay and not
  as its negative (`NumberReadBack`), and a delay below `ValueMod` has neither
  flag (`NoFlags`).
* `RefundsWait` (`NoEarlyRefund`) and `RefundsAreServed` (`RefundAvailable`),
  both for delays within the 16 bits of BIP-68.

`HtlcProofs`, the amounts, assumes `AmountWidths`: money fits into a u64.

* `ValuesTypeCorrect`, `FeesAreAsAsked`, `GoodCallsAreServed`, for every width,
  and for all sums of two and three amounts, wrapped or not.

`BackedMintProofs` assumes `TermsParse` and `ChainBounds` (terms that parse, a
u64 of any width, positive mint amounts) and, for two theorems about the audit,
`OneAnchor`: a witness transaction has at most one taproot output. Finding 2 is
what happens without it.

* `AuditTypeCorrect`: `Spec => []TypeOK`; in particular the allowance never
  leaves `0..max`, so that the loop's `checked_sub` cannot fail.
* `AuditFindsTruth` (with `OneAnchor`): `Spec => []HistoryIsTrue`, for every
  supply, rate, set of seals, number of transactions and length of history. The
  inductive invariant is `AuditInv`: types, one anchor per transaction
  (`AnchorsSingle`), the witness of each mint read among the transactions
  broadcast (`WitnessesKnown`), and what the loop has established so far: the
  auditor's allowance and gate are what the path leaves (`PathFollowed`),
  each mint is anchored where the file says (`PathCarried`) and its transaction
  pays for it (`PathPaid`), and a failure has its cause among the mints read
  (`FailureSeen`). The clauses are conditional: after an exhausting mint the
  loop keeps the gate of the file, and after a failure it goes on.
* `AuditedSupplyIsBacked` (with `OneAnchor`): `Spec => []SupplyBacked`. Each
  mint's own check is local; that deposits add up to the supply needs that
  they are distinct. The witnesses are, because an anchor commits to the whole
  path before its mint and a transaction has one anchor. Then the sum of what
  is minted and the sum of what is deposited are compared over the same set of
  mints. `LockedIsCapped` says that the saturating sum of the code is the exact
  one cut at the largest u64, so that saturation can only make a check
  stricter; `CeilingIsLeast` is the rounding.
* `AuditsFailForCause`: `FailsForCause`, where no vault output is in another
  asset (`NoOtherAsset`); `MCBfaAuditOtherAsset` shows that this is needed.
* `SealsNameOneMint`: `ReceiptSpec => []OneMintPerSeal`, for any contracts,
  seals, receivers, outputs and replacements. `ReceiptInv` adds that what the
  node knows at one time spends no seal twice (`SpentOnce`) and that what
  `verify` has found good stays good (`Grounded`), so two settled receipts on
  one seal are about one transaction. `verify` accepts a commitment in any of
  its outputs; that they are about one mint is therefore stated of transactions
  with one taproot output (`Sole`), while others occur beside them.
* `ReceiversAreCovered`: `MintsCovered`: the deposits of distinct transactions
  cover all that was received in transactions with one taproot output, each
  counted once.
* `ReceiptsTypeCorrect`: `ReceiptTypeOK`, from `ReceiptInv`.

`RgbTransfersProofs` assumes `TransferArguments` (types; wallet coins are not
HTLC outputs; finitely many outpoints).

* `TransfersTypeCorrect`: `Spec => []TypeOK`.
* `SupplyIsFixed`: `SupplyNeverGrows`, whatever is called with whatever
  arguments. `OpsInv` adds that an operation assigns what it claims
  (`Balanced`), is its content, and names a genesis (`Identified`). A seal is
  closed by one operation, so the valid operations of a contract form a chain,
  and a sum over its allocations that are not consumed is the supply at each
  link (`ChainConserves`, `ContractTotal`).
* `ScriptConserves` and `ScriptHopsMove`: `NothingLost` and `HopsMove`, along
  the round trip. `ScriptInv` adds that stated amounts are right
  (`ClaimsRight`), seals are not shared (`SealsApart`), a kept seal is closed
  only by a valid transfer of what is on it (`ClosedByMoves`), and an anchor
  names that seal (`AnchorsRight`). The free calls break each of these.
* `TransfersKeepLedger`: `Spec => LedgerKept`, the refinement of `UnitLedger`. A
  spend maps to the ledger's closing of the coins it takes, and may make more
  than one operation valid; a call maps to an issue or a stutter.

`FiniteSums` assumes nothing. The provers have no induction over data, since a
predicate cannot be passed to a theorem; a *set* can. `NatInduct` and
`SetInduct` are the two principles with a set in the predicate's place, from
the least element of a set of naturals (`LeastExists`). The sums of the
community modules follow: their recursion has one solution (`SumsUnique`,
`PartialSumsExist`), hence a sum over a set with one element more, over a union,
of a sum, over a partition, under an injection, and against a rate.

`AnchorVerifyProofs` assumes `AnchorAssumptions` (no empty label list; wallet
outputs are not tapret outputs) and covers every set of contracts, bundles,
keys and seals, files and transactions of any length.

* `AnchorTypeCorrect`: `Spec => []TypeOK`.
* `SealsCarryOneMessage`: `Spec => []OneMessagePerSeal`. The inductive
  invariant `AnchorInv` adds that transactions which have not been replaced
  spend disjoint seals (`SealsSpentOnce`, which replacement restores at each
  broadcast), that each hop's transaction spends its seal and has the entry in
  its commitment slot (`HopHolds`), and that an accepted file verifies against
  its transaction (`VerifiedHolds`). Two standing hops on one seal are then
  hops on one transaction, with one slot, whose one-entry tree determines the
  message.
* `VerifiersReadOneMessage`: `Spec => []VerifiersAgree`. With one taproot output
  the output `verify` has found is the slot of `verify-patched`; the roots are
  equal, so the file's tree has the hop's one entry.
* `EntriesAreCarried`, `BuiltAnchorsVerify`: the other two invariants of
  `anchor_verify`. The last one needs that built entries of one contract agree
  (`Agree`), and lemmas on the last entry of a contract and the first taproot
  output of a list, both from the least element of a set of naturals.
* `HopsCloseSeals`: `Spec => ClosesSeals`. Mined transactions stay
  (`MinedStay`), so the seals spent and the messages learned in them only grow,
  and what is learned is one message of a contract for each seal (`ClosedWell`).

`CovenantsProofs` (assumes `CovenantAssumptions`: types of the parameters only):

* `CovenantTypeCorrect`, `GatesStandForEver`, `SealsClosedByTheRules`,
  `TamperedAlwaysRefused`: four invariants of `covenants`, for any seals,
  programs, payloads, amounts, layouts of other spends and lengths of the
  chain.
* `EveryMintBacked`: `OwnDeposit`, for gates that have a program each; that the
  assumption is needed is what `MCCovenantsTwoGates` shows.
* `BuiltSpendsAreServed`: `BuiltIsAccepted`, where the arguments leave some change
  (`LeavesChange`; `MCCovenantsZeroChange` shows that this is needed) and other
  spends re-create gates in L-BTC (`GatesInLbtc`; `MCCovenantsGateAsset` shows
  that this is needed). Between printing and sending, others may spend whatever
  they like: what the node asks for depends on the coin spent alone, and that
  does not change. The balance is a sum over outputs, from `FiniteSums`.
* The inductive invariant `CovenantInv` adds which output each seal is
  (`CoinsKnown`), that nothing is spent that was not made (`SpentMade`), that
  whatever closed a seal satisfied its program (`ClosedAccepted`), that coins
  under covenants keep their asset and are worth something (`CoinsSound`), and
  that a tampered transaction does not satisfy the program of the coin it
  spends, while any other does, balances and has no empty output
  (`BuiltRight`).

`HashlockSwapProofs` (assumes `SwapParties`):

* `HashlockTypeCorrect`; `NothingBeforeTheReveal`: `Spec => RevealedByAlice`,
  whoever is greedy, from `Revealed`.
* `FollowedSwapIsExchange`: `Spec => ExchangeSpec`. A swap in which somebody is
  greedy maps to an exchange that does not start. For the others the invariant
  is `Rightful`: every spend is its party's own, and the preimage is not out
  before both legs are there.

## 6. Only model-checked

`FundsReturn`, `SwapCompletes`, `RevealSettles` and `BothClaim`: liveness is
beyond the prover. The violated statements of section 4: they are false. The
remaining invariants and safety properties of the runs are theorems. The type
invariants of `AtomicSwap` and `SpendValues` are proved and not among the runs'
properties.

## 7. Not modelled, and why

* Signature hashes, elliptic-curve tweaks, bech32, strict encoding: taken for
  injective and deterministic. A signature matters in `SpendValues` for the
  input value it commits to.
* Reorganisations: nothing in the repository reacts to one.
* The positions and hashes of the MPC tree: a root is the map it commits to.
* Mints of zero units, and `--allowance` values other than those in `BfaAudit`
  (any stated allowance is explored in `MintReceipt`).
* Who keeps the vault, and what becomes of deposits: no code.
* Dust limits and other relay policy; compilation of the Simplicity programs and
  their addresses; that an unstake is sent at all after maturity.
* Third-party code under `vendor/`, except the patched verification
  (`FirstP2tr`); containers and wallet set-up; the tapret spike's pure functions;
  the RPC client beyond "a call may fail" (`AuditError`).

## 8. Plan

Done, in this order: `RelativeLock`, `HtlcScript`, `AtomicSwap` with
`AtomicExchange`, `BackedMint`, `MintChain`, `BfaAudit`, `AnchorVerify` with
`SealClosing`, `Covenants`, `RgbTransfers` with `UnitLedger`, `HashlockSwap`,
`SpendValues`, `MintReceipt`, `FiniteSums`, and the proofs named above. Next:

1. `MpcBlock`: positions, cofactor and concealment of the tree, against the
   map `AnchorVerify` takes it for.
2. One composed model of the round trip: the legs of `AtomicSwap` carrying the
   coins of `RgbTransfers`.
