----------------------------- MODULE Covenants ------------------------------
(***************************************************************************)
(* The four Simplicity programs of crates/spike-simplicity/programs, the   *)
(* commands of `simp' that build spends of the coins they lock, and the    *)
(* node that runs the programs once more on whatever is sent to it.        *)
(*                                                                         *)
(* A coin under a covenant is an RGB seal: an inflation allowance (gates), *)
(* a staked position or a swapped asset.  No program asks for a signature, *)
(* so besides the transactions `simp' builds, AnySpend has everybody send  *)
(* whatever the programs let through.                                      *)
(*                                                                         *)
(* Outputs are counted from 1 here, from 0 in the code.  The opret payload *)
(* is the set of seals whose transition its MPC tree carries.              *)
(***************************************************************************)
EXTENDS Integers, Sequences, FiniteSets, Functions

CONSTANTS Seals,      \* the RGB seals put under a covenant
          Program,    \* the covenant of each
          Worth,      \* the sats each carries
          Tranche,    \* param::TRANCHE
          Maturity,   \* param::MATURITY_HEIGHT
          FeeInputs,  \* the --fee-input-sat arguments explored
          Principals, \* the --principal-sat arguments explored
          Payloads,   \* the --anchor-payload arguments explored
          Layouts,    \* the outputs of other spends explored
          MaxTxs,     \* bound: transactions in the chain
          MaxBuilt,   \* bound: transactions built
          MaxHeight   \* bound: height of the chain

Programs == {"rgb_anchor", "mint_gate", "mint_gate_burn", "staking"}
Gates == { s \in Seals : Program[s] \in {"mint_gate", "mint_gate_burn"} }

Opret(payload) == <<"opret", payload>>
Covenant(program) == <<"covenant", program>>
Key(owner) == <<"key", owner>>
Vault == Key("vault")
Staker == Key("staker")
Funding == Key("funding")
Recipient == Key("recipient")
FeeScript == <<"fee", "">>

Output(asset, amount, script) ==
    [asset |-> asset, amount |-> amount, script |-> script, explicit |-> TRUE]

Script ==
    { Opret(payload) : payload \in SUBSET Seals } \cup { Covenant(p) : p \in Programs }
        \cup {Vault, Staker, Funding, Recipient, FeeScript}

TxOut == [asset : {"lbtc", "usdt"}, amount : Nat, script : Script, explicit : BOOLEAN]

ASSUME CovenantAssumptions ==
    /\ Program \in [Seals -> Programs]
    /\ Worth \in [Seals -> Nat \ {0}]
    /\ Tranche \in Nat \ {0}
    /\ Maturity \in Nat /\ MaxTxs \in Nat /\ MaxBuilt \in Nat /\ MaxHeight \in Nat
    /\ FeeInputs \subseteq Nat /\ Principals \subseteq Nat
    /\ Payloads \subseteq SUBSET Seals
    /\ Layouts \subseteq Seq(TxOut)

VARIABLES height,  \* of the chain's tip
          chain,   \* the transactions accepted, in order
          coin,    \* the coin each seal is, or what it was funded with next
          kept,    \* the RGB state of the seal has been carried over so far
          built    \* the raw transactions `simp' has printed

vars == <<height, chain, coin, kept, built>>

NoCoin == <<0, 0>>

Tx == [ins : SUBSET (Nat \X Nat), fund : [{"lbtc", "usdt"} -> Nat], outs : Seq(TxOut),
       lock : Nat, payload : SUBSET Seals, preimage : BOOLEAN]

\* The --tamper arguments.
Tampers == {"none", "drop-anchor", "no-recreate", "wrong-amount", "wrong-dest"}

TypeOK ==
    /\ height \in Nat
    /\ chain \in Seq([tx : Tx, height : Nat, closes : SUBSET Seals])
    /\ coin \in [Seals -> Nat \X Nat]
    /\ kept \in [Seals -> BOOLEAN]
    /\ built \subseteq [seal : Seals, tx : Tx, tamper : Tampers]

Init ==
    /\ height = 0
    /\ chain = <<>>
    /\ coin = [s \in Seals |-> NoCoin]
    /\ kept = [s \in Seals |-> TRUE]
    /\ built = {}

\* A coin is an output of a transaction of the chain.
IsOutput(op) == op[1] \in DOMAIN chain /\ op[2] \in DOMAIN chain[op[1]].tx.outs
At(op) == chain[op[1]].tx.outs[op[2]]
Spent == UNION { chain[i].tx.ins : i \in DOMAIN chain }
Unspent(op) == IsOutput(op) /\ op \notin Spent
-----------------------------------------------------------------------------
(***************************************************************************)
(* The programs.  A transaction carries the witness values of all of them. *)
(***************************************************************************)
AnchorShaped(tx) == Len(tx.outs) >= 1 /\ tx.outs[1].script = Opret(tx.payload)

\* Asset and amount are explicit, and the backing is exactly one tranche.
BacksTranche(out) == out.explicit /\ out.asset = "usdt" /\ out.amount = Tranche

RgbAnchorCovenant(tx) == tx.preimage /\ AnchorShaped(tx)

\* Mutant: the gate is not re-created.
MintGateOnce(tx) ==
    /\ AnchorShaped(tx)
    /\ Len(tx.outs) >= 2
    /\ tx.outs[2].script = Vault
    /\ BacksTranche(tx.outs[2])

\* Mutant: the amount is not compared.
MintGateAnyAmount(tx) ==
    /\ AnchorShaped(tx)
    /\ Len(tx.outs) >= 4
    /\ tx.outs[2].script = Vault
    /\ tx.outs[2].explicit /\ tx.outs[2].asset = "usdt"
    /\ tx.outs[4].script = Covenant("mint_gate")

MintGateCovenant(tx) ==
    /\ AnchorShaped(tx)
    /\ Len(tx.outs) >= 4
    /\ tx.outs[2].script = Vault
    /\ BacksTranche(tx.outs[2])
    /\ tx.outs[4].script = Covenant("mint_gate")

\* Mutant: the burn is not looked at.
MintGateBurnsAnything(tx) ==
    /\ AnchorShaped(tx)
    /\ Len(tx.outs) >= 3
    /\ tx.outs[3].script = Covenant("mint_gate_burn")

MintGateBurnCovenant(tx) ==
    /\ AnchorShaped(tx)
    /\ BacksTranche(tx.outs[1])
    /\ Len(tx.outs) >= 3
    /\ tx.outs[3].script = Covenant("mint_gate_burn")

\* Mutant: the lock height is not checked.
StakingWithoutLock(tx) ==
    /\ AnchorShaped(tx)
    /\ Len(tx.outs) >= 2
    /\ tx.outs[2].script = Staker

\* jet::check_lock_height compares with the transaction's lock time.
StakingCovenant(tx) ==
    /\ tx.lock >= Maturity
    /\ AnchorShaped(tx)
    /\ Len(tx.outs) >= 2
    /\ tx.outs[2].script = Staker

Accepts(program, tx) ==
    /\ program = "rgb_anchor" => RgbAnchorCovenant(tx)
    /\ program = "mint_gate" => MintGateCovenant(tx)
    /\ program = "mint_gate_burn" => MintGateBurnCovenant(tx)
    /\ program = "staking" => StakingCovenant(tx)
-----------------------------------------------------------------------------
(***************************************************************************)
(* The node: its own rules, and the programs of the coins spent.  The keys *)
(* that pay sign the final transaction, so their inputs are just amounts.  *)
(***************************************************************************)
Share(out, asset) == IF out.asset = asset THEN out.amount ELSE 0

AmountOf(outs, asset) == SumFunction([k \in DOMAIN outs |-> Share(outs[k], asset)])

CoinsOf(ins, asset) == SumFunction([op \in ins |-> Share(At(op), asset)])

Balanced(tx) ==
    \A asset \in {"lbtc", "usdt"} :
        tx.fund[asset] + CoinsOf(tx.ins, asset) = AmountOf(tx.outs, asset)

\* Only an unspendable output may carry nothing.
IsOpret(script) == script[1] = "opret"
NoEmptyOutput(tx) == \A k \in DOMAIN tx.outs : tx.outs[k].amount = 0 => IsOpret(tx.outs[k].script)

\* The lock time is below the height of the next block.
Final(tx) == tx.lock <= height

WellFormed(tx) ==
    /\ \A op \in tx.ins : Unspent(op)
    /\ Final(tx)
    /\ Balanced(tx)
    /\ NoEmptyOutput(tx)

CovenantsHold(tx) ==
    \A op \in tx.ins : \A p \in Programs : At(op).script = Covenant(p) => Accepts(p, tx)

NodeAccepts(tx) == WellFormed(tx) /\ CovenantsHold(tx)

\* The output that carries the covenant on.
Recreated(program) == IF program = "mint_gate" THEN 4 ELSE 3

(***************************************************************************)
(* A transaction is accepted and mined.  The RGB state of a seal it closes *)
(* is carried over only if the anchor commits to its transition; that of a *)
(* gate moves on to the output that re-creates the gate.                   *)
(***************************************************************************)
Accept(tx) ==
    LET closes == { s \in Seals : coin[s] \in tx.ins }
    IN  /\ Len(chain) < MaxTxs
        /\ NodeAccepts(tx)
        /\ chain' = Append(chain, [tx |-> tx, height |-> height + 1, closes |-> closes])
        /\ coin' = [s \in Seals |->
                       IF s \in closes \cap Gates
                       THEN <<Len(chain) + 1, Recreated(Program[s])>> ELSE coin[s]]
        /\ kept' = [s \in Seals |-> kept[s] /\ (s \in closes => s \in tx.payload)]
        /\ UNCHANGED <<height, built>>
-----------------------------------------------------------------------------
\* fund_gate and its likes: the wallet pays the covenant address.
Fund(s) ==
    /\ coin[s] = NoCoin
    /\ Len(chain) < MaxTxs
    /\ LET tx == [ins |-> {}, fund |-> [lbtc |-> Worth[s], usdt |-> 0],
                  outs |-> <<Output("lbtc", Worth[s], Covenant(Program[s]))>>,
                  lock |-> 0, payload |-> {}, preimage |-> FALSE]
       IN  chain' = Append(chain, [tx |-> tx, height |-> height + 1, closes |-> {}])
    /\ coin' = [coin EXCEPT ![s] = <<Len(chain) + 1, 1>>]
    /\ UNCHANGED <<height, kept, built>>

RecipientSat == 1
FeeSat == 1

\* Mutant: whatever was built is printed.
EmitUnsatisfied(s, tx, tamper, tampered) ==
    /\ Cardinality(built) < MaxBuilt
    /\ built' = built \cup {[seal |-> s, tx |-> tampered, tamper |-> tamper]}
    /\ UNCHANGED <<height, chain, coin, kept>>

\* satisfy_with_env: the program is run against the transaction as built.
Emit(s, tx, tamper, tampered) ==
    /\ Cardinality(built) < MaxBuilt
    /\ Accepts(Program[s], tx)
    /\ built' = built \cup {[seal |-> s, tx |-> tampered, tamper |-> tamper]}
    /\ UNCHANGED <<height, chain, coin, kept>>

\* Mutant: what is left over is subtracted unchecked.
CoversAnything(inputs, outputs) == TRUE

\* checked_sub: what is left over is not negative.  The sums under it are
\* unchecked u64 additions; the amounts here are those of the coins spent, far
\* below 2^63, so they do not wrap.  An amount argument that is not the coin's
\* (--*-value-sat, --fee-input-sat) is not among the calls modelled.
Covers(inputs, outputs) == inputs >= outputs

(***************************************************************************)
(* simp spend: the only input is the covenant's, nobody signs.  --opret-   *)
(* payload is optional; --tamper-drop-anchor removes that output.          *)
(***************************************************************************)
Spend(s, payload, preimage) ==
    \E anchored, dropAnchor \in BOOLEAN :
        LET worth == At(coin[s]).amount
            paid == <<Output("lbtc", worth - FeeSat, Recipient), Output("lbtc", FeeSat, FeeScript)>>
            outs == IF anchored THEN <<Output("lbtc", 0, Opret(payload))>> \o paid ELSE paid
            tx == [ins |-> {coin[s]}, fund |-> [lbtc |-> 0, usdt |-> 0], outs |-> outs,
                   lock |-> 0, payload |-> payload, preimage |-> preimage]
        IN  /\ Covers(worth, FeeSat)
            /\ dropAnchor => anchored
            /\ Emit(s, tx, IF dropAnchor THEN "drop-anchor" ELSE "none",
                     IF dropAnchor THEN [tx EXCEPT !.outs = Tail(outs)] ELSE tx)

\* --tamper: what is changed after the covenant was satisfied.
Pay(tx, k, owner) == [tx EXCEPT !.outs[k].script = owner]

ShortBacking(tx, k) ==
    [tx EXCEPT !.outs = Append([@ EXCEPT ![k].amount = Tranche - 1],
                               Output("usdt", 1, Funding))]

\* simp mint-spend: anchor, vault, recipient, gate, change, fee.
MintSpend(s, payload, feeInput) ==
    LET gate == At(coin[s]).amount
        tx == [ins |-> {coin[s]}, fund |-> [lbtc |-> feeInput, usdt |-> Tranche],
               outs |-> << Output("lbtc", 0, Opret(payload)),
                           Output("usdt", Tranche, Vault),
                           Output("lbtc", RecipientSat, Recipient),
                           Output("lbtc", gate, Covenant(Program[s])),
                           Output("lbtc", feeInput - (RecipientSat + FeeSat), Funding),
                           Output("lbtc", FeeSat, FeeScript) >>,
               lock |-> 0, payload |-> payload, preimage |-> FALSE]
    IN  /\ Covers(feeInput, RecipientSat + FeeSat)
        /\ \/ Emit(s, tx, "none", tx)
           \/ Emit(s, tx, "drop-anchor", Pay(tx, 1, Funding))
           \/ Emit(s, tx, "no-recreate", Pay(tx, 4, Funding))
           \/ Emit(s, tx, "wrong-amount", ShortBacking(tx, 2))

\* simp mint-spend-burn: the anchor burns the tranche, recipient, gate, change, fee.
MintSpendBurn(s, payload, feeInput) ==
    LET gate == At(coin[s]).amount
        tx == [ins |-> {coin[s]}, fund |-> [lbtc |-> feeInput, usdt |-> Tranche],
               outs |-> << Output("usdt", Tranche, Opret(payload)),
                           Output("lbtc", RecipientSat, Recipient),
                           Output("lbtc", gate, Covenant(Program[s])),
                           Output("lbtc", feeInput - (RecipientSat + FeeSat), Funding),
                           Output("lbtc", FeeSat, FeeScript) >>,
               lock |-> 0, payload |-> payload, preimage |-> FALSE]
    IN  /\ Covers(feeInput, RecipientSat + FeeSat)
        /\ \/ Emit(s, tx, "none", tx)
           \/ Emit(s, tx, "drop-anchor", Pay(tx, 1, Funding))
           \/ Emit(s, tx, "no-recreate", Pay(tx, 3, Funding))
           \/ Emit(s, tx, "wrong-amount", ShortBacking(tx, 1))

\* simp unstake-spend: anchor, principal, change, fee.
UnstakeSpend(s, payload, feeInput, principal) ==
    LET stake == At(coin[s]).amount
        tx == [ins |-> {coin[s]}, fund |-> [lbtc |-> feeInput, usdt |-> 0],
               outs |-> << Output("lbtc", 0, Opret(payload)),
                           Output("lbtc", principal, Staker),
                           Output("lbtc", stake + feeInput - (principal + FeeSat), Funding),
                           Output("lbtc", FeeSat, FeeScript) >>,
               lock |-> Maturity, payload |-> payload, preimage |-> FALSE]
    IN  /\ Covers(stake + feeInput, principal + FeeSat)
        /\ \/ Emit(s, tx, "none", tx)
           \/ Emit(s, tx, "drop-anchor", Pay(tx, 1, Funding))
           \/ Emit(s, tx, "wrong-dest", Pay(tx, 2, Funding))

(***************************************************************************)
(* Everybody may build a spend of his own, of any coins under a covenant,  *)
(* and pay for what is missing; its lock time is as late as the node lets  *)
(* it be.  The preimage is known once it is in the chain.                  *)
(***************************************************************************)
OwnSpend(closed, outs, payload) ==
    LET ins == { coin[s] : s \in closed }
    IN  [ins |-> ins,
         fund |-> [asset \in {"lbtc", "usdt"} |-> AmountOf(outs, asset) - CoinsOf(ins, asset)],
         outs |-> outs, lock |-> height, payload |-> payload,
         preimage |-> \E i \in DOMAIN chain : chain[i].tx.preimage]

AnySpend ==
    \E closed \in (SUBSET { s \in Seals : Unspent(coin[s]) }) \ {{}},
       outs \in Layouts, payload \in Payloads :
        LET tx == OwnSpend(closed, outs, payload)
        IN  tx.fund \in [{"lbtc", "usdt"} -> Nat] /\ Accept(tx)

Build ==
    \E s \in Seals, payload \in Payloads :
        /\ Unspent(coin[s])
        /\ \/ Program[s] = "rgb_anchor" /\ \E preimage \in BOOLEAN : Spend(s, payload, preimage)
           \/ /\ Program[s] = "mint_gate"
              /\ \E feeInput \in FeeInputs : MintSpend(s, payload, feeInput)
           \/ /\ Program[s] = "mint_gate_burn"
              /\ \E feeInput \in FeeInputs : MintSpendBurn(s, payload, feeInput)
           \/ /\ Program[s] = "staking"
              /\ \E feeInput \in FeeInputs, principal \in Principals :
                    UnstakeSpend(s, payload, feeInput, principal)

\* sendrawtransaction of what was printed, maybe long ago.
Send == \E b \in built : Accept(b.tx)

Mine ==
    /\ height < MaxHeight
    /\ height' = height + 1
    /\ UNCHANGED <<chain, coin, kept, built>>

Next == (\E s \in Seals : Fund(s)) \/ Build \/ Send \/ AnySpend \/ Mine

Spec == Init /\ [][Next]_vars
-----------------------------------------------------------------------------
(***************************************************************************)
(* The recursion never ends: whoever spends it, however often and together *)
(* with whatever else, a funded gate is an unspent coin under its own      *)
(* covenant.                                                               *)
(***************************************************************************)
GateStands ==
    \A g \in Gates :
        coin[g] # NoCoin => Unspent(coin[g]) /\ At(coin[g]).script = Covenant(Program[g])

(***************************************************************************)
(* A seal under a covenant is never closed by a transaction without an     *)
(* anchor output, nor one that skips what its covenant asks for: the       *)
(* payment to the staker at maturity.                                      *)
(***************************************************************************)
ClosedByTheRules ==
    \A i \in DOMAIN chain : \A s \in chain[i].closes :
        LET outs == chain[i].tx.outs
        IN  /\ IsOpret(outs[1].script)
            /\ Program[s] = "staking" => chain[i].height > Maturity /\ outs[2].script = Staker

(***************************************************************************)
(* Each mint has a deposit of its own: the chain enforces the backing.     *)
(***************************************************************************)
Deposit(program) == IF program = "mint_gate" THEN 2 ELSE 1

OwnDeposit ==
    \A i \in DOMAIN chain : \A g, h \in chain[i].closes \cap Gates :
        LET out == chain[i].tx.outs[Deposit(Program[g])]
        IN  /\ BacksTranche(out)
            /\ out.script = Vault \/ IsOpret(out.script)
            /\ g # h => Deposit(Program[g]) # Deposit(Program[h])

(***************************************************************************)
(* What is changed after the program was satisfied is never accepted, in   *)
(* whatever state the transaction is sent.                                 *)
(***************************************************************************)
TamperedRefused == \A b \in built : b.tamper # "none" => ~NodeAccepts(b.tx)

(***************************************************************************)
(* A transaction that satisfied the program when it was built is good as   *)
(* long as its coin is there, and once it is final.  That is so where the  *)
(* arguments leave some change, and nobody has re-created a gate in        *)
(* another asset, which the programs let him do.                           *)
(***************************************************************************)
BuiltIsAccepted ==
    \A b \in built :
        b.tamper = "none" /\ (\A op \in b.tx.ins : Unspent(op)) /\ Final(b.tx) => NodeAccepts(b.tx)

LeavesChange ==
    /\ \A f \in FeeInputs : f # RecipientSat + FeeSat
    /\ \A p \in Principals : p > 0
    /\ \A s \in Seals :
          /\ Program[s] = "rgb_anchor" => Worth[s] # FeeSat
          /\ Program[s] = "staking" =>
                \A f \in FeeInputs, p \in Principals : Worth[s] + f # p + FeeSat

InLbtc(outs) ==
    \A k \in DOMAIN outs, p \in Programs :
        outs[k].script = Covenant(p) => outs[k].asset = "lbtc"

GatesInLbtc == \A outs \in Layouts : InLbtc(outs)
-----------------------------------------------------------------------------
(***************************************************************************)
(* staking_covenant.simf:16: "the funds are the staker's".                 *)
(***************************************************************************)
PrincipalReturned ==
    \A i \in DOMAIN chain : \A s \in chain[i].closes :
        Program[s] = "staking" => chain[i].tx.outs[2].amount >= Worth[s]

(***************************************************************************)
(* README.md:69: the stake cannot be "spent without anchoring the return   *)
(* transition".                                                            *)
(***************************************************************************)
ReturnAnchored == \A s \in Seals : Program[s] = "staking" => kept[s]

(***************************************************************************)
(* main.rs:665: "the only thing that can reject the mutated tx is the      *)
(* covenant itself".                                                       *)
(***************************************************************************)
OnlyCovenantObjects ==
    \A b \in built :
        b.tamper # "none" /\ (\A op \in b.tx.ins : Unspent(op)) /\ Final(b.tx) => WellFormed(b.tx)
=============================================================================
