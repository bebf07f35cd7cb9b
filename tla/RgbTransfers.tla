---------------------------- MODULE RgbTransfers ----------------------------
(***************************************************************************)
(* Issuance and transfer of a fixed-supply (NIA) asset with                *)
(* `rgb-anchor rgb20-transfer', and the witness transactions of the demos  *)
(* that anchor the transfers: those of a wallet, and the spends of an HTLC *)
(* output that is the asset's seal.                                        *)
(*                                                                         *)
(* Every command issues the contract anew from its arguments: the same     *)
(* ones give the same contract id, others give another contract.  Nothing  *)
(* in the repository validates a history of transfers; Valid is what an    *)
(* RGB client would accept.                                                *)
(***************************************************************************)
EXTENDS Integers, Sequences, FiniteSets, Functions

CONSTANTS Wallet,       \* coins of the wallet
          Htlcs,        \* HTLC outputs
          Placeholders, \* outpoints of made-up transactions
          Locked,       \* coins the script keeps from the wallet's funding
          AliceSeals,   \* the --alice-seal arguments explored
          BobSeals,     \* the --bob-seal arguments explored
          ChangeSeals,  \* the --change-seal arguments explored
          Supplies,     \* the --supply arguments explored
          Sends,        \* the --send arguments explored
          PrevAmounts,  \* the --prev-amount arguments explored
          CloseSeals,   \* the --close-seal arguments explored
          MaxOps,       \* bound: operations built with free arguments
          MaxScripted   \* bound: operations built by the script

Coins == Wallet \cup Htlcs
Seals == Coins \cup Placeholders
None == "none"

ASSUME TransferArguments ==
    /\ Locked \subseteq Wallet
    /\ AliceSeals \cup BobSeals \cup ChangeSeals \cup CloseSeals \subseteq Seals
    /\ Supplies \cup Sends \cup PrevAmounts \subseteq Nat \ {0}
    /\ None \notin Seals
    /\ IsFiniteSet(Seals) /\ Htlcs \cap Wallet = {}
    /\ MaxOps \in Nat /\ MaxScripted \in Nat

VARIABLES scripted, \* who calls: demo_swap_roundtrip.sh, or anybody
          ops,      \* the geneses and transitions built; an OpId is an index
          anchors,  \* the anchors printed
          closing   \* the operation that the spend of a coin anchors

vars == <<scripted, ops, anchors, closing>>

Open == -1      \* the coin is unspent
Nothing == 0    \* its spend anchors nothing

Allocation == [seal : Seals, amount : Nat \ {0}]
Operation == [contract : Nat, prev : Nat, claims : Nat, outs : Seq(Allocation)]

TypeOK ==
    /\ scripted \in BOOLEAN
    /\ ops \in Seq(Operation)
    /\ \A k \in DOMAIN ops : ops[k].contract < k /\ ops[k].prev < k
    /\ anchors \subseteq [op : DOMAIN ops, seal : Seals, shown : Int]
    /\ closing \in [Coins -> {Open, Nothing} \cup DOMAIN ops]

Init ==
    /\ scripted \in BOOLEAN
    /\ ops = <<>>
    /\ anchors = {}
    /\ closing = [c \in Coins |-> Open]
-----------------------------------------------------------------------------
\* An allocation; an operation is named by its content (issue, commit_id).
Assign(seal, amount) == [seal |-> seal, amount |-> amount]

Same(known, op) == { k \in DOMAIN known : known[k] = op }
OpId(known, op) ==
    IF Same(known, op) = {} THEN Len(known) + 1 ELSE CHOOSE k \in Same(known, op) : TRUE
Built(known, op) == IF Same(known, op) = {} THEN Append(known, op) ELSE known

issue(supply, aliceSeal) ==
    [contract |-> 0, prev |-> 0, claims |-> supply, outs |-> <<Assign(aliceSeal, supply)>>]

\* Mutant: the sender keeps what it had.
AssignmentsOfAll(claims, send, bob, change) ==
    IF change = None THEN <<Assign(bob, send)>>
    ELSE <<Assign(bob, send), Assign(change, claims)>>

\* The recipient's allocation, and the change if there is any.
Assignments(claims, send, bob, change) ==
    IF change = None \/ claims = send THEN <<Assign(bob, send)>>
    ELSE <<Assign(bob, send), Assign(change, claims - send)>>

\* Mutant: what is sent is not compared.
AnySendable(claims, send, change) == TRUE

\* checked_sub, or no change and no rest.
Sendable(claims, send, change) == IF change = None THEN send = claims ELSE send <= claims

build_transfer_from(contract, prev, claims, send, bob, change) ==
    [contract |-> contract, prev |-> prev, claims |-> claims,
     outs |-> Assignments(claims, send, bob, change)]

\* Mutant: the argument is not looked at.
IssuerSeal(aliceSeal, close) == aliceSeal

AnchorSeal(aliceSeal, close) == IF close = None THEN aliceSeal ELSE close

(***************************************************************************)
(* rgb20_transfer.  A chained transfer names the transition it consumes    *)
(* (always its first output) and what that one carries, the whole supply   *)
(* by default; the anchor names the seal to close, the issuer's by default.*)
(* The change that is shown is supply - send: a debug build panics when    *)
(* that is negative, a release build shows a large number.                 *)
(***************************************************************************)
rgb20_transfer(supply, aliceSeal, consume, prevAmount, send, bob, change, close) ==
    LET genesis == issue(supply, aliceSeal)
        issued == Built(ops, genesis)
        contract == OpId(ops, genesis)
        chained == consume # 0
        claims == IF chained /\ prevAmount # 0 THEN prevAmount ELSE supply
        transition ==
            build_transfer_from(contract, IF chained THEN consume ELSE contract,
                                claims, send, bob, change)
    IN  /\ Sendable(claims, send, change)
        /\ ops' = Built(issued, transition)
        /\ Len(ops') <= IF scripted THEN MaxScripted ELSE MaxOps
        /\ anchors' = anchors \cup
              {[op |-> OpId(issued, transition),
                seal |-> AnchorSeal(aliceSeal, close),
                shown |-> IF change = None THEN 0 ELSE supply - send]}
        /\ UNCHANGED <<scripted, closing>>

Transfer ==
    \E supply \in Supplies, aliceSeal \in AliceSeals, consume \in {0} \cup DOMAIN ops,
       prevAmount \in {0} \cup PrevAmounts, send \in Sends, bob \in BobSeals,
       change \in ChangeSeals \cup {None}, close \in CloseSeals \cup {None} :
        /\ consume = 0 => prevAmount = 0
        /\ rgb20_transfer(supply, aliceSeal, consume, prevAmount, send, bob, change, close)
-----------------------------------------------------------------------------
(***************************************************************************)
(* Spends.  One output of a transaction can be an anchor, and it carries   *)
(* one operation.                                                          *)
(***************************************************************************)
IsOpen(c) == closing[c] = Open

Spend(coins, k) ==
    /\ closing' = [c \in Coins |-> IF c \in coins THEN k ELSE closing[c]]
    /\ UNCHANGED <<scripted, ops, anchors>>

\* fundrawtransaction adds inputs that are not locked (lockunspent).
Funding == { c \in Wallet \ Locked : IsOpen(c) }

\* createrawtransaction with the seal and the address of the anchor.
WitnessTx(c, k) ==
    /\ c \in Wallet /\ IsOpen(c)
    /\ \E funding \in SUBSET Funding : Spend({c} \cup funding, k)

\* Any other payment of the wallet.
Payment == \E funding \in (SUBSET Funding) \ {{}} : Spend(funding, Nothing)

\* Mutant: there is no anchor output.
HtlcSpendUnanchored(c, k) ==
    /\ c \in Htlcs /\ IsOpen(c)
    /\ Spend({c}, Nothing)

\* htlc_spend, by the claimer or the refunder: a single input; the anchor is optional.
HtlcSpend(c, k) ==
    /\ c \in Htlcs /\ IsOpen(c)
    /\ Spend({c}, k)

Printed == { a.op : a \in anchors }

\* Bound: the coins that the arguments explored name.
Named == AliceSeals \cup BobSeals \cup ChangeSeals \cup CloseSeals

\* Anybody, with whatever arguments.
FreeNext ==
    \/ Transfer
    \/ Payment
    \/ \E c \in Named, k \in Printed : WitnessTx(c, k)
    \/ \E c \in Named, k \in Printed \cup {Nothing} : HtlcSpend(c, k)
-----------------------------------------------------------------------------
(***************************************************************************)
(* What an RGB client accepts: the transition consumes the first output of *)
(* a valid operation of its contract, for what it carries, and the spend   *)
(* of that output's seal anchors it.                                       *)
(***************************************************************************)
\* The allocations of all operations, each by its operation and position.
Outs == UNION { {k} \X DOMAIN ops[k].outs : k \in DOMAIN ops }
SealOf(out) == ops[out[1]].outs[out[2]].seal
Amount == [out \in Outs |-> ops[out[1]].outs[out[2]].amount]

ContractOf(k) == IF ops[k].prev = 0 THEN k ELSE ops[k].contract

Consumed(k) == ops[ops[k].prev].outs[1]

Moves(k) ==
    /\ ContractOf(ops[k].prev) = ops[k].contract
    /\ ops[k].claims = Consumed(k).amount
    /\ Consumed(k).seal \in Coins /\ closing[Consumed(k).seal] = k

Valid ==
    LET valid[k \in DOMAIN ops] == ops[k].prev = 0 \/ (Moves(k) /\ valid[ops[k].prev])
    IN  { k \in DOMAIN ops : valid[k] }

Geneses == { k \in DOMAIN ops : ops[k].prev = 0 }
-----------------------------------------------------------------------------
(***************************************************************************)
(* demo_swap_roundtrip.sh: every seal is an HTLC or a coin made for it and *)
(* kept locked, each transfer has the arguments of its asset and says what *)
(* it consumes, and once that is there its seal is spent together with the *)
(* anchor.  The claimer and the refunder of an HTLC may both have a        *)
(* transfer of what is on it.                                              *)
(***************************************************************************)
Kept == Htlcs \cup Locked
Assigned == { SealOf(out) : out \in Outs }
Fresh == { c \in Kept : IsOpen(c) } \ (Assigned \cup AliceSeals)

ScriptedTransfer ==
    \E supply \in Supplies, aliceSeal \in AliceSeals \cap Kept,
       consume \in {0} \cup (Valid \ Geneses),
       send \in Sends, bob \in Fresh, change \in Fresh \cup {None} :
        LET genesis == issue(supply, aliceSeal)
        IN  /\ bob # change
            /\ Same(ops, genesis) = {} => aliceSeal \notin Assigned
            /\ consume # 0 => ops[ops[consume].contract] = genesis
            /\ rgb20_transfer(supply, aliceSeal, consume,
                              IF consume = 0 THEN 0 ELSE ops[consume].outs[1].amount, send,
                              bob, change,
                              IF consume = 0 THEN None ELSE ops[consume].outs[1].seal)

ScriptedSpend(k) ==
    /\ ops[k].prev \in Valid
    /\ \E c \in {Consumed(k).seal} : WitnessTx(c, k) \/ HtlcSpend(c, k)

ScriptNext == ScriptedTransfer \/ Payment \/ (\E k \in Printed : ScriptedSpend(k))

Next ==
    \/ ~scripted /\ FreeNext
    \/ scripted /\ ScriptNext

Spec == Init /\ [][Next]_vars
-----------------------------------------------------------------------------
\* The allocations that are still there, and what they come to on each outpoint.
Live ==
    LET valid == Valid
    IN  { out \in Outs : /\ out[1] \in valid
                         /\ SealOf(out) \in Coins => IsOpen(SealOf(out)) }

Held ==
    LET live == Live
        amount == Amount
        on(g, s) == { out \in live : ContractOf(out[1]) = g /\ SealOf(out) = s }
    IN  [g \in Geneses |-> [s \in Seals |-> SumFunctionOnSet(amount, on(g, s))]]

Circulating(held) == SumFunctionOnSet(held, Seals)

(***************************************************************************)
(* Whatever is built, with whatever arguments, and whoever spends what:    *)
(* the units of a contract that somebody can prove to hold are never more  *)
(* than were issued.                                                       *)
(***************************************************************************)
SupplyNeverGrows ==
    LET held == Held IN \A g \in Geneses : Circulating(held[g]) <= ops[g].claims

(***************************************************************************)
(* The transfers keep a ledger: units stay where they are until their seal *)
(* is closed, and a closing moves no more than was there.                  *)
(***************************************************************************)
Ledger == INSTANCE UnitLedger
    WITH Contracts <- 1..(MaxOps + MaxScripted), held <- Held
LedgerKept == Ledger!Spec
-----------------------------------------------------------------------------
(***************************************************************************)
(* "conserved through 3 transitions per asset": nothing is lost on the     *)
(* way, whoever of several that may spend a seal is first.                 *)
(***************************************************************************)
NothingLost ==
    scripted =>
        LET held == Held IN \A g \in Geneses : Circulating(held[g]) = ops[g].claims
-----------------------------------------------------------------------------
(***************************************************************************)
(* demo_swap_roundtrip.sh:21: "Every hop is verified" - `verify' accepts   *)
(* an anchor whose transaction commits to the transfer and spends the seal *)
(* the anchor names.                                                       *)
(***************************************************************************)
Verifies(a) == a.seal \in Coins /\ closing[a.seal] = a.op

VerifiedIsMoved == \A a \in anchors : Verifies(a) => a.op \in Valid

(***************************************************************************)
(* With the script's arguments `verify' accepts exactly the hops that have *)
(* moved the asset, whatever else the wallet pays meanwhile and whoever of *)
(* the claimer and the refunder closes the HTLC's seal.                    *)
(***************************************************************************)
HopsMove == scripted => \A a \in anchors : Verifies(a) <=> a.op \in Valid

(***************************************************************************)
(* demo_rgb20.sh:48: the BundleId "doesn't care about Bob's seal txid":    *)
(* the transfer may be patched to the real outpoint once that is known.    *)
(***************************************************************************)
PlaceholderWillDo ==
    \A j \in Valid \ Geneses, k \in DOMAIN ops :
        /\ ops[j].outs[1].seal \in Placeholders
        /\ ops[k] = [ops[j] EXCEPT !.outs[1].seal = ops[k].outs[1].seal]
        => k \in Valid

(***************************************************************************)
(* rgb_anchor.rs:105: the change of a chained transfer is that of "the     *)
(* amount carried by the consumed allocation".                             *)
(***************************************************************************)
ChangeShown ==
    \A a \in anchors :
        a.shown = IF Len(ops[a.op].outs) = 2 THEN ops[a.op].outs[2].amount ELSE 0
=============================================================================
