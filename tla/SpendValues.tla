---------------------------- MODULE SpendValues ----------------------------
(***************************************************************************)
(* The satoshis of a swap's spends: htlc-spend-btc, htlc-spend-liquid,     *)
(* swap-claim-btc and swap-claim-liquid, from the arguments of the command *)
(* to what a node does with the transaction it prints.                     *)
(*                                                                         *)
(* Amounts are u64: a sum past the end panics in a debug build and wraps   *)
(* in a release build.  Scripts and who may sign are HtlcScript's; here    *)
(* the script of the spent output is satisfied, and a signature matters    *)
(* for the input value it commits to.                                      *)
(***************************************************************************)
EXTENDS Integers

CONSTANTS U64,      \* 2^64
          MaxMoney, \* the largest amount a node accepts
          None      \* no --anchor-spk

ASSUME AmountWidths ==
    /\ U64 \in Nat
    /\ MaxMoney \in 1..(U64 - 1)
    /\ None \notin Nat

Amount == 0..(U64 - 1)
Commands == {"htlc", "hashlock"} \X {"bitcoin", "liquid"}

Call == [command : Commands, input : Amount, fee : Amount, anchor : Amount \cup {None}]

VARIABLES coin,  \* the value of the spent output
          build, \* "debug" or "release"
          call,  \* the arguments (swap-claim-liquid gives its output as input)
          tx,    \* what was printed: values of its outputs
          stage  \* "called", "refused", "panicked", "printed", "mined", "rejected"

ValueVars == <<coin, build, call, tx, stage>>

NoTx == [anchor |-> None, dest |-> 0, fee |-> 0]

\* Type invariant: a printed transaction holds u64 amounts, because of the
\* checked_sub.
TypeOK ==
    /\ coin \in 1..MaxMoney
    /\ build \in {"debug", "release"}
    /\ call \in Call
    /\ tx \in [anchor : Amount \cup {None}, dest : Amount, fee : Amount]
    /\ stage \in {"called", "refused", "panicked", "printed", "mined", "rejected"}

ValueInit ==
    /\ coin \in 1..MaxMoney
    /\ build \in {"debug", "release"}
    /\ call \in Call
    /\ call.command[1] = "hashlock" => call.anchor = None
    /\ tx = NoTx
    /\ stage = "called"

Kind == call.command[1]
Chain == call.command[2]
-----------------------------------------------------------------------------
(***************************************************************************)
(* u64 addition: the exact sum, and what a release build keeps of it.      *)
(***************************************************************************)
Wrap(sum) == IF sum < U64 THEN sum ELSE sum - U64

Value(anchor) == IF anchor = None THEN 0 ELSE anchor

(***************************************************************************)
(* The value of the destination output: what the anchor and the fee leave, *)
(* by checked_sub, or what swap-claim-liquid was told.                     *)
(***************************************************************************)
Taken(c) == c.fee + Value(c.anchor)

Pays(c) == c.command = <<"hashlock", "liquid">>

Leaves(c) == Pays(c) \/ Wrap(Taken(c)) <= c.input

\* Mutant: the anchor is not taken from the destination's value.
OutputBeforeAnchor(c) == IF Pays(c) THEN c.input ELSE c.input - c.fee

OutputValue(c) == IF Pays(c) THEN c.input ELSE c.input - Wrap(Taken(c))

(***************************************************************************)
(* The builders' own check of the outputs: strictly less than the input on *)
(* Bitcoin, where the fee is the rest; equal with the fee output on        *)
(* Liquid.  The minimal Liquid claim checks nothing.                       *)
(***************************************************************************)
Outputs(c) == OutputValue(c) + Value(c.anchor)

\* Mutant: the Liquid check forgets the anchor output.
FitsWithoutAnchor(c) ==
    \/ Pays(c)
    \/ c.command[2] = "bitcoin" /\ Wrap(Outputs(c)) < c.input
    \/ c.command = <<"htlc", "liquid">> /\ Wrap(OutputValue(c) + c.fee) = c.input

Fits(c) ==
    \/ Pays(c)
    \/ c.command[2] = "bitcoin" /\ Wrap(Outputs(c)) < c.input
    \/ c.command = <<"htlc", "liquid">> /\ Wrap(Wrap(Outputs(c)) + c.fee) = c.input

Overflows(c) ==
    /\ Kind = "htlc"
    /\ \/ Taken(c) >= U64
       \/ Leaves(c) /\ Outputs(c) >= U64
       \/ Leaves(c) /\ Chain = "liquid" /\ Wrap(Outputs(c)) + c.fee >= U64

Panics == build = "debug" /\ Overflows(call)

(***************************************************************************)
(* The command ends: with a panic, with an error, or with a transaction.   *)
(***************************************************************************)
Panic ==
    /\ stage = "called" /\ Panics
    /\ stage' = "panicked"
    /\ UNCHANGED <<coin, build, call, tx>>

Refuse ==
    /\ stage = "called" /\ ~Panics
    /\ ~(Leaves(call) /\ Fits(call))
    /\ stage' = "refused"
    /\ UNCHANGED <<coin, build, call, tx>>

Build ==
    /\ stage = "called" /\ ~Panics
    /\ Leaves(call) /\ Fits(call)
    /\ tx' = [anchor |-> call.anchor, dest |-> OutputValue(call),
              fee |-> IF Chain = "liquid" THEN call.fee ELSE 0]
    /\ stage' = "printed"
    /\ UNCHANGED <<coin, build, call>>

(***************************************************************************)
(* The node: the signature of an HTLC spend commits to the input value it  *)
(* was made for; amounts are in range; Bitcoin's outputs take no more than *)
(* there is, Elements' with the fee exactly what there is, none of them    *)
(* zero.                                                                   *)
(***************************************************************************)
NodeAccepts ==
    /\ Kind = "htlc" => call.input = coin
    /\ tx.dest <= MaxMoney /\ tx.fee <= MaxMoney /\ Value(tx.anchor) <= MaxMoney
    /\ Chain = "bitcoin" => Value(tx.anchor) + tx.dest <= coin
    /\ Chain = "liquid" =>
          /\ Value(tx.anchor) + tx.dest + tx.fee = coin
          /\ tx.dest > 0 /\ tx.fee > 0 /\ tx.anchor # 0

Send ==
    /\ stage = "printed"
    /\ stage' = IF NodeAccepts THEN "mined" ELSE "rejected"
    /\ UNCHANGED <<coin, build, call, tx>>

ValueNext == Panic \/ Refuse \/ Build \/ Send

ValueSpec == ValueInit /\ [][ValueNext]_ValueVars
-----------------------------------------------------------------------------
(***************************************************************************)
(* --fee-sat and --anchor-value-sat, whatever the other arguments and      *)
(* however the sums wrapped: a spend that is mined pays the anchor asked   *)
(* for and the fee asked for.  swap-claim-btc alone has no signature over  *)
(* the value it spends: there the fee is off by what --input-value-sat is  *)
(* wrong by.                                                               *)
(***************************************************************************)
FeePaid == coin - Value(tx.anchor) - tx.dest

Misstated == IF call.command = <<"hashlock", "bitcoin">> THEN coin - call.input ELSE 0

FeeAsAsked ==
    stage = "mined" => tx.anchor = call.anchor /\ FeePaid = call.fee + Misstated

(***************************************************************************)
(* A call with the right input value that leaves something for the         *)
(* destination, with a fee and without an empty anchor, is never refused   *)
(* by the command nor by the node.                                         *)
(***************************************************************************)
GoodCall ==
    /\ call.fee > 0 /\ call.anchor # 0
    /\ IF Pays(call) THEN call.input > 0 /\ call.input + call.fee = coin
       ELSE call.input = coin /\ Taken(call) < coin

GoodCallsSucceed == GoodCall => stage \in {"called", "printed", "mined"}

(***************************************************************************)
(* htlc.rs: "outputs must total < input (need room for fee)", and          *)
(* "Elements outputs+fee must equal input exactly".                        *)
(***************************************************************************)
RoomForFee ==
    stage = "printed" /\ Kind = "htlc" =>
        IF Chain = "bitcoin" THEN Value(tx.anchor) + tx.dest < call.input
        ELSE Value(tx.anchor) + tx.dest + tx.fee = call.input
=============================================================================
