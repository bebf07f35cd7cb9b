----------------------------- MODULE MCBfaAudit -----------------------------
(***************************************************************************)
(* Two contracts over one gate that differ in their terms alone, a supply  *)
(* two mints can exhaust, and a u64 of three bits: the rate 3/2 rounds for *)
(* one unit, the rate 7 asks for all that a u64 holds for one unit and for *)
(* more than it holds for two, and deposits of 5 + 5 saturate.             *)
(***************************************************************************)
EXTENDS BfaAudit

CONSTANTS g0, g1

MCContracts == { [num |-> 3, den |-> 2, max |-> 2, gate |-> g0],
                 [num |-> 7, den |-> 1, max |-> 2, gate |-> g0] }

Out(kind, value) == [kind |-> kind, value |-> value]

Explicit == { <<Out("backing", 1)>>, <<Out("backing", 5), Out("backing", 5)>> }

Blinded == Explicit \cup { <<Out("backing", 3), Out("blinded", 0)>> }

AnyAsset == { <<Out("backing", 2), Out("other", 1)>> }
=============================================================================
