--------------------------- MODULE MCMintReceipt ---------------------------
(***************************************************************************)
(* One contract whose supply is two units, minted one by one, two seals,   *)
(* up to two commitments in a transaction, and deposits that are exact,    *)
(* saturating or blinded.                                                  *)
(***************************************************************************)
EXTENDS MintReceipt

CONSTANTS g0, g1

MCContracts == { [num |-> 1, den |-> 1, max |-> 2, gate |-> g0] }

Out(kind, value) == [kind |-> kind, value |-> value]

MCVaultOuts == { <<Out("backing", 1)>>,
                 <<Out("backing", 5), Out("backing", 5)>>,
                 <<Out("backing", 3), Out("blinded", 0)>> }
=============================================================================
