--------------------------- MODULE MCSpendValues ---------------------------
(***************************************************************************)
(* A u64 of twelve values and a node that accepts five of them: every sum  *)
(* of a fee and an anchor up to twice the width, on both chains, in both   *)
(* builds.                                                                 *)
(***************************************************************************)
EXTENDS SpendValues
=============================================================================
