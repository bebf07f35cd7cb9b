--------------------------- MODULE MCRgbTransfers ---------------------------
(***************************************************************************)
(* Instances of RgbTransfers: an HTLC output, coins of the wallet, and the *)
(* outpoint of a transaction that never exists.                            *)
(***************************************************************************)
EXTENDS RgbTransfers

CONSTANTS htlc, a, b, c, d, e, made_up
=============================================================================
