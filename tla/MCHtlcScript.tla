---------------------------- MODULE MCHtlcScript ----------------------------
(***************************************************************************)
(* A u32 of six bits: three that count, one ignored, the type bit and the  *)
(* disable bit; a byte is three bits, so a delay needs up to two of them   *)
(* and a sign.                                                             *)
(***************************************************************************)
EXTENDS HtlcScript

MCDelays == {2, 3, 4, 7, 11, 20, 37}
MCSequences == {0, 5, 18, 33, 61}
MCAges == {0, 3, 4, 7}
=============================================================================
