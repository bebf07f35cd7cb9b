--------------------------- MODULE MCAnchorVerify ---------------------------
(***************************************************************************)
(* One asset with two transfers of the same allocation, and anchors of     *)
(* two contracts, and of one listed twice.                                 *)
(***************************************************************************)
EXTENDS AnchorVerify, TLC

CONSTANTS l1, l2, m1, m2, s1, s2, b1, b2

MCSynthetic == [l \in {l1, l2} |-> IF l = l1 THEN m1 ELSE m2]
MCLabelLists == { <<l1, l2>>, <<l1, l1>> }
MCSymmetry == Permutations({s1, s2}) \cup Permutations({b1, b2})
=============================================================================
