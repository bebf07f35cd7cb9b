--------------------------- MODULE MCHashlockSwap ---------------------------
(***************************************************************************)
(* Instances of HashlockSwap: who follows the script, who only watches.    *)
(***************************************************************************)
EXTENDS HashlockSwap

CONSTANT watcher
=============================================================================
