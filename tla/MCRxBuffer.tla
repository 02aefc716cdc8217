----------------------------- MODULE MCRxBuffer -----------------------------
(***************************************************************************)
(* RxBuffer for TLC: four cells, so that both indices wrap, and enough     *)
(* accepted bytes for every cell to be written twice.                      *)
(***************************************************************************)
EXTENDS RxBuffer

CONSTANT MaxAccepted   \* bound on the history, and so on the run

Bound == Len(accepted) <= MaxAccepted
=============================================================================
