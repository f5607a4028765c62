------------------------- MODULE MCActionExecution -------------------------
(***************************************************************************)
(* ActionExecution for TLC: a payment-link action with its notice, and     *)
(* WAIT and other actions as the cfg names them.                           *)
(***************************************************************************)
EXTENDS ActionExecution, TLC

CONSTANTS link, notice, wait

MCNoticeOf == link :> notice

Symmetry == Permutations(Instances)
============================================================================
