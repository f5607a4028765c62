------------------------- MODULE MCPaymentRecovery -------------------------
(***************************************************************************)
(* PaymentRecovery for TLC: handlers are interchangeable.                  *)
(***************************************************************************)
EXTENDS PaymentRecovery, TLC

Symmetry == Permutations(Handlers)
============================================================================
