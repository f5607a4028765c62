-------------------------- MODULE MCWebhookEvents --------------------------
(***************************************************************************)
(* WebhookEvents for TLC.  Deliveries are interchangeable; the runs that   *)
(* check safety only use the symmetry.  Events are not permuted: two rows  *)
(* with equal times keep the roles of older and newer.                     *)
(***************************************************************************)
EXTENDS WebhookEvents, TLC

Symmetry == Permutations(Deliveries)
============================================================================
