----------------------------- MODULE RetryQueue -----------------------------
(***************************************************************************)
(* What the intake and retry of webhook events promises, without handlers, *)
(* batches, locks or crashes: an event is tried by one process at a time,  *)
(* waits for another try only while it has one left, is given up only at   *)
(* the limit, and is done for good.  All of this lasts until an event that *)
(* is neither done nor being tried is delivered again: from then on tries  *)
(* may overlap, and only the count and the limit still stand.  An event    *)
(* may also stay where it is for ever.                                     *)
(***************************************************************************)
EXTENDS Naturals

CONSTANTS Events, Limit

VARIABLES
  stage,    \* where each event stands
  tries,    \* how often it has been tried
  reopened  \* events delivered again before they were done

queue == <<stage, tries, reopened>>

Stages == {"none", "new", "busy", "waiting", "done", "failed"}

TypeOK ==
  /\ stage \in [Events -> Stages]
  /\ tries \in [Events -> Nat]
  /\ reopened \subseteq Events

Init ==
  /\ stage = [e \in Events |-> "none"]
  /\ tries = [e \in Events |-> 0]
  /\ reopened = {}

Move(e, from, to) ==
  /\ stage[e] = from
  /\ stage' = [stage EXCEPT ![e] = to]
  /\ UNCHANGED <<tries, reopened>>

Arrive(e) == Move(e, "none", "new")

\* A try counts when it begins.
Begin(e) ==
  /\ stage' = [stage EXCEPT ![e] = "busy"]
  /\ tries' = [tries EXCEPT ![e] = @ + 1]
  /\ UNCHANGED reopened

Try(e) ==
  /\ stage[e] \in {"new", "waiting"}
  /\ tries[e] < Limit
  /\ Begin(e)

Finish(e) == Move(e, "busy", "done")

Postpone(e) == tries[e] < Limit /\ Move(e, "busy", "waiting")

GiveUp(e) == tries[e] >= Limit /\ Move(e, "busy", "failed")

Reopen(e) ==
  /\ stage[e] \in {"new", "waiting", "failed"}
  /\ reopened' = reopened \cup {e}
  /\ UNCHANGED <<stage, tries>>

\* A reopened event: another try begins, or one of those under way ends.
Overlap(e) ==
  /\ e \in reopened
  /\ \/ Begin(e)
     \/ \E to \in {"done", "waiting"} : Move(e, stage[e], to)
     \/ tries[e] >= Limit /\ Move(e, stage[e], "failed")

Next ==
  \E e \in Events :
    \/ Arrive(e) \/ Try(e) \/ Finish(e) \/ Postpone(e) \/ GiveUp(e)
    \/ Reopen(e) \/ Overlap(e)

Spec == Init /\ [][Next]_queue
=============================================================================
