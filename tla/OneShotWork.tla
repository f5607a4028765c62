---------------------------- MODULE OneShotWork ----------------------------
(***************************************************************************)
(* What the execution of recovery actions promises, without workers,       *)
(* batches, locks or crashes: a piece of work is refused or taken, by      *)
(* nobody twice at a time, calls the outside at most once over its life,   *)
(* and is reported done only after that call.  It may stay taken for ever, *)
(* and work that failed may become ready again (src/README.md:412) as long *)
(* as that cannot repeat the call (src/README.md:632).                     *)
(***************************************************************************)
EXTENDS Naturals

CONSTANT Work

VARIABLES
  stage,   \* where each piece of work stands
  calls    \* how often it has called the outside

Stages == {"none", "refused", "ready", "taken", "done", "failed"}

TypeOK == stage \in [Work -> Stages] /\ calls \in [Work -> 0..1]

Init ==
  /\ stage = [w \in Work |-> "none"]
  /\ calls = [w \in Work |-> 0]

Move(w, from, to) ==
  /\ stage[w] = from
  /\ stage' = [stage EXCEPT ![w] = to]
  /\ UNCHANGED calls

Submit(w) == Move(w, "none", "ready") \/ Move(w, "none", "refused")

Take(w) == Move(w, "ready", "taken")

Call(w) ==
  /\ stage[w] = "taken"
  /\ calls[w] = 0
  /\ calls' = [calls EXCEPT ![w] = 1]
  /\ UNCHANGED stage

Done(w) == calls[w] = 1 /\ Move(w, "taken", "done")

GiveUp(w) == Move(w, "taken", "failed")

\* Allowed here, and taken by no step of the code: see FailedIsFinal.
Retry(w) == calls[w] = 0 /\ Move(w, "failed", "ready")

Next ==
  \E w \in Work :
    Submit(w) \/ Take(w) \/ Call(w) \/ Done(w) \/ GiveUp(w) \/ Retry(w)

Spec == Init /\ [][Next]_<<stage, calls>>
============================================================================
