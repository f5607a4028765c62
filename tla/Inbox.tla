------------------------------- MODULE Inbox -------------------------------
(***************************************************************************)
(* What the intake of voice webhooks promises, without handlers, calls and *)
(* lookups: an item of the inbox is worked on by one at a time, may fail   *)
(* and be taken up again, has its effect at most once however often that   *)
(* happens, has it only while it is worked on, and stays done when done.   *)
(***************************************************************************)
EXTENDS Naturals

CONSTANT Items

VARIABLES
  state,    \* how far each item has come
  effects   \* how often it has had its effect

TypeOK ==
  /\ state \in [Items -> {"new", "busy", "done", "failed"}]
  /\ effects \in [Items -> 0..1]

Init ==
  /\ state = [i \in Items |-> "new"]
  /\ effects = [i \in Items |-> 0]

Become(i, to) ==
  /\ state' = [state EXCEPT ![i] = to]
  /\ UNCHANGED effects

TakeUp(i) == state[i] \in {"new", "failed"} /\ Become(i, "busy")

Affect(i) ==
  /\ state[i] = "busy"
  /\ effects[i] = 0
  /\ effects' = [effects EXCEPT ![i] = 1]
  /\ UNCHANGED state

Conclude(i) == state[i] = "busy" /\ Become(i, "done")

Miscarry(i) == state[i] = "busy" /\ Become(i, "failed")

Next ==
  \E i \in Items : TakeUp(i) \/ Affect(i) \/ Conclude(i) \/ Miscarry(i)

Spec == Init /\ [][Next]_<<state, effects>>
============================================================================
