------------------------------ MODULE CaseLife ------------------------------
(***************************************************************************)
(* What the recovery of failed payments promises, without attempts, locks, *)
(* actions, calls and promises: a payment that fails has an active case    *)
(* from then on until money for it arrives, never two of them, and a case  *)
(* belongs to one payment for good.  The money closes the case it was due  *)
(* for; a closed case may be opened again, before that money or after it,  *)
(* but only beside no other active one.                                    *)
(***************************************************************************)
CONSTANTS Payments, Cases, None

VARIABLES
  stage,  \* where each case stands
  owner,  \* the payment each case is about
  due,    \* payments that have failed and wait for money
  paid    \* payments that have ever got money

life == <<stage, owner, due, paid>>

TypeOK ==
  /\ stage \in [Cases -> {"none", "active", "closed"}]
  /\ owner \in [Cases -> Payments \cup {None}]
  /\ due \subseteq Payments
  /\ paid \subseteq Payments

Init ==
  /\ stage = [c \in Cases |-> "none"]
  /\ owner = [c \in Cases |-> None]
  /\ due = {}
  /\ paid = {}

ActiveOf(p) == {c \in Cases : stage[c] = "active" /\ owner[c] = p}

Open(c, p) ==
  /\ stage[c] = "none"
  /\ ActiveOf(p) = {}
  /\ stage' = [stage EXCEPT ![c] = "active"]
  /\ owner' = [owner EXCEPT ![c] = p]

\* The failure and its case are one step.
Fail(p) ==
  /\ due' = due \cup {p}
  /\ \/ ActiveOf(p) # {} /\ UNCHANGED <<stage, owner>>
     \/ \E c \in Cases : Open(c, p)
  /\ UNCHANGED paid

\* The money and the end of the case are one step.  Only a payment that does
\* not wait for money may keep an active case, which was opened again.
Pay(p) ==
  /\ due' = due \ {p}
  /\ paid' = paid \cup {p}
  /\ \/ \E c \in ActiveOf(p) : stage' = [stage EXCEPT ![c] = "closed"]
     \/ p \notin due /\ UNCHANGED stage
  /\ UNCHANGED owner

Reopen(c) ==
  /\ stage[c] = "closed"
  /\ ActiveOf(owner[c]) = {}
  /\ stage' = [stage EXCEPT ![c] = "active"]
  /\ UNCHANGED <<owner, due, paid>>

Next ==
  \/ \E p \in Payments : Fail(p) \/ Pay(p)
  \/ \E c \in Cases : Reopen(c)

Spec == Init /\ [][Next]_life
=============================================================================
