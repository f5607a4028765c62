---------------------- MODULE ActionExecution_proofs ----------------------
(***************************************************************************)
(* Proofs about ActionExecution, for any sets of actions, notices, workers *)
(* and schedulers and any number of faults.                                *)
(***************************************************************************)
EXTENDS ActionExecution, FiniteSetTheorems, TLAPS

(* Which actions write which variable.                                     *)

\* The actions that write the table.
LEMMA ActionWriters ==
  [Next]_vars =>
    \/ UNCHANGED action
    \/ \E a \in Actions : Create(a)
    \/ \E i \in Instances :
         \/ Claim(i) \/ Run(i) \/ Notify(i) \/ RecordSent(i) \/ RecordUnsent(i)
         \/ Finish(i) \/ Fail(i)
    \/ \E w \in Schedulers : WaitClaim(w) \/ WaitResume(w) \/ WaitCallFails(w)
    \/ \E a \in Rows : LockTimesOut(a) \/ WaitTimeComes(a)
  BY DEF Next, vars, ExecutorStep, WaiterStep, Poll, Start, Send,
         ExecutorCallFails, WaitPoll, Crash

\* The actions that write the workers' records.
LEMMA ExecutorWriters ==
  [Next]_vars =>
    \/ UNCHANGED executor
    \/ \E i \in Instances : ExecutorStep(i) \/ ExecutorCallFails(i)
    \/ \E p \in Instances \cup Schedulers : Crash(p)
  BY DEF Next, vars, WaiterStep, Create, WaitPoll, WaitClaim, WaitResume,
         WaitCallFails, LockTimesOut, WaitTimeComes

\* The actions that write the WAIT schedulers' records.
LEMMA WaiterWriters ==
  [Next]_vars =>
    \/ UNCHANGED waiter
    \/ \E w \in Schedulers : WaiterStep(w) \/ WaitCallFails(w)
    \/ \E p \in Instances \cup Schedulers : Crash(p)
  BY DEF Next, vars, ExecutorStep, Create, Poll, Start, Claim, Run, Notify,
         Send, RecordSent, RecordUnsent, Finish, Fail, ExecutorCallFails,
         LockTimesOut, WaitTimeComes

\* Only the handlers call the outside.
LEMMA EffectsWriters ==
  [Next]_vars => UNCHANGED effects \/ \E i \in Instances : Run(i) \/ Send(i)
  BY DEF Next, vars, ExecutorStep, WaiterStep, Create, Poll, Start, Claim,
         Notify, RecordSent, RecordUnsent, Finish, Fail, ExecutorCallFails,
         WaitPoll, WaitClaim, WaitResume, WaitCallFails, LockTimesOut,
         WaitTimeComes, Crash

----------------------------------------------------------------------------
(* Types.                                                                  *)

ActionTyped == action \in [Rows -> Row]
ExecutorTyped == executor \in [Instances -> Executor]
WaiterTyped == waiter \in [Schedulers -> Waiter]

LinkPc == {"notify", "send", "sent", "unsent"}

\* A worker past its choice has a row, in the notice's steps one of a link.
ExecutorEngaged ==
  \A i \in Instances :
    /\ executor[i].pc # "idle" => executor[i].row \in Rows
    /\ executor[i].pc \in LinkPc => executor[i].row \in Links
WaiterEngaged ==
  \A w \in Schedulers : waiter[w].pc # "idle" => waiter[w].row \in Waits

TypeInv == TypeOK /\ ExecutorEngaged /\ WaiterEngaged

\* The notice of a link action is a row, and no action of the cases.
LEMMA NoticeIsRow ==
  \A a \in Links : NoticeOf[a] \in Rows /\ NoticeOf[a] \notin Actions
  BY RowsAssumption DEF Rows

\* The order of the inserts is a number.
LEMMA StoredCount == Cardinality(Stored) + 1 \in Nat
<1>1. IsFiniteSet(Rows)
  BY RowsAssumption, FS_Union DEF Rows
<1> QED
  BY <1>1, FS_Subset, FS_CardinalityType DEF Stored

\* What the steps of a worker do to its record.
LEMMA ExecutorSteps ==
  ASSUME TypeInv, NEW i \in Instances, ExecutorStep(i) \/ ExecutorCallFails(i)
  PROVE  ExecutorTyped' /\ ExecutorEngaged'
<1>0. executor[i] \in Executor /\ Links \subseteq Rows
  BY RowsAssumption DEF TypeInv, TypeOK, Rows
<1> USE DEF TypeInv, TypeOK, ExecutorTyped, ExecutorEngaged, Executor,
            ExecutorPc, LinkPc
<1>1. CASE Poll(i)
  BY <1>0, <1>1 DEF Poll, Oldest
<1>2. CASE Start(i)
  BY <1>0, <1>2 DEF Start
<1>3. CASE Claim(i)
  BY <1>0, <1>3 DEF Claim
<1>4. CASE Run(i)
  <2>1. CASE executor[i].row \in Links
    BY <1>0, <1>4, <2>1 DEF Run
  <2>2. CASE executor[i].row \notin Links
    BY <1>0, <1>4, <2>2 DEF Run
  <2> QED
    BY <2>1, <2>2
<1>5. CASE Notify(i)
  BY <1>0, <1>5 DEF Notify
<1>6. CASE Send(i)
  BY <1>0, <1>6 DEF Send
<1>7. CASE RecordSent(i)
  BY <1>0, <1>7 DEF RecordSent
<1>8. CASE RecordUnsent(i)
  BY <1>0, <1>8 DEF RecordUnsent
<1>9. CASE Finish(i)
  BY <1>0, <1>9 DEF Finish
<1>10. CASE Fail(i)
  BY <1>0, <1>10 DEF Fail
<1>11. CASE ExecutorCallFails(i)
  BY <1>0, <1>11 DEF ExecutorCallFails
<1> QED
  BY <1>1, <1>2, <1>3, <1>4, <1>5, <1>6, <1>7, <1>8, <1>9, <1>10, <1>11
     DEF ExecutorStep

\* What the steps of a WAIT scheduler do to its record.
LEMMA WaiterSteps ==
  ASSUME TypeInv, NEW w \in Schedulers, WaiterStep(w) \/ WaitCallFails(w)
  PROVE  WaiterTyped' /\ WaiterEngaged'
<1>0. waiter[w] \in Waiter
  BY DEF TypeInv, TypeOK
<1> USE DEF TypeInv, TypeOK, WaiterTyped, WaiterEngaged, Waiter
<1>1. CASE WaitPoll(w)
  BY <1>0, <1>1 DEF WaitPoll
<1>2. CASE WaitClaim(w)
  BY <1>0, <1>2 DEF WaitClaim
<1>3. CASE WaitResume(w)
  BY <1>0, <1>3 DEF WaitResume
<1>4. CASE WaitCallFails(w)
  <2>1. CASE waiter' = [waiter EXCEPT ![w].pc = "idle", ![w].row = None]
    BY <1>0, <2>1
  <2>2. CASE waiter' = [waiter EXCEPT ![w] = Idle]
    BY <1>0, <2>2 DEF Idle
  <2> QED
    BY <1>4, <2>1, <2>2 DEF WaitCallFails
<1> QED
  BY <1>1, <1>2, <1>3, <1>4 DEF WaiterStep

\* A crash leaves well-formed workers and schedulers behind.
LEMMA CrashSteps ==
  ASSUME TypeInv, NEW p \in Instances \cup Schedulers, Crash(p)
  PROVE  /\ ExecutorTyped' /\ ExecutorEngaged'
         /\ WaiterTyped' /\ WaiterEngaged'
<1>1. ExecutorTyped' /\ ExecutorEngaged'
  BY DEF Crash, TypeInv, TypeOK, ExecutorTyped, ExecutorEngaged, Executor,
         ExecutorPc, Idle, LinkPc
<1>2. WaiterTyped' /\ WaiterEngaged'
  BY DEF Crash, TypeInv, TypeOK, WaiterTyped, WaiterEngaged, Waiter, Idle
<1> QED
  BY <1>1, <1>2

\* What a step does to the rows, one case per write.
LEMMA ActionSteps == TypeInv /\ [Next]_vars => ActionTyped'
<1> SUFFICES ASSUME TypeInv, [Next]_vars PROVE ActionTyped'
  OBVIOUS
<1>0. action \in [Rows -> Row]
  BY DEF TypeInv, TypeOK
<1> USE DEF ActionTyped, Row, Statuses
<1>1. ASSUME NEW a \in Actions, Create(a) PROVE ActionTyped'
  <2>1. PICK verdict \in {"APPROVED", "REJECTED"} :
          action' = [action EXCEPT ![a].status = verdict,
                                   ![a].createdAt = Cardinality(Stored) + 1]
    BY <1>1 DEF Create
  <2>2. a \in Rows /\ verdict \in Statuses
    BY <2>1 DEF Rows
  <2> DEFINE new == [action[a] EXCEPT !.status = verdict,
                                      !.createdAt = Cardinality(Stored) + 1]
  <2>3. new \in Row
    BY <1>0, <2>2, StoredCount
  <2>4. action' = [action EXCEPT ![a] = new]
    BY <1>0, <2>1, <2>2
  <2> QED
    BY <1>0, <2>2, <2>3, <2>4
<1>2. ASSUME NEW i \in Instances,
             Claim(i) \/ Run(i) \/ Finish(i) \/ Fail(i)
      PROVE  ActionTyped'
  <2>0. executor[i].row \in Rows
    BY <1>2 DEF TypeInv, ExecutorEngaged, Claim, Run, Finish, Fail
  <2>1. CASE Claim(i)
    BY <1>0, <2>0, <2>1 DEF Claim
  <2>2. CASE Run(i)
    BY <1>0, <2>0, <2>2 DEF Run
  <2>3. CASE Finish(i)
    BY <1>0, <2>0, <2>3 DEF Finish
  <2>4. CASE Fail(i)
    BY <1>0, <2>0, <2>4 DEF Fail
  <2> QED
    BY <1>2, <2>1, <2>2, <2>3, <2>4
<1>3. ASSUME NEW i \in Instances,
             Notify(i) \/ RecordSent(i) \/ RecordUnsent(i)
      PROVE  ActionTyped'
  <2>0. NoticeOf[executor[i].row] \in Rows
    BY <1>3, NoticeIsRow
       DEF TypeInv, ExecutorEngaged, LinkPc, Notify, RecordSent, RecordUnsent
  <2>a. PICK n : n = NoticeOf[executor[i].row]
    OBVIOUS
  <2>b. n \in Rows /\ action[n] \in Row
    BY <1>0, <2>0, <2>a
  <2>1. CASE Notify(i)
    <3> DEFINE new == [action[n] EXCEPT !.status = "APPROVED",
                                        !.createdAt = Cardinality(Stored) + 1]
    <3>1. new \in Row
      BY <2>b, StoredCount
    <3>2. action' = [action EXCEPT ![n].status = "APPROVED",
                                   ![n].createdAt = Cardinality(Stored) + 1]
      BY <2>a, <2>1 DEF Notify
    <3>3. action' = [action EXCEPT ![n] = new]
      BY <1>0, <2>b, <3>2
    <3> QED
      BY <1>0, <2>b, <3>1, <3>3
  <2>2. CASE RecordSent(i)
    <3>1. action' = [action EXCEPT ![n].status = "COMPLETED",
                                   ![n].executed = TRUE]
      BY <2>a, <2>2 DEF RecordSent
    <3> DEFINE new == [action[n] EXCEPT !.status = "COMPLETED",
                                        !.executed = TRUE]
    <3>2. new \in Row
      BY <2>b
    <3>3. action' = [action EXCEPT ![n] = new]
      BY <1>0, <2>b, <3>1
    <3> QED
      BY <1>0, <2>b, <3>2, <3>3
  <2>3. CASE RecordUnsent(i)
    BY <1>0, <2>0, <2>3 DEF RecordUnsent
  <2> QED
    BY <1>3, <2>1, <2>2, <2>3
<1>4. ASSUME NEW w \in Schedulers,
             WaitClaim(w) \/ WaitResume(w) \/ WaitCallFails(w)
      PROVE  ActionTyped'
  <2>0. /\ waiter[w].batch \subseteq Rows
        /\ waiter[w].pc = "resume" => waiter[w].row \in Rows
    BY RowsAssumption DEF TypeInv, TypeOK, WaiterEngaged, Waiter, Rows
  <2>1. CASE WaitClaim(w)
    <3>1. PICK a \in Rows :
            \/ action' = [action EXCEPT ![a].lockedAt = "held"]
            \/ action' = action
      BY <2>0, <2>1 DEF WaitClaim
    <3> QED
      BY <1>0, <3>1
  <2>2. CASE WaitResume(w)
    <3>1. PICK a \in Rows :
            action' = [action EXCEPT ![a].waitDone = TRUE,
                                     ![a].lockedAt = "null"]
      BY <2>0, <2>2 DEF WaitResume
    <3> DEFINE new == [action[a] EXCEPT !.waitDone = TRUE, !.lockedAt = "null"]
    <3>2. new \in Row
      BY <1>0
    <3>3. action' = [action EXCEPT ![a] = new]
      BY <1>0, <3>1
    <3> QED
      BY <1>0, <3>2, <3>3
  <2>3. CASE WaitCallFails(w)
    BY <1>0, <2>0, <2>3 DEF WaitCallFails
  <2> QED
    BY <1>4, <2>1, <2>2, <2>3
<1>5. ASSUME NEW a \in Rows, LockTimesOut(a) \/ WaitTimeComes(a)
      PROVE  ActionTyped'
  BY <1>0, <1>5 DEF LockTimesOut, WaitTimeComes
<1>6. CASE UNCHANGED action
  BY <1>0, <1>6
<1> QED
  BY <1>1, <1>2, <1>3, <1>4, <1>5, <1>6, ActionWriters

\* The history of the calls keeps its type, and the faults keep their bound.
LEMMA HistorySteps ==
  TypeInv /\ [Next]_vars =>
    effects' \in [Rows -> Nat] /\ faults' \in 0..MaxFaults
<1> SUFFICES ASSUME TypeInv, [Next]_vars
             PROVE  effects' \in [Rows -> Nat] /\ faults' \in 0..MaxFaults
  OBVIOUS
<1>0. effects \in [Rows -> Nat] /\ faults \in 0..MaxFaults /\ MaxFaults \in Nat
  BY ProcessesAssumption DEF TypeInv, TypeOK
<1>1. effects' \in [Rows -> Nat]
  <2>1. ASSUME NEW i \in Instances, Run(i) PROVE effects' \in [Rows -> Nat]
    BY <1>0, <2>1 DEF Run
  <2>2. ASSUME NEW i \in Instances, Send(i) PROVE effects' \in [Rows -> Nat]
    <3>1. NoticeOf[executor[i].row] \in Rows
      BY <2>2, NoticeIsRow DEF Send, TypeInv, ExecutorEngaged, LinkPc
    <3> QED
      BY <1>0, <2>2, <3>1 DEF Send
  <2> QED
    BY <1>0, <2>1, <2>2, EffectsWriters
<1>2. CASE faults < MaxFaults /\ faults' = faults + 1
  BY <1>0, <1>1, <1>2
<1>3. CASE UNCHANGED faults
  BY <1>0, <1>1, <1>3
<1> QED
  BY <1>2, <1>3
     DEF Next, vars, ExecutorStep, WaiterStep, Create, Poll, Start, Claim, Run,
         Notify, Send, RecordSent, RecordUnsent, Finish, Fail,
         ExecutorCallFails, WaitPoll, WaitClaim, WaitResume, WaitCallFails,
         LockTimesOut, WaitTimeComes, Crash

\* Every step of workers, schedulers and the environment keeps the types.
LEMMA NextTypeInv == TypeInv /\ [Next]_vars => TypeInv'
<1> SUFFICES ASSUME TypeInv, [Next]_vars PROVE TypeInv'
  OBVIOUS
<1>0. ExecutorTyped /\ ExecutorEngaged /\ WaiterTyped /\ WaiterEngaged
  BY DEF TypeInv, TypeOK, ExecutorTyped, WaiterTyped
<1>1. ExecutorTyped' /\ ExecutorEngaged'
  <2>1. CASE UNCHANGED executor
    BY <1>0, <2>1 DEF ExecutorTyped, ExecutorEngaged
  <2> QED
    BY <2>1, ExecutorWriters, ExecutorSteps, CrashSteps
<1>2. WaiterTyped' /\ WaiterEngaged'
  <2>1. CASE UNCHANGED waiter
    BY <1>0, <2>1 DEF WaiterTyped, WaiterEngaged
  <2> QED
    BY <2>1, WaiterWriters, WaiterSteps, CrashSteps
<1> QED
  BY <1>1, <1>2, ActionSteps, HistorySteps
     DEF TypeInv, TypeOK, ActionTyped, ExecutorTyped, WaiterTyped

\* The empty table and idle processes are well typed.
LEMMA InitTypeInv == Init => TypeInv
<1> SUFFICES ASSUME Init PROVE TypeInv
  OBVIOUS
<1>1. action \in [Rows -> Row]
  BY DEF Init, NoRow, Row, Statuses
<1>2. executor \in [Instances -> Executor] /\ ExecutorEngaged
  BY DEF Init, Idle, Executor, ExecutorPc, ExecutorEngaged, LinkPc
<1>3. waiter \in [Schedulers -> Waiter] /\ WaiterEngaged
  BY DEF Init, Idle, Waiter, WaiterEngaged
<1> QED
  BY <1>1, <1>2, <1>3, ProcessesAssumption DEF Init, TypeInv, TypeOK

\* Every row, worker and scheduler always has its declared shape.
THEOREM TypeCorrect == Spec => []TypeOK
<1>1. TypeInv => TypeOK
  BY DEF TypeInv
<1> QED
  BY <1>1, InitTypeInv, NextTypeInv, PTL DEF Spec

----------------------------------------------------------------------------
(* One execution per action, and one call to the outside.                  *)

Late == {"notify", "send", "sent", "unsent", "finish"}

\* The strengthening: who runs the action sees it EXECUTING, alone; the call
\* has been made exactly when the worker is past "run", or the row is
\* COMPLETED; and nothing was called before the claim.
Sound(a) ==
  /\ effects[a] \in 0..1
  /\ action[a].status \in {"ABSENT", "REJECTED", "APPROVED"} => effects[a] = 0
  /\ action[a].status = "COMPLETED" => effects[a] = 1
  /\ \A i \in Instances :
       Runs(i, a) => /\ action[a].status = "EXECUTING"
                     /\ executor[i].pc = "run" => effects[a] = 0
                     /\ executor[i].pc \in Late => effects[a] = 1
  /\ \A i, j \in Instances : Runs(i, a) /\ Runs(j, a) => i = j

SoundInv == \A a \in Actions : Sound(a)

\* Sound(a) needs no argument when neither the status nor the calls of a
\* change, and no worker begins with a or goes back before its call.
LEMMA SoundFrame ==
  ASSUME NEW a \in Actions, Sound(a),
         action'[a].status = action[a].status,
         effects'[a] = effects[a],
         \A i \in Instances :
           Runs(i, a)' => /\ Runs(i, a)
                          /\ executor'[i].pc = "run" => executor[i].pc = "run"
                          /\ executor'[i].pc \in Late => executor[i].pc \in Late
  PROVE  Sound(a)'
  BY DEF Sound

\* The workers' steps keep Sound.
LEMMA SoundExecutorSteps ==
  ASSUME TypeInv, NEW a \in Actions, Sound(a), NEW i \in Instances,
         ExecutorStep(i) \/ ExecutorCallFails(i)
  PROVE  Sound(a)'
<1>0. /\ action \in [Rows -> Row] /\ effects \in [Rows -> Nat]
      /\ executor \in [Instances -> Executor] /\ executor[i] \in Executor
      /\ a \in Rows
  BY DEF TypeInv, TypeOK, Rows
<1>1. executor[i].pc \in LinkPc => NoticeOf[executor[i].row] # a
  BY NoticeIsRow DEF TypeInv, ExecutorEngaged
<1> USE DEF Runs, Late, Executor
<1>2. CASE Poll(i)
  <2>1. /\ UNCHANGED <<action, effects>>
        /\ \A j \in Instances : executor'[j].pc = executor[j].pc
        /\ \A j \in Instances : executor'[j].row = executor[j].row
    BY <1>0, <1>2 DEF Poll
  <2> QED
    BY <2>1, SoundFrame
<1>3. CASE Start(i)
  <2>1. /\ UNCHANGED <<action, effects>>
        /\ \A j \in Instances : j # i => executor'[j] = executor[j]
        /\ executor'[i].pc \in {"idle", "claim"}
    BY <1>0, <1>3 DEF Start
  <2> QED
    BY <2>1, SoundFrame
<1>4. CASE Claim(i)
  <2>0. /\ UNCHANGED effects
        /\ \A j \in Instances : j # i => executor'[j] = executor[j]
    BY <1>0, <1>4 DEF Claim
  <2>1. CASE executor[i].row = a /\ executor'[i].pc = "run"
    <3>1. /\ action[a].status = "APPROVED"
          /\ action'[a].status = "EXECUTING"
          /\ executor'[i].row = a
      BY <1>0, <1>4, <2>1 DEF Claim, Row
    <3>2. \A j \in Instances : ~Runs(j, a)
      BY <3>1 DEF Sound
    <3>3. \A j \in Instances : Runs(j, a)' => j = i
      BY <2>0, <3>2
    <3> QED
      BY <2>0, <2>1, <3>1, <3>3 DEF Sound
  <2>2. CASE ~(executor[i].row = a /\ executor'[i].pc = "run")
    <3>1. /\ action'[a].status = action[a].status
          /\ ~Runs(i, a)'
      BY <1>0, <1>4, <2>2 DEF Claim, Row
    <3> QED
      BY <2>0, <3>1, SoundFrame
  <2> QED
    BY <2>1, <2>2
<1>5. CASE Run(i)
  <2>0. /\ \A j \in Instances : j # i => executor'[j] = executor[j]
        /\ executor'[i].row = executor[i].row
        /\ executor'[i].pc \in {"fail", "notify", "finish"}
        /\ action'[a].status = action[a].status
    BY <1>0, <1>5 DEF Run, Row
  <2>1. CASE executor[i].row = a
    <3>1. Runs(i, a) /\ executor[i].pc = "run"
      BY <1>5, <2>1 DEF Run
    <3>2. /\ action[a].status = "EXECUTING" /\ effects[a] = 0
          /\ \A j \in Instances : Runs(j, a) => j = i
      BY <3>1 DEF Sound
    <3>3. /\ effects'[a] \in 0..1
          /\ executor'[i].pc \in Late => effects'[a] = 1
      BY <1>0, <1>5, <2>1, <3>2 DEF Run
    <3>4. \A j \in Instances : Runs(j, a)' => j = i
      BY <2>0, <3>2
    <3> QED
      BY <2>0, <3>2, <3>3, <3>4 DEF Sound
  <2>2. CASE executor[i].row # a
    <3>1. effects'[a] = effects[a]
      BY <1>0, <1>5, <2>2 DEF Run
    <3> QED
      BY <2>0, <2>2, <3>1, SoundFrame
  <2> QED
    BY <2>1, <2>2
<1>6. CASE Notify(i) \/ Send(i) \/ RecordSent(i) \/ RecordUnsent(i)
  <2>1. action'[a].status = action[a].status /\ effects'[a] = effects[a]
    <3>1. CASE Notify(i)
      BY <1>0, <1>1, <3>1 DEF Notify, LinkPc
    <3>2. CASE Send(i)
      BY <1>0, <1>1, <3>2 DEF Send, LinkPc
    <3>3. CASE RecordSent(i)
      BY <1>0, <1>1, <3>3 DEF RecordSent, LinkPc
    <3>4. CASE RecordUnsent(i)
      BY <1>0, <1>1, <3>4 DEF RecordUnsent, LinkPc
    <3> QED
      BY <1>6, <3>1, <3>2, <3>3, <3>4
  <2>2. /\ \A j \in Instances : j # i => executor'[j] = executor[j]
        /\ executor'[i].row = executor[i].row
        /\ executor[i].pc \in Late /\ executor'[i].pc # "run"
    BY <1>0, <1>6 DEF Notify, Send, RecordSent, RecordUnsent
  <2> QED
    BY <2>1, <2>2, SoundFrame
<1>7. CASE Finish(i) \/ Fail(i)
  <2>0. /\ UNCHANGED effects
        /\ \A j \in Instances : j # i => executor'[j] = executor[j]
        /\ ~Runs(i, a)'
    BY <1>0, <1>7 DEF Finish, Fail
  <2>1. CASE executor[i].row = a
    <3>1. Runs(i, a)
      BY <1>7, <2>1 DEF Finish, Fail
    <3>2. \A j \in Instances : ~Runs(j, a)'
      BY <2>0, <3>1 DEF Sound
    <3>3. effects[a] \in 0..1 /\ (executor[i].pc = "finish" => effects[a] = 1)
      BY <3>1 DEF Sound
    <3>4. \/ executor[i].pc = "finish" /\ action'[a].status = "COMPLETED"
          \/ action'[a].status = "FAILED"
      BY <1>0, <1>7, <2>1 DEF Finish, Fail, Row
    <3> QED
      BY <2>0, <3>2, <3>3, <3>4 DEF Sound
  <2>2. CASE executor[i].row # a
    <3>1. action'[a].status = action[a].status
      BY <1>0, <1>7, <2>2 DEF Finish, Fail
    <3> QED
      BY <2>0, <3>1, SoundFrame
  <2> QED
    BY <2>1, <2>2
<1>8. CASE ExecutorCallFails(i)
  <2>1. /\ UNCHANGED <<action, effects>>
        /\ \A j \in Instances : j # i => executor'[j] = executor[j]
        /\ \/ executor'[i].pc = "idle"
           \/ /\ executor'[i].pc = "fail" /\ executor[i].pc \in Late
              /\ executor'[i].row = executor[i].row
    BY <1>0, <1>8 DEF ExecutorCallFails
  <2> QED
    BY <2>1, SoundFrame
<1> QED
  BY <1>2, <1>3, <1>4, <1>5, <1>6, <1>7, <1>8 DEF ExecutorStep

\* No step of the system breaks Sound.
LEMMA SoundSteps == TypeInv /\ SoundInv /\ [Next]_vars => SoundInv'
<1> SUFFICES ASSUME TypeInv, SoundInv, [Next]_vars, NEW a \in Actions
             PROVE  Sound(a)'
  BY DEF SoundInv
<1>0. /\ Sound(a) /\ a \in Rows
      /\ action \in [Rows -> Row] /\ effects \in [Rows -> Nat]
  BY DEF SoundInv, TypeInv, TypeOK, Rows
<1>1. ASSUME NEW b \in Actions, Create(b) PROVE Sound(a)'
  <2>0. UNCHANGED <<effects, executor>>
    BY <1>1 DEF Create
  <2>1. CASE a = b
    <3>1. /\ action[a].status = "ABSENT"
          /\ action'[a].status \in {"APPROVED", "REJECTED"}
      BY <1>0, <1>1, <2>1 DEF Create, Row
    <3> QED
      BY <1>0, <2>0, <3>1 DEF Sound, Runs
  <2>2. CASE a # b
    <3>1. action'[a] = action[a]
      BY <1>0, <1>1, <2>2 DEF Create
    <3> QED
      BY <1>0, <2>0, <3>1, SoundFrame DEF Runs
  <2> QED
    BY <2>1, <2>2
<1>2. ASSUME NEW w \in Schedulers, WaiterStep(w) \/ WaitCallFails(w)
      PROVE  Sound(a)'
  <2>1. UNCHANGED <<effects, executor>>
    BY <1>2 DEF WaiterStep, WaitPoll, WaitClaim, WaitResume, WaitCallFails
  <2>2. action'[a].status = action[a].status
    <3>1. CASE WaitPoll(w)
      BY <3>1 DEF WaitPoll
    <3>2. CASE WaitClaim(w)
      BY <1>0, <3>2 DEF WaitClaim, Row
    <3>3. CASE WaitResume(w)
      BY <1>0, <3>3 DEF WaitResume, Row
    <3>4. CASE WaitCallFails(w)
      BY <1>0, <3>4 DEF WaitCallFails, Row
    <3> QED
      BY <1>2, <3>1, <3>2, <3>3, <3>4 DEF WaiterStep
  <2> QED
    BY <1>0, <2>1, <2>2, SoundFrame DEF Runs
<1>3. ASSUME NEW b \in Rows, LockTimesOut(b) \/ WaitTimeComes(b)
      PROVE  Sound(a)'
  <2>1. /\ UNCHANGED <<effects, executor>>
        /\ action'[a].status = action[a].status
    BY <1>0, <1>3 DEF LockTimesOut, WaitTimeComes, Row
  <2> QED
    BY <1>0, <2>1, SoundFrame DEF Runs
<1>4. ASSUME NEW p \in Instances \cup Schedulers, Crash(p) PROVE Sound(a)'
  <2>1. /\ UNCHANGED <<action, effects>>
        /\ \A i \in Instances :
             executor'[i] = executor[i] \/ executor'[i].pc = "idle"
    BY <1>4 DEF Crash, Idle
  <2> QED
    BY <1>0, <2>1, SoundFrame DEF Runs
<1>5. CASE UNCHANGED vars
  BY <1>0, <1>5, SoundFrame DEF vars, Runs
<1> QED
  BY <1>0, <1>1, <1>2, <1>3, <1>4, <1>5, SoundExecutorSteps DEF Next

\* Nobody runs anything, and nothing was called, before the first insert.
LEMMA InitSound == Init => SoundInv
  BY DEF Init, SoundInv, Sound, Runs, NoRow, Idle, Rows

\* Two workers are never inside the handler of the same action.
THEOREM ExecutedByOne == Spec => []ExclusiveExecution
<1>1. SoundInv => ExclusiveExecution
  BY DEF SoundInv, Sound, ExclusiveExecution
<1> QED
  BY <1>1, InitTypeInv, NextTypeInv, InitSound, SoundSteps, PTL DEF Spec

\* The outward work of an action is done at most once, whatever fails.
THEOREM CalledOnce == Spec => []EffectAtMostOnce
<1>1. SoundInv => EffectAtMostOnce
  BY DEF SoundInv, Sound, EffectAtMostOnce
<1> QED
  BY <1>1, InitTypeInv, NextTypeInv, InitSound, SoundSteps, PTL DEF Spec

\* An execution is under way as long as nothing fails.
Carried(a) ==
  action[a].status = "EXECUTING" => \E i \in Instances : Runs(i, a)

CarriedInv == faults = 0 => \A a \in Actions : Carried(a)

\* A worker leaves an action only by writing its result.
LEMMA CarriedExecutorSteps ==
  ASSUME TypeInv, NEW a \in Actions, Carried(a), NEW i \in Instances,
         ExecutorStep(i)
  PROVE  Carried(a)'
<1>0. /\ action \in [Rows -> Row] /\ executor \in [Instances -> Executor]
      /\ executor[i] \in Executor /\ a \in Rows
  BY DEF TypeInv, TypeOK, Rows
<1>1. executor[i].pc \in LinkPc => NoticeOf[executor[i].row] # a
  BY NoticeIsRow DEF TypeInv, ExecutorEngaged
<1> USE DEF Carried, Runs, Executor
\* A step within the handler, or of a worker outside of it.
<1>2. ASSUME action'[a].status = action[a].status,
             \A j \in Instances : j # i => executor'[j] = executor[j],
             Runs(i, a) => Runs(i, a)'
      PROVE  Carried(a)'
  BY <1>2
<1>3. CASE Poll(i)
  BY <1>0, <1>2, <1>3 DEF Poll
<1>4. CASE Start(i)
  BY <1>0, <1>2, <1>4 DEF Start
<1>5. CASE Claim(i)
  <2>1. \A j \in Instances : j # i => executor'[j] = executor[j]
    BY <1>0, <1>5 DEF Claim
  <2>2. ~Runs(i, a)
    BY <1>5 DEF Claim
  <2>3. CASE executor[i].row = a /\ executor'[i].pc = "run"
    BY <1>0, <1>5, <2>3 DEF Claim
  <2>4. CASE ~(executor[i].row = a /\ executor'[i].pc = "run")
    <3>1. action'[a].status = action[a].status
      BY <1>0, <1>5, <2>4 DEF Claim
    <3> QED
      BY <1>2, <2>1, <2>2, <3>1
  <2> QED
    BY <2>3, <2>4
<1>6. CASE Run(i)
  <2>1. action'[a].status = action[a].status
    BY <1>0, <1>6 DEF Run, Row
  <2>2. /\ \A j \in Instances : j # i => executor'[j] = executor[j]
        /\ Runs(i, a) => Runs(i, a)'
    BY <1>0, <1>6 DEF Run
  <2> QED
    BY <1>2, <2>1, <2>2
<1>7. CASE Notify(i)
  BY <1>0, <1>1, <1>2, <1>7 DEF Notify, LinkPc
<1>8. CASE Send(i)
  BY <1>0, <1>1, <1>2, <1>8 DEF Send, LinkPc
<1>9. CASE RecordSent(i)
  BY <1>0, <1>1, <1>2, <1>9 DEF RecordSent, LinkPc
<1>10. CASE RecordUnsent(i)
  BY <1>0, <1>1, <1>2, <1>10 DEF RecordUnsent, LinkPc
<1>11. CASE Finish(i) \/ Fail(i)
  <2>1. \A j \in Instances : j # i => executor'[j] = executor[j]
    BY <1>0, <1>11 DEF Finish, Fail
  <2>2. CASE executor[i].row = a
    <3>1. action'[a].status # "EXECUTING"
      BY <1>0, <1>11, <2>2 DEF Finish, Fail, Row
    <3> QED
      BY <3>1
  <2>3. CASE executor[i].row # a
    <3>1. action'[a].status = action[a].status
      BY <1>0, <1>11, <2>3 DEF Finish, Fail
    <3> QED
      BY <1>2, <2>1, <2>3, <3>1
  <2> QED
    BY <2>2, <2>3
<1> QED
  BY <1>3, <1>4, <1>5, <1>6, <1>7, <1>8, <1>9, <1>10, <1>11 DEF ExecutorStep

\* No step but a fault takes an action from its worker.
LEMMA CarriedSteps == TypeInv /\ CarriedInv /\ [Next]_vars => CarriedInv'
<1> SUFFICES ASSUME TypeInv, CarriedInv, [Next]_vars, faults' = 0,
                    NEW a \in Actions
             PROVE  Carried(a)'
  BY DEF CarriedInv
<1>0. /\ faults \in Nat /\ faults + 1 # 0
      /\ action \in [Rows -> Row] /\ a \in Rows
  BY ProcessesAssumption DEF TypeInv, TypeOK, Rows
<1>1. /\ \A i \in Instances : ~ExecutorCallFails(i)
      /\ \A w \in Schedulers : ~WaitCallFails(w)
      /\ \A p \in Instances \cup Schedulers : ~Crash(p)
  BY <1>0 DEF ExecutorCallFails, WaitCallFails, Crash
<1>2. faults = 0
  BY <1>1 DEF Next, vars, ExecutorStep, WaiterStep, Create, Poll, Start, Claim,
         Run, Notify, Send, RecordSent, RecordUnsent, Finish, Fail, WaitPoll,
         WaitClaim, WaitResume, LockTimesOut, WaitTimeComes
<1>3. Carried(a)
  BY <1>2 DEF CarriedInv
<1>4. ASSUME UNCHANGED executor,
             action'[a].status = "EXECUTING" => action[a].status = "EXECUTING"
      PROVE  Carried(a)'
  BY <1>3, <1>4 DEF Carried, Runs
<1>5. ASSUME NEW b \in Actions, Create(b) PROVE Carried(a)'
  BY <1>0, <1>4, <1>5 DEF Create, Row
<1>6. ASSUME NEW w \in Schedulers, WaiterStep(w) PROVE Carried(a)'
  <2>1. CASE WaitPoll(w)
    BY <1>4, <2>1 DEF WaitPoll
  <2>2. CASE WaitClaim(w)
    BY <1>0, <1>4, <2>2 DEF WaitClaim, Row
  <2>3. CASE WaitResume(w)
    BY <1>0, <1>4, <2>3 DEF WaitResume, Row
  <2> QED
    BY <1>6, <2>1, <2>2, <2>3 DEF WaiterStep
<1>7. ASSUME NEW b \in Rows, LockTimesOut(b) \/ WaitTimeComes(b)
      PROVE  Carried(a)'
  BY <1>0, <1>4, <1>7 DEF LockTimesOut, WaitTimeComes, Row
<1>8. CASE UNCHANGED vars
  BY <1>4, <1>8 DEF vars
<1> QED
  BY <1>1, <1>3, <1>5, <1>6, <1>7, <1>8, CarriedExecutorSteps DEF Next

LEMMA InitCarried == Init => CarriedInv
  BY DEF Init, CarriedInv, Carried, NoRow, Rows

\* COMPLETED means done once; REJECTED and APPROVED mean not done; EXECUTING
\* means in some worker's hands, unless a fault took it from them.
THEOREM StatusIsTrue == Spec => []StatusTellsEffect
<1>1. TypeInv /\ SoundInv /\ CarriedInv => StatusTellsEffect
  <2> SUFFICES ASSUME TypeInv, SoundInv, CarriedInv PROVE StatusTellsEffect
    OBVIOUS
  <2>1. faults > 0 \/ faults = 0
    BY ProcessesAssumption DEF TypeInv, TypeOK
  <2> QED
    BY <2>1 DEF SoundInv, Sound, CarriedInv, Carried, StatusTellsEffect
<1> QED
  BY <1>1, InitTypeInv, NextTypeInv, InitSound, SoundSteps, InitCarried,
     CarriedSteps, PTL DEF Spec

----------------------------------------------------------------------------
(* No approved row is locked.  The rows of the notices make this more than *)
(* a look at Create: a notice is inserted once, so the write of APPROVED   *)
(* never meets a row that a worker has claimed.                            *)

Running == {"run", "notify", "send", "sent", "unsent", "finish", "fail"}

\* A worker's row, and the notice it has inserted, are in the table.
RowsKnown ==
  \A i \in Instances :
    /\ executor[i].pc \in Running =>
         action[executor[i].row].status # "ABSENT"
    /\ executor[i].pc \in {"send", "sent", "unsent"} =>
         action[NoticeOf[executor[i].row]].status # "ABSENT"

\* Before its insert nobody has seen the notice of a link.
Fresh(a) ==
  /\ effects[a] = 0 => action[NoticeOf[a]].status = "ABSENT"
  /\ \A i \in Instances :
       executor[i].pc = "notify" /\ executor[i].row = a =>
         action[NoticeOf[a]].status = "ABSENT"

FreshUnlocked ==
  \A a \in Rows :
    action[a].status \in {"ABSENT", "APPROVED"} => action[a].lockedAt = "null"

FreshInv == RowsKnown /\ (\A a \in Links : Fresh(a)) /\ FreshUnlocked

\* No step takes a row out of the table.
LEMMA RowsStay ==
  ASSUME TypeInv, [Next]_vars, NEW r \in Rows, action[r].status # "ABSENT"
  PROVE  action'[r].status # "ABSENT"
<1>0. action \in [Rows -> Row]
  BY DEF TypeInv, TypeOK
<1> USE DEF Row
<1>1. ASSUME NEW a \in Actions, Create(a) PROVE action'[r].status # "ABSENT"
  BY <1>0, <1>1 DEF Create
<1>2. ASSUME NEW i \in Instances,
             \/ Claim(i) \/ Run(i) \/ Notify(i) \/ RecordSent(i)
             \/ RecordUnsent(i) \/ Finish(i) \/ Fail(i)
      PROVE  action'[r].status # "ABSENT"
  <2>1. CASE Claim(i)
    BY <1>0, <2>1 DEF Claim
  <2>2. CASE Run(i)
    BY <1>0, <2>2 DEF Run
  <2>3. CASE Notify(i)
    BY <1>0, <2>3 DEF Notify
  <2>4. CASE RecordSent(i) \/ RecordUnsent(i)
    BY <1>0, <2>4 DEF RecordSent, RecordUnsent
  <2>5. CASE Finish(i) \/ Fail(i)
    BY <1>0, <2>5 DEF Finish, Fail
  <2> QED
    BY <1>2, <2>1, <2>2, <2>3, <2>4, <2>5
<1>3. ASSUME NEW w \in Schedulers,
             WaitClaim(w) \/ WaitResume(w) \/ WaitCallFails(w)
      PROVE  action'[r].status # "ABSENT"
  <2>1. CASE WaitClaim(w)
    BY <1>0, <2>1 DEF WaitClaim
  <2>2. CASE WaitResume(w)
    BY <1>0, <2>2 DEF WaitResume
  <2>3. CASE WaitCallFails(w)
    BY <1>0, <2>3 DEF WaitCallFails
  <2> QED
    BY <1>3, <2>1, <2>2, <2>3
<1>4. ASSUME NEW a \in Rows, LockTimesOut(a) \/ WaitTimeComes(a)
      PROVE  action'[r].status # "ABSENT"
  BY <1>0, <1>4 DEF LockTimesOut, WaitTimeComes
<1> QED
  BY <1>1, <1>2, <1>3, <1>4, ActionWriters

\* How a worker comes to be inside a handler, and to its notice.
KeepsRow(i) == executor'[i].row = executor[i].row
Moved(i) ==
  \/ executor'[i].pc \notin Running
  \/ Claim(i) /\ KeepsRow(i) /\ executor'[i].pc = "run"
  \/ Notify(i) /\ KeepsRow(i)
  \/ /\ KeepsRow(i) /\ executor[i].pc \in Running
     /\ executor'[i].pc \in {"send", "sent", "unsent"} =>
          executor[i].pc \in {"send", "sent", "unsent"}

\* The worker's steps are of these kinds, and change one worker's record.
LEMMA WorkerMoves ==
  ASSUME TypeInv, NEW i \in Instances, ExecutorStep(i) \/ ExecutorCallFails(i)
  PROVE  /\ Moved(i)
         /\ \A j \in Instances : j # i => executor'[j] = executor[j]
<1>0. executor \in [Instances -> Executor] /\ executor[i] \in Executor
  BY DEF TypeInv, TypeOK
<1> USE DEF Moved, KeepsRow, Running, Executor
<1>1. CASE Poll(i)
  BY <1>0, <1>1 DEF Poll
<1>2. CASE Start(i)
  BY <1>0, <1>2 DEF Start
<1>3. CASE Claim(i)
  <2>1. \A j \in Instances : j # i => executor'[j] = executor[j]
    BY <1>0, <1>3 DEF Claim
  <2>2. \/ KeepsRow(i) /\ executor'[i].pc = "run"
        \/ executor'[i].pc = "idle"
    BY <1>0, <1>3 DEF Claim
  <2> QED
    BY <1>3, <2>1, <2>2
<1>4. CASE Run(i)
  BY <1>0, <1>4 DEF Run
<1>5. CASE Notify(i)
  <2>1. \A j \in Instances : j # i => executor'[j] = executor[j]
    BY <1>0, <1>5 DEF Notify
  <2>2. KeepsRow(i)
    BY <1>0, <1>5 DEF Notify
  <2> QED
    BY <1>5, <2>1, <2>2
<1>6. CASE Send(i)
  BY <1>0, <1>6 DEF Send
<1>7. CASE RecordSent(i)
  BY <1>0, <1>7 DEF RecordSent
<1>8. CASE RecordUnsent(i)
  BY <1>0, <1>8 DEF RecordUnsent
<1>9. CASE Finish(i)
  BY <1>0, <1>9 DEF Finish
<1>10. CASE Fail(i)
  BY <1>0, <1>10 DEF Fail
<1>11. CASE ExecutorCallFails(i)
  BY <1>0, <1>11 DEF ExecutorCallFails
<1> QED
  BY <1>1, <1>2, <1>3, <1>4, <1>5, <1>6, <1>7, <1>8, <1>9, <1>10, <1>11
     DEF ExecutorStep

\* A worker comes to its row by a claim, and to its notice by the insert.
LEMMA RowsKnownSteps ==
  TypeInv /\ RowsKnown /\ [Next]_vars => RowsKnown'
<1> SUFFICES ASSUME TypeInv, RowsKnown, [Next]_vars PROVE RowsKnown'
  OBVIOUS
<1>0. /\ action \in [Rows -> Row] /\ executor \in [Instances -> Executor]
      /\ Links \subseteq Rows
  BY RowsAssumption DEF TypeInv, TypeOK, Rows
<1>1. ASSUME NEW j \in Instances,
             \/ executor'[j] = executor[j]
             \/ executor'[j].pc \notin Running
      PROVE  /\ executor'[j].pc \in Running =>
                  action'[executor'[j].row].status # "ABSENT"
             /\ executor'[j].pc \in {"send", "sent", "unsent"} =>
                  action'[NoticeOf[executor'[j].row]].status # "ABSENT"
  <2>1. executor[j].pc \in Running => executor[j].row \in Rows
    BY DEF TypeInv, ExecutorEngaged, Running
  <2>2. executor[j].pc \in {"send", "sent", "unsent"} =>
          NoticeOf[executor[j].row] \in Rows
    BY NoticeIsRow DEF TypeInv, ExecutorEngaged, LinkPc
  <2> QED
    BY <1>1, <2>1, <2>2, RowsStay DEF RowsKnown, Running
<1>2. ASSUME NEW i \in Instances, ExecutorStep(i) \/ ExecutorCallFails(i)
      PROVE  RowsKnown'
  <2>0. /\ Moved(i)
        /\ \A j \in Instances : j # i => executor'[j] = executor[j]
    BY <1>2, WorkerMoves
  <2>1. CASE executor'[i].pc \notin Running
    BY <1>1, <2>0, <2>1 DEF RowsKnown
  <2>2. CASE Claim(i) /\ KeepsRow(i) /\ executor'[i].pc = "run"
    <3>1. executor[i].row \in Rows
      BY <2>2 DEF Claim, TypeInv, ExecutorEngaged
    <3>2. action'[executor[i].row].status # "ABSENT"
      BY <1>0, <2>2, <3>1 DEF Claim, Row, Executor
    <3> QED
      BY <1>1, <2>0, <2>2, <3>2 DEF RowsKnown, KeepsRow
  <2>3. CASE Notify(i) /\ KeepsRow(i)
    <3>1. /\ executor[i].row \in Rows
          /\ NoticeOf[executor[i].row] \in Rows
      BY <2>3, NoticeIsRow DEF Notify, TypeInv, ExecutorEngaged, LinkPc
    <3>2. action'[NoticeOf[executor[i].row]].status # "ABSENT"
      BY <1>0, <2>3, <3>1 DEF Notify, Row
    <3>3. action'[executor[i].row].status # "ABSENT"
      BY <2>3, <3>1, RowsStay DEF Notify, RowsKnown, Running
    <3> QED
      BY <1>1, <2>0, <2>3, <3>2, <3>3 DEF RowsKnown, KeepsRow
  <2>4. CASE /\ KeepsRow(i) /\ executor[i].pc \in Running
             /\ executor'[i].pc \in {"send", "sent", "unsent"} =>
                  executor[i].pc \in {"send", "sent", "unsent"}
    <3>1. executor[i].row \in Rows
      BY <2>4 DEF Running, TypeInv, ExecutorEngaged
    <3>2. executor[i].pc \in {"send", "sent", "unsent"} =>
            NoticeOf[executor[i].row] \in Rows
      BY NoticeIsRow DEF TypeInv, ExecutorEngaged, LinkPc
    <3>3. action'[executor[i].row].status # "ABSENT"
      BY <2>4, <3>1, RowsStay DEF RowsKnown
    <3>4. executor[i].pc \in {"send", "sent", "unsent"} =>
            action'[NoticeOf[executor[i].row]].status # "ABSENT"
      BY <3>2, RowsStay DEF RowsKnown
    <3> QED
      BY <1>1, <2>0, <2>4, <3>3, <3>4 DEF RowsKnown, KeepsRow
  <2> QED
    BY <2>0, <2>1, <2>2, <2>3, <2>4 DEF Moved
<1>3. ASSUME NEW p \in Instances \cup Schedulers, Crash(p) PROVE RowsKnown'
  <2>1. \A j \in Instances :
          executor'[j] = executor[j] \/ executor'[j].pc \notin Running
    BY <1>3 DEF Crash, Idle, Running
  <2> QED
    BY <1>1, <2>1 DEF RowsKnown
<1>4. CASE UNCHANGED executor
  BY <1>1, <1>4 DEF RowsKnown
<1> QED
  BY <1>2, <1>3, <1>4, ExecutorWriters

\* A notice stays out of the table until its own link's handler inserts it.
LEMMA NoticeAbsent ==
  ASSUME TypeInv, RowsKnown, [Next]_vars, NEW a \in Links,
         action[NoticeOf[a]].status = "ABSENT",
         \A i \in Instances : ~(Notify(i) /\ executor[i].row = a)
  PROVE  action'[NoticeOf[a]].status = "ABSENT"
<1> DEFINE n == NoticeOf[a]
<1>0. /\ action \in [Rows -> Row] /\ n \in Rows /\ n \notin Actions
      /\ action[n].status = "ABSENT"
  BY NoticeIsRow DEF TypeInv, TypeOK
<1> HIDE DEF n
<1> USE DEF Row
<1>1. ASSUME NEW b \in Actions, Create(b) PROVE action'[n].status = "ABSENT"
  BY <1>0, <1>1 DEF Create
<1>2. ASSUME NEW i \in Instances,
             \/ Claim(i) \/ Run(i) \/ Notify(i) \/ RecordSent(i)
             \/ RecordUnsent(i) \/ Finish(i) \/ Fail(i)
      PROVE  action'[n].status = "ABSENT"
  <2>1. CASE Claim(i)
    BY <1>0, <2>1 DEF Claim
  <2>2. CASE Run(i)
    BY <1>0, <2>2 DEF Run
  <2>3. CASE Notify(i)
    <3>1. executor[i].row \in Links /\ executor[i].row # a
      BY <2>3 DEF TypeInv, ExecutorEngaged, LinkPc, Notify
    <3>2. NoticeOf[executor[i].row] # n
      BY <3>1, RowsAssumption DEF n
    <3> QED
      BY <1>0, <2>3, <3>2 DEF Notify
  <2>4. CASE RecordSent(i) \/ RecordUnsent(i)
    <3>1. NoticeOf[executor[i].row] # n
      BY <1>0, <2>4 DEF RowsKnown, RecordSent, RecordUnsent
    <3> QED
      BY <1>0, <2>4, <3>1 DEF RecordSent, RecordUnsent
  <2>5. CASE Finish(i) \/ Fail(i)
    <3>1. executor[i].row # n
      BY <1>0, <2>5 DEF RowsKnown, Running, Finish, Fail
    <3> QED
      BY <1>0, <2>5, <3>1 DEF Finish, Fail
  <2> QED
    BY <1>2, <2>1, <2>2, <2>3, <2>4, <2>5
<1>3. ASSUME NEW w \in Schedulers,
             WaitClaim(w) \/ WaitResume(w) \/ WaitCallFails(w)
      PROVE  action'[n].status = "ABSENT"
  <2>1. CASE WaitClaim(w)
    BY <1>0, <2>1 DEF WaitClaim
  <2>2. CASE WaitResume(w)
    BY <1>0, <2>2 DEF WaitResume
  <2>3. CASE WaitCallFails(w)
    BY <1>0, <2>3 DEF WaitCallFails
  <2> QED
    BY <1>3, <2>1, <2>2, <2>3
<1>4. ASSUME NEW b \in Rows, LockTimesOut(b) \/ WaitTimeComes(b)
      PROVE  action'[n].status = "ABSENT"
  BY <1>0, <1>4 DEF LockTimesOut, WaitTimeComes
<1> QED
  BY <1>0, <1>1, <1>2, <1>3, <1>4, ActionWriters DEF n

\* A worker reaches the insert of a notice only by the handler's call.
LEMMA NotifyEntered ==
  ASSUME TypeInv, [Next]_vars, NEW i \in Instances, executor'[i].pc = "notify"
  PROVE  executor'[i] = executor[i] \/ (Run(i) /\ KeepsRow(i))
<1>0. executor \in [Instances -> Executor] /\ executor[i] \in Executor
  BY DEF TypeInv, TypeOK
<1> USE DEF KeepsRow, Executor
<1>1. ASSUME ExecutorStep(i) \/ ExecutorCallFails(i)
      PROVE  Run(i) /\ KeepsRow(i)
  <2>1. CASE Run(i)
    BY <1>0, <2>1 DEF Run
  <2>2. CASE Poll(i)
    BY <1>0, <2>2 DEF Poll
  <2>3. CASE Start(i)
    BY <1>0, <2>3 DEF Start
  <2>4. CASE Claim(i)
    BY <1>0, <2>4 DEF Claim
  <2>5. CASE Notify(i) \/ Send(i) \/ RecordSent(i)
    BY <1>0, <2>5 DEF Notify, Send, RecordSent
  <2>6. CASE RecordUnsent(i) \/ Finish(i) \/ Fail(i)
    BY <1>0, <2>6 DEF RecordUnsent, Finish, Fail
  <2>7. CASE ExecutorCallFails(i)
    BY <1>0, <2>7 DEF ExecutorCallFails
  <2> QED
    BY <1>1, <2>1, <2>2, <2>3, <2>4, <2>5, <2>6, <2>7 DEF ExecutorStep
<1>2. ASSUME NEW j \in Instances, ExecutorStep(j) \/ ExecutorCallFails(j)
      PROVE  executor'[i] = executor[i] \/ (Run(i) /\ KeepsRow(i))
  BY <1>1, <1>2, WorkerMoves
<1>3. ASSUME NEW p \in Instances \cup Schedulers, Crash(p)
      PROVE  executor'[i] = executor[i]
  BY <1>3 DEF Crash, Idle
<1> QED
  BY <1>2, <1>3, ExecutorWriters

\* A link's notice is not yet there when its handler comes to the insert.
LEMMA FreshSteps ==
  ASSUME TypeInv, SoundInv, RowsKnown, [Next]_vars, NEW a \in Links, Fresh(a)
  PROVE  Fresh(a)'
<1>0. /\ a \in Actions /\ a \in Rows /\ Sound(a)
      /\ effects \in [Rows -> Nat] /\ action \in [Rows -> Row]
  BY RowsAssumption DEF SoundInv, TypeInv, TypeOK, Rows
<1>1. ASSUME NEW i \in Instances, Notify(i), executor[i].row = a
      PROVE  effects[a] # 0 /\ Runs(i, a)
  BY <1>0, <1>1 DEF Sound, Runs, Notify, Late
<1>2. effects'[a] = 0 => effects[a] = 0
  <2>1. ASSUME NEW i \in Instances, Run(i) \/ Send(i)
        PROVE  effects'[a] = 0 => effects[a] = 0
    BY <1>0, <2>1 DEF Run, Send
  <2> QED
    BY <2>1, EffectsWriters
<1>3. effects'[a] = 0 => action'[NoticeOf[a]].status = "ABSENT"
  BY <1>1, <1>2, NoticeAbsent DEF Fresh
<1>4. ASSUME NEW i \in Instances, executor'[i].pc = "notify",
             executor'[i].row = a
      PROVE  action'[NoticeOf[a]].status = "ABSENT"
  <2>1. CASE executor'[i] = executor[i]
    <3>1. Runs(i, a) /\ action[NoticeOf[a]].status = "ABSENT"
      BY <1>4, <2>1 DEF Runs, Fresh
    <3>2. ~Notify(i)
      BY <1>4 DEF Notify, TypeInv, TypeOK, Executor
    <3>3. \A j \in Instances : ~(Notify(j) /\ executor[j].row = a)
      BY <1>0, <1>1, <3>1, <3>2 DEF Sound
    <3> QED
      BY <3>1, <3>3, NoticeAbsent
  <2>2. CASE Run(i) /\ KeepsRow(i)
    <3>1. effects[a] = 0
      BY <1>0, <1>4, <2>2 DEF Run, KeepsRow, Sound, Runs
    <3>2. action'[NoticeOf[a]].status = action[NoticeOf[a]].status
      BY <1>0, <2>2, NoticeIsRow DEF Run, Row
    <3> QED
      BY <3>1, <3>2 DEF Fresh
  <2> QED
    BY <1>4, <2>1, <2>2, NotifyEntered
<1> QED
  BY <1>3, <1>4 DEF Fresh

\* No step locks a row before its claim.
LEMMA UnlockedSteps ==
  TypeInv /\ FreshInv /\ [Next]_vars => FreshUnlocked'
<1> SUFFICES ASSUME TypeInv, FreshInv, [Next]_vars, NEW r \in Rows,
                    action'[r].status \in {"ABSENT", "APPROVED"}
             PROVE  action'[r].lockedAt = "null"
  BY DEF FreshUnlocked
<1>0. /\ action \in [Rows -> Row]
      /\ action[r].status \in {"ABSENT", "APPROVED"} =>
           action[r].lockedAt = "null"
  BY DEF TypeInv, TypeOK, FreshInv, FreshUnlocked
<1> USE DEF Row
<1>1. ASSUME NEW a \in Actions, Create(a) PROVE action'[r].lockedAt = "null"
  BY <1>0, <1>1 DEF Create
<1>2. ASSUME NEW i \in Instances,
             \/ Claim(i) \/ Run(i) \/ Notify(i) \/ RecordSent(i)
             \/ RecordUnsent(i) \/ Finish(i) \/ Fail(i)
      PROVE  action'[r].lockedAt = "null"
  <2>1. CASE Claim(i)
    BY <1>0, <2>1 DEF Claim
  <2>2. CASE Run(i)
    BY <1>0, <2>2 DEF Run
  <2>3. CASE Notify(i)
    <3>1. /\ executor[i].row \in Links
          /\ action[NoticeOf[executor[i].row]].status = "ABSENT"
      BY <2>3 DEF TypeInv, ExecutorEngaged, LinkPc, Notify, FreshInv, Fresh
    <3> QED
      BY <1>0, <2>3, <3>1 DEF Notify
  <2>4. CASE RecordSent(i) \/ RecordUnsent(i)
    BY <1>0, <2>4 DEF RecordSent, RecordUnsent
  <2>5. CASE Finish(i) \/ Fail(i)
    BY <1>0, <2>5 DEF Finish, Fail
  <2> QED
    BY <1>2, <2>1, <2>2, <2>3, <2>4, <2>5
<1>3. ASSUME NEW w \in Schedulers,
             WaitClaim(w) \/ WaitResume(w) \/ WaitCallFails(w)
      PROVE  action'[r].lockedAt = "null"
  <2>1. CASE WaitClaim(w)
    BY <1>0, <2>1 DEF WaitClaim, WaitOver
  <2>2. CASE WaitResume(w)
    BY <1>0, <2>2 DEF WaitResume
  <2>3. CASE WaitCallFails(w)
    BY <1>0, <2>3 DEF WaitCallFails
  <2> QED
    BY <1>3, <2>1, <2>2, <2>3
<1>4. ASSUME NEW a \in Rows, LockTimesOut(a) \/ WaitTimeComes(a)
      PROVE  action'[r].lockedAt = "null"
  BY <1>0, <1>4 DEF LockTimesOut, WaitTimeComes
<1> QED
  BY <1>0, <1>1, <1>2, <1>3, <1>4, ActionWriters

\* The empty table has no locks.
LEMMA InitFresh == Init => FreshInv
<1> SUFFICES ASSUME Init PROVE FreshInv
  OBVIOUS
<1>1. \A a \in Links : NoticeOf[a] \in Rows
  BY NoticeIsRow
<1> QED
  BY <1>1
     DEF Init, FreshInv, RowsKnown, Fresh, FreshUnlocked, NoRow, Idle, Running

\* Every step keeps the strengthening.
LEMMA NextFresh ==
  TypeInv /\ SoundInv /\ FreshInv /\ [Next]_vars => FreshInv'
<1> SUFFICES ASSUME TypeInv, SoundInv, FreshInv, [Next]_vars PROVE FreshInv'
  OBVIOUS
<1>1. RowsKnown'
  BY RowsKnownSteps DEF FreshInv
<1>2. ASSUME NEW a \in Links PROVE Fresh(a)'
  BY FreshSteps DEF FreshInv
<1>3. FreshUnlocked'
  BY UnlockedSteps
<1> QED
  BY <1>1, <1>2, <1>3 DEF FreshInv

\* The time-out of the lock in the queries for approved rows selects nothing.
THEOREM ApprovedHasNoLock == Spec => []ApprovedIsUnlocked
<1>1. FreshInv => ApprovedIsUnlocked
  BY DEF FreshInv, FreshUnlocked, ApprovedIsUnlocked
<1> QED
  BY <1>1, InitTypeInv, NextTypeInv, InitSound, SoundSteps, InitFresh,
     NextFresh, PTL DEF Spec
----------------------------------------------------------------------------
(* The WAIT scheduler resumes nothing before its time.                     *)

Waited(a) == action[a].status = "COMPLETED" /\ action[a].scheduledFor = "due"

Resumes(w, a) == waiter[w].pc = "resume" /\ waiter[w].row = a

\* The strengthening: from the scheduler's claim on, and for good, a WAIT
\* action is completed and due.
WaitInv ==
  \A a \in Waits :
    action[a].waitDone \/ (\E w \in Schedulers : Resumes(w, a)) => Waited(a)

\* A WAIT action that is completed and due is claimed by no worker again, so
\* that its date stays.
LEMMA WaitedStays ==
  ASSUME TypeInv, SoundInv, [Next]_vars, NEW r \in Waits, Waited(r)
  PROVE  Waited(r)'
<1>0. action \in [Rows -> Row] /\ r \in Rows /\ r \in Actions /\ Sound(r)
  BY RowsAssumption DEF TypeInv, TypeOK, Rows, SoundInv
<1> USE DEF Waited, Row
<1>1. ASSUME NEW a \in Actions, Create(a) PROVE Waited(r)'
  BY <1>0, <1>1 DEF Create
<1>2. ASSUME NEW i \in Instances,
             \/ Claim(i) \/ Run(i) \/ Notify(i) \/ RecordSent(i)
             \/ RecordUnsent(i) \/ Finish(i) \/ Fail(i)
      PROVE  Waited(r)'
  <2>0. ~Runs(i, r)
    BY <1>0 DEF Sound
  <2>1. CASE Claim(i)
    BY <1>0, <2>1 DEF Claim
  <2>2. CASE Run(i) \/ Finish(i) \/ Fail(i)
    BY <1>0, <2>0, <2>2 DEF Run, Finish, Fail, Runs
  <2>3. CASE Notify(i) \/ RecordSent(i) \/ RecordUnsent(i)
    <3>1. NoticeOf[executor[i].row] # r
      BY <1>0, <2>3, NoticeIsRow
         DEF Notify, RecordSent, RecordUnsent, TypeInv, ExecutorEngaged, LinkPc
    <3> QED
      BY <1>0, <2>3, <3>1 DEF Notify, RecordSent, RecordUnsent
  <2> QED
    BY <1>2, <2>1, <2>2, <2>3
<1>3. ASSUME NEW w \in Schedulers,
             WaitClaim(w) \/ WaitResume(w) \/ WaitCallFails(w)
      PROVE  Waited(r)'
  <2>1. CASE WaitClaim(w)
    BY <1>0, <2>1 DEF WaitClaim
  <2>2. CASE WaitResume(w)
    BY <1>0, <2>2 DEF WaitResume
  <2>3. CASE WaitCallFails(w)
    BY <1>0, <2>3 DEF WaitCallFails
  <2> QED
    BY <1>3, <2>1, <2>2, <2>3
<1>4. ASSUME NEW a \in Rows, LockTimesOut(a) \/ WaitTimeComes(a)
      PROVE  Waited(r)'
  BY <1>0, <1>4 DEF LockTimesOut, WaitTimeComes
<1> QED
  BY <1>0, <1>1, <1>2, <1>3, <1>4, ActionWriters

\* Only the scheduler that claimed a WAIT action marks it as resumed.
LEMMA ResumedByClaimer ==
  ASSUME TypeInv, [Next]_vars, NEW r \in Waits, action'[r].waitDone
  PROVE  action[r].waitDone \/ \E w \in Schedulers : Resumes(w, r)
<1>0. action \in [Rows -> Row] /\ r \in Rows
  BY RowsAssumption DEF TypeInv, TypeOK, Rows
<1> DEFINE Same == action'[r].waitDone \in {action[r].waitDone}
<1> USE DEF Row
<1>1. ASSUME NEW a \in Actions, Create(a) PROVE Same
  BY <1>0, <1>1 DEF Create
<1>2. ASSUME NEW i \in Instances,
             \/ Claim(i) \/ Run(i) \/ Notify(i) \/ RecordSent(i)
             \/ RecordUnsent(i) \/ Finish(i) \/ Fail(i)
      PROVE  Same
  <2>1. CASE Claim(i)
    <3>1. PICK a : \/ UNCHANGED action
                   \/ action' = [action EXCEPT ![a].status = "EXECUTING",
                                               ![a].lockedAt = "held"]
      BY <2>1 DEF Claim
    <3> DEFINE new == [action[r] EXCEPT !.status = "EXECUTING",
                                        !.lockedAt = "held"]
    <3>2. CASE a = r
      <4>1. new.waitDone \in {action[r].waitDone}
        BY <1>0
      <4>2. UNCHANGED action \/ action' = [action EXCEPT ![r] = new]
        BY <1>0, <3>1, <3>2
      <4> HIDE DEF new
      <4> QED
        BY <1>0, <4>1, <4>2
    <3>3. CASE a # r
      BY <1>0, <3>1, <3>3
    <3> QED
      BY <3>2, <3>3
  <2>2. CASE Run(i)
    <3>1. PICK a : \/ UNCHANGED action
                   \/ action' = [action EXCEPT ![a].scheduledFor = "later"]
      BY <2>2 DEF Run
    <3> QED
      BY <1>0, <3>1
  <2>3. CASE Notify(i)
    BY <1>0, <2>3 DEF Notify
  <2>4. CASE RecordSent(i)
    BY <1>0, <2>4 DEF RecordSent
  <2>5. CASE RecordUnsent(i)
    BY <1>0, <2>5 DEF RecordUnsent
  <2>6. CASE Finish(i)
    BY <1>0, <2>6 DEF Finish
  <2>7. CASE Fail(i)
    BY <1>0, <2>7 DEF Fail
  <2> QED
    BY <1>2, <2>1, <2>2, <2>3, <2>4, <2>5, <2>6, <2>7
<1>3. ASSUME NEW w \in Schedulers, WaitResume(w)
      PROVE  Same \/ Resumes(w, r)
  <2>1. CASE waiter[w].row = r
    BY <1>3, <2>1 DEF WaitResume, Resumes
  <2>2. CASE waiter[w].row # r
    BY <1>0, <1>3, <2>2 DEF WaitResume
  <2> QED
    BY <2>1, <2>2
<1>4. ASSUME NEW w \in Schedulers, WaitClaim(w) \/ WaitCallFails(w)
      PROVE  Same
  <2>1. CASE WaitClaim(w)
    BY <1>0, <2>1 DEF WaitClaim
  <2>2. CASE WaitCallFails(w)
    BY <1>0, <2>2 DEF WaitCallFails
  <2> QED
    BY <1>4, <2>1, <2>2
<1>5. ASSUME NEW a \in Rows, LockTimesOut(a) \/ WaitTimeComes(a)
      PROVE  Same
  BY <1>0, <1>5 DEF LockTimesOut, WaitTimeComes
<1> HIDE DEF Row
<1>6. Same \/ \E w \in Schedulers : Resumes(w, r)
  BY <1>1, <1>2, <1>3, <1>4, <1>5, ActionWriters
<1> QED
  BY <1>6, Zenon

\* A scheduler comes to a WAIT action by a claim of a completed, due row.
LEMMA ResumeEntered ==
  ASSUME TypeInv, [Next]_vars, NEW r \in Waits, NEW w \in Schedulers,
         Resumes(w, r)'
  PROVE  Resumes(w, r) \/ Waited(r)
<1>0. waiter \in [Schedulers -> Waiter]
  BY DEF TypeInv, TypeOK
<1> USE DEF Resumes, Waiter
<1>1. ASSUME NEW v \in Schedulers, WaiterStep(v) \/ WaitCallFails(v)
      PROVE  Resumes(w, r) \/ Waited(r)
  <2>1. CASE WaitPoll(v)
    BY <1>0, <2>1 DEF WaitPoll
  <2>2. CASE WaitClaim(v)
    <3>1. PICK b \in waiter[v].batch :
            \/ /\ WaitOver(b)
               /\ waiter' = [waiter EXCEPT ![v].batch = @ \ {b},
                               ![v].pc = "resume", ![v].row = b]
            \/ waiter' = [waiter EXCEPT ![v].batch = @ \ {b}]
      BY <2>2 DEF WaitClaim
    <3> QED
      BY <1>0, <3>1 DEF WaitOver, Waited
  <2>3. CASE WaitResume(v)
    BY <1>0, <2>3 DEF WaitResume
  <2>4. CASE WaitCallFails(v)
    BY <1>0, <2>4 DEF WaitCallFails, Idle
  <2> QED
    BY <1>1, <2>1, <2>2, <2>3, <2>4 DEF WaiterStep
<1>2. ASSUME NEW p \in Instances \cup Schedulers, Crash(p)
      PROVE  Resumes(w, r)
  BY <1>2 DEF Crash, Idle
<1> QED
  BY <1>1, <1>2, WaiterWriters

\* Every step keeps the strengthening.
LEMMA NextWait == TypeInv /\ SoundInv /\ WaitInv /\ [Next]_vars => WaitInv'
<1> SUFFICES ASSUME TypeInv, SoundInv, WaitInv, [Next]_vars, NEW r \in Waits,
                    action'[r].waitDone \/ \E w \in Schedulers : Resumes(w, r)'
             PROVE  Waited(r)'
  BY DEF WaitInv
<1>1. CASE action'[r].waitDone
  BY <1>1, ResumedByClaimer, WaitedStays DEF WaitInv
<1>2. ASSUME NEW w \in Schedulers, Resumes(w, r)' PROVE Waited(r)'
  BY <1>2, ResumeEntered, WaitedStays DEF WaitInv
<1> QED
  BY <1>1, <1>2

\* No WAIT action is resumed before it was completed and its time came.
THEOREM WaitsAreOver == Spec => []ResumedAfterWait
<1>1. Init => WaitInv
  BY RowsAssumption DEF Init, WaitInv, Resumes, NoRow, Idle, Rows
<1>2. WaitInv => ResumedAfterWait
  BY DEF WaitInv, Waited, ResumedAfterWait
<1> QED
  BY <1>1, <1>2, InitTypeInv, NextTypeInv, InitSound, SoundSteps, NextWait, PTL
     DEF Spec
----------------------------------------------------------------------------
(* The refinement: each step of an action's row is a step of OneShotWork.  *)

\* The abstract state: StageOf of the rows, and the calls made for actions.
Stages == [a \in Actions |-> StageOf(action[a].status)]
Calls == [a \in Actions |-> effects[a]]

\* The stages of the six statuses.
LEMMA StageOfStatus ==
  /\ StageOf("ABSENT") = "none" /\ StageOf("REJECTED") = "refused"
  /\ StageOf("APPROVED") = "ready" /\ StageOf("EXECUTING") = "taken"
  /\ StageOf("COMPLETED") = "done" /\ StageOf("FAILED") = "failed"
  BY Zenon DEF StageOf

\* A write of one action's status, with no call, is a Move of its stage.
LEMMA MoveOf ==
  ASSUME NEW a \in Actions,
         \A b \in Actions : b # a => action'[b].status = action[b].status,
         \A b \in Actions : effects'[b] = effects[b]
  PROVE  Promise!Move(a, StageOf(action[a].status), StageOf(action'[a].status))
  BY DEF Promise!Move

\* The one call of an action that is being executed is the abstract Call.
LEMMA CallOf ==
  ASSUME NEW a \in Actions,
         action[a].status = "EXECUTING", effects[a] = 0,
         \A b \in Actions : action'[b].status = action[b].status,
         \A b \in Actions : effects'[b] = IF b = a THEN 1 ELSE effects[b]
  PROVE  Promise!Call(a)
<1>1. Stages' = Stages
  BY DEF Stages
<1>2. Stages[a] = "taken" /\ Calls[a] = 0
  BY StageOfStatus DEF Stages, Calls
<1>3. Calls' = [Calls EXCEPT ![a] = 1]
  BY DEF Calls
<1> QED
  BY <1>1, <1>2, <1>3 DEF Promise!Call, Stages, Calls

\* A step that writes neither an action's status nor its calls is a stutter.
LEMMA StutterOf ==
  ASSUME \A b \in Actions : action'[b].status = action[b].status,
         \A b \in Actions : effects'[b] = effects[b]
  PROVE  UNCHANGED <<Stages, Calls>>
  BY DEF Stages, Calls

\* The empty table is the abstract initial state.
LEMMA InitPromise == Init => Promise!Init
  BY StageOfStatus DEF Init, Promise!Init, NoRow, Rows

\* Every worker's step maps to a step of the promise, or to a stutter.
LEMMA WorkerKeepsPromise ==
  ASSUME TypeInv, SoundInv, NEW i \in Instances,
         ExecutorStep(i) \/ ExecutorCallFails(i)
  PROVE  Promise!Next \/ UNCHANGED <<Stages, Calls>>
<1>0. action \in [Rows -> Row] /\ effects \in [Rows -> Nat]
  BY DEF TypeInv, TypeOK
<1>a. Actions \subseteq Rows
  BY DEF Rows
<1>b. PICK a : a = executor[i].row
  OBVIOUS
<1>1. executor[i].pc \in LinkPc => NoticeOf[a] \notin Actions
  BY <1>b, NoticeIsRow DEF TypeInv, ExecutorEngaged
<1>2. CASE Claim(i)
  <2>1. CASE /\ a \in Actions /\ action[a].status = "APPROVED"
             /\ action'[a].status = "EXECUTING"
    <3>1. \A b \in Actions : b # a => action'[b].status = action[b].status
      BY <1>b, <1>0, <1>a, <1>2 DEF Claim, Row
    <3>2. Promise!Move(a, "ready", "taken")
      BY <1>2, <2>1, <3>1, MoveOf, StageOfStatus DEF Claim
    <3> QED
      BY <2>1, <3>2 DEF Promise!Next, Promise!Take
  <2>2. CASE \A b \in Actions : action'[b].status = action[b].status
    BY <1>2, <2>2, StutterOf DEF Claim
  <2> QED
    BY <1>b, <1>0, <1>a, <1>2, <2>1, <2>2 DEF Claim, Row
<1>3. CASE Run(i)
  <2>1. \A b \in Actions : action'[b].status = action[b].status
    BY <1>0, <1>a, <1>3 DEF Run, Row
  <2>2. CASE UNCHANGED effects
    BY <2>1, <2>2, StutterOf
  <2>3. CASE effects' = [effects EXCEPT ![a] = @ + 1] /\ a \in Actions
    <3>1. /\ action[a].status = "EXECUTING" /\ effects[a] = 0
      BY <1>b, <1>3, <2>3 DEF Run, SoundInv, Sound, Runs
    <3>2. \A b \in Actions : effects'[b] = IF b = a THEN 1 ELSE effects[b]
      BY <1>0, <1>a, <2>3, <3>1
    <3>3. Promise!Call(a)
      BY <2>1, <2>3, <3>1, <3>2, CallOf
    <3> QED
      BY <2>3, <3>3 DEF Promise!Next
  <2>4. CASE effects' = [effects EXCEPT ![a] = @ + 1] /\ a \notin Actions
    <3>1. \A b \in Actions : effects'[b] = effects[b]
      BY <1>0, <1>a, <2>4
    <3> QED
      BY <2>1, <3>1, StutterOf
  <2> QED
    BY <1>b, <1>3, <2>2, <2>3, <2>4 DEF Run
<1>4. CASE Notify(i) \/ Send(i) \/ RecordSent(i) \/ RecordUnsent(i)
  <2>1. \A b \in Actions : action'[b].status = action[b].status
    <3>1. CASE Notify(i)
      BY <1>b, <1>0, <1>a, <1>1, <3>1 DEF Notify, LinkPc
    <3>2. CASE Send(i)
      BY <3>2 DEF Send
    <3>3. CASE RecordSent(i)
      BY <1>b, <1>0, <1>a, <1>1, <3>3 DEF RecordSent, LinkPc
    <3>4. CASE RecordUnsent(i)
      BY <1>b, <1>0, <1>a, <1>1, <3>4 DEF RecordUnsent, LinkPc
    <3> QED
      BY <1>4, <3>1, <3>2, <3>3, <3>4
  <2>2. \A b \in Actions : effects'[b] = effects[b]
    BY <1>b, <1>0, <1>a, <1>1, <1>4
       DEF Notify, Send, RecordSent, RecordUnsent, LinkPc
  <2> QED
    BY <2>1, <2>2, StutterOf
<1>5. CASE Finish(i) \/ Fail(i)
  <2>0. UNCHANGED effects
    BY <1>5 DEF Finish, Fail
  <2>1. \A b \in Actions : b # a => action'[b].status = action[b].status
    BY <1>b, <1>0, <1>a, <1>5 DEF Finish, Fail
  <2>2. CASE a \in Actions
    <3>1. /\ action[a].status = "EXECUTING"
          /\ executor[i].pc = "finish" => effects[a] = 1
      BY <1>b, <1>5, <2>2 DEF SoundInv, Sound, Runs, Late, Finish, Fail
    <3>2. Promise!Move(a, "taken", StageOf(action'[a].status))
      BY <2>0, <2>1, <2>2, <3>1, MoveOf, StageOfStatus
    <3>3. CASE Finish(i)
      <4>1. action'[a].status = "COMPLETED" /\ effects[a] = 1
        BY <1>b, <1>0, <1>a, <2>2, <3>1, <3>3 DEF Finish, Row
      <4> QED
        BY <2>2, <3>2, <4>1, StageOfStatus DEF Promise!Next, Promise!Done
    <3>4. CASE Fail(i)
      <4>1. action'[a].status = "FAILED"
        BY <1>b, <1>0, <1>a, <2>2, <3>4 DEF Fail, Row
      <4> QED
        BY <2>2, <3>2, <4>1, StageOfStatus DEF Promise!Next, Promise!GiveUp
    <3> QED
      BY <1>5, <3>3, <3>4
  <2>3. CASE a \notin Actions
    BY <2>0, <2>1, <2>3, StutterOf
  <2> QED
    BY <2>2, <2>3
<1>6. CASE Poll(i) \/ Start(i) \/ ExecutorCallFails(i)
  <2>1. UNCHANGED <<action, effects>>
    BY <1>6 DEF Poll, Start, ExecutorCallFails
  <2> QED
    BY <2>1, StutterOf
<1> QED
  BY <1>2, <1>3, <1>4, <1>5, <1>6 DEF ExecutorStep

\* Every step of the system maps to a step of the promise, or to a stutter.
LEMMA NextPromise ==
  TypeInv /\ SoundInv /\ [Next]_vars =>
    Promise!Next \/ UNCHANGED <<Stages, Calls>>
<1> SUFFICES ASSUME TypeInv, SoundInv, [Next]_vars
             PROVE  Promise!Next \/ UNCHANGED <<Stages, Calls>>
  OBVIOUS
<1>0. action \in [Rows -> Row] /\ Actions \subseteq Rows
  BY DEF TypeInv, TypeOK, Rows
<1>1. ASSUME NEW a \in Actions, Create(a) PROVE Promise!Next
  <2>1. /\ action[a].status = "ABSENT"
        /\ action'[a].status \in {"APPROVED", "REJECTED"}
        /\ \A b \in Actions : b # a => action'[b].status = action[b].status
        /\ UNCHANGED effects
    BY <1>0, <1>1 DEF Create, Row
  <2>2. Promise!Move(a, "none", StageOf(action'[a].status))
    BY <2>1, MoveOf, StageOfStatus
  <2>3. Promise!Submit(a)
    BY <2>1, <2>2, StageOfStatus DEF Promise!Submit
  <2> QED
    BY <2>3 DEF Promise!Next
<1>2. ASSUME NEW w \in Schedulers, WaiterStep(w) \/ WaitCallFails(w)
      PROVE  UNCHANGED <<Stages, Calls>>
  <2>1. UNCHANGED effects
    BY <1>2 DEF WaiterStep, WaitPoll, WaitClaim, WaitResume, WaitCallFails
  <2>2. \A b \in Actions : action'[b].status = action[b].status
    <3>1. CASE WaitPoll(w)
      BY <3>1 DEF WaitPoll
    <3>2. CASE WaitClaim(w)
      BY <1>0, <3>2 DEF WaitClaim, Row
    <3>3. CASE WaitResume(w)
      BY <1>0, <3>3 DEF WaitResume, Row
    <3>4. CASE WaitCallFails(w)
      BY <1>0, <3>4 DEF WaitCallFails, Row
    <3> QED
      BY <1>2, <3>1, <3>2, <3>3, <3>4 DEF WaiterStep
  <2> QED
    BY <2>1, <2>2, StutterOf
<1>3. ASSUME NEW b \in Rows, LockTimesOut(b) \/ WaitTimeComes(b)
      PROVE  UNCHANGED <<Stages, Calls>>
  <2>1. /\ UNCHANGED effects
        /\ \A a \in Actions : action'[a].status = action[a].status
    BY <1>0, <1>3 DEF LockTimesOut, WaitTimeComes, Row
  <2> QED
    BY <2>1, StutterOf
<1>4. CASE UNCHANGED <<action, effects>>
  BY <1>4, StutterOf
<1> QED
  BY <1>1, <1>2, <1>3, <1>4, WorkerKeepsPromise DEF Next, vars, Crash

\* The execution of actions implements OneShotWork, for any number of
\* workers, schedulers and faults.
THEOREM ImplementsPromise == Spec => KeepsPromise
<1>1. TypeInv /\ SoundInv /\ [Next]_vars =>
        [Promise!Next]_<<Stages, Calls>>
  BY NextPromise
<1> QED
  BY <1>1, InitTypeInv, NextTypeInv, InitSound, SoundSteps, InitPromise, PTL
     DEF Spec, KeepsPromise, Promise!Spec, Stages, Calls

----------------------------------------------------------------------------
(* A FAILED action is never taken up again.                                *)

\* The row's status moves only under the worker that runs it, which sees it
\* EXECUTING, and at its insert and its claim, which ask for another status.
LEMMA FailedStays ==
  ASSUME TypeInv, SoundInv, [Next]_vars, NEW a \in Actions,
         action[a].status = "FAILED"
  PROVE  action'[a].status = "FAILED"
<1>0. action \in [Rows -> Row] /\ a \in Rows
  BY DEF TypeInv, TypeOK, Rows
<1>1. CASE \E b \in Actions : Create(b)
  <2>1. PICK b \in Actions : Create(b)
    BY <1>1
  <2>2. b # a
    BY <2>1 DEF Create
  <2> QED
    BY <1>0, <2>1, <2>2 DEF Create
<1>2. ASSUME NEW i \in Instances, ExecutorStep(i) \/ ExecutorCallFails(i)
      PROVE  action'[a].status = "FAILED"
  <2>b. PICK r : r = executor[i].row
    OBVIOUS
  <2>1. executor[i].pc \in LinkPc => NoticeOf[r] # a
    BY <2>b, NoticeIsRow DEF TypeInv, ExecutorEngaged
  <2>2. ~Runs(i, a)
    BY DEF SoundInv, Sound
  <2>3. CASE Claim(i)
    BY <1>0, <2>b, <2>3 DEF Claim
  <2>4. CASE Run(i)
    BY <1>0, <2>b, <2>4 DEF Run, Row
  <2>5. CASE Notify(i)
    BY <1>0, <2>b, <2>1, <2>5 DEF Notify, LinkPc
  <2>6. CASE RecordSent(i)
    BY <1>0, <2>b, <2>1, <2>6 DEF RecordSent, LinkPc
  <2>7. CASE RecordUnsent(i)
    BY <1>0, <2>b, <2>1, <2>7 DEF RecordUnsent, LinkPc
  <2>8. CASE Finish(i) \/ Fail(i)
    <3>1. executor[i].row # a
      BY <2>2, <2>8 DEF Runs, Finish, Fail
    <3> QED
      BY <1>0, <2>8, <3>1 DEF Finish, Fail
  <2>9. CASE Poll(i) \/ Start(i) \/ Send(i) \/ ExecutorCallFails(i)
    BY <2>9 DEF Poll, Start, Send, ExecutorCallFails
  <2> QED
    BY <1>2, <2>3, <2>4, <2>5, <2>6, <2>7, <2>8, <2>9 DEF ExecutorStep
<1>3. ASSUME NEW w \in Schedulers, WaiterStep(w) \/ WaitCallFails(w)
      PROVE  action'[a].status = "FAILED"
  <2>1. CASE WaitPoll(w)
    BY <2>1 DEF WaitPoll
  <2>2. CASE WaitClaim(w)
    BY <1>0, <2>2 DEF WaitClaim, Row
  <2>3. CASE WaitResume(w)
    BY <1>0, <2>3 DEF WaitResume, Row
  <2>4. CASE WaitCallFails(w)
    BY <1>0, <2>4 DEF WaitCallFails, Row
  <2> QED
    BY <1>3, <2>1, <2>2, <2>3, <2>4 DEF WaiterStep
<1>4. ASSUME NEW b \in Rows, LockTimesOut(b) \/ WaitTimeComes(b)
      PROVE  action'[a].status = "FAILED"
  BY <1>0, <1>4 DEF LockTimesOut, WaitTimeComes, Row
<1>5. CASE UNCHANGED action
  BY <1>5
<1> QED
  BY <1>1, <1>2, <1>3, <1>4, <1>5 DEF Next, vars, Crash

\* Whatever the workers, scripts and faults, FAILED is where an action ends:
\* the retry that src/README.md:412 draws is taken by no step.
THEOREM FailureIsFinal == Spec => FailedIsFinal
<1>1. TypeInv /\ SoundInv /\ [Next]_vars =>
        [\A a \in Actions :
           action[a].status = "FAILED" => action'[a].status = "FAILED"]_vars
  BY FailedStays
<1> QED
  BY <1>1, InitTypeInv, NextTypeInv, InitSound, SoundSteps, PTL
     DEF Spec, FailedIsFinal

----------------------------------------------------------------------------
(* A notice goes out twice at most.                                        *)

\* The ways a notice is sent: by the handler that inserted it, and by the
\* worker that claims it, which it still may as long as it is APPROVED.
Sends(i, n) == executor[i].pc = "send" /\ NoticeOf[executor[i].row] = n
Claims(i, n) == executor[i].pc = "run" /\ executor[i].row = n
Claimable(n) ==
  action[n].status = "APPROVED" \/ \E i \in Instances : Claims(i, n)

\* Each way is open once, and what was sent leaves room for the open ones.
Twice(n) ==
  /\ action[n].status = "ABSENT" => effects[n] = 0
  /\ effects[n] <= IF Claimable(n) THEN 1 ELSE 2
  /\ \A i \in Instances :
       Sends(i, n) => effects[n] <= IF Claimable(n) THEN 0 ELSE 1
  /\ \A i \in Instances : Claims(i, n) => action[n].status # "APPROVED"
  /\ \A i, j \in Instances : Claims(i, n) /\ Claims(j, n) => i = j
  /\ \A i, j \in Instances : Sends(i, n) /\ Sends(j, n) => i = j

TwiceInv == \A n \in Notices : Twice(n)

\* Twice(n) needs no argument when nothing is sent and no way opens.
LEMMA TwiceFrame ==
  ASSUME NEW n \in Notices, Twice(n), effects[n] \in Nat,
         effects'[n] = effects[n],
         action'[n].status = "ABSENT" => action[n].status = "ABSENT",
         action'[n].status = "APPROVED" => action[n].status = "APPROVED",
         \A i \in Instances :
           /\ Claims(i, n)' => Claims(i, n)
           /\ Sends(i, n)' => Sends(i, n)
  PROVE  Twice(n)'
<1>1. Claimable(n)' => Claimable(n)
  BY DEF Claimable
<1> QED
  BY <1>1 DEF Twice

\* The workers open each way once, and close it with the sending.
LEMMA TwiceExecutorSteps ==
  ASSUME TypeInv, RowsKnown, \A a \in Links : Fresh(a), [Next]_vars,
         NEW n \in Notices, Twice(n), NEW i \in Instances,
         ExecutorStep(i) \/ ExecutorCallFails(i)
  PROVE  Twice(n)'
<1>0. /\ action \in [Rows -> Row] /\ effects \in [Rows -> Nat]
      /\ executor \in [Instances -> Executor] /\ executor[i] \in Executor
      /\ n \in Rows /\ effects[n] \in Nat
  BY DEF TypeInv, TypeOK, Rows
<1>1. /\ action[n].status # "ABSENT" => action'[n].status # "ABSENT"
      /\ \A j \in Instances : j # i => executor'[j] = executor[j]
  BY <1>0, RowsStay, WorkerMoves
<1>2. executor[i].pc \in LinkPc =>
        executor[i].row \in Links /\ NoticeOf[executor[i].row] \in Rows
  BY NoticeIsRow DEF TypeInv, ExecutorEngaged
<1> USE DEF Claims, Sends, Executor
\* A step that neither sends nor opens a way.
<1>3. ASSUME effects'[n] = effects[n],
             action'[n].status = "APPROVED" => action[n].status = "APPROVED",
             executor'[i].pc \notin {"run", "send"}
      PROVE  Twice(n)'
  BY <1>0, <1>1, <1>3, TwiceFrame
<1>4. CASE Poll(i)
  <2>1. /\ UNCHANGED <<action, effects>>
        /\ executor'[i].pc = "idle"
    BY <1>0, <1>4 DEF Poll
  <2> QED
    BY <1>3, <2>1
<1>5. CASE Start(i)
  <2>1. /\ UNCHANGED <<action, effects>>
        /\ executor'[i].pc \in {"idle", "claim"}
    BY <1>0, <1>5 DEF Start
  <2> QED
    BY <1>3, <2>1
<1>6. CASE Claim(i)
  <2>0. UNCHANGED effects
    BY <1>6 DEF Claim
  <2>1. CASE executor[i].row = n /\ executor'[i].pc = "run"
    <3>1. /\ action[n].status = "APPROVED"
          /\ action'[n].status = "EXECUTING"
          /\ executor'[i].row = n
      BY <1>0, <1>6, <2>1 DEF Claim, Row
    <3>2. /\ \A j \in Instances : Claims(j, n)' => j = i
          /\ \A j \in Instances : Sends(j, n)' => Sends(j, n)
      BY <1>1, <2>1, <3>1 DEF Twice
    <3>3. Claimable(n)
      BY <3>1 DEF Claimable
    <3> QED
      BY <1>0, <2>0, <3>1, <3>2, <3>3 DEF Twice
  <2>2. CASE executor[i].row # n
    <3>1. action'[n] = action[n]
      BY <1>0, <1>6, <2>2 DEF Claim
    <3>2. ~Claims(i, n)' /\ ~Sends(i, n)'
      BY <1>0, <1>6, <2>2 DEF Claim
    <3> QED
      BY <1>0, <1>1, <2>0, <3>1, <3>2, TwiceFrame
  <2>3. CASE executor'[i].pc # "run"
    <3>1. UNCHANGED action /\ executor'[i].pc = "idle"
      BY <1>0, <1>6, <2>3 DEF Claim
    <3> QED
      BY <1>3, <2>0, <3>1
  <2> QED
    BY <2>1, <2>2, <2>3
<1>7. CASE Run(i)
  <2>0. /\ action'[n].status = action[n].status
        /\ executor'[i].pc \in {"fail", "notify", "finish"}
    BY <1>0, <1>7 DEF Run, Row
  <2>1. CASE executor[i].row = n
    <3>1. Claims(i, n)
      BY <1>7, <2>1 DEF Run
    <3>2. /\ action[n].status # "APPROVED"
          /\ \A j \in Instances : ~Claims(j, n)'
          /\ \A j \in Instances : Sends(j, n)' => Sends(j, n)
      BY <1>1, <2>0, <3>1 DEF Twice
    <3>3. ~Claimable(n)' /\ Claimable(n)
      BY <2>0, <3>1, <3>2 DEF Claimable
    <3>4. action[n].status # "ABSENT"
      BY <2>1, <3>1 DEF RowsKnown, Running
    <3>5. effects'[n] \in {effects[n], effects[n] + 1}
      BY <1>0, <1>7, <2>1 DEF Run
    <3> QED
      BY <1>0, <2>0, <3>2, <3>3, <3>4, <3>5 DEF Twice
  <2>2. CASE executor[i].row # n
    <3>1. effects'[n] = effects[n]
      BY <1>0, <1>7, <2>2 DEF Run
    <3> QED
      BY <1>3, <2>0, <3>1
  <2> QED
    BY <2>1, <2>2
<1>8. CASE Notify(i)
  <2>0. /\ executor'[i].pc = "send" /\ executor'[i].row = executor[i].row
        /\ UNCHANGED effects
    BY <1>0, <1>8 DEF Notify
  <2>1. CASE NoticeOf[executor[i].row] = n
    <3>1. action[n].status = "ABSENT"
      BY <1>2, <1>8, <2>1 DEF Notify, Fresh, LinkPc
    <3>2. /\ effects[n] = 0
          /\ \A j \in Instances : ~Claims(j, n) /\ ~Sends(j, n)
      BY <3>1 DEF Twice, RowsKnown, Running
    <3>3. /\ \A j \in Instances : ~Claims(j, n)'
          /\ \A j \in Instances : Sends(j, n)' => j = i
      BY <1>1, <2>0, <3>2
    <3>4. action'[n].status = "APPROVED"
      BY <1>0, <1>8, <2>1 DEF Notify, Row
    <3> QED
      BY <2>0, <3>2, <3>3, <3>4 DEF Twice
  <2>2. CASE NoticeOf[executor[i].row] # n
    <3>1. action'[n] = action[n]
      BY <1>0, <1>2, <1>8, <2>2 DEF Notify, LinkPc
    <3> QED
      BY <1>0, <1>1, <2>0, <2>2, <3>1, TwiceFrame
  <2> QED
    BY <2>1, <2>2
<1>9. CASE Send(i)
  <2>0. /\ executor'[i].pc \in {"sent", "unsent"} /\ UNCHANGED action
    BY <1>0, <1>9 DEF Send
  <2>1. CASE NoticeOf[executor[i].row] = n
    <3>1. Sends(i, n)
      BY <1>9, <2>1 DEF Send
    <3>2. /\ action[n].status # "ABSENT"
          /\ effects[n] <= IF Claimable(n) THEN 0 ELSE 1
      BY <3>1 DEF Twice, RowsKnown
    <3>3. /\ \A j \in Instances : ~Sends(j, n)'
          /\ \A j \in Instances : Claims(j, n)' <=> Claims(j, n)
      BY <1>1, <1>9, <2>0, <3>1 DEF Twice, Send
    <3>4. Claimable(n)' <=> Claimable(n)
      BY <2>0, <3>3 DEF Claimable
    <3>5. effects'[n] = effects[n] + 1
      BY <1>0, <1>2, <1>9, <2>1 DEF Send, LinkPc
    <3> QED
      BY <1>0, <2>0, <3>2, <3>3, <3>4, <3>5 DEF Twice
  <2>2. CASE NoticeOf[executor[i].row] # n
    <3>1. effects'[n] = effects[n]
      BY <1>0, <1>2, <1>9, <2>2 DEF Send, LinkPc
    <3> QED
      BY <1>3, <2>0, <3>1
  <2> QED
    BY <2>1, <2>2
<1>10. CASE RecordSent(i) \/ RecordUnsent(i)
  <2>1. action'[n].status = "APPROVED" => action[n].status = "APPROVED"
    <3>1. CASE RecordSent(i)
      BY <1>0, <1>2, <3>1 DEF RecordSent, LinkPc, Row
    <3>2. CASE RecordUnsent(i)
      BY <1>0, <1>2, <3>2 DEF RecordUnsent, LinkPc, Row
    <3> QED
      BY <1>10, <3>1, <3>2
  <2>2. UNCHANGED effects /\ executor'[i].pc \in {"finish", "fail"}
    BY <1>0, <1>10 DEF RecordSent, RecordUnsent
  <2> QED
    BY <1>3, <2>1, <2>2
<1>11. CASE Finish(i) \/ Fail(i)
  <2>1. action'[n].status = "APPROVED" => action[n].status = "APPROVED"
    <3>1. CASE Finish(i)
      BY <1>0, <3>1 DEF Finish, Row
    <3>2. CASE Fail(i)
      BY <1>0, <3>2 DEF Fail, Row
    <3> QED
      BY <1>11, <3>1, <3>2
  <2>2. UNCHANGED effects /\ executor'[i].pc = "idle"
    BY <1>0, <1>11 DEF Finish, Fail
  <2> QED
    BY <1>3, <2>1, <2>2
<1>12. CASE ExecutorCallFails(i)
  <2>1. /\ UNCHANGED <<action, effects>>
        /\ executor'[i].pc \in {"idle", "fail"}
    BY <1>0, <1>12 DEF ExecutorCallFails
  <2> QED
    BY <1>3, <2>1
<1> QED
  BY <1>4, <1>5, <1>6, <1>7, <1>8, <1>9, <1>10, <1>11, <1>12 DEF ExecutorStep

\* No step of the system sends a notice a third time.
LEMMA TwiceSteps == TypeInv /\ FreshInv /\ TwiceInv /\ [Next]_vars => TwiceInv'
<1> SUFFICES ASSUME TypeInv, FreshInv, TwiceInv, [Next]_vars,
                    NEW n \in Notices
             PROVE  Twice(n)'
  BY DEF TwiceInv
<1>0. /\ Twice(n) /\ n \in Rows /\ n \notin Actions
      /\ action \in [Rows -> Row] /\ effects[n] \in Nat
  BY RowsAssumption DEF TwiceInv, TypeInv, TypeOK, Rows
<1>1. action[n].status # "ABSENT" => action'[n].status # "ABSENT"
  BY <1>0, RowsStay
<1>2. ASSUME UNCHANGED <<effects, executor>>,
             action'[n].status = "APPROVED" => action[n].status = "APPROVED"
      PROVE  Twice(n)'
  BY <1>0, <1>1, <1>2, TwiceFrame DEF Claims, Sends
<1>3. ASSUME NEW b \in Actions, Create(b) PROVE Twice(n)'
  BY <1>0, <1>2, <1>3 DEF Create
<1>4. ASSUME NEW w \in Schedulers, WaiterStep(w) \/ WaitCallFails(w)
      PROVE  Twice(n)'
  <2>1. CASE WaitPoll(w)
    BY <1>2, <2>1 DEF WaitPoll
  <2>2. CASE WaitClaim(w)
    BY <1>0, <1>2, <2>2 DEF WaitClaim, Row
  <2>3. CASE WaitResume(w)
    BY <1>0, <1>2, <2>3 DEF WaitResume, Row
  <2>4. CASE WaitCallFails(w)
    BY <1>0, <1>2, <2>4 DEF WaitCallFails, Row
  <2> QED
    BY <1>4, <2>1, <2>2, <2>3, <2>4 DEF WaiterStep
<1>5. ASSUME NEW b \in Rows, LockTimesOut(b) \/ WaitTimeComes(b)
      PROVE  Twice(n)'
  BY <1>0, <1>2, <1>5 DEF LockTimesOut, WaitTimeComes, Row
<1>6. ASSUME NEW p \in Instances \cup Schedulers, Crash(p) PROVE Twice(n)'
  <2>1. /\ UNCHANGED <<action, effects>>
        /\ \A i \in Instances :
             executor'[i] = executor[i] \/ executor'[i].pc = "idle"
    BY <1>6 DEF Crash, Idle
  <2> QED
    BY <1>0, <2>1, TwiceFrame DEF Claims, Sends
<1>7. CASE UNCHANGED vars
  BY <1>2, <1>7 DEF vars
<1>8. RowsKnown /\ \A a \in Links : Fresh(a)
  BY DEF FreshInv
<1> QED
  BY <1>0, <1>3, <1>4, <1>5, <1>6, <1>7, <1>8, TwiceExecutorSteps DEF Next

LEMMA InitTwice == Init => TwiceInv
  BY DEF Init, TwiceInv, Twice, Claimable, Claims, Sends, NoRow, Idle, Rows

\* However workers and handlers meet at it, a notice goes out twice at most.
THEOREM SentTwiceAtMost == Spec => []NoticeTwiceAtMost
<1>1. TypeInv /\ TwiceInv => NoticeTwiceAtMost
  BY DEF TypeInv, TypeOK, Rows, TwiceInv, Twice, NoticeTwiceAtMost
<1> QED
  BY <1>1, InitTypeInv, NextTypeInv, InitSound, SoundSteps, InitFresh,
     NextFresh, InitTwice, TwiceSteps, PTL DEF Spec
============================================================================
