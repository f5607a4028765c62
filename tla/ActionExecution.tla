-------------------------- MODULE ActionExecution --------------------------
(***************************************************************************)
(* The life of the rows of the RecoveryAction table.  createRecoveryAction *)
(* inserts them APPROVED or REJECTED; the worker of every API instance     *)
(* polls the approved ones and runs executeRecoveryAction on them          *)
(* (workers/recovery-action.worker.ts, execution/                          *)
(* action-executor.service.ts); CREATE_PAYMENT_LINK inserts and sends a    *)
(* second, approved SEND_NOTIFICATION action of its own; a script resumes  *)
(* WAIT actions whose time has come (execution/action-scheduler.service.ts)*)
(* Every step is one awaited database or provider call.  What a handler    *)
(* checks about cases and payments is left open here: it may throw.        *)
(***************************************************************************)
EXTENDS Naturals, FiniteSets

CONSTANTS
  Actions,     \* rows inserted by createRecoveryAction
  Links,       \* the CREATE_PAYMENT_LINK actions among them
  Waits,       \* the WAIT actions among them
  Notices,     \* rows inserted by the payment-link handler
  NoticeOf,    \* the row each link action would insert
  Instances,   \* API processes, each with one action worker
  Schedulers,  \* processes that run the WAIT scheduler script
  BatchSize,   \* BATCH_SIZE (10) of the worker's query
  MaxFaults,   \* bound on the crashes and rejected calls of a behaviour
  None         \* no row

ASSUME RowsAssumption ==
  /\ IsFiniteSet(Actions) /\ IsFiniteSet(Notices)
  /\ Links \subseteq Actions /\ Waits \subseteq Actions \ Links
  /\ Actions \cap Notices = {}
  /\ NoticeOf \in [Links -> Notices]
  /\ \A a, b \in Links : NoticeOf[a] = NoticeOf[b] => a = b
  /\ None \notin Actions \cup Notices
ASSUME ProcessesAssumption ==
  /\ Instances \cap Schedulers = {}
  /\ BatchSize \in Nat \ {0}
  /\ MaxFaults \in Nat

VARIABLES
  action,    \* the RecoveryAction table; status "ABSENT" before the insert
  executor,  \* the action worker of each instance
  waiter,    \* the pass of each WAIT scheduler
  effects,   \* history: calls to the outside made for the row
  faults     \* crashes and rejected calls so far

vars == <<action, executor, waiter, effects, faults>>

Rows == Actions \cup Notices

Statuses == {"ABSENT", "REJECTED", "APPROVED", "EXECUTING", "COMPLETED",
             "FAILED"}

Row == [status       : Statuses,
        executed     : BOOLEAN,                   \* executedAt is set
        lockedAt     : {"null", "held", "expired"},
        scheduledFor : {"null", "later", "due"},
        waitDone     : BOOLEAN,                   \* result.waitCompleted
        createdAt    : Nat]                       \* order of the inserts

\* The executor awaits the claim, the handler's provider call, the write of
\* COMPLETED or of FAILED; within the payment-link handler also the insert of
\* the notice, its sending, and the write of the notice's result.
ExecutorPc == {"idle", "claim", "run", "notify", "send", "sent", "unsent",
               "finish", "fail"}

Executor == [pc : ExecutorPc, batch : SUBSET Rows, row : Rows \cup {None}]
Waiter == [pc : {"idle", "resume"}, batch : SUBSET Waits,
           row : Waits \cup {None}]

\* One type invariant: every row and process has its declared shape.
TypeOK ==
  /\ action \in [Rows -> Row]
  /\ executor \in [Instances -> Executor]
  /\ waiter \in [Schedulers -> Waiter]
  /\ effects \in [Rows -> Nat]
  /\ faults \in 0..MaxFaults

NoRow == [status |-> "ABSENT", executed |-> FALSE, lockedAt |-> "null",
          scheduledFor |-> "null", waitDone |-> FALSE, createdAt |-> 0]
Idle == [pc |-> "idle", batch |-> {}, row |-> None]

Init ==
  /\ action = [a \in Rows |-> NoRow]
  /\ executor = [i \in Instances |-> Idle]
  /\ waiter = [w \in Schedulers |-> Idle]
  /\ effects = [a \in Rows |-> 0]
  /\ faults = 0

Stored == {a \in Rows : action[a].status # "ABSENT"}
Unlocked(a) == action[a].lockedAt \in {"null", "expired"}

----------------------------------------------------------------------------
(* Creation: one transaction inserts the action with the policy's verdict. *)

\* Variant for a mutation: an action that needs approval is left PENDING.
CreatePending(a) ==
  /\ action[a].status = "ABSENT"
  /\ \E verdict \in {"APPROVED", "PENDING"} :
       action' = [action EXCEPT ![a].status = verdict,
                                ![a].createdAt = Cardinality(Stored) + 1]
  /\ UNCHANGED <<executor, waiter, effects, faults>>

Create(a) ==
  /\ action[a].status = "ABSENT"
  /\ \E verdict \in {"APPROVED", "REJECTED"} :
       action' = [action EXCEPT ![a].status = verdict,
                                ![a].createdAt = Cardinality(Stored) + 1]
  /\ UNCHANGED <<executor, waiter, effects, faults>>

----------------------------------------------------------------------------
(* The worker and the executor.                                            *)

\* Variant for a mutation: only rows with a timed-out lock are selected.
PendingExpired(a) ==
  /\ action[a].status = "APPROVED"
  /\ ~action[a].executed
  /\ action[a].lockedAt = "expired"

Pending(a) ==
  /\ action[a].status = "APPROVED"
  /\ ~action[a].executed
  /\ Unlocked(a)
  /\ action[a].scheduledFor \in {"null", "due"}

Oldest(S) ==
  {a \in S : Cardinality({b \in S : action[b].createdAt < action[a].createdAt})
               < BatchSize}

Poll(i) ==
  LET pending == {a \in Rows : Pending(a)} IN
  /\ executor[i].pc = "idle"
  /\ executor[i].batch = {}
  /\ pending # {}
  /\ executor' = [executor EXCEPT ![i].batch = Oldest(pending)]
  /\ UNCHANGED <<action, waiter, effects, faults>>

\* executeRecoveryAction reads the oldest action left: an executed one is
\* reported as done, one that is not APPROVED is refused.
Start(i) ==
  /\ executor[i].pc = "idle"
  /\ \E a \in executor[i].batch :
       /\ \A b \in executor[i].batch :
            action[a].createdAt <= action[b].createdAt
       /\ \/ /\ ~action[a].executed /\ action[a].status = "APPROVED"
             /\ executor' = [executor EXCEPT ![i].batch = @ \ {a},
                               ![i].pc = "claim", ![i].row = a]
          \/ /\ action[a].executed \/ action[a].status # "APPROVED"
             /\ executor' = [executor EXCEPT ![i].batch = @ \ {a}]
  /\ UNCHANGED <<action, waiter, effects, faults>>

\* Variant for a mutation: the claim is an update by id.
ClaimById(i) ==
  LET a == executor[i].row IN
  /\ executor[i].pc = "claim"
  /\ action' = [action EXCEPT ![a].status = "EXECUTING",
                              ![a].lockedAt = "held"]
  /\ executor' = [executor EXCEPT ![i].pc = "run"]
  /\ UNCHANGED <<waiter, effects, faults>>

\* updateMany: the row is claimed, or another worker was faster.
Claim(i) ==
  LET a == executor[i].row
      free == action[a].status = "APPROVED" /\ ~action[a].executed
                /\ Unlocked(a) IN
  /\ executor[i].pc = "claim"
  /\ \/ /\ free
        /\ action' = [action EXCEPT ![a].status = "EXECUTING",
                                    ![a].lockedAt = "held"]
        /\ executor' = [executor EXCEPT ![i].pc = "run"]
     \/ /\ ~free
        /\ executor' = [executor EXCEPT ![i].pc = "idle", ![i].row = None]
        /\ UNCHANGED action
  /\ UNCHANGED <<waiter, effects, faults>>

\* Variant for a mutation: a failed result is taken for a completed one.
RunUnchecked(i) ==
  /\ executor[i].pc = "run"
  /\ executor' = [executor EXCEPT ![i].pc = "finish"]
  /\ UNCHANGED <<action, waiter, effects, faults>>

\* The handler throws at one of its checks, or does its outward work: the
\* provider call, or the write of scheduledFor in case of WAIT.
Run(i) ==
  LET a == executor[i].row IN
  /\ executor[i].pc = "run"
  /\ \/ /\ executor' = [executor EXCEPT ![i].pc = "fail"]
        /\ UNCHANGED <<action, effects>>
     \/ /\ \E next \in {"fail", IF a \in Links THEN "notify" ELSE "finish"} :
             executor' = [executor EXCEPT ![i].pc = next]
        /\ effects' = [effects EXCEPT ![a] = @ + 1]
        /\ action' = IF a \in Waits
                       THEN [action EXCEPT ![a].scheduledFor = "later"]
                       ELSE action
  /\ UNCHANGED <<waiter, faults>>

\* The payment link exists: its handler inserts the notice as an APPROVED,
\* unlocked action like any other ...
Notify(i) ==
  /\ executor[i].pc = "notify"
  /\ action' = [action EXCEPT
       ![NoticeOf[executor[i].row]].status = "APPROVED",
       ![NoticeOf[executor[i].row]].createdAt = Cardinality(Stored) + 1]
  /\ executor' = [executor EXCEPT ![i].pc = "send"]
  /\ UNCHANGED <<waiter, effects, faults>>

\* ... sends it itself ...
Send(i) ==
  /\ executor[i].pc = "send"
  /\ \E next \in {"sent", "unsent"} :
       executor' = [executor EXCEPT ![i].pc = next]
  /\ effects' = [effects EXCEPT ![NoticeOf[executor[i].row]] = @ + 1]
  /\ UNCHANGED <<action, waiter, faults>>

\* ... and writes the notice's result by id.
RecordSent(i) ==
  /\ executor[i].pc = "sent"
  /\ action' = [action EXCEPT
       ![NoticeOf[executor[i].row]].status = "COMPLETED",
       ![NoticeOf[executor[i].row]].executed = TRUE]
  /\ executor' = [executor EXCEPT ![i].pc = "finish"]
  /\ UNCHANGED <<waiter, effects, faults>>

RecordUnsent(i) ==
  /\ executor[i].pc = "unsent"
  /\ action' = [action EXCEPT
       ![NoticeOf[executor[i].row]].status = "FAILED"]
  /\ executor' = [executor EXCEPT ![i].pc = "fail"]
  /\ UNCHANGED <<waiter, effects, faults>>

Finish(i) ==
  LET a == executor[i].row IN
  /\ executor[i].pc = "finish"
  /\ action' = [action EXCEPT ![a].status = "COMPLETED",
                              ![a].executed = TRUE, ![a].lockedAt = "null"]
  /\ executor' = [executor EXCEPT ![i].pc = "idle", ![i].row = None]
  /\ UNCHANGED <<waiter, effects, faults>>

\* Variants for mutations: a failed action becomes APPROVED for another run,
\* with and without the release of its lock.
FailRetry(i) ==
  LET a == executor[i].row IN
  /\ executor[i].pc = "fail"
  /\ action' = [action EXCEPT ![a].status = "APPROVED",
                              ![a].lockedAt = "null"]
  /\ executor' = [executor EXCEPT ![i].pc = "idle", ![i].row = None]
  /\ UNCHANGED <<waiter, effects, faults>>

FailLocked(i) ==
  LET a == executor[i].row IN
  /\ executor[i].pc = "fail"
  /\ action' = [action EXCEPT ![a].status = "APPROVED"]
  /\ executor' = [executor EXCEPT ![i].pc = "idle", ![i].row = None]
  /\ UNCHANGED <<waiter, effects, faults>>

Fail(i) ==
  LET a == executor[i].row IN
  /\ executor[i].pc = "fail"
  /\ action' = [action EXCEPT ![a].status = "FAILED", ![a].lockedAt = "null"]
  /\ executor' = [executor EXCEPT ![i].pc = "idle", ![i].row = None]
  /\ UNCHANGED <<waiter, effects, faults>>

\* A rejected call inside the executor's try runs its catch; any other one
\* ends the action, and the worker goes on with its batch.
ExecutorCallFails(i) ==
  /\ faults < MaxFaults
  /\ faults' = faults + 1
  /\ \/ /\ executor[i].pc \in {"notify", "sent", "unsent", "finish"}
        /\ executor' = [executor EXCEPT ![i].pc = "fail"]
     \/ /\ executor[i].pc \in {"claim", "fail"}
        /\ executor' = [executor EXCEPT ![i].pc = "idle", ![i].row = None]
     \/ /\ executor[i].pc = "idle"
        /\ \E a \in executor[i].batch :
             executor' = [executor EXCEPT ![i].batch = @ \ {a}]
  /\ UNCHANGED <<action, waiter, effects>>

----------------------------------------------------------------------------
(* The WAIT scheduler: it selects by status, so a resumed WAIT action is   *)
(* selected again by the next pass.                                        *)

\* Variant for a mutation: the time of the WAIT is not asked for.
WaitOverAnyTime(a) == action[a].status = "COMPLETED" /\ Unlocked(a)

WaitOver(a) ==
  /\ action[a].status = "COMPLETED"
  /\ action[a].scheduledFor = "due"
  /\ Unlocked(a)

WaitPoll(w) ==
  LET due == {a \in Waits : WaitOver(a)} IN
  /\ waiter[w].pc = "idle"
  /\ waiter[w].batch = {}
  /\ due # {}
  /\ waiter' = [waiter EXCEPT ![w].batch = due]
  /\ UNCHANGED <<action, executor, effects, faults>>

WaitClaim(w) ==
  /\ waiter[w].pc = "idle"
  /\ \E a \in waiter[w].batch :
       \/ /\ WaitOver(a)
          /\ action' = [action EXCEPT ![a].lockedAt = "held"]
          /\ waiter' = [waiter EXCEPT ![w].batch = @ \ {a},
                          ![w].pc = "resume", ![w].row = a]
       \/ /\ ~WaitOver(a)
          /\ waiter' = [waiter EXCEPT ![w].batch = @ \ {a}]
          /\ UNCHANGED action
  /\ UNCHANGED <<executor, effects, faults>>

WaitResume(w) ==
  LET a == waiter[w].row IN
  /\ waiter[w].pc = "resume"
  /\ action' = [action EXCEPT ![a].waitDone = TRUE, ![a].lockedAt = "null"]
  /\ waiter' = [waiter EXCEPT ![w].pc = "idle", ![w].row = None]
  /\ UNCHANGED <<executor, effects, faults>>

\* When the result cannot be written the catch releases the lock; a call
\* rejected elsewhere, or in the catch, ends the pass and leaves the lock.
WaitCallFails(w) ==
  /\ faults < MaxFaults
  /\ faults' = faults + 1
  /\ \/ /\ waiter[w].pc = "resume"
        /\ action' = [action EXCEPT ![waiter[w].row].lockedAt = "null"]
        /\ waiter' = [waiter EXCEPT ![w].pc = "idle", ![w].row = None]
     \/ /\ waiter[w] # Idle
        /\ waiter' = [waiter EXCEPT ![w] = Idle]
        /\ UNCHANGED action
  /\ UNCHANGED <<executor, effects>>

----------------------------------------------------------------------------
(* Time, and the loss of a process.                                        *)

LockTimesOut(a) ==
  /\ action[a].lockedAt = "held"
  /\ action' = [action EXCEPT ![a].lockedAt = "expired"]
  /\ UNCHANGED <<executor, waiter, effects, faults>>

WaitTimeComes(a) ==
  /\ action[a].scheduledFor = "later"
  /\ action' = [action EXCEPT ![a].scheduledFor = "due"]
  /\ UNCHANGED <<executor, waiter, effects, faults>>

\* The process dies between two calls and is started again with an empty
\* batch; no code looks for EXECUTING rows.
Crash(p) ==
  /\ faults < MaxFaults
  /\ faults' = faults + 1
  /\ executor' = [i \in Instances |-> IF i = p THEN Idle ELSE executor[i]]
  /\ waiter' = [w \in Schedulers |-> IF w = p THEN Idle ELSE waiter[w]]
  /\ UNCHANGED <<action, effects>>

ExecutorStep(i) ==
  \/ Poll(i) \/ Start(i) \/ Claim(i) \/ Run(i)
  \/ Notify(i) \/ Send(i) \/ RecordSent(i) \/ RecordUnsent(i)
  \/ Finish(i) \/ Fail(i)

WaiterStep(w) == WaitPoll(w) \/ WaitClaim(w) \/ WaitResume(w)

Next ==
  \/ \E a \in Actions : Create(a)
  \/ \E i \in Instances : ExecutorStep(i) \/ ExecutorCallFails(i)
  \/ \E w \in Schedulers : WaiterStep(w) \/ WaitCallFails(w)
  \/ \E a \in Rows : LockTimesOut(a) \/ WaitTimeComes(a)
  \/ \E p \in Instances \cup Schedulers : Crash(p)

Spec == Init /\ [][Next]_vars

\* Workers poll every 5 s and run on; time passes.  Creations, faults and
\* the WAIT script are never forced to happen.
Fairness ==
  /\ \A i \in Instances : WF_vars(ExecutorStep(i))
  /\ \A a \in Rows : WF_vars(LockTimesOut(a)) /\ WF_vars(WaitTimeComes(a))

FairSpec == Spec /\ Fairness

----------------------------------------------------------------------------
(* Properties.                                                             *)

Runs(i, a) ==
  /\ executor[i].row = a
  /\ executor[i].pc \in {"run", "notify", "send", "sent", "unsent", "finish",
                         "fail"}

\* No two workers are inside the handler of one action at a time, whatever
\* stale batches they work from; notices are not covered, see NoticeSentOnce.
ExclusiveExecution ==
  \A a \in Actions : \A i, j \in Instances : Runs(i, a) /\ Runs(j, a) => i = j

\* The outward work of an action is done at most once over its whole life,
\* also with crashes, rejected calls and time-outs of its lock.
EffectAtMostOnce == \A a \in Actions : effects[a] <= 1

\* What the table reports is what happens: a COMPLETED action did its work
\* exactly once, a REJECTED or still APPROVED one has done none of it, and an
\* EXECUTING one is in some worker's hands unless a fault took it from them.
StatusTellsEffect ==
  \A a \in Actions :
    /\ action[a].status = "COMPLETED" => effects[a] = 1
    /\ action[a].status \in {"ABSENT", "REJECTED", "APPROVED"} => effects[a] = 0
    /\ action[a].status = "EXECUTING" =>
         faults > 0 \/ \E i \in Instances : Runs(i, a)

\* No step takes a FAILED action up again, whatever stale batch a worker holds
\* and whatever script runs: no query selects FAILED.  The action life cycle of
\* src/README.md:412 draws a retry of it, which no code performs.  (A notice
\* may: its sender completes a row that another worker made FAILED.)
FailedIsFinal ==
  [][\A a \in Actions :
       action[a].status = "FAILED" => action'[a].status = "FAILED"]_vars

\* A notification that two workers meet goes out twice at the worst: by the
\* handler that inserted it and by one worker that claimed it in between.
NoticeTwiceAtMost == \A n \in Notices : effects[n] <= 2

\* An approved row is never locked: the lock time-out in the two queries for
\* APPROVED rows never selects anything.
ApprovedIsUnlocked ==
  \A a \in Rows : action[a].status = "APPROVED" => action[a].lockedAt = "null"

\* A WAIT action is resumed only after it was completed and its time came.
ResumedAfterWait ==
  \A a \in Waits : action[a].waitDone =>
    action[a].status = "COMPLETED" /\ action[a].scheduledFor = "due"

\* The promise of OneShotWork, read off the table: the work of an action.
StageOf(status) ==
  CASE status = "ABSENT" -> "none"
    [] status = "REJECTED" -> "refused"
    [] status = "APPROVED" -> "ready"
    [] status = "EXECUTING" -> "taken"
    [] status = "COMPLETED" -> "done"
    [] status = "FAILED" -> "failed"

Promise == INSTANCE OneShotWork WITH
  Work <- Actions,
  stage <- [a \in Actions |-> StageOf(action[a].status)],
  calls <- [a \in Actions |-> effects[a]]

\* Every behaviour of workers, schedulers and crashes implements the promise:
\* each step of an action's row is a step of OneShotWork or leaves it alone.
\* The promise allows the documented retry, which FailedIsFinal shows unused.
KeepsPromise == Promise!Spec

\* Every approved action is taken up, whatever fails, and ends as COMPLETED
\* or FAILED, unless a fault stops its execution.
ApprovedIsSettled ==
  \A a \in Rows :
    action[a].status = "APPROVED" ~>
      \/ action[a].status \in {"COMPLETED", "FAILED"}
      \/ faults > 0 /\ action[a].status = "EXECUTING"

\* A notification goes out once, although two workers may meet its row.
NoticeSentOnce == \A n \in Notices : effects[n] <= 1

\* An execution interrupted by the loss of its process is taken up again.
InterruptedIsSettled ==
  \A a \in Actions :
    action[a].status = "EXECUTING" ~> action[a].status # "EXECUTING"
============================================================================
