-------------------------- MODULE PaymentRecovery --------------------------
(***************************************************************************)
(* A failed payment and its recovery: what the webhook handlers            *)
(* (events/handlers), the policy (policy, services/recovery-action),       *)
(* the agent (agent/recovery-agent-orchestrator), the handlers of the      *)
(* actions (execution/handlers, recovery/voice-recovery), the outcomes of  *)
(* voice calls (recovery/voice-outcome), createPromiseToPay and the        *)
(* promise script (recovery/promise-to-pay) do to payments, attempts,      *)
(* cases and promises.  A step is one awaited call outside a transaction;  *)
(* a transaction is split where another one may commit between its reads   *)
(* and its commit.  Delivery of events and claims of actions are the       *)
(* subject of WebhookEvents and ActionExecution: here a failed dispatch is *)
(* simply run again.                                                       *)
(***************************************************************************)
EXTENDS Naturals, Sequences, FiniteSets

CONSTANTS
  Payments,
  Cases,               \* recovery cases that may be opened
  Requests,            \* runs of the agent, each with the action it requests
  Handlers,            \* dispatches of webhook events, and runs of the agent
  Workers,             \* executions of actions
  Listeners,           \* handlers of voice webhooks with a transcript
  Makers,              \* callers of createPromiseToPay
  Scripts,             \* runs of the promise script
  Recommended,         \* types of action the agent may recommend
  MaxPaymentAttempts,  \* MAX_PAYMENT_ATTEMPTS (3)
  MaxFailures,         \* bound on the payment.failed events of a payment
  MaxPromises,         \* bound on the promises of a payment
  MaxRejected,         \* bound on rejected database and provider calls
  MaxCrashes,          \* bound on lost processes
  None

\* The first action of a case is the row named by the case; every payment
\* has an order of its own, every RETRY_PAYMENT action creates one more, and
\* the payment of a link comes under an order of its own.
Rows == Cases \cup Requests
Orders == Payments \cup Rows

VARIABLES
  payment,    \* Payment.status
  lock,       \* the transaction that holds the payment's row
  attempts,   \* PaymentAttempt rows of a payment, by attemptNumber
  recovery,   \* RecoveryCase rows
  promise,    \* PromiseToPay rows of a payment, in order of creation
  action,     \* RecoveryAction rows
  agent,      \* AgentExecution rows
  call,       \* outcome of the VoiceCall a VOICE_RECOVERY action has made
  orders,     \* orders that exist at Razorpay
  handler, worker, listener, maker, script,
  requested,  \* history: first actions inserted for a case
  rejected, crashes

money == <<payment, lock, attempts>>
work == <<action, agent, call, orders>>
rows == <<money, recovery, promise, work>>
counts == <<requested, rejected, crashes>>
vars == <<rows, handler, worker, listener, maker, script, counts>>

Active == {"OPEN", "IN_PROGRESS", "ESCALATED"}
Outcomes == {"PROMISE_TO_PAY", "DECLINED", "NO_RESPONSE"}

Types == {"VOICE_RECOVERY", "RETRY_PAYMENT", "CREATE_PAYMENT_LINK",
          "SEND_NOTIFICATION", "ESCALATE"}   \* WAIT writes its own row only

ASSUME RecoveryAssumption ==
  /\ Cases \cap Requests = {} /\ Payments \cap Rows = {}
  /\ None \notin Orders \cup Handlers
  \* the agent does not recommend voice calls
  /\ Recommended \subseteq Types \ {"VOICE_RECOVERY"}
  /\ MaxPaymentAttempts \in Nat \ {0} /\ MaxFailures \in Nat
  /\ MaxPromises \in Nat /\ MaxRejected \in Nat /\ MaxCrashes \in Nat

Attempt == [status : {"CREATED", "FAILED", "CAPTURED"},
            order  : Orders \cup {None}]
Case == [status  : {"ABSENT", "RECOVERED"} \cup Active,
         payment : Payments \cup {None}]
Promise == [status : {"PENDING", "FULFILLED", "BROKEN"}, case : Cases]
Action == [status : {"ABSENT", "REJECTED", "APPROVED", "EXECUTING",
                     "COMPLETED", "FAILED"},
           type   : Types, case : Cases \cup {None}]

\* A webhook dispatch begins at "failed" or "captured"; "failing" and
\* "capturing", "fulfilling", "closing" are its open transaction; "policy" and
\* "insert" are the transaction of createRecoveryAction.  A run of the agent
\* begins at "recommend" and ends with the update of its AgentExecution.
Handler == [pc      : {"idle", "failed", "failing", "captured", "capturing",
                       "fulfilling", "closing", "policy", "insert",
                       "recommend", "report", "reportFailed"},
            payment : Payments \cup {None},
            order   : Orders \cup {None},
            number  : Nat,
            promise : Nat,   \* number of the promise to fulfil, 0 for none
            row     : Rows \cup {None},
            case    : Cases \cup {None},
            allow   : BOOLEAN]
Worker == [pc        : {"idle", "run", "dial", "called", "ordered", "attempt",
                        "link", "escalate", "complete"},
           row       : Rows \cup {None},
           number    : Nat,
           overtaken : BOOLEAN]   \* history: its case was recovered meanwhile
Listener == [pc : {"idle", "outcome"}, row : Rows \cup {None},
             outcome : Outcomes \cup {None}]
Maker == [pc        : {"idle", "look", "insert"},
          case      : Cases \cup {None},
          overtaken : BOOLEAN]   \* history: a promise or capture meanwhile
Expired == [payment : Payments, number : Nat, paid : BOOLEAN]

\* One type invariant: every table and process has its declared shape.
TypeOK ==
  /\ payment \in [Payments -> {"CREATED", "FAILED", "CAPTURED"}]
  /\ lock \in [Payments -> Handlers \cup {None}]
  /\ attempts \in [Payments -> Seq(Attempt)]
  /\ recovery \in [Cases -> Case]
  /\ promise \in [Payments -> Seq(Promise)]
  /\ action \in [Rows -> Action]
  /\ agent \in [Requests -> {"none", "RUNNING", "COMPLETED", "FAILED"}]
  /\ call \in [Rows -> {"none", "open"} \cup Outcomes]
  /\ orders \subseteq Orders
  /\ handler \in [Handlers -> Handler]
  /\ worker \in [Workers -> Worker]
  /\ listener \in [Listeners -> Listener]
  /\ maker \in [Makers -> Maker]
  /\ script \in [Scripts -> SUBSET Expired]
  /\ requested \in [Cases -> Nat]
  /\ rejected \in 0..MaxRejected /\ crashes \in 0..MaxCrashes

IdleHandler == [pc |-> "idle", payment |-> None, order |-> None, number |-> 0,
                promise |-> 0, row |-> None, case |-> None, allow |-> FALSE]
IdleWorker == [pc |-> "idle", row |-> None, number |-> 0, overtaken |-> FALSE]
IdleListener == [pc |-> "idle", row |-> None, outcome |-> None]
IdleMaker == [pc |-> "idle", case |-> None, overtaken |-> FALSE]

\* The code creates no payments: it finds them stored as CREATED, with no
\* attempt yet (as the seed leaves them) or with the attempt of their order.
Init ==
  /\ payment = [p \in Payments |-> "CREATED"]
  /\ lock = [p \in Payments |-> None]
  /\ \E S \in SUBSET Payments : attempts = [p \in Payments |->
       IF p \in S THEN <<[status |-> "CREATED", order |-> p]>> ELSE <<>>]
  /\ recovery = [c \in Cases |-> [status |-> "ABSENT", payment |-> None]]
  /\ promise = [p \in Payments |-> <<>>]
  /\ action = [a \in Rows |-> [status |-> "ABSENT", type |-> "VOICE_RECOVERY",
                               case |-> None]]
  /\ agent = [a \in Requests |-> "none"]
  /\ call = [a \in Rows |-> "none"]
  /\ orders = Payments
  /\ handler = [h \in Handlers |-> IdleHandler]
  /\ worker = [w \in Workers |-> IdleWorker]
  /\ listener = [l \in Listeners |-> IdleListener]
  /\ maker = [m \in Makers |-> IdleMaker]
  /\ script = [s \in Scripts |-> {}]
  /\ requested = [c \in Cases |-> 0]
  /\ rejected = 0 /\ crashes = 0

ActiveCases(p) ==
  {c \in Cases : recovery[c].status \in Active /\ recovery[c].payment = p}

\* The unique index on the active case of a payment lets c become active.
Admits(c) == ActiveCases(recovery[c].payment) \subseteq {c}

Failures(p) ==
  Cardinality({k \in DOMAIN attempts[p] : attempts[p][k].status = "FAILED"})

----------------------------------------------------------------------------
(* handlePaymentFailed.                                                    *)

ReceiveFailed(h, p) ==
  /\ handler[h].pc = "idle"
  /\ Failures(p) + Cardinality({g \in Handlers :
       handler[g].pc \in {"failed", "failing"} /\ handler[g].payment = p})
       < MaxFailures
  /\ handler' = [handler EXCEPT ![h].pc = "failed", ![h].payment = p]
  /\ UNCHANGED <<rows, worker, listener, maker, script, counts>>

\* The update of the payment locks its row; then the attempts are read.
FailedBegin(h) ==
  LET p == handler[h].payment IN
  /\ handler[h].pc = "failed"
  /\ lock[p] = None
  /\ lock' = [lock EXCEPT ![p] = h]
  /\ handler' = [handler EXCEPT ![h].pc = "failing",
                                ![h].number = Len(attempts[p]) + 1]
  /\ UNCHANGED <<payment, attempts, recovery, promise, work, worker, listener,
                 maker, script, counts>>

\* Variant for a mutation: a case is reused although it is closed.
ReusableClosed(p) == {c \in Cases : recovery[c].payment = p}

\* The case of an earlier failure that is still active.
Reusable(p) == ActiveCases(p)

\* Variants for mutations: the first action is asked for at every failure,
\* or only at the first one.
CaseCreatedAlways(p, c) == TRUE
CaseCreatedOnce(p, c) == recovery[c].status = "ABSENT" /\ payment[p] = "CREATED"

CaseCreated(p, c) == recovery[c].status = "ABSENT"

\* The database names a new case.
NewCase == CHOOSE c \in Cases : recovery[c].status = "ABSENT"

\* The transaction commits: a failed attempt, and a new case unless one can
\* be reused; or a retry has taken the attempt's number: the dispatch throws.
FailedCommit(h) ==
  LET p == handler[h].payment IN
  /\ handler[h].pc = "failing"
  /\ lock' = [lock EXCEPT ![p] = None]
  /\ \/ /\ handler[h].number # Len(attempts[p]) + 1
        /\ handler' = [handler EXCEPT ![h].pc = "failed"]
        /\ UNCHANGED <<payment, attempts, recovery>>
     \/ /\ handler[h].number = Len(attempts[p]) + 1
        /\ payment' = [payment EXCEPT ![p] = "FAILED"]
        /\ attempts' = [attempts EXCEPT ![p] =
             Append(@, [status |-> "FAILED", order |-> None])]
        /\ \E c \in Cases :
             /\ \/ c \in Reusable(p) /\ UNCHANGED recovery
                \/ /\ Reusable(p) = {} /\ recovery[c].status = "ABSENT"
                   /\ c = NewCase
                   /\ recovery' = [recovery EXCEPT
                        ![c] = [status |-> "OPEN", payment |-> p]]
             /\ handler' = [handler EXCEPT ![h] =
                  IF CaseCreated(p, c)
                    THEN [IdleHandler EXCEPT !.pc = "policy", !.payment = p,
                                             !.row = c, !.case = c]
                    ELSE IdleHandler]
  /\ UNCHANGED <<promise, work, worker, listener, maker, script, counts>>

----------------------------------------------------------------------------
(* runRecoveryAgent, and createRecoveryAction, which it and a new case call. *)

\* The context of the case, read for the model, and a RUNNING AgentExecution.
AgentStart(h, a) ==
  /\ handler[h].pc = "idle"
  /\ agent[a] = "none"
  /\ agent' = [agent EXCEPT ![a] = "RUNNING"]
  /\ \E c \in Cases :
       /\ recovery[c].status # "ABSENT"
       /\ handler' = [handler EXCEPT ![h].pc = "recommend", ![h].row = a,
                        ![h].case = c, ![h].payment = recovery[c].payment]
  /\ UNCHANGED <<money, recovery, promise, action, call, orders, worker,
                 listener, maker, script, counts>>

\* The model recommends an action, or throws, or says what is none.
AgentRecommend(h) ==
  /\ handler[h].pc = "recommend"
  /\ \E pc \in {"policy", "reportFailed"} :
       handler' = [handler EXCEPT ![h].pc = pc]
  /\ UNCHANGED <<rows, worker, listener, maker, script, counts>>

\* evaluateRecoveryPolicy on the rows as they are read.
Allowed(c) ==
  LET p == recovery[c].payment IN
  /\ recovery[c].status \in Active
  /\ payment[p] # "CAPTURED"
  /\ Len(attempts[p]) < MaxPaymentAttempts

Policy(h) ==
  /\ handler[h].pc = "policy"
  /\ handler' = [handler EXCEPT ![h].pc = "insert",
                                ![h].allow = Allowed(handler[h].case)]
  /\ UNCHANGED <<rows, worker, listener, maker, script, counts>>

\* Variant for a mutation: an action that needs approval waits for it.
InsertPending(h) ==
  /\ handler[h].pc = "insert"
  /\ \E status \in {"APPROVED", "PENDING"} :
       action' = [action EXCEPT ![handler[h].row].status = status]
  /\ handler' = [handler EXCEPT ![h] = IdleHandler]
  /\ UNCHANGED <<money, recovery, promise, agent, call, orders, worker,
                 listener, maker, script, counts>>

Insert(h) ==
  LET a == handler[h].row IN
  /\ handler[h].pc = "insert"
  /\ \E type \in IF a \in Cases THEN {"VOICE_RECOVERY"} ELSE Recommended :
       action' = [action EXCEPT ![a] =
         [status |-> IF handler[h].allow THEN "APPROVED" ELSE "REJECTED",
          type |-> type, case |-> handler[h].case]]
  /\ requested' = IF a \in Cases THEN [requested EXCEPT ![a] = @ + 1]
                                 ELSE requested
  /\ handler' = IF a \in Cases THEN [handler EXCEPT ![h] = IdleHandler]
                               ELSE [handler EXCEPT ![h].pc = "report"]
  /\ UNCHANGED <<money, recovery, promise, agent, call, orders, worker,
                 listener, maker, script, rejected, crashes>>

\* Variant for a mutation: a failed run is reported like any other.
AgentReportAlways(h) ==
  /\ handler[h].pc \in {"report", "reportFailed"}
  /\ agent' = [agent EXCEPT ![handler[h].row] = "COMPLETED"]
  /\ handler' = [handler EXCEPT ![h] = IdleHandler]
  /\ UNCHANGED <<money, recovery, promise, action, call, orders, worker,
                 listener, maker, script, counts>>

\* Variant for a mutation: the catch block only rethrows.
AgentReportNoFailure(h) ==
  /\ handler[h].pc \in {"report", "reportFailed"}
  /\ agent' = IF handler[h].pc = "report"
       THEN [agent EXCEPT ![handler[h].row] = "COMPLETED"] ELSE agent
  /\ handler' = [handler EXCEPT ![h] = IdleHandler]
  /\ UNCHANGED <<money, recovery, promise, action, call, orders, worker,
                 listener, maker, script, counts>>

\* The update of the AgentExecution, or the one in the catch block.
AgentReport(h) ==
  /\ handler[h].pc \in {"report", "reportFailed"}
  /\ agent' = [agent EXCEPT ![handler[h].row] =
       IF handler[h].pc = "report" THEN "COMPLETED" ELSE "FAILED"]
  /\ handler' = [handler EXCEPT ![h] = IdleHandler]
  /\ UNCHANGED <<money, recovery, promise, action, call, orders, worker,
                 listener, maker, script, counts>>

----------------------------------------------------------------------------
(* handlePaymentCaptured.                                                  *)

ReceiveCaptured(h, o) ==
  /\ handler[h].pc = "idle"
  /\ o \in orders
  /\ handler' = [handler EXCEPT ![h].pc = "captured", ![h].order = o]
  /\ UNCHANGED <<rows, worker, listener, maker, script, counts>>

\* Variant for a mutation: only the latest attempt of a payment is looked at.
CapturedBeginLatest(h) ==
  /\ handler[h].pc = "captured"
  /\ \E p \in Payments : LET k == Len(attempts[p]) IN
       /\ k > 0 /\ attempts[p][k].order = handler[h].order
       /\ handler' = [handler EXCEPT ![h] =
            IF attempts[p][k].status = "CAPTURED" THEN IdleHandler
            ELSE [@ EXCEPT !.pc = "capturing", !.payment = p, !.number = k]]
  /\ UNCHANGED <<rows, worker, listener, maker, script, counts>>

\* A captured attempt is left alone; without an attempt of this order the
\* dispatch throws, and is run again.
CapturedBegin(h) ==
  /\ handler[h].pc = "captured"
  /\ \E p \in Payments : \E k \in DOMAIN attempts[p] :
       /\ attempts[p][k].order = handler[h].order
       /\ handler' = [handler EXCEPT ![h] =
            IF attempts[p][k].status = "CAPTURED" THEN IdleHandler
            ELSE [@ EXCEPT !.pc = "capturing", !.payment = p, !.number = k]]
  /\ UNCHANGED <<rows, worker, listener, maker, script, counts>>

Pending(p) == {k \in DOMAIN promise[p] : promise[p][k].status = "PENDING"}

\* The latest pending promise of p has the number k, or there is none.
LatestPending(p, k) ==
  /\ k = 0 \/ k \in Pending(p)
  /\ Pending(p) \subseteq 0..k

\* The updates of the attempt and of the payment lock the payment's row, which
\* another transaction may hold; fulfillPromiseToPay reads its promise ...
CapturedPromise(h) ==
  LET p == handler[h].payment IN
  /\ handler[h].pc = "capturing"
  /\ lock[p] = None
  /\ lock' = [lock EXCEPT ![p] = h]
  /\ \E k \in 0..Len(promise[p]) :
       /\ LatestPending(p, k)
       /\ handler' = [handler EXCEPT ![h].pc = "fulfilling", ![h].promise = k]
  /\ UNCHANGED <<payment, attempts, recovery, promise, work, worker, listener,
                 maker, script, counts>>

\* Variant for a mutation: the query forgets the escalated cases.
ClosableUnescalated(p) ==
  {c \in ActiveCases(p) : recovery[c].status # "ESCALATED"}

\* The case the money ends.
Closable(p) == ActiveCases(p)

\* ... the handler reads the active case, if there is one ...
CapturedCase(h) ==
  LET cases == Closable(handler[h].payment) IN
  /\ handler[h].pc = "fulfilling"
  /\ \E c \in IF cases = {} THEN {None} ELSE cases :
       handler' = [handler EXCEPT ![h].pc = "closing", ![h].case = c]
  /\ UNCHANGED <<rows, worker, listener, maker, script, counts>>

\* Variant for a mutation: the attempt of the order is not marked.
MarkedNothing(p, k) == attempts

MarkedCaptured(p, k) == [attempts EXCEPT ![p][k].status = "CAPTURED"]

\* The callers of createPromiseToPay for the cases in C, and the handlers of
\* their actions, act on what they have read before.
OvertakeMakers(C) ==
  [m \in Makers |-> IF maker[m].case \in C
     THEN [maker[m] EXCEPT !.overtaken = TRUE] ELSE maker[m]]
OvertakeWorkers(C) ==
  [w \in Workers |->
     IF worker[w].pc \in {"dial", "called", "escalate"}
          /\ action[worker[w].row].case \in C
     THEN [worker[w] EXCEPT !.overtaken = TRUE] ELSE worker[w]]

\* The promise becomes FULFILLED by its id, whatever it is by now.
Fulfilled(p, k) ==
  [j \in DOMAIN promise[p] |->
     IF j = k THEN [promise[p][j] EXCEPT !.status = "FULFILLED"]
              ELSE promise[p][j]]

\* ... and the transaction commits: promise and case are written by id.
CapturedCommit(h) ==
  LET p == handler[h].payment IN
  /\ handler[h].pc = "closing"
  /\ lock' = [lock EXCEPT ![p] = None]
  /\ attempts' = MarkedCaptured(p, handler[h].number)
  /\ payment' = [payment EXCEPT ![p] = "CAPTURED"]
  /\ promise' = [promise EXCEPT ![p] = Fulfilled(p, handler[h].promise)]
  /\ recovery' = [c \in Cases |-> IF c = handler[h].case
       THEN [recovery[c] EXCEPT !.status = "RECOVERED"] ELSE recovery[c]]
  /\ worker' = OvertakeWorkers({handler[h].case})
  /\ maker' = OvertakeMakers({c \in Cases : recovery[c].payment = p})
  /\ handler' = [handler EXCEPT ![h] = IdleHandler]
  /\ UNCHANGED <<work, listener, script, counts>>

----------------------------------------------------------------------------
(* The handlers of the actions.                                            *)

Take(w) ==
  /\ worker[w].pc = "idle"
  /\ \E a \in Rows :
       /\ action[a].status = "APPROVED"
       /\ action' = [action EXCEPT ![a].status = "EXECUTING"]
       /\ worker' = [worker EXCEPT ![w].pc = "run", ![w].row = a]
  /\ UNCHANGED <<money, recovery, promise, agent, call, orders, handler,
                 listener, maker, script, counts>>

\* The executor writes what became of the action.
End(w, status) ==
  /\ action' = [action EXCEPT ![worker[w].row].status = status]
  /\ worker' = [worker EXCEPT ![w] = IdleWorker]

\* Variant for a mutation: the executor lets a failed action be taken again.
ThrowAgain(w) == End(w, "APPROVED")

\* The handler goes on; or it throws, and the executor's catch block runs.
Goto(w, pc) ==
  worker' = [worker EXCEPT ![w].pc = pc] /\ UNCHANGED action
Throw(w) == End(w, "FAILED")

Complete(w) ==
  /\ worker[w].pc = "complete"
  /\ End(w, "COMPLETED")
  /\ UNCHANGED <<money, recovery, promise, agent, call, orders, handler,
                 listener, maker, script, counts>>

Runs(w, pc, type) ==
  worker[w].pc = pc /\ action[worker[w].row].type = type

CaseOf(w) == action[worker[w].row].case

\* A case is moved by id, unless the unique index on active cases refuses.
MoveCase(w, status) ==
  \/ /\ Admits(CaseOf(w))
     /\ recovery' = [recovery EXCEPT ![CaseOf(w)].status = status]
     /\ Goto(w, "complete")
  \/ /\ ~Admits(CaseOf(w))
     /\ Throw(w)
     /\ UNCHANGED recovery

\* initiateVoiceRecovery reads the case ...
VoiceRead(w) ==
  /\ Runs(w, "run", "VOICE_RECOVERY")
  /\ \/ /\ recovery[CaseOf(w)].status \in {"OPEN", "IN_PROGRESS"}
        /\ Goto(w, "dial")
     \/ Throw(w)
  /\ UNCHANGED <<money, recovery, promise, agent, call, orders, handler,
                 listener, maker, script, counts>>

\* ... calls the customer and stores the call, or throws ...
VoiceDial(w) ==
  /\ worker[w].pc = "dial"
  /\ \/ /\ call' = [call EXCEPT ![worker[w].row] = "open"]
        /\ Goto(w, "called")
     \/ Throw(w) /\ UNCHANGED call
  /\ UNCHANGED <<money, recovery, promise, agent, orders, handler, listener,
                 maker, script, counts>>

\* ... and moves the case.
VoiceProgress(w) ==
  /\ worker[w].pc = "called"
  /\ MoveCase(w, "IN_PROGRESS")
  /\ UNCHANGED <<money, promise, agent, call, orders, handler, listener,
                 maker, script, counts>>

\* executeRetryPayment creates an order, whatever became of the payment ...
RetryOrder(w) ==
  /\ Runs(w, "run", "RETRY_PAYMENT")
  /\ \/ /\ orders' = orders \cup {worker[w].row}
        /\ Goto(w, "ordered")
     \/ Throw(w) /\ UNCHANGED orders
  /\ UNCHANGED <<money, recovery, promise, agent, call, handler, listener,
                 maker, script, counts>>

\* ... reads the last attempt's number ...
RetryNumber(w) ==
  LET p == recovery[CaseOf(w)].payment IN
  /\ worker[w].pc = "ordered"
  /\ worker' = [worker EXCEPT ![w].pc = "attempt",
                              ![w].number = Len(attempts[p]) + 1]
  /\ UNCHANGED <<rows, handler, listener, maker, script, counts>>

\* Variant for a mutation: a number that is taken counts as stored before.
RetryAttemptLenient(w) ==
  LET p == recovery[CaseOf(w)].payment IN
  /\ worker[w].pc = "attempt"
  /\ attempts' = IF worker[w].number = Len(attempts[p]) + 1
       THEN [attempts EXCEPT ![p] = Append(@,
              [status |-> "CREATED", order |-> worker[w].row])]
       ELSE attempts
  /\ Goto(w, "complete")
  /\ UNCHANGED <<payment, lock, recovery, promise, agent, call, orders,
                 handler, listener, maker, script, counts>>

\* ... and stores the next attempt, unless its number has been taken.
RetryAttempt(w) ==
  LET p == recovery[CaseOf(w)].payment IN
  /\ worker[w].pc = "attempt"
  /\ \/ /\ worker[w].number = Len(attempts[p]) + 1
        /\ attempts' = [attempts EXCEPT ![p] = Append(@,
             [status |-> "CREATED", order |-> worker[w].row])]
        /\ Goto(w, "complete")
     \/ /\ worker[w].number # Len(attempts[p]) + 1
        /\ Throw(w)
        /\ UNCHANGED attempts
  /\ UNCHANGED <<payment, lock, recovery, promise, agent, call, orders,
                 handler, listener, maker, script, counts>>

\* executeCreatePaymentLink refuses a captured payment as it reads it ...
LinkRead(w) ==
  /\ Runs(w, "run", "CREATE_PAYMENT_LINK")
  /\ \/ /\ payment[recovery[CaseOf(w)].payment] # "CAPTURED"
        /\ Goto(w, "link")
     \/ Throw(w)
  /\ UNCHANGED <<money, recovery, promise, agent, call, orders, handler,
                 listener, maker, script, counts>>

\* ... and creates the link, but no attempt; its notice may fail after that.
LinkCreate(w) ==
  /\ worker[w].pc = "link"
  /\ \/ /\ orders' = orders \cup {worker[w].row}
        /\ Goto(w, "complete") \/ Throw(w)
     \/ Throw(w) /\ UNCHANGED orders
  /\ UNCHANGED <<money, recovery, promise, agent, call, handler, listener,
                 maker, script, counts>>

\* executeSendNotification refuses a captured payment as it reads it; what it
\* sends is in no table.
Notify(w) ==
  /\ Runs(w, "run", "SEND_NOTIFICATION")
  /\ \/ /\ payment[recovery[CaseOf(w)].payment] # "CAPTURED"
        /\ Goto(w, "complete")
     \/ Throw(w)
  /\ UNCHANGED <<money, recovery, promise, agent, call, orders, handler,
                 listener, maker, script, counts>>

\* Variant for a mutation: the handler does not look at the case.
EscalateReadUnchecked(w) ==
  /\ Runs(w, "run", "ESCALATE")
  /\ Goto(w, "escalate")
  /\ UNCHANGED <<money, recovery, promise, agent, call, orders, handler,
                 listener, maker, script, counts>>

\* executeEscalate refuses a recovered case as it reads it ...
EscalateRead(w) ==
  /\ Runs(w, "run", "ESCALATE")
  /\ \/ recovery[CaseOf(w)].status # "RECOVERED" /\ Goto(w, "escalate")
     \/ recovery[CaseOf(w)].status = "RECOVERED" /\ Throw(w)
  /\ UNCHANGED <<money, recovery, promise, agent, call, orders, handler,
                 listener, maker, script, counts>>

\* ... and escalates it.
EscalateWrite(w) ==
  /\ worker[w].pc = "escalate"
  /\ MoveCase(w, "ESCALATED")
  /\ UNCHANGED <<money, promise, agent, call, orders, handler, listener,
                 maker, script, counts>>

----------------------------------------------------------------------------
(* Voice outcomes and promises.                                            *)

\* processVoiceRecoveryOutcome reads a call that has no outcome yet ...
OutcomeRead(l, a) ==
  /\ listener[l].pc = "idle"
  /\ call[a] = "open"
  /\ \E o \in Outcomes : listener' = [listener EXCEPT ![l] =
       [pc |-> "outcome", row |-> a, outcome |-> o]]
  /\ UNCHANGED <<rows, handler, worker, maker, script, counts>>

\* A new promise of the case c.
Promised(p, c) ==
  [promise EXCEPT ![p] = Append(@, [status |-> "PENDING", case |-> c])]

\* ... and commits it: it asks neither for the case nor for the call again.
OutcomeCommit(l) ==
  LET a == listener[l].row
      c == action[a].case
      p == recovery[c].payment
      o == listener[l].outcome IN
  /\ listener[l].pc = "outcome"
  /\ \/ /\ Admits(c)
        /\ recovery' = [recovery EXCEPT ![c].status =
             IF o = "DECLINED" THEN "ESCALATED" ELSE "IN_PROGRESS"]
        /\ \/ /\ o = "PROMISE_TO_PAY" /\ Len(promise[p]) < MaxPromises
              /\ promise' = Promised(p, c)
              /\ maker' = OvertakeMakers({c})
           \/ o # "PROMISE_TO_PAY" /\ UNCHANGED <<promise, maker>>
        /\ call' = [call EXCEPT ![a] = o]
     \/ /\ ~Admits(c)
        /\ UNCHANGED <<recovery, promise, call, maker>>
  /\ listener' = [listener EXCEPT ![l] = IdleListener]
  /\ UNCHANGED <<money, action, agent, orders, handler, worker, script, counts>>

\* createPromiseToPay, in a transaction that locks nothing: it reads the case
\* and the payment ...
PromiseRead(m, c) ==
  /\ maker[m].pc = "idle"
  /\ recovery[c].status \in {"OPEN", "IN_PROGRESS"}
  /\ payment[recovery[c].payment] # "CAPTURED"
  /\ maker' = [maker EXCEPT ![m].pc = "look", ![m].case = c]
  /\ UNCHANGED <<rows, handler, worker, listener, script, counts>>

PendingOf(c) ==
  {k \in Pending(recovery[c].payment) : promise[recovery[c].payment][k].case = c}

\* Variant for a mutation: an earlier promise is not looked for.
PromiseLookAway(m) ==
  /\ maker[m].pc = "look"
  /\ maker' = [maker EXCEPT ![m].pc = "insert"]
  /\ UNCHANGED <<rows, handler, worker, listener, script, counts>>

\* ... looks for a promise of the case that is pending ...
PromiseLook(m) ==
  /\ maker[m].pc = "look"
  /\ maker' = IF PendingOf(maker[m].case) = {}
       THEN [maker EXCEPT ![m].pc = "insert"]
       ELSE [maker EXCEPT ![m] = IdleMaker]
  /\ UNCHANGED <<rows, handler, worker, listener, script, counts>>

\* ... and creates one.
PromiseInsert(m) ==
  LET c == maker[m].case
      p == recovery[c].payment IN
  /\ maker[m].pc = "insert"
  /\ Len(promise[p]) < MaxPromises
  /\ promise' = Promised(p, c)
  /\ maker' = [OvertakeMakers({c}) EXCEPT ![m] = IdleMaker]
  /\ UNCHANGED <<money, recovery, work, handler, worker, listener, script,
                 counts>>

\* The script reads promises whose time is over, with their payments ...
ScriptRead(s) ==
  /\ script[s] = {}
  /\ \E S \in SUBSET UNION {{p} \X Pending(p) : p \in Payments} :
       /\ S # {}
       /\ script' = [script EXCEPT ![s] = {[payment |-> x[1], number |-> x[2],
                                paid |-> payment[x[1]] = "CAPTURED"] : x \in S}]
  /\ UNCHANGED <<rows, handler, worker, listener, maker, counts>>

\* Variant for a mutation: the update asks for the id alone.
ScriptWriteById(s) ==
  /\ \E x \in script[s] :
       /\ promise' = [promise EXCEPT ![x.payment][x.number].status =
                        IF x.paid THEN "FULFILLED" ELSE "BROKEN"]
       /\ script' = [script EXCEPT ![s] = @ \ {x}]
  /\ UNCHANGED <<money, recovery, work, handler, worker, listener, maker,
                 counts>>

\* ... and settles one by what it has read of the payment.
ScriptWrite(s) ==
  /\ \E x \in script[s] :
       /\ \/ /\ x.paid
             /\ promise' = [promise EXCEPT
                  ![x.payment][x.number].status = "FULFILLED"]
          \/ /\ ~x.paid /\ x.number \in Pending(x.payment)
             /\ promise' = [promise EXCEPT
                  ![x.payment][x.number].status = "BROKEN"]
          \/ /\ ~x.paid /\ x.number \notin Pending(x.payment)
             /\ UNCHANGED promise
       /\ script' = [script EXCEPT ![s] = @ \ {x}]
  /\ UNCHANGED <<money, recovery, work, handler, worker, listener, maker,
                 counts>>

----------------------------------------------------------------------------
(* Failures of calls and processes.                                        *)

Unlocked(h) == [p \in Payments |-> IF lock[p] = h THEN None ELSE lock[p]]

\* A rejected call rolls the transaction back; a webhook's dispatch is run
\* again from its beginning, the agent's run goes to its catch block.
HandlerCallFails(h) ==
  /\ rejected < MaxRejected
  /\ rejected' = rejected + 1
  /\ lock' = Unlocked(h)
  /\ \/ /\ handler[h].pc \in {"capturing", "fulfilling", "closing"}
        /\ handler' = [handler EXCEPT ![h] =
             [IdleHandler EXCEPT !.pc = "captured",
                                 !.order = handler[h].order]]
     \/ /\ \/ handler[h].pc = "failing"
           \/ handler[h].pc \in {"policy", "insert"} /\ handler[h].row \in Cases
        /\ handler' = [handler EXCEPT ![h] =
             [IdleHandler EXCEPT !.pc = "failed",
                                 !.payment = handler[h].payment]]
     \/ /\ \/ handler[h].pc = "report"
           \/ handler[h].pc \in {"policy", "insert"} /\ handler[h].row \in Requests
        /\ handler' = [handler EXCEPT ![h].pc = "reportFailed"]
     \/ /\ handler[h].pc = "reportFailed"
        /\ handler' = [handler EXCEPT ![h] = IdleHandler]
  /\ UNCHANGED <<payment, attempts, recovery, promise, work, worker, listener,
                 maker, script, requested, crashes>>

\* The executor takes a rejected call of an action's handler for its failure.
WorkerCallFails(w) ==
  /\ rejected < MaxRejected
  /\ rejected' = rejected + 1
  /\ worker[w].pc # "idle"
  /\ Throw(w)
  /\ UNCHANGED <<money, recovery, promise, agent, call, orders, handler,
                 listener, maker, script, requested, crashes>>

CrashHandler(h) ==
  /\ crashes < MaxCrashes
  /\ crashes' = crashes + 1
  /\ handler[h].pc # "idle"
  /\ handler' = [handler EXCEPT ![h] = IdleHandler]
  /\ lock' = Unlocked(h)
  /\ UNCHANGED <<payment, attempts, recovery, promise, work, worker, listener,
                 maker, script, requested, rejected>>

CrashWorker(w) ==
  /\ crashes < MaxCrashes
  /\ crashes' = crashes + 1
  /\ worker[w].pc # "idle"
  /\ worker' = [worker EXCEPT ![w] = IdleWorker]
  /\ UNCHANGED <<rows, handler, listener, maker, script, requested, rejected>>

----------------------------------------------------------------------------
HandlerStep(h) ==
  \/ FailedBegin(h) \/ FailedCommit(h) \/ Policy(h) \/ Insert(h)
  \/ CapturedBegin(h) \/ CapturedPromise(h) \/ CapturedCase(h)
  \/ CapturedCommit(h)
  \/ AgentRecommend(h) \/ AgentReport(h)

WorkerStep(w) ==
  \/ Take(w) \/ VoiceRead(w) \/ VoiceDial(w) \/ VoiceProgress(w)
  \/ RetryOrder(w) \/ RetryNumber(w) \/ RetryAttempt(w)
  \/ LinkRead(w) \/ LinkCreate(w) \/ Notify(w)
  \/ EscalateRead(w) \/ EscalateWrite(w) \/ Complete(w)

Next ==
  \/ \E h \in Handlers :
       \/ \E p \in Payments : ReceiveFailed(h, p)
       \/ \E o \in Orders : ReceiveCaptured(h, o)
       \/ \E a \in Requests : AgentStart(h, a)
       \/ HandlerStep(h) \/ HandlerCallFails(h) \/ CrashHandler(h)
  \/ \E w \in Workers : WorkerStep(w) \/ WorkerCallFails(w) \/ CrashWorker(w)
  \/ \E l \in Listeners :
       OutcomeCommit(l) \/ \E a \in Rows : OutcomeRead(l, a)
  \/ \E m \in Makers :
       PromiseLook(m) \/ PromiseInsert(m) \/ \E c \in Cases : PromiseRead(m, c)
  \/ \E s \in Scripts : ScriptRead(s) \/ ScriptWrite(s)

Spec == Init /\ [][Next]_vars

\* A started dispatch runs on, and is run again until it succeeds; a started
\* run of the agent runs on; nothing is assumed of events, calls, actions and
\* faults.
Fairness == \A h \in Handlers : WF_vars(HandlerStep(h))

FairSpec == Spec /\ Fairness

----------------------------------------------------------------------------
(* Properties.                                                             *)

Captured(o) ==
  \E p \in Payments : \E k \in DOMAIN attempts[p] :
    attempts[p][k].order = o /\ attempts[p][k].status = "CAPTURED"

Paid(p) == \E k \in DOMAIN attempts[p] : attempts[p][k].status = "CAPTURED"

\* The failure of a payment is never forgotten: while it is FAILED one of its
\* cases is active, whatever captures, escalations and stale updates do.
FailedIsPursued ==
  \A p \in Payments : payment[p] = "FAILED" => ActiveCases(p) # {}

\* Nothing is reported as recovered without money: a CAPTURED payment, a
\* RECOVERED case and a FULFILLED promise have a captured attempt.
RecoveredIsPaid ==
  /\ \A p \in Payments :
       payment[p] = "CAPTURED" \/ (\E k \in DOMAIN promise[p] :
         promise[p][k].status = "FULFILLED") => Paid(p)
  /\ \A c \in Cases :
       recovery[c].status = "RECOVERED" => Paid(recovery[c].payment)

\* However often and concurrently payment.failed is dispatched, a case gets
\* its first action at most once.
FirstActionOnce == \A c \in Cases : requested[c] <= 1

\* Has the work of a COMPLETED action left what others will look for: the
\* attempt a capture is found by, the call a webhook is found by?
Stored(o) ==
  \E p \in Payments : \E k \in DOMAIN attempts[p] : attempts[p][k].order = o

\* A retry is COMPLETED only when its order has an attempt, and a voice action
\* only when its call is stored, whoever took the number or moved the case.
CompletedIsStored ==
  \A a \in Rows : action[a].status = "COMPLETED" =>
    /\ action[a].type = "RETRY_PAYMENT" => Stored(a)
    /\ action[a].type = "VOICE_RECOVERY" => call[a] # "none"

\* However its handler is interrupted and its result refused, an action adds at
\* most one attempt, and to the payment of its own case.
AddsOneAttempt ==
  \A p \in Payments : \A k \in DOMAIN attempts[p] :
    LET a == attempts[p][k].order IN a \in Rows =>
      /\ action[a].type = "RETRY_PAYMENT"
      /\ recovery[action[a].case].payment = p
      /\ \A j \in DOMAIN attempts[p] : attempts[p][j].order = a => j = k

\* Only faults leave work that nobody does: a case without its first action, a
\* RUNNING AgentExecution and an EXECUTING action have a process at work on
\* them, whatever other events, throws and refused inserts come between.
NothingAbandoned ==
  rejected + crashes = 0 =>
    /\ \A c \in Cases :
         recovery[c].status # "ABSENT" /\ action[c].status = "ABSENT" =>
           \E h \in Handlers :
             handler[h].pc \in {"policy", "insert"} /\ handler[h].row = c
    /\ \A a \in Requests : agent[a] = "RUNNING" =>
         \E h \in Handlers : handler[h].pc # "idle" /\ handler[h].row = a
    /\ \A a \in Rows : action[a].status = "EXECUTING" =>
         \E w \in Workers : worker[w].pc # "idle" /\ worker[w].row = a

\* The AgentExecution tells what became of the action: COMPLETED means there
\* is one, and FAILED that there is none unless the update itself was refused.
AgentRunIsTold ==
  \A a \in Requests :
    /\ agent[a] = "COMPLETED" => action[a].status # "ABSENT"
    /\ agent[a] = "FAILED" /\ rejected = 0 => action[a].status = "ABSENT"

\* A recovered case is made active again by an action's handler only if the
\* capture came between that handler's read of the case and its write.
OnlyOvertakenReopen ==
  [][\A c \in Cases :
       recovery[c].status = "RECOVERED" /\ recovery'[c].status \in Active =>
         \/ UNCHANGED worker
         \/ \E w \in Workers : worker[w].overtaken /\ worker'[w] # worker[w]]_vars

\* createPromiseToPay makes a second pending promise of a case, or one for a
\* captured payment, only if another transaction came between its first read
\* and its insert.
OnlyOvertakenPromises ==
  [][\A m \in Makers :
       LET c == maker[m].case IN
       maker[m].pc = "insert" /\ promise' # promise /\ maker'[m].pc = "idle" =>
         \/ maker[m].overtaken
         \/ PendingOf(c) = {} /\ payment[recovery[c].payment] # "CAPTURED"]_vars

\* A promise that was kept stays kept: no script that read the payment before
\* its capture reports it as broken.
KeptStaysKept ==
  [][\A p \in Payments : \A k \in DOMAIN promise[p] :
       promise[p][k].status = "FULFILLED" =>
         promise'[p][k].status = "FULFILLED"]_vars

\* The promise of CaseLife, read off the tables.
StageOf(status) ==
  CASE status = "ABSENT" -> "none"
    [] status \in Active -> "active"
    [] status = "RECOVERED" -> "closed"

Life == INSTANCE CaseLife WITH
  stage <- [c \in Cases |-> StageOf(recovery[c].status)],
  owner <- [c \in Cases |-> recovery[c].payment],
  due <- {p \in Payments : payment[p] = "FAILED"},
  paid <- {p \in Payments : Paid(p)}

\* All the processes together implement CaseLife: failures, captures, stale
\* writes by id and outcomes never leave a failed payment without its one
\* active case, nor end a case without the money or the money without it.
KeepsLife == Life!Spec

\* A new case gets its first action, unless a fault stops its dispatch.
CaseGetsAction ==
  \A c \in Cases :
    recovery[c].status # "ABSENT" ~>
      action[c].status # "ABSENT" \/ rejected + crashes > 0

\* The capture of an order that has an attempt is recorded in the end, however
\* dispatches of failures take its payment's lock and calls are rejected; only
\* the loss of its process can keep it from that.
CaptureIsRecorded ==
  \A o \in Payments \cup Requests :   \* the first action orders nothing
    (Stored(o) /\ \E h \in Handlers :
       handler[h].pc = "captured" /\ handler[h].order = o)
      ~> Captured(o) \/ crashes > 0

\* An already recovered case is never escalated.
RecoveredNotEscalated ==
  [][\A c \in Cases : recovery[c].status = "RECOVERED" =>
       recovery'[c].status # "ESCALATED"]_vars

\* A failed payment automatically becomes an executable recovery workflow.
WorkflowStarts ==
  \A c \in Cases : recovery[c].status # "ABSENT" ~> action[c].status # "ABSENT"
============================================================================
