----------------------- MODULE PaymentRecovery_proofs -----------------------
(***************************************************************************)
(* Proofs about PaymentRecovery, for any payments, cases, processes and    *)
(* recommended actions, and for any bounds.                                *)
(***************************************************************************)
EXTENDS PaymentRecovery, SequenceTheorems, TLAPS

----------------------------------------------------------------------------
(* Types, and what the tables and the processes refer to.                  *)

Existing(c) == c \in Cases /\ recovery[c].status # "ABSENT"
Made(a) == a \in Rows /\ action[a].status # "ABSENT"
Holding == {"recommend", "policy", "insert", "report", "reportFailed"}
Capture == {"capturing", "fulfilling", "closing"}

CasesLinked == \A c \in Cases : Existing(c) => recovery[c].payment \in Payments
ActionsLinked == \A a \in Rows : Made(a) => Existing(action[a].case)
CallsLinked == \A a \in Rows : call[a] # "none" => Made(a)
Closes(r) ==
  \/ r.case = None
  \/ Existing(r.case) /\ recovery[r.case].payment = r.payment
HandlersLinked ==
  \A h \in Handlers :
    /\ handler[h].pc \in {"failed", "failing"} \cup Capture \cup Holding =>
         handler[h].payment \in Payments
    /\ handler[h].pc \in Holding =>
         handler[h].row \in Rows /\ Existing(handler[h].case)
    /\ handler[h].pc = "closing" => Closes(handler[h])
WorkersLinked == \A w \in Workers : worker[w].pc # "idle" => Made(worker[w].row)
ListenersLinked ==
  \A l \in Listeners : listener[l].pc = "outcome" =>
    /\ Made(listener[l].row) /\ listener[l].outcome \in Outcomes
    /\ call[listener[l].row] # "none"
MakersLinked == \A m \in Makers : maker[m].pc # "idle" => Existing(maker[m].case)
ScriptsLinked ==
  \A s \in Scripts : \A x \in script[s] : x.number \in DOMAIN promise[x.payment]

TypeInv ==
  /\ TypeOK
  /\ CasesLinked /\ ActionsLinked /\ CallsLinked
  /\ HandlersLinked /\ WorkersLinked /\ ListenersLinked /\ MakersLinked
  /\ ScriptsLinked

\* The processes, and what each of them leaves alone.
ByHandler(h) ==
  \/ \E p \in Payments : ReceiveFailed(h, p)
  \/ \E o \in Orders : ReceiveCaptured(h, o)
  \/ \E a \in Requests : AgentStart(h, a)
  \/ HandlerStep(h) \/ HandlerCallFails(h) \/ CrashHandler(h)
ByWorker(w) == WorkerStep(w) \/ WorkerCallFails(w) \/ CrashWorker(w)
ByListener(l) == OutcomeCommit(l) \/ \E a \in Rows : OutcomeRead(l, a)
ByMaker(m) ==
  PromiseLook(m) \/ PromiseInsert(m) \/ \E c \in Cases : PromiseRead(m, c)
ByScript(s) == ScriptRead(s) \/ ScriptWrite(s)

LEMMA NextBy ==
  [Next]_vars <=> \/ \E h \in Handlers : ByHandler(h)
                  \/ \E w \in Workers : ByWorker(w)
                  \/ \E l \in Listeners : ByListener(l)
                  \/ \E m \in Makers : ByMaker(m)
                  \/ \E s \in Scripts : ByScript(s)
                  \/ UNCHANGED vars
  BY Zenon DEF Next, ByHandler, ByWorker, ByListener, ByMaker, ByScript

LEMMA HandlerFrame ==
  ASSUME NEW h \in Handlers, ByHandler(h)
  PROVE  UNCHANGED <<call, orders, listener, script>>
  BY DEF ByHandler, HandlerStep, rows, work, ReceiveFailed, ReceiveCaptured,
     AgentStart, FailedBegin, FailedCommit, Policy, Insert, CapturedBegin,
     CapturedPromise, CapturedCase, CapturedCommit, AgentRecommend,
     AgentReport, HandlerCallFails, CrashHandler

LEMMA WorkerFrame ==
  ASSUME NEW w \in Workers, ByWorker(w)
  PROVE  UNCHANGED <<payment, lock, promise, agent, handler, listener, maker,
                     script, requested>>
  BY DEF ByWorker, WorkerStep, rows, money, work, counts, Take, VoiceRead,
     VoiceDial, VoiceProgress, RetryOrder, RetryNumber, RetryAttempt, LinkRead,
     LinkCreate, Notify, EscalateRead, EscalateWrite, Complete,
     WorkerCallFails, CrashWorker

LEMMA ListenerFrame ==
  ASSUME NEW l \in Listeners, ByListener(l)
  PROVE  UNCHANGED <<payment, lock, attempts, action, agent, orders, handler,
                     worker, script, requested, rejected, crashes>>
  BY DEF ByListener, OutcomeRead, OutcomeCommit, rows, money, work, counts

LEMMA MakerFrame ==
  ASSUME NEW m \in Makers, ByMaker(m)
  PROVE  UNCHANGED <<payment, lock, attempts, recovery, action, agent, call,
                     orders, handler, worker, listener, script, requested,
                     rejected, crashes>>
  BY DEF ByMaker, PromiseRead, PromiseLook, PromiseInsert, rows, money, work,
         counts

LEMMA ScriptFrame ==
  ASSUME NEW s \in Scripts, ByScript(s)
  PROVE  UNCHANGED <<payment, lock, attempts, recovery, action, agent, call,
                     orders, handler, worker, listener, maker, requested,
                     rejected, crashes>>
  BY DEF ByScript, ScriptRead, ScriptWrite, rows, money, work, counts

LEMMA StutterFrame ==
  ASSUME UNCHANGED vars
  PROVE  UNCHANGED <<payment, lock, attempts, recovery, promise, action, agent,
                     call, orders, handler, worker, listener, maker, script,
                     requested, rejected, crashes>>
  BY DEF vars, rows, money, work, counts

LEMMA InitTypeInv == Init => TypeInv
<1> SUFFICES ASSUME Init PROVE TypeInv
  OBVIOUS
<1>1. attempts \in [Payments -> Seq(Attempt)]
  <2>1. PICK S \in SUBSET Payments : attempts = [p \in Payments |->
          IF p \in S THEN <<[status |-> "CREATED", order |-> p]>> ELSE <<>>]
    BY DEF Init
  <2>2. \A p \in Payments : [status |-> "CREATED", order |-> p] \in Attempt
    BY DEF Attempt, Orders
  <2> QED
    BY <2>1, <2>2
<1>2. MaxRejected \in Nat /\ MaxCrashes \in Nat
  BY RecoveryAssumption
<1>3. TypeOK
  BY <1>1, <1>2 DEF Init, TypeOK, Case, Promise, Action, Handler, Worker,
       Listener, Maker, IdleHandler, IdleWorker, IdleListener, IdleMaker, Types,
       Orders
<1> QED
  BY <1>3 DEF Init, TypeInv, CasesLinked, ActionsLinked, CallsLinked,
     HandlersLinked, WorkersLinked, ListenersLinked, MakersLinked,
     ScriptsLinked, Existing, Made, Holding, Capture, IdleHandler, IdleWorker,
     IdleListener, IdleMaker

\* Who writes the cases; the cases of a payment that are active stay their own.
LEMMA RecoveryWriters ==
  [Next]_vars =>
    \/ UNCHANGED recovery
    \/ \E h \in Handlers : FailedCommit(h) \/ CapturedCommit(h)
    \/ \E w \in Workers : VoiceProgress(w) \/ EscalateWrite(w)
    \/ \E l \in Listeners : OutcomeCommit(l)
<1>1. ASSUME NEW h \in Handlers, ByHandler(h)
      PROVE  UNCHANGED recovery \/ FailedCommit(h) \/ CapturedCommit(h)
  BY <1>1 DEF ByHandler, HandlerStep, rows, ReceiveFailed, ReceiveCaptured,
     AgentStart, FailedBegin, Policy, Insert, CapturedBegin, CapturedPromise,
     CapturedCase, AgentRecommend, AgentReport, HandlerCallFails, CrashHandler
<1>2. ASSUME NEW w \in Workers, ByWorker(w)
      PROVE  UNCHANGED recovery \/ VoiceProgress(w) \/ EscalateWrite(w)
  BY <1>2 DEF ByWorker, WorkerStep, rows, Take, VoiceRead, VoiceDial,
     RetryOrder, RetryNumber, RetryAttempt, LinkRead, LinkCreate, Notify,
     EscalateRead, Complete, WorkerCallFails, CrashWorker
<1>3. ASSUME NEW l \in Listeners, ByListener(l)
      PROVE  UNCHANGED recovery \/ OutcomeCommit(l)
  BY <1>3 DEF ByListener, OutcomeRead, rows
<1> QED
  BY <1>1, <1>2, <1>3, NextBy, MakerFrame, ScriptFrame, StutterFrame

\* A worker under way has a case.
LEMMA WorkersCase ==
  ASSUME TypeInv, NEW w \in Workers, worker[w].pc # "idle"
  PROVE  /\ worker[w].row \in Rows
         /\ CaseOf(w) \in Cases /\ Existing(CaseOf(w))
         /\ recovery[CaseOf(w)].payment \in Payments
  BY DEF TypeInv, WorkersLinked, Made, ActionsLinked, Existing, CasesLinked,
         CaseOf

\* The case a capture is about to close.
LEMMA ClosedCase ==
  ASSUME TypeInv, NEW h \in Handlers, handler[h].pc = "closing"
  PROVE  /\ handler[h].payment \in Payments
         /\ \A c \in Cases : c = handler[h].case =>
              Existing(c) /\ recovery[c].payment = handler[h].payment
<1>1. None \notin Cases
  BY RecoveryAssumption DEF Orders, Rows
<1> QED
  BY <1>1 DEF TypeInv, HandlersLinked, Closes, Capture

\* What a case becomes when its status is written.
LEMMA StatusWritten ==
  ASSUME TypeOK, NEW c \in Cases, NEW s \in Active \cup {"RECOVERED"},
         recovery' = [recovery EXCEPT ![c].status = s]
  PROVE  /\ recovery' \in [Cases -> Case]
         /\ recovery'[c].status = s /\ recovery'[c].payment = recovery[c].payment
         /\ \A d \in Cases : d # c => recovery'[d] = recovery[d]
  BY DEF TypeOK, Case

\* Once there, a case stays, and with its payment.
LEMMA CasesStay ==
  ASSUME TypeInv, [Next]_vars
  PROVE  /\ recovery' \in [Cases -> Case]
         /\ \A c \in Cases : recovery[c].status # "ABSENT" =>
              /\ recovery'[c].status # "ABSENT"
              /\ recovery'[c].payment = recovery[c].payment
         /\ CasesLinked'
<1>0. recovery \in [Cases -> Case] /\ CasesLinked
  BY DEF TypeInv, TypeOK
<1> SUFFICES
      /\ recovery' \in [Cases -> Case]
      /\ \A c \in Cases :
           /\ recovery[c].status # "ABSENT" =>
                /\ recovery'[c].status # "ABSENT"
                /\ recovery'[c].payment = recovery[c].payment
           /\ recovery[c].status = "ABSENT" /\ recovery'[c].status # "ABSENT" =>
                recovery'[c].payment \in Payments
  BY <1>0 DEF CasesLinked, Existing
<1>1. ASSUME NEW h \in Handlers, FailedCommit(h), recovery' # recovery
      PROVE  \E c \in Cases : \E p \in Payments :
               /\ recovery[c].status = "ABSENT"
               /\ recovery' = [recovery EXCEPT
                    ![c] = [status |-> "OPEN", payment |-> p]]
  BY <1>1 DEF FailedCommit, TypeInv, HandlersLinked
<1>2. ASSUME NEW h \in Handlers, CapturedCommit(h)
      PROVE  /\ recovery' \in [Cases -> Case]
             /\ \A c \in Cases :
                  /\ recovery'[c].payment = recovery[c].payment
                  /\ recovery'[c].status = "ABSENT"
                       <=> recovery[c].status = "ABSENT"
  <2>1. ASSUME NEW c \in Cases
        PROVE  /\ [recovery[c] EXCEPT !.status = "RECOVERED"] \in Case
               /\ [recovery[c] EXCEPT !.status = "RECOVERED"].payment
                    = recovery[c].payment
               /\ [recovery[c] EXCEPT !.status = "RECOVERED"].status
                    = "RECOVERED"
    BY <1>0 DEF Case
  <2> QED
    BY <1>0, <1>2, <2>1, ClosedCase DEF CapturedCommit, Existing
<1>3. ASSUME NEW w \in Workers, VoiceProgress(w) \/ EscalateWrite(w),
             recovery' # recovery
      PROVE  \E c \in Cases : \E s \in Active :
               /\ Existing(c)
               /\ recovery' = [recovery EXCEPT ![c].status = s]
  BY <1>3, WorkersCase DEF VoiceProgress, EscalateWrite, MoveCase, Active
<1>4. ASSUME NEW l \in Listeners, OutcomeCommit(l), recovery' # recovery
      PROVE  \E c \in Cases : \E s \in Active :
               /\ Existing(c)
               /\ recovery' = [recovery EXCEPT ![c].status = s]
  <2>1. Existing(action[listener[l].row].case)
    BY <1>4 DEF OutcomeCommit, TypeInv, ListenersLinked, ActionsLinked, Made
  <2> QED
    BY <1>4, <2>1 DEF OutcomeCommit, Existing, Active
<1>5. TypeOK
  BY DEF TypeInv
<1> QED
  BY <1>0, <1>1, <1>2, <1>3, <1>4, <1>5, RecoveryWriters, StatusWritten
     DEF Case, Active, Existing

LEMMA ExistingStay ==
  ASSUME TypeInv, [Next]_vars, NEW c, Existing(c)
  PROVE  Existing(c)' /\ recovery'[c].payment = recovery[c].payment
  BY CasesStay DEF Existing

\* How a handler of an action goes on.
Ends(w) ==
  /\ worker[w].pc # "idle"
  /\ \E s \in {"COMPLETED", "FAILED"} :
       End(w, s) /\ (s = "COMPLETED" => worker[w].pc = "complete")
GoesOn(w) ==
  worker[w].pc # "idle" /\ \E pc \in {"dial", "called", "ordered", "link",
                                      "escalate", "complete"} : Goto(w, pc)

LEMMA WorkerKinds ==
  ASSUME NEW w \in Workers, WorkerStep(w) \/ WorkerCallFails(w)
  PROVE  Take(w) \/ RetryNumber(w) \/ Ends(w) \/ GoesOn(w)
<1>1. CASE VoiceRead(w) \/ VoiceDial(w) \/ VoiceProgress(w)
  BY <1>1 DEF VoiceRead, VoiceDial, VoiceProgress, MoveCase, Runs, Throw, Ends,
              GoesOn
<1>2. CASE RetryOrder(w) \/ RetryAttempt(w) \/ LinkRead(w) \/ LinkCreate(w)
  BY <1>2 DEF RetryOrder, RetryAttempt, LinkRead, LinkCreate, Runs, Throw, Ends,
              GoesOn
<1>3. CASE Notify(w) \/ EscalateRead(w) \/ EscalateWrite(w) \/ Complete(w)
  BY <1>3 DEF Notify, EscalateRead, EscalateWrite, Complete, MoveCase, Runs,
              Throw, Ends, GoesOn
<1>4. CASE WorkerCallFails(w)
  BY <1>4 DEF WorkerCallFails, Throw, Ends
<1> QED
  BY <1>1, <1>2, <1>3, <1>4 DEF WorkerStep

LEMMA ActionWriters ==
  [Next]_vars =>
    \/ UNCHANGED action
    \/ \E h \in Handlers : Insert(h)
    \/ \E w \in Workers : Take(w) \/ Ends(w)
<1>1. ASSUME NEW h \in Handlers, ByHandler(h)
      PROVE  UNCHANGED action \/ Insert(h)
  BY <1>1 DEF ByHandler, HandlerStep, rows, work, ReceiveFailed,
     ReceiveCaptured, AgentStart, FailedBegin, FailedCommit, Policy,
     CapturedBegin, CapturedPromise, CapturedCase, CapturedCommit,
     AgentRecommend, AgentReport, HandlerCallFails, CrashHandler
<1>2. ASSUME NEW w \in Workers, ByWorker(w)
      PROVE  UNCHANGED action \/ Take(w) \/ Ends(w)
  BY <1>2, WorkerKinds
     DEF ByWorker, RetryNumber, GoesOn, Goto, CrashWorker, rows, work
<1> QED
  BY <1>1, <1>2, NextBy, ListenerFrame, MakerFrame, ScriptFrame, StutterFrame

\* The one row an insert, a claim or the executor writes.
LEMMA InsertWrites ==
  ASSUME TypeInv, NEW h \in Handlers, Insert(h)
  PROVE  /\ action' \in [Rows -> Action]
         /\ handler[h].row \in Rows /\ Existing(handler[h].case)
         /\ action'[handler[h].row].case = handler[h].case
         /\ action'[handler[h].row].status \in {"APPROVED", "REJECTED"}
         /\ \A b \in Rows : b # handler[h].row => action'[b] = action[b]
         /\ UNCHANGED <<recovery, call, worker>>
<1>1. handler[h].row \in Rows /\ Existing(handler[h].case)
  BY DEF Insert, TypeInv, HandlersLinked, Holding
<1>2. PICK type \in Types : action' = [action EXCEPT ![handler[h].row] =
         [status |-> IF handler[h].allow THEN "APPROVED" ELSE "REJECTED",
          type |-> type, case |-> handler[h].case]]
  BY RecoveryAssumption DEF Insert, Types
<1>3. action \in [Rows -> Action] /\ handler[h].case \in Cases
  BY <1>1 DEF TypeInv, TypeOK, Existing
<1>4. [status |-> IF handler[h].allow THEN "APPROVED" ELSE "REJECTED",
       type |-> type, case |-> handler[h].case] \in Action
  BY <1>3 DEF Action
<1>5. UNCHANGED <<recovery, call, worker>>
  BY DEF Insert
<1> QED
  BY <1>1, <1>2, <1>3, <1>4, <1>5

LEMMA TakeWrites ==
  ASSUME TypeInv, NEW w \in Workers, Take(w)
  PROVE  \E a \in Rows :
           /\ action' \in [Rows -> Action]
           /\ Made(a) /\ action[a].status = "APPROVED"
           /\ action'[a].status = "EXECUTING"
           /\ action'[a].type = action[a].type
           /\ action'[a].case = action[a].case
           /\ \A b \in Rows : b # a => action'[b] = action[b]
           /\ worker' = [worker EXCEPT ![w].pc = "run", ![w].row = a]
           /\ UNCHANGED <<recovery, call>>
<1>1. PICK a \in Rows :
        /\ action[a].status = "APPROVED"
        /\ action' = [action EXCEPT ![a].status = "EXECUTING"]
        /\ worker' = [worker EXCEPT ![w].pc = "run", ![w].row = a]
  BY DEF Take
<1>2. action \in [Rows -> Action]
  BY DEF TypeInv, TypeOK
<1>3. action' \in [Rows -> Action]
  BY <1>1, <1>2 DEF Action
<1>4. /\ action'[a].status = "EXECUTING" /\ action'[a].type = action[a].type
      /\ action'[a].case = action[a].case
      /\ \A b \in Rows : b # a => action'[b] = action[b]
  BY <1>1, <1>2 DEF Action
<1>5. UNCHANGED <<recovery, call>>
  BY DEF Take
<1> QED
  BY <1>1, <1>3, <1>4, <1>5 DEF Made

LEMMA EndWrites ==
  ASSUME TypeInv, NEW w \in Workers, worker[w].pc # "idle",
         NEW s \in {"COMPLETED", "FAILED"}, End(w, s)
  PROVE  LET a == worker[w].row IN
         /\ action' \in [Rows -> Action]
         /\ Made(a)
         /\ action'[a].status = s
         /\ action'[a].type = action[a].type
         /\ action'[a].case = action[a].case
         /\ \A b \in Rows : b # a => action'[b] = action[b]
         /\ worker' = [worker EXCEPT ![w] = IdleWorker]
<1>1. Made(worker[w].row)
  BY DEF TypeInv, WorkersLinked
<1>2. action \in [Rows -> Action]
  BY DEF TypeInv, TypeOK
<1>3. PICK a : a = worker[w].row
  OBVIOUS
<1>4. /\ action' = [action EXCEPT ![a].status = s]
      /\ worker' = [worker EXCEPT ![w] = IdleWorker]
  BY <1>3 DEF End
<1>5. Made(a) /\ a \in Rows /\ action[a] \in Action
  BY <1>1, <1>2, <1>3 DEF Made
<1>6. [action[a] EXCEPT !.status = s] \in Action
  BY <1>5 DEF Action
<1>7. /\ action' \in [Rows -> Action]
      /\ action'[a] = [action[a] EXCEPT !.status = s]
      /\ \A b \in Rows : b # a => action'[b] = action[b]
  BY <1>2, <1>4, <1>5, <1>6
<1>8. /\ action'[a].status = s
      /\ action'[a].type = action[a].type
      /\ action'[a].case = action[a].case
  BY <1>5, <1>7 DEF Action
<1> QED
  BY <1>3, <1>4, <1>5, <1>7, <1>8

\* A row that is there stays, and has a case.
LEMMA MadeStay ==
  ASSUME TypeInv, [Next]_vars
  PROVE  /\ action' \in [Rows -> Action]
         /\ \A a : Made(a) => Made(a)'
         /\ ActionsLinked'
<1>0. action \in [Rows -> Action] /\ ActionsLinked
  BY DEF TypeInv, TypeOK
<1>1. \A c : Existing(c) => Existing(c)'
  BY ExistingStay
<1>2. CASE UNCHANGED action
  BY <1>0, <1>1, <1>2 DEF Made, ActionsLinked
<1>3. ASSUME NEW h \in Handlers, Insert(h)
      PROVE  /\ action' \in [Rows -> Action]
             /\ \A a : Made(a) => Made(a)'
             /\ ActionsLinked'
  BY <1>0, <1>1, <1>3, InsertWrites DEF Made, ActionsLinked
<1>4. ASSUME NEW w \in Workers, Take(w)
      PROVE  /\ action' \in [Rows -> Action]
             /\ \A a : Made(a) => Made(a)'
             /\ ActionsLinked'
  BY <1>0, <1>1, <1>4, TakeWrites DEF Made, ActionsLinked
<1>5. ASSUME NEW w \in Workers, Ends(w)
      PROVE  /\ action' \in [Rows -> Action]
             /\ \A a : Made(a) => Made(a)'
             /\ ActionsLinked'
  BY <1>0, <1>1, <1>5, EndWrites DEF Made, ActionsLinked, Ends
<1> QED
  BY <1>2, <1>3, <1>4, <1>5, ActionWriters

\* Who writes the calls, and what.
LEMMA CallWriters ==
  [Next]_vars =>
    \/ UNCHANGED call
    \/ \E w \in Workers : VoiceDial(w)
    \/ \E l \in Listeners : OutcomeCommit(l)
<1>1. ASSUME NEW w \in Workers, ByWorker(w)
      PROVE  UNCHANGED call \/ VoiceDial(w)
  BY <1>1 DEF ByWorker, WorkerStep, rows, work, Take, VoiceRead, VoiceProgress,
     RetryOrder, RetryNumber, RetryAttempt, LinkRead, LinkCreate, Notify,
     EscalateRead, EscalateWrite, Complete, WorkerCallFails, CrashWorker
<1>2. ASSUME NEW l \in Listeners, ByListener(l)
      PROVE  UNCHANGED call \/ OutcomeCommit(l)
  BY <1>2 DEF ByListener, OutcomeRead, rows, work
<1> QED
  BY <1>1, <1>2, NextBy, HandlerFrame, MakerFrame, ScriptFrame, StutterFrame

LEMMA CallsStay ==
  ASSUME TypeInv, [Next]_vars
  PROVE  /\ call' \in [Rows -> {"none", "open"} \cup Outcomes]
         /\ \A a \in Rows : call[a] # "none" => call'[a] # "none"
         /\ CallsLinked'
<1>0. call \in [Rows -> {"none", "open"} \cup Outcomes] /\ CallsLinked
  BY DEF TypeInv, TypeOK
<1>1. \A a : Made(a) => Made(a)'
  BY MadeStay
<1>2. ASSUME NEW w \in Workers, VoiceDial(w)
      PROVE  UNCHANGED call \/ \E a \in Rows : Made(a) /\
               call' = [call EXCEPT ![a] = "open"]
  BY <1>2 DEF VoiceDial, TypeInv, WorkersLinked, Made
<1>3. ASSUME NEW l \in Listeners, OutcomeCommit(l)
      PROVE  UNCHANGED call \/ \E a \in Rows : \E o \in Outcomes :
               Made(a) /\ call' = [call EXCEPT ![a] = o]
  BY <1>3 DEF OutcomeCommit, TypeInv, ListenersLinked, Made
<1>4. \/ UNCHANGED call
      \/ \E a \in Rows : \E o \in {"open"} \cup Outcomes :
           Made(a) /\ call' = [call EXCEPT ![a] = o]
  BY <1>2, <1>3, CallWriters
<1> QED
  BY <1>0, <1>1, <1>4 DEF CallsLinked, Outcomes

\* What is to be known of the row a step gives to a handler.
Fits(r) ==
  /\ r \in Handler
  /\ r.pc \in {"failed", "failing"} \cup Capture \cup Holding =>
       r.payment \in Payments
  /\ r.pc \in Holding => r.row \in Rows /\ Existing(r.case)
  /\ r.pc = "closing" => Closes(r)

LEMMA PutFits ==
  ASSUME TypeInv, [Next]_vars, NEW h \in Handlers, NEW r,
         handler' = [handler EXCEPT ![h] = r], Fits(r)
  PROVE  handler' \in [Handlers -> Handler] /\ HandlersLinked'
<1>1. \A c : Existing(c) => Existing(c)'
  BY ExistingStay
<1>2. handler \in [Handlers -> Handler] /\ HandlersLinked
  BY DEF TypeInv, TypeOK
<1>3. Closes(r) => Closes(r)'
  BY ExistingStay DEF Closes
<1>4. \A g \in Handlers : Closes(handler[g]) /\ handler'[g] = handler[g] =>
        Closes(handler[g])'
  BY ExistingStay DEF Closes
<1> QED
  BY <1>1, <1>2, <1>3, <1>4 DEF Fits, HandlersLinked

LEMMA IdleFits == Fits(IdleHandler)
  BY DEF Fits, IdleHandler, Handler, Holding, Capture

LEMMA OldFits == ASSUME TypeInv, NEW h \in Handlers PROVE Fits(handler[h])
  BY DEF Fits, TypeInv, TypeOK, HandlersLinked

\* A step of a handler gives it one row.
LEMMA HandlerPuts ==
  ASSUME TypeInv, NEW h \in Handlers, ByHandler(h)
  PROVE  \/ \E r : Fits(r) /\ handler' = [handler EXCEPT ![h] = r]
         \/ FailedCommit(h)
<1>0. /\ handler \in [Handlers -> Handler]
      /\ attempts \in [Payments -> Seq(Attempt)]
      /\ Fits(IdleHandler) /\ Fits(handler[h])
  BY OldFits, IdleFits DEF TypeInv, TypeOK
<1> DEFINE Puts(r) == Fits(r) /\ handler' = [handler EXCEPT ![h] = r]
<1>1. ASSUME NEW p \in Payments, ReceiveFailed(h, p) PROVE \E r : Puts(r)
  <2>1. Puts([handler[h] EXCEPT !.pc = "failed", !.payment = p])
    BY <1>0, <1>1 DEF ReceiveFailed, Fits, Handler, Holding, Capture
  <2> QED
    BY <2>1
<1>2. ASSUME NEW o \in Orders, ReceiveCaptured(h, o) PROVE \E r : Puts(r)
  <2>1. Puts([handler[h] EXCEPT !.pc = "captured", !.order = o])
    BY <1>0, <1>2 DEF ReceiveCaptured, Fits, Handler, Holding, Capture
  <2> QED
    BY <2>1
<1>3. ASSUME NEW a \in Requests, AgentStart(h, a) PROVE \E r : Puts(r)
  <2>1. PICK c \in Cases :
          /\ recovery[c].status # "ABSENT"
          /\ handler' = [handler EXCEPT ![h].pc = "recommend", ![h].row = a,
                           ![h].case = c, ![h].payment = recovery[c].payment]
    BY <1>3 DEF AgentStart
  <2>2. Existing(c) /\ recovery[c].payment \in Payments /\ a \in Rows
    BY <2>1 DEF Existing, TypeInv, CasesLinked, Rows
  <2>3. Puts([handler[h] EXCEPT !.pc = "recommend", !.row = a, !.case = c,
                                !.payment = recovery[c].payment])
    BY <1>0, <2>1, <2>2 DEF Fits, Handler, Holding, Capture
  <2> QED
    BY <2>3
<1>4. ASSUME FailedBegin(h) PROVE \E r : Puts(r)
  <2>1. handler[h].payment \in Payments
    BY <1>0, <1>4 DEF FailedBegin, Fits
  <2>2. Len(attempts[handler[h].payment]) + 1 \in Nat
    BY <1>0, <2>1
  <2>3. Puts([handler[h] EXCEPT !.pc = "failing",
                    !.number = Len(attempts[handler[h].payment]) + 1])
    BY <1>0, <1>4, <2>2 DEF FailedBegin, Fits, Handler, Holding, Capture
  <2> QED
    BY <2>3
<1>5. ASSUME Policy(h) PROVE \E r : Puts(r)
  <2>1. Allowed(handler[h].case) \in BOOLEAN
    BY DEF Allowed
  <2>2. Puts([handler[h] EXCEPT !.pc = "insert",
                                !.allow = Allowed(handler[h].case)])
    BY <1>0, <1>5, <2>1 DEF Policy, Fits, Handler, Holding, Capture
  <2> QED
    BY <2>2
<1>6. ASSUME Insert(h) PROVE \E r : Puts(r)
  <2>1. Fits([handler[h] EXCEPT !.pc = "report"])
    BY <1>0, <1>6 DEF Insert, Fits, Handler, Holding, Capture
  <2>2. \/ handler' = [handler EXCEPT ![h] = IdleHandler]
        \/ handler' = [handler EXCEPT ![h] = [handler[h] EXCEPT !.pc = "report"]]
    BY <1>0, <1>6 DEF Insert
  <2> QED
    BY <1>0, <2>1, <2>2
<1>7. ASSUME CapturedBegin(h) PROVE \E r : Puts(r)
  <2>0. PICK p \in Payments : \E k \in DOMAIN attempts[p] :
          handler' = [handler EXCEPT ![h] =
            IF attempts[p][k].status = "CAPTURED" THEN IdleHandler
            ELSE [@ EXCEPT !.pc = "capturing", !.payment = p, !.number = k]]
    BY <1>7 DEF CapturedBegin
  <2>1. PICK k \in DOMAIN attempts[p] :
          handler' = [handler EXCEPT ![h] =
            IF attempts[p][k].status = "CAPTURED" THEN IdleHandler
            ELSE [@ EXCEPT !.pc = "capturing", !.payment = p, !.number = k]]
    BY <2>0
  <2>2. k \in Nat
    BY <1>0, <2>1
  <2>3. Fits([handler[h] EXCEPT !.pc = "capturing", !.payment = p, !.number = k])
    <3>1. PICK r : r = [handler[h] EXCEPT !.pc = "capturing", !.payment = p,
                                          !.number = k]
      OBVIOUS
    <3>2. r \in Handler /\ r.pc = "capturing" /\ r.payment \in Payments
      BY <1>0, <2>2, <3>1 DEF Fits, Handler
    <3>3. Fits(r)
      BY <3>2 DEF Fits, Holding, Capture
    <3> QED
      BY <3>1, <3>3
  <2> QED
    BY <1>0, <2>1, <2>3
<1>8. ASSUME CapturedCommit(h) \/ AgentReport(h) \/ CrashHandler(h)
      PROVE  \E r : Puts(r)
  BY <1>0, <1>8 DEF CapturedCommit, AgentReport, CrashHandler
<1>9. ASSUME AgentRecommend(h) PROVE \E r : Puts(r)
  <2>1. PICK pc \in {"policy", "reportFailed"} :
          handler' = [handler EXCEPT ![h].pc = pc]
    BY <1>9 DEF AgentRecommend
  <2>2. Puts([handler[h] EXCEPT !.pc = pc])
    BY <1>0, <1>9, <2>1 DEF AgentRecommend, Fits, Handler, Holding, Capture
  <2> QED
    BY <2>2
<1>10. ASSUME HandlerCallFails(h) PROVE \E r : Puts(r)
  <2>1. CASE handler' = [handler EXCEPT ![h] =
               [IdleHandler EXCEPT !.pc = "captured",
                                   !.order = handler[h].order]]
    <3>1. Puts([IdleHandler EXCEPT !.pc = "captured",
                                   !.order = handler[h].order])
      BY <1>0, <2>1 DEF Fits, Handler, IdleHandler, Holding, Capture
    <3> QED
      BY <3>1
  <2>2. CASE /\ handler[h].pc \in {"failing", "policy", "insert"}
             /\ handler' = [handler EXCEPT ![h] =
                  [IdleHandler EXCEPT !.pc = "failed",
                                      !.payment = handler[h].payment]]
    <3>1. Puts([IdleHandler EXCEPT !.pc = "failed",
                                   !.payment = handler[h].payment])
      BY <1>0, <2>2 DEF Fits, Handler, IdleHandler, Holding, Capture
    <3> QED
      BY <3>1
  <2>3. CASE /\ handler[h].pc \in {"report", "policy", "insert"}
             /\ handler' = [handler EXCEPT ![h].pc = "reportFailed"]
    <3>1. Puts([handler[h] EXCEPT !.pc = "reportFailed"])
      BY <1>0, <2>3 DEF Fits, Handler, Holding, Capture
    <3> QED
      BY <3>1
  <2>4. CASE handler' = [handler EXCEPT ![h] = IdleHandler]
    BY <1>0, <2>4
  <2> QED
    BY <1>10, <2>1, <2>2, <2>3, <2>4 DEF HandlerCallFails
<1>11. ASSUME CapturedPromise(h) PROVE \E r : Puts(r)
  <2>1. handler[h].payment \in Payments
    BY <1>0, <1>11 DEF CapturedPromise, Fits, Capture
  <2>2. PICK k \in 0..Len(promise[handler[h].payment]) :
          handler' = [handler EXCEPT ![h].pc = "fulfilling", ![h].promise = k]
    BY <1>11 DEF CapturedPromise
  <2>3. promise[handler[h].payment] \in Seq(Promise)
    BY <2>1 DEF TypeInv, TypeOK
  <2>4. k \in Nat
    BY <2>2, <2>3
  <2>5. Puts([handler[h] EXCEPT !.pc = "fulfilling", !.promise = k])
    BY <1>0, <2>1, <2>2, <2>4 DEF Fits, Handler, Holding, Capture
  <2> QED
    BY <2>5
<1>12. ASSUME CapturedCase(h) PROVE \E r : Puts(r)
  <2>1. handler[h].payment \in Payments
    BY <1>0, <1>12 DEF CapturedCase, Fits, Capture
  <2>2. PICK c : /\ c = None \/ c \in ActiveCases(handler[h].payment)
                 /\ handler' = [handler EXCEPT ![h].pc = "closing",
                                               ![h].case = c]
    BY <1>12 DEF CapturedCase, Closable
  <2>3. \/ c = None
        \/ Existing(c) /\ recovery[c].payment = handler[h].payment
    BY <2>2 DEF ActiveCases, Active, Existing
  <2>4. c \in Cases \cup {None}
    BY <2>3 DEF Existing
  <2> DEFINE r == [handler[h] EXCEPT !.pc = "closing", !.case = c]
  <2>5. /\ r \in Handler /\ r.pc = "closing" /\ r.case = c
        /\ r.payment = handler[h].payment
    BY <1>0, <2>4 DEF Fits, Handler
  <2>6. Closes(r)
    BY <2>3, <2>5 DEF Closes
  <2>7. Puts(r)
    BY <1>0, <2>1, <2>2, <2>5, <2>6 DEF Fits, Holding, Capture
  <2> QED
    BY <2>7
<1> QED
  BY <1>1, <1>2, <1>3, <1>4, <1>5, <1>6, <1>7, <1>8, <1>9, <1>10, <1>11, <1>12
     DEF ByHandler, HandlerStep

\* Whether the commit of a failure went through, and for which case.
LEMMA FailedCommitWrites ==
  ASSUME TypeInv, NEW h \in Handlers, FailedCommit(h)
  PROVE  LET p == handler[h].payment IN
         /\ p \in Payments /\ handler[h].pc = "failing"
         /\ \/ /\ handler' = [handler EXCEPT ![h].pc = "failed"]
               /\ UNCHANGED <<payment, attempts, recovery>>
            \/ \E c \in Cases :
                 /\ payment' = [payment EXCEPT ![p] = "FAILED"]
                 /\ attempts' = [attempts EXCEPT ![p] =
                      Append(@, [status |-> "FAILED", order |-> None])]
                 /\ \/ /\ c \in ActiveCases(p) /\ UNCHANGED recovery
                       /\ handler' = [handler EXCEPT ![h] = IdleHandler]
                    \/ /\ ActiveCases(p) = {} /\ recovery[c].status = "ABSENT"
                       /\ recovery' = [recovery EXCEPT
                            ![c] = [status |-> "OPEN", payment |-> p]]
                       /\ handler' = [handler EXCEPT ![h] =
                            [IdleHandler EXCEPT !.pc = "policy", !.payment = p,
                                                !.row = c, !.case = c]]
         /\ lock' = [lock EXCEPT ![p] = None]
         /\ UNCHANGED <<promise, action, agent, call, orders, worker, listener,
                        maker, script, requested, rejected, crashes>>
<1>1. handler[h].payment \in Payments /\ handler[h].pc = "failing"
  BY DEF FailedCommit, TypeInv, HandlersLinked
<1>2. \A c \in ActiveCases(handler[h].payment) : recovery[c].status # "ABSENT"
  BY DEF ActiveCases, Active
<1> QED
  BY <1>1, <1>2 DEF FailedCommit, Reusable, CaseCreated, work, counts

LEMMA HandlersStayLinked ==
  ASSUME TypeInv, [Next]_vars
  PROVE  handler' \in [Handlers -> Handler] /\ HandlersLinked'
<1>0. handler \in [Handlers -> Handler] /\ recovery \in [Cases -> Case]
  BY DEF TypeInv, TypeOK
<1>1. \A c : Existing(c) => Existing(c)'
  BY ExistingStay
<1>5. \A g \in Handlers : Closes(handler[g]) /\ handler'[g] = handler[g] =>
        Closes(handler[g])'
  BY ExistingStay DEF Closes
<1>2. ASSUME NEW h \in Handlers, FailedCommit(h)
      PROVE  handler' \in [Handlers -> Handler] /\ HandlersLinked'
  <2>1. Fits(handler[h]) /\ Fits(IdleHandler)
    BY OldFits, IdleFits
  <2>2. CASE handler' = [handler EXCEPT ![h].pc = "failed"]
    <3>1. handler' = [handler EXCEPT ![h] = [handler[h] EXCEPT !.pc = "failed"]]
      BY <1>0, <2>2
    <3>a. PICK r : r = [handler[h] EXCEPT !.pc = "failed"]
      OBVIOUS
    <3>b. r \in Handler /\ r.pc = "failed" /\ r.payment \in Payments
      BY <1>2, <2>1, <3>a, FailedCommitWrites DEF Fits, Handler
    <3>c. Fits(r)
      BY <3>b DEF Fits, Holding, Capture
    <3>2. Fits([handler[h] EXCEPT !.pc = "failed"])
      BY <3>a, <3>c
    <3> QED
      BY <3>1, <3>2, PutFits
  <2>3. CASE handler' = [handler EXCEPT ![h] = IdleHandler]
    BY <2>1, <2>3, PutFits
  <2>4. ASSUME NEW c \in Cases,
               recovery' = [recovery EXCEPT
                 ![c] = [status |-> "OPEN", payment |-> handler[h].payment]],
               handler' = [handler EXCEPT ![h] =
                 [IdleHandler EXCEPT !.pc = "policy",
                                     !.payment = handler[h].payment,
                                     !.row = c, !.case = c]]
        PROVE  handler' \in [Handlers -> Handler] /\ HandlersLinked'
    <3>1. Existing(c)'
      BY <1>0, <2>4 DEF Existing
    <3>0. handler[h] \in Handler /\ handler[h].payment \in Payments /\ c \in Rows
      BY <1>0, <1>2, FailedCommitWrites DEF Rows
    <3>a. handler'[h] = [IdleHandler EXCEPT !.pc = "policy",
                           !.payment = handler[h].payment,
                           !.row = c, !.case = c]
      BY <1>0, <2>4
    <3>2. /\ handler'[h] \in Handler /\ handler'[h].case = c
          /\ handler'[h].row = c /\ c \in Rows
          /\ handler'[h].payment \in Payments
          /\ handler'[h].pc = "policy"
      <4>1. handler'[h] = [pc |-> "policy", payment |-> handler[h].payment,
                           order |-> None, number |-> 0, promise |-> 0,
                           row |-> c, case |-> c, allow |-> FALSE]
        BY <3>a DEF IdleHandler
      <4>2. /\ "policy" \in {"idle", "failed", "failing", "captured",
                "capturing", "fulfilling", "closing", "policy", "insert",
                "recommend", "report", "reportFailed"}
            /\ handler[h].payment \in Payments \cup {None} /\ 0 \in Nat
            /\ c \in Rows \cup {None} /\ c \in Cases \cup {None}
            /\ None \in Orders \cup {None} /\ FALSE \in BOOLEAN
        BY <2>4, <3>0
      <4>3. handler'[h] \in Handler
        BY <4>1, <4>2 DEF Handler
      <4> QED
        BY <3>0, <4>1, <4>3
    <3>3. \A g \in Handlers : g # h => handler'[g] = handler[g]
      BY <1>0, <2>4
    <3>4. handler' \in [Handlers -> Handler]
      BY <1>0, <2>4, <3>2, <3>3
    <3>5. ASSUME NEW g \in Handlers
          PROVE  /\ handler'[g].pc \in
                      {"failed", "failing"} \cup Capture \cup Holding =>
                      handler'[g].payment \in Payments
                 /\ handler'[g].pc \in Holding =>
                      handler'[g].row \in Rows /\ Existing(handler[g].case)'
                 /\ handler'[g].pc = "closing" => Closes(handler[g])'
      BY <1>1, <1>5, <3>1, <3>2, <3>3 DEF TypeInv, HandlersLinked
    <3> QED
      BY <3>4, <3>5 DEF HandlersLinked
  <2> QED
    BY <1>2, <2>2, <2>3, <2>4, FailedCommitWrites
<1>3. ASSUME NEW h \in Handlers, ByHandler(h)
      PROVE  handler' \in [Handlers -> Handler] /\ HandlersLinked'
  BY <1>2, <1>3, HandlerPuts, PutFits
<1>4. ASSUME UNCHANGED handler
      PROVE  handler' \in [Handlers -> Handler] /\ HandlersLinked'
  BY <1>0, <1>1, <1>4, <1>5 DEF TypeInv, HandlersLinked
<1> QED
  BY <1>3, <1>4, NextBy, WorkerFrame, ListenerFrame, MakerFrame, ScriptFrame,
     StutterFrame

LEMMA WorkersStayLinked ==
  ASSUME TypeInv, [Next]_vars
  PROVE  worker' \in [Workers -> Worker] /\ WorkersLinked'
<1>0. worker \in [Workers -> Worker] /\ WorkersLinked
      /\ attempts \in [Payments -> Seq(Attempt)]
  BY DEF TypeInv, TypeOK
<1>1. \A a : Made(a) => Made(a)'
  BY MadeStay
<1>2. IdleWorker \in Worker /\ IdleWorker.pc = "idle"
  BY DEF IdleWorker, Worker
<1>3. ASSUME NEW w \in Workers, NEW r \in Worker, r.pc # "idle" => Made(r.row)',
             worker' = [worker EXCEPT ![w] = r]
      PROVE  worker' \in [Workers -> Worker] /\ WorkersLinked'
  <2>1. worker' \in [Workers -> Worker]
    BY <1>0, <1>3
  <2>2. ASSUME NEW v \in Workers, worker'[v].pc # "idle"
        PROVE  Made(worker[v].row)'
    BY <1>0, <1>1, <1>3, <2>2 DEF WorkersLinked
  <2> QED
    BY <2>1, <2>2 DEF WorkersLinked
<1>4. ASSUME NEW w \in Workers, Take(w)
      PROVE  worker' \in [Workers -> Worker] /\ WorkersLinked'
  <2>1. PICK a \in Rows :
          Made(a) /\ worker' = [worker EXCEPT ![w].pc = "run", ![w].row = a]
    BY <1>4, TakeWrites
  <2>2. worker' = [worker EXCEPT ![w] =
                     [worker[w] EXCEPT !.pc = "run", !.row = a]]
    BY <1>0, <2>1
  <2>3. [worker[w] EXCEPT !.pc = "run", !.row = a] \in Worker
    BY <1>0 DEF Worker
  <2>4. [worker[w] EXCEPT !.pc = "run", !.row = a].row = a
    BY <1>0 DEF Worker
  <2> QED
    BY <1>1, <1>3, <2>1, <2>2, <2>3, <2>4
<1>5. ASSUME NEW w \in Workers, RetryNumber(w)
      PROVE  worker' \in [Workers -> Worker] /\ WorkersLinked'
  <2>1. worker[w].pc # "idle"
    BY <1>5 DEF RetryNumber
  <2>2. recovery[CaseOf(w)].payment \in Payments /\ Made(worker[w].row)
    BY <1>0, <2>1, WorkersCase DEF WorkersLinked
  <2> DEFINE n == Len(attempts[recovery[CaseOf(w)].payment]) + 1
             r == [worker[w] EXCEPT !.pc = "attempt", !.number = n]
  <2>3. n \in Nat
    BY <1>0, <2>2
  <2>4. worker' = [worker EXCEPT ![w] = r]
    BY <1>0, <1>5 DEF RetryNumber
  <2>5. r \in Worker /\ r.row = worker[w].row
    BY <1>0, <2>3 DEF Worker
  <2> QED
    BY <1>1, <1>3, <2>2, <2>4, <2>5
<1>6. ASSUME NEW w \in Workers, Ends(w) \/ CrashWorker(w)
      PROVE  worker' \in [Workers -> Worker] /\ WorkersLinked'
  BY <1>2, <1>3, <1>6 DEF Ends, End, CrashWorker
<1>7. ASSUME NEW w \in Workers, GoesOn(w)
      PROVE  worker' \in [Workers -> Worker] /\ WorkersLinked'
  <2>1. PICK pc \in {"dial", "called", "ordered", "link", "escalate",
                     "complete"} : worker' = [worker EXCEPT ![w].pc = pc]
    BY <1>7 DEF GoesOn, Goto
  <2>2. worker' = [worker EXCEPT ![w] = [worker[w] EXCEPT !.pc = pc]]
    BY <1>0, <2>1
  <2>3. /\ [worker[w] EXCEPT !.pc = pc] \in Worker
        /\ [worker[w] EXCEPT !.pc = pc].row = worker[w].row
    BY <1>0 DEF Worker
  <2>4. Made(worker[w].row)
    BY <1>0, <1>7 DEF GoesOn, WorkersLinked
  <2> QED
    BY <1>1, <1>3, <2>2, <2>3, <2>4
<1>8. ASSUME NEW h \in Handlers, CapturedCommit(h)
      PROVE  worker' \in [Workers -> Worker] /\ WorkersLinked'
  <2>1. ASSUME NEW w \in Workers
        PROVE  /\ [worker[w] EXCEPT !.overtaken = TRUE] \in Worker
               /\ [worker[w] EXCEPT !.overtaken = TRUE].pc = worker[w].pc
               /\ [worker[w] EXCEPT !.overtaken = TRUE].row = worker[w].row
    BY <1>0 DEF Worker
  <2>2. ASSUME NEW w \in Workers
        PROVE  /\ worker'[w] \in Worker /\ worker'[w].pc = worker[w].pc
               /\ worker'[w].row = worker[w].row
    BY <1>0, <1>8, <2>1 DEF CapturedCommit, OvertakeWorkers
  <2>3. worker' \in [Workers -> Worker]
    BY <1>8, <2>2 DEF CapturedCommit, OvertakeWorkers
  <2> QED
    BY <1>0, <1>1, <2>2, <2>3 DEF WorkersLinked
<1>9. ASSUME UNCHANGED worker
      PROVE  worker' \in [Workers -> Worker] /\ WorkersLinked'
  BY <1>0, <1>1, <1>9 DEF WorkersLinked
<1>10. ASSUME NEW h \in Handlers, ByHandler(h)
       PROVE  UNCHANGED worker \/ CapturedCommit(h)
  BY <1>10 DEF ByHandler, HandlerStep, rows, ReceiveFailed, ReceiveCaptured,
     AgentStart, FailedBegin, FailedCommit, Policy, Insert, CapturedBegin,
     CapturedPromise, CapturedCase, AgentRecommend, AgentReport,
     HandlerCallFails, CrashHandler
<1>11. ASSUME NEW w \in Workers, ByWorker(w)
       PROVE  worker' \in [Workers -> Worker] /\ WorkersLinked'
  BY <1>4, <1>5, <1>6, <1>7, <1>11, WorkerKinds DEF ByWorker
<1> QED
  BY <1>8, <1>9, <1>10, <1>11, NextBy, ListenerFrame, MakerFrame, ScriptFrame,
     StutterFrame

----------------------------------------------------------------------------
(* Attempts and promises are only added, and keep what makes them found.   *)

LEMMA AppendGrows ==
  ASSUME NEW S, NEW s \in Seq(S), NEW e \in S
  PROVE  /\ Append(s, e) \in Seq(S)
         /\ DOMAIN Append(s, e) = DOMAIN s \cup {Len(s) + 1}
         /\ Append(s, e)[Len(s) + 1] = e
         /\ \A k \in DOMAIN s : Append(s, e)[k] = s[k]
  OBVIOUS

LEMMA MappedSeq ==
  ASSUME NEW S, NEW s \in Seq(S), NEW t, DOMAIN t = DOMAIN s,
         t = [k \in DOMAIN s |-> t[k]], \A k \in DOMAIN s : t[k] \in S
  PROVE  t \in Seq(S)
<1>1. Len(s) \in Nat /\ DOMAIN s = 1 .. Len(s)
  BY LenProperties
<1>2. t \in [1 .. Len(s) -> S]
  BY <1>1
<1> QED
  BY <1>1, <1>2, SeqDef

AttemptsExtend ==
  \A p \in Payments : \A k \in DOMAIN attempts[p] :
    /\ k \in DOMAIN attempts'[p]
    /\ attempts'[p][k].order = attempts[p][k].order
    /\ attempts[p][k].status = "CAPTURED" => attempts'[p][k].status = "CAPTURED"

LEMMA AppendExtends ==
  ASSUME TypeInv, NEW p \in Payments, NEW e \in Attempt,
         attempts' = [attempts EXCEPT ![p] = Append(@, e)]
  PROVE  attempts' \in [Payments -> Seq(Attempt)] /\ AttemptsExtend
<1>1. attempts \in [Payments -> Seq(Attempt)]
  BY DEF TypeInv, TypeOK
<1>2. Append(attempts[p], e) \in Seq(Attempt)
  BY <1>1, AppendGrows
<1>3. \A k \in DOMAIN attempts[p] :
        /\ k \in DOMAIN Append(attempts[p], e)
        /\ Append(attempts[p], e)[k] = attempts[p][k]
  BY <1>1, AppendGrows
<1>4. \A q \in Payments : attempts'[q] =
        IF q = p THEN Append(attempts[p], e) ELSE attempts[q]
  BY <1>1
<1> QED
  BY <1>1, <1>2, <1>3, <1>4 DEF AttemptsExtend

LEMMA MarkedExtends ==
  ASSUME TypeInv, NEW p \in Payments, NEW n, attempts' = MarkedCaptured(p, n)
  PROVE  /\ attempts' \in [Payments -> Seq(Attempt)] /\ AttemptsExtend
         /\ n \in DOMAIN attempts[p] => attempts'[p][n].status = "CAPTURED"
<1>1. attempts \in [Payments -> Seq(Attempt)]
  BY DEF TypeInv, TypeOK
<1>2. DOMAIN attempts[p] = 1 .. Len(attempts[p])
  BY <1>1, LenProperties
<1> DEFINE t == [attempts[p] EXCEPT ![n].status = "CAPTURED"]
<1>3. ASSUME NEW k \in DOMAIN attempts[p]
      PROVE  /\ attempts[p][k] \in Attempt
             /\ t[k] \in Attempt /\ t[k].order = attempts[p][k].order
             /\ attempts[p][k].status = "CAPTURED" => t[k].status = "CAPTURED"
             /\ k = n => t[k].status = "CAPTURED"
  <2>1. attempts[p][k] \in Attempt
    BY <1>1, <1>2
  <2>2. t[k] = IF k = n THEN [attempts[p][k] EXCEPT !.status = "CAPTURED"]
                        ELSE attempts[p][k]
    BY <1>1
  <2> QED
    BY <2>1, <2>2 DEF Attempt
<1>4. t \in Seq(Attempt) /\ DOMAIN t = DOMAIN attempts[p]
  <2>1. DOMAIN t = DOMAIN attempts[p] /\ t = [k \in DOMAIN attempts[p] |-> t[k]]
    BY <1>1
  <2> QED
    BY <1>1, <1>3, <2>1, MappedSeq
<1>5. \A q \in Payments : attempts'[q] = IF q = p THEN t ELSE attempts[q]
  BY <1>1 DEF MarkedCaptured
<1>6. attempts' = [q \in Payments |-> IF q = p THEN t ELSE attempts[q]]
  BY <1>1 DEF MarkedCaptured
<1> HIDE DEF t
<1> QED
  BY <1>1, <1>3, <1>4, <1>5, <1>6 DEF AttemptsExtend

LEMMA AttemptsWriters ==
  [Next]_vars =>
    \/ UNCHANGED attempts
    \/ \E h \in Handlers : FailedCommit(h) \/ CapturedCommit(h)
    \/ \E w \in Workers : RetryAttempt(w)
<1>1. ASSUME NEW h \in Handlers, ByHandler(h)
      PROVE  UNCHANGED attempts \/ FailedCommit(h) \/ CapturedCommit(h)
  BY <1>1 DEF ByHandler, HandlerStep, rows, money, ReceiveFailed,
     ReceiveCaptured, AgentStart, FailedBegin, Policy, Insert, CapturedBegin,
     CapturedPromise, CapturedCase, AgentRecommend, AgentReport,
     HandlerCallFails, CrashHandler
<1>2. ASSUME NEW w \in Workers, ByWorker(w)
      PROVE  UNCHANGED attempts \/ RetryAttempt(w)
  BY <1>2 DEF ByWorker, WorkerStep, rows, money, Take, VoiceRead, VoiceDial,
     VoiceProgress, RetryOrder, RetryNumber, LinkRead, LinkCreate, Notify,
     EscalateRead, EscalateWrite, Complete, WorkerCallFails, CrashWorker
<1> QED
  BY <1>1, <1>2, NextBy, ListenerFrame, MakerFrame, ScriptFrame, StutterFrame

LEMMA AttemptsGrow ==
  ASSUME TypeInv, [Next]_vars
  PROVE  attempts' \in [Payments -> Seq(Attempt)] /\ AttemptsExtend
<1>0. attempts \in [Payments -> Seq(Attempt)]
  BY DEF TypeInv, TypeOK
<1>1. CASE UNCHANGED attempts
  BY <1>0, <1>1 DEF AttemptsExtend
<1>2. ASSUME NEW h \in Handlers, FailedCommit(h)
      PROVE  attempts' \in [Payments -> Seq(Attempt)] /\ AttemptsExtend
  <2>1. [status |-> "FAILED", order |-> None] \in Attempt
    BY DEF Attempt
  <2> QED
    BY <1>1, <1>2, <2>1, FailedCommitWrites, AppendExtends
<1>3. ASSUME NEW h \in Handlers, CapturedCommit(h)
      PROVE  attempts' \in [Payments -> Seq(Attempt)] /\ AttemptsExtend
  BY <1>3, MarkedExtends, ClosedCase DEF CapturedCommit
<1>4. ASSUME NEW w \in Workers, RetryAttempt(w)
      PROVE  attempts' \in [Payments -> Seq(Attempt)] /\ AttemptsExtend
  <2>1. /\ worker[w].row \in Rows
        /\ recovery[CaseOf(w)].payment \in Payments
    BY <1>4, WorkersCase DEF RetryAttempt
  <2>2. [status |-> "CREATED", order |-> worker[w].row] \in Attempt
    BY <2>1 DEF Attempt, Orders
  <2> QED
    BY <1>1, <1>4, <2>1, <2>2, AppendExtends DEF RetryAttempt
<1> QED
  BY <1>1, <1>2, <1>3, <1>4, AttemptsWriters

\* What the handler of an event or the script may make of a promise.
Settles(old, new) ==
  /\ new \in Promise /\ new.case = old.case
  /\ old.status = "FULFILLED" => new.status = "FULFILLED"
  /\ new.status = "PENDING" => old.status = "PENDING"

PromisesExtend ==
  \A p \in Payments : \A k \in DOMAIN promise[p] :
    k \in DOMAIN promise'[p] /\ Settles(promise[p][k], promise'[p][k])

\* A promise more, or some of them settled.
LEMMA PromisedExtends ==
  ASSUME TypeInv, NEW p \in Payments, NEW c \in Cases, promise' = Promised(p, c)
  PROVE  /\ promise' \in [Payments -> Seq(Promise)] /\ PromisesExtend
         /\ \A q \in Payments : q # p => promise'[q] = promise[q]
         /\ \A k \in DOMAIN promise[p] : promise'[p][k] = promise[p][k]
         /\ \A k \in DOMAIN promise'[p] :
              k \in DOMAIN promise[p] \/
                promise'[p][k] = [status |-> "PENDING", case |-> c]
<1>1. promise \in [Payments -> Seq(Promise)]
  BY DEF TypeInv, TypeOK
<1> DEFINE e == [status |-> "PENDING", case |-> c]
<1>2. e \in Promise
  BY DEF Promise
<1>3. /\ Append(promise[p], e) \in Seq(Promise)
      /\ \A k \in DOMAIN promise[p] :
           /\ k \in DOMAIN Append(promise[p], e)
           /\ Append(promise[p], e)[k] = promise[p][k]
           /\ promise[p][k] \in Promise
      /\ \A k \in DOMAIN Append(promise[p], e) :
           k \in DOMAIN promise[p] \/ Append(promise[p], e)[k] = e
  BY <1>1, <1>2, AppendGrows
<1>4. \A q \in Payments : \A k \in DOMAIN promise[q] : promise[q][k] \in Promise
  BY <1>1
<1>5. promise' = [promise EXCEPT ![p] = Append(@, e)]
  BY DEF Promised
<1> HIDE DEF e
<1>6. /\ promise' \in [Payments -> Seq(Promise)]
      /\ promise'[p] = Append(promise[p], e)
      /\ \A q \in Payments : q # p => promise'[q] = promise[q]
  BY <1>1, <1>3, <1>5
<1>7. PromisesExtend
  BY <1>3, <1>4, <1>6 DEF PromisesExtend, Settles
<1> QED
  BY <1>3, <1>6, <1>7 DEF e

LEMMA SettledExtends ==
  ASSUME TypeInv, NEW p \in Payments, NEW t, DOMAIN t = DOMAIN promise[p],
         t = [k \in DOMAIN promise[p] |-> t[k]],
         \A k \in DOMAIN promise[p] : Settles(promise[p][k], t[k]),
         promise' = [promise EXCEPT ![p] = t]
  PROVE  /\ promise' \in [Payments -> Seq(Promise)] /\ PromisesExtend
         /\ \A q \in Payments : DOMAIN promise'[q] = DOMAIN promise[q]
<1>1. promise \in [Payments -> Seq(Promise)]
  BY DEF TypeInv, TypeOK
<1>2. t \in Seq(Promise)
  BY <1>1, MappedSeq DEF Settles
<1>3. \A q \in Payments : \A k \in DOMAIN promise[q] : promise[q][k] \in Promise
  BY <1>1
<1>4. \A q \in Payments : promise'[q] = IF q = p THEN t ELSE promise[q]
  BY <1>1
<1>5. promise' \in [Payments -> Seq(Promise)]
  BY <1>1, <1>2
<1> QED
  BY <1>3, <1>4, <1>5 DEF PromisesExtend, Settles

LEMMA PromiseWriters ==
  [Next]_vars =>
    \/ UNCHANGED promise
    \/ \E h \in Handlers : CapturedCommit(h)
    \/ \E l \in Listeners : OutcomeCommit(l)
    \/ \E m \in Makers : PromiseInsert(m)
    \/ \E s \in Scripts : ScriptWrite(s)
<1>1. ASSUME NEW h \in Handlers, ByHandler(h)
      PROVE  UNCHANGED promise \/ CapturedCommit(h)
  BY <1>1 DEF ByHandler, HandlerStep, rows, ReceiveFailed, ReceiveCaptured,
     AgentStart, FailedBegin, FailedCommit, Policy, Insert, CapturedBegin,
     CapturedPromise, CapturedCase, AgentRecommend, AgentReport,
     HandlerCallFails, CrashHandler
<1>2. ASSUME NEW l \in Listeners, ByListener(l)
      PROVE  UNCHANGED promise \/ OutcomeCommit(l)
  BY <1>2 DEF ByListener, OutcomeRead, rows
<1>3. ASSUME NEW m \in Makers, ByMaker(m)
      PROVE  UNCHANGED promise \/ PromiseInsert(m)
  BY <1>3 DEF ByMaker, PromiseRead, PromiseLook, rows
<1>4. ASSUME NEW s \in Scripts, ByScript(s)
      PROVE  UNCHANGED promise \/ ScriptWrite(s)
  BY <1>4 DEF ByScript, ScriptRead, rows
<1> QED
  BY <1>1, <1>2, <1>3, <1>4, NextBy, WorkerFrame, StutterFrame

\* The capture of a payment settles promises, ...
LEMMA CapturedSettles ==
  ASSUME TypeInv, NEW h \in Handlers, CapturedCommit(h)
  PROVE  /\ promise' \in [Payments -> Seq(Promise)] /\ PromisesExtend
         /\ \A q \in Payments : DOMAIN promise'[q] = DOMAIN promise[q]
<1>0. promise \in [Payments -> Seq(Promise)] /\ handler[h].payment \in Payments
  BY ClosedCase DEF TypeInv, TypeOK, CapturedCommit
<1> DEFINE p == handler[h].payment
           t == Fulfilled(p, handler[h].promise)
<1>1. DOMAIN t = DOMAIN promise[p] /\ t = [k \in DOMAIN promise[p] |-> t[k]]
  BY DEF Fulfilled
<1>2. ASSUME NEW k \in DOMAIN promise[p]
      PROVE  Settles(promise[p][k], t[k])
  <2>1. promise[p][k] \in Promise
    BY <1>0
  <2>2. /\ [promise[p][k] EXCEPT !.status = "FULFILLED"] \in Promise
        /\ [promise[p][k] EXCEPT !.status = "FULFILLED"].status = "FULFILLED"
        /\ [promise[p][k] EXCEPT !.status = "FULFILLED"].case
             = promise[p][k].case
    BY <2>1 DEF Promise
  <2>3. t[k] \in {promise[p][k], [promise[p][k] EXCEPT !.status = "FULFILLED"]}
    BY DEF Fulfilled
  <2> QED
    BY <2>1, <2>2, <2>3 DEF Settles
<1>3. promise' = [promise EXCEPT ![p] = t]
  BY DEF CapturedCommit
<1> QED
  BY <1>0, <1>1, <1>2, <1>3, SettledExtends

\* ... and so does the script, one at a time.
LEMMA ScriptSettles ==
  ASSUME TypeInv, NEW s \in Scripts, ScriptWrite(s)
  PROVE  /\ promise' \in [Payments -> Seq(Promise)] /\ PromisesExtend
         /\ \A q \in Payments : DOMAIN promise'[q] = DOMAIN promise[q]
<1>0. promise \in [Payments -> Seq(Promise)] /\ script \in [Scripts -> SUBSET Expired]
  BY DEF TypeInv, TypeOK
<1>1. PICK x \in script[s] :
        \/ x.paid /\ promise' = [promise EXCEPT
             ![x.payment][x.number].status = "FULFILLED"]
        \/ ~x.paid /\ x.number \in Pending(x.payment) /\ promise' =
             [promise EXCEPT ![x.payment][x.number].status = "BROKEN"]
        \/ UNCHANGED promise
  BY DEF ScriptWrite
<1>2. x.payment \in Payments /\ x.number \in DOMAIN promise[x.payment]
  BY <1>0 DEF Expired, TypeInv, ScriptsLinked
<1>3. CASE UNCHANGED promise
  BY <1>0, <1>3 DEF PromisesExtend, Settles
<1>4. ASSUME NEW new \in {"FULFILLED", "BROKEN"},
             new = "BROKEN" => promise[x.payment][x.number].status = "PENDING",
             promise' = [promise EXCEPT ![x.payment][x.number].status = new]
      PROVE  /\ promise' \in [Payments -> Seq(Promise)] /\ PromisesExtend
             /\ \A q \in Payments : DOMAIN promise'[q] = DOMAIN promise[q]
  <2> DEFINE p == x.payment
             t == [promise[p] EXCEPT ![x.number].status = new]
  <2>1. DOMAIN t = DOMAIN promise[p] /\ t = [k \in DOMAIN promise[p] |-> t[k]]
    BY <1>0, <1>2
  <2>2. ASSUME NEW k \in DOMAIN promise[p]
        PROVE  Settles(promise[p][k], t[k])
    <3>1. promise[p][k] \in Promise
      BY <1>0, <1>2
    <3>2. t[k] = IF k = x.number THEN [promise[p][k] EXCEPT !.status = new]
                                 ELSE promise[p][k]
      BY <1>0, <1>2
    <3> QED
      BY <1>4, <3>1, <3>2 DEF Settles, Promise
  <2>3. promise' = [promise EXCEPT ![p] = t]
    BY <1>4
  <2> QED
    BY <1>2, <2>1, <2>2, <2>3, SettledExtends
<1> QED
  BY <1>1, <1>3, <1>4 DEF Pending

LEMMA OutcomePromises ==
  ASSUME TypeInv, NEW l \in Listeners, OutcomeCommit(l)
  PROVE  \/ UNCHANGED promise /\ UNCHANGED maker
         \/ \E c \in Cases : /\ Existing(c)
                             /\ promise' = Promised(recovery[c].payment, c)
                             /\ maker' = OvertakeMakers({c})
<1>1. Existing(action[listener[l].row].case)
  BY DEF OutcomeCommit, TypeInv, ListenersLinked, Made, ActionsLinked
<1> QED
  BY <1>1 DEF OutcomeCommit, Existing

LEMMA PromisesGrow ==
  ASSUME TypeInv, [Next]_vars
  PROVE  promise' \in [Payments -> Seq(Promise)] /\ PromisesExtend
<1>0. promise \in [Payments -> Seq(Promise)] /\ CasesLinked
  BY DEF TypeInv, TypeOK
<1>1. CASE UNCHANGED promise
  BY <1>0, <1>1 DEF PromisesExtend, Settles
<1>2. ASSUME NEW l \in Listeners, OutcomeCommit(l)
      PROVE  promise' \in [Payments -> Seq(Promise)] /\ PromisesExtend
  BY <1>0, <1>1, <1>2, OutcomePromises, PromisedExtends
     DEF CasesLinked, Existing
<1>3. ASSUME NEW m \in Makers, PromiseInsert(m)
      PROVE  promise' \in [Payments -> Seq(Promise)] /\ PromisesExtend
  <2>1. maker[m].case \in Cases /\ recovery[maker[m].case].payment \in Payments
    BY <1>0, <1>3 DEF PromiseInsert, TypeInv, MakersLinked, CasesLinked, Existing
  <2> QED
    BY <1>3, <2>1, PromisedExtends DEF PromiseInsert
<1> QED
  BY <1>1, <1>2, <1>3, CapturedSettles, ScriptSettles, PromiseWriters

----------------------------------------------------------------------------
(* The other tables and processes; the type invariant.                     *)

LEMMA ListenersStayLinked ==
  ASSUME TypeInv, [Next]_vars
  PROVE  listener' \in [Listeners -> Listener] /\ ListenersLinked'
<1>0. /\ listener \in [Listeners -> Listener] /\ ListenersLinked /\ CallsLinked
      /\ \A a : Made(a) => Made(a)'
      /\ \A a \in Rows : call[a] # "none" => call'[a] # "none"
  BY MadeStay, CallsStay DEF TypeInv, TypeOK
<1>1. CASE UNCHANGED listener
  BY <1>0, <1>1 DEF ListenersLinked, Made
<1>2. ASSUME NEW l \in Listeners, NEW a \in Rows, OutcomeRead(l, a)
      PROVE  listener' \in [Listeners -> Listener] /\ ListenersLinked'
  <2>1. PICK o \in Outcomes : listener' = [listener EXCEPT ![l] =
          [pc |-> "outcome", row |-> a, outcome |-> o]]
    BY <1>2 DEF OutcomeRead
  <2>2. Made(a) /\ call[a] # "none"
    BY <1>0, <1>2 DEF OutcomeRead, CallsLinked
  <2>3. [pc |-> "outcome", row |-> a, outcome |-> o] \in Listener
    BY DEF Listener
  <2> QED
    BY <1>0, <2>1, <2>2, <2>3 DEF ListenersLinked, Made
<1>3. ASSUME NEW l \in Listeners, OutcomeCommit(l)
      PROVE  listener' \in [Listeners -> Listener] /\ ListenersLinked'
  <2>1. listener' = [listener EXCEPT ![l] = IdleListener]
    BY <1>3 DEF OutcomeCommit
  <2>2. IdleListener \in Listener /\ IdleListener.pc = "idle"
    BY DEF IdleListener, Listener
  <2> QED
    BY <1>0, <2>1, <2>2 DEF ListenersLinked, Made
<1> QED
  BY <1>1, <1>2, <1>3, NextBy, HandlerFrame, WorkerFrame, MakerFrame,
     ScriptFrame, StutterFrame DEF ByListener

\* A promise or a capture marks the callers it overtakes, and nothing else.
LEMMA OvertakeFrame ==
  ASSUME TypeInv, NEW C
  PROVE  /\ OvertakeMakers(C) \in [Makers -> Maker]
         /\ \A m \in Makers :
              /\ OvertakeMakers(C)[m].pc = maker[m].pc
              /\ OvertakeMakers(C)[m].case = maker[m].case
              /\ ~OvertakeMakers(C)[m].overtaken =>
                   ~maker[m].overtaken /\ maker[m].case \notin C
<1>0. maker \in [Makers -> Maker]
  BY DEF TypeInv, TypeOK
<1>1. ASSUME NEW m \in Makers
      PROVE  /\ [maker[m] EXCEPT !.overtaken = TRUE] \in Maker
             /\ [maker[m] EXCEPT !.overtaken = TRUE].pc = maker[m].pc
             /\ [maker[m] EXCEPT !.overtaken = TRUE].case = maker[m].case
             /\ [maker[m] EXCEPT !.overtaken = TRUE].overtaken
  BY <1>0 DEF Maker
<1> QED
  BY <1>0, <1>1 DEF OvertakeMakers

LEMMA MakerWriters ==
  [Next]_vars =>
    \/ UNCHANGED maker
    \/ \E h \in Handlers : CapturedCommit(h)
    \/ \E l \in Listeners : OutcomeCommit(l)
    \/ \E m \in Makers : ByMaker(m)
<1>1. ASSUME NEW h \in Handlers, ByHandler(h)
      PROVE  UNCHANGED maker \/ CapturedCommit(h)
  BY <1>1 DEF ByHandler, HandlerStep, ReceiveFailed, ReceiveCaptured,
     AgentStart, FailedBegin, FailedCommit, Policy, Insert, CapturedBegin,
     CapturedPromise, CapturedCase, AgentRecommend, AgentReport,
     HandlerCallFails, CrashHandler
<1>2. ASSUME NEW l \in Listeners, ByListener(l)
      PROVE  UNCHANGED maker \/ OutcomeCommit(l)
  BY <1>2 DEF ByListener, OutcomeRead
<1> QED
  BY <1>1, <1>2, NextBy, WorkerFrame, ScriptFrame, StutterFrame

\* What a caller's own step makes of it.
LEMMA MakerPuts ==
  ASSUME TypeInv, NEW m \in Makers, ByMaker(m)
  PROVE  /\ maker' \in [Makers -> Maker]
         /\ maker'[m].pc = "idle" \/ Existing(maker'[m].case)
         /\ \A n \in Makers : n # m =>
              /\ maker'[n].pc = maker[n].pc
              /\ maker'[n].case = maker[n].case
              /\ ~maker'[n].overtaken => ~maker[n].overtaken
<1>0. maker \in [Makers -> Maker] /\ MakersLinked
  BY DEF TypeInv, TypeOK
<1>1. IdleMaker \in Maker /\ IdleMaker.pc = "idle"
  BY DEF IdleMaker, Maker
<1>2. ASSUME NEW c \in Cases, PromiseRead(m, c)
      PROVE  \E r \in Maker : /\ Existing(r.case)
                              /\ maker' = [maker EXCEPT ![m] = r]
  <2> DEFINE r == [maker[m] EXCEPT !.pc = "look", !.case = c]
  <2>1. maker' = [maker EXCEPT ![m] = r]
    BY <1>0, <1>2 DEF PromiseRead
  <2>2. r \in Maker /\ r.case = c
    BY <1>0 DEF Maker
  <2>3. Existing(c)
    BY <1>2 DEF PromiseRead, Existing
  <2> HIDE DEF r
  <2> QED
    BY <2>1, <2>2, <2>3
<1>3. ASSUME PromiseLook(m)
      PROVE  \E r \in Maker : /\ r.pc = "idle" \/ Existing(r.case)
                              /\ maker' = [maker EXCEPT ![m] = r]
  <2> DEFINE r == [maker[m] EXCEPT !.pc = "insert"]
  <2>1. \/ maker' = [maker EXCEPT ![m] = r]
        \/ maker' = [maker EXCEPT ![m] = IdleMaker]
    BY <1>0, <1>3 DEF PromiseLook
  <2>2. r \in Maker /\ r.case = maker[m].case
    BY <1>0 DEF Maker
  <2>3. Existing(maker[m].case)
    BY <1>0, <1>3 DEF PromiseLook, MakersLinked
  <2> HIDE DEF r
  <2> QED
    BY <1>1, <2>1, <2>2, <2>3
<1>4. CASE PromiseInsert(m)
  <2>1. maker' = [OvertakeMakers({maker[m].case}) EXCEPT ![m] = IdleMaker]
    BY <1>4 DEF PromiseInsert
  <2> QED
    BY <1>1, <2>1, OvertakeFrame
<1> QED
  BY <1>0, <1>2, <1>3, <1>4 DEF ByMaker

LEMMA MakersStayLinked ==
  ASSUME TypeInv, [Next]_vars
  PROVE  maker' \in [Makers -> Maker] /\ MakersLinked'
<1>0. /\ maker \in [Makers -> Maker] /\ MakersLinked
      /\ \A c : Existing(c) => Existing(c)'
  BY ExistingStay DEF TypeInv, TypeOK
<1>1. CASE UNCHANGED maker
  BY <1>0, <1>1 DEF MakersLinked
<1>2. ASSUME NEW C, maker' = OvertakeMakers(C)
      PROVE  maker' \in [Makers -> Maker] /\ MakersLinked'
  BY <1>0, <1>2, OvertakeFrame DEF MakersLinked
<1>3. ASSUME NEW l \in Listeners, OutcomeCommit(l)
      PROVE  maker' \in [Makers -> Maker] /\ MakersLinked'
  BY <1>1, <1>2, <1>3, OutcomePromises
<1>4. ASSUME NEW m \in Makers, ByMaker(m)
      PROVE  maker' \in [Makers -> Maker] /\ MakersLinked'
  <2>1. ASSUME NEW n \in Makers, maker'[n].pc # "idle"
        PROVE  Existing(maker[n].case)'
    <3>1. CASE n = m
      <4>1. Existing(maker'[m].case)
        BY <1>4, <2>1, <3>1, MakerPuts
      <4> QED
        BY <1>0, <3>1, <4>1
    <3>2. CASE n # m
      BY <1>0, <1>4, <2>1, <3>2, MakerPuts DEF MakersLinked
    <3> QED
      BY <3>1, <3>2
  <2> QED
    BY <1>4, <2>1, MakerPuts DEF MakersLinked
<1>5. ASSUME NEW h \in Handlers, CapturedCommit(h)
      PROVE  maker' \in [Makers -> Maker] /\ MakersLinked'
  BY <1>2, <1>5 DEF CapturedCommit
<1> QED
  BY <1>1, <1>3, <1>4, <1>5, MakerWriters

LEMMA ScriptsStayLinked ==
  ASSUME TypeInv, [Next]_vars
  PROVE  script' \in [Scripts -> SUBSET Expired] /\ ScriptsLinked'
<1>0. /\ script \in [Scripts -> SUBSET Expired] /\ ScriptsLinked
      /\ promise \in [Payments -> Seq(Promise)]
  BY DEF TypeInv, TypeOK
<1>1. \A p \in Payments : \A k \in DOMAIN promise[p] : k \in DOMAIN promise'[p]
  BY PromisesGrow DEF PromisesExtend
<1>2. \A s \in Scripts : \A x \in script[s] : x.number \in DOMAIN promise'[x.payment]
  BY <1>0, <1>1 DEF ScriptsLinked, Expired
<1>3. CASE UNCHANGED script
  BY <1>0, <1>2, <1>3 DEF ScriptsLinked
<1>4. ASSUME NEW s \in Scripts, ScriptRead(s)
      PROVE  script' \in [Scripts -> SUBSET Expired] /\ ScriptsLinked'
  <2>1. PICK S \in SUBSET UNION {{p} \X Pending(p) : p \in Payments} :
          script' = [script EXCEPT ![s] = {[payment |-> x[1], number |-> x[2],
                                paid |-> payment[x[1]] = "CAPTURED"] : x \in S}]
    BY <1>4 DEF ScriptRead
  <2>2. \A x \in S : x[1] \in Payments /\ x[2] \in DOMAIN promise[x[1]]
    BY <2>1 DEF Pending
  <2>3. \A x \in S : x[2] \in Nat /\ x[2] \in DOMAIN promise'[x[1]]
    BY <1>0, <1>1, <2>2
  <2> DEFINE R == {[payment |-> x[1], number |-> x[2],
                    paid |-> payment[x[1]] = "CAPTURED"] : x \in S}
  <2>4. R \in SUBSET Expired
    <3>1. ASSUME NEW x \in S, NEW b \in BOOLEAN
          PROVE  [payment |-> x[1], number |-> x[2], paid |-> b] \in Expired
      BY <2>2, <2>3 DEF Expired
    <3>2. \A x \in S : (payment[x[1]] = "CAPTURED") \in BOOLEAN
      OBVIOUS
    <3>3. \A x \in S : [payment |-> x[1], number |-> x[2],
                       paid |-> payment[x[1]] = "CAPTURED"] \in Expired
      BY <3>1, <3>2, Zenon
    <3> QED
      BY <3>3, Zenon
  <2>5. \A x \in R : x.number \in DOMAIN promise'[x.payment]
    BY <2>3
  <2>6. script' = [script EXCEPT ![s] = R]
    BY <2>1
  <2> HIDE DEF R
  <2> QED
    BY <1>0, <1>2, <2>4, <2>5, <2>6 DEF ScriptsLinked
<1>5. ASSUME NEW s \in Scripts, ScriptWrite(s)
      PROVE  script' \in [Scripts -> SUBSET Expired] /\ ScriptsLinked'
  <2>1. PICK x \in script[s] : script' = [script EXCEPT ![s] = @ \ {x}]
    BY <1>5 DEF ScriptWrite
  <2> QED
    BY <1>0, <1>2, <2>1 DEF ScriptsLinked
<1> QED
  BY <1>3, <1>4, <1>5, NextBy, HandlerFrame, WorkerFrame, ListenerFrame,
     MakerFrame, StutterFrame DEF ByScript

\* The rest is written by handlers and workers only.
LEMMA OthersStayTyped ==
  ASSUME TypeInv, [Next]_vars
  PROVE  /\ payment' \in [Payments -> {"CREATED", "FAILED", "CAPTURED"}]
         /\ lock' \in [Payments -> Handlers \cup {None}]
         /\ agent' \in [Requests -> {"none", "RUNNING", "COMPLETED", "FAILED"}]
         /\ orders' \subseteq Orders
         /\ requested' \in [Cases -> Nat]
         /\ rejected' \in 0..MaxRejected /\ crashes' \in 0..MaxCrashes
<1>0. /\ payment \in [Payments -> {"CREATED", "FAILED", "CAPTURED"}]
      /\ lock \in [Payments -> Handlers \cup {None}]
      /\ agent \in [Requests -> {"none", "RUNNING", "COMPLETED", "FAILED"}]
      /\ orders \subseteq Orders
      /\ requested \in [Cases -> Nat]
      /\ rejected \in 0..MaxRejected /\ crashes \in 0..MaxCrashes
      /\ MaxRejected \in Nat /\ MaxCrashes \in Nat
  BY RecoveryAssumption DEF TypeInv, TypeOK
<1> DEFINE
      Kept == /\ payment' \in [Payments -> {"CREATED", "FAILED", "CAPTURED"}]
              /\ lock' \in [Payments -> Handlers \cup {None}]
              /\ agent' \in [Requests ->
                              {"none", "RUNNING", "COMPLETED", "FAILED"}]
              /\ requested' \in [Cases -> Nat]
              /\ rejected' \in 0..MaxRejected /\ crashes' \in 0..MaxCrashes
<1>1. ASSUME NEW h \in Handlers, ByHandler(h) PROVE Kept
  <2>1. CASE FailedBegin(h) \/ FailedCommit(h) \/ CapturedCommit(h)
             \/ CapturedPromise(h)
    BY <1>0, <2>1 DEF FailedBegin, FailedCommit, CapturedCommit,
       CapturedPromise, work, counts
  <2>2. CASE Insert(h)
    <3>1. \/ UNCHANGED requested
          \/ \E c \in Cases : requested' = [requested EXCEPT ![c] = @ + 1]
      BY <2>2 DEF Insert
    <3>2. requested' \in [Cases -> Nat]
      BY <1>0, <3>1
    <3> QED
      BY <1>0, <2>2, <3>2 DEF Insert, money
  <2>3. CASE AgentReport(h) \/ \E a \in Requests : AgentStart(h, a)
    BY <1>0, <2>3 DEF AgentReport, AgentStart, money, counts
  <2>4. CASE HandlerCallFails(h) \/ CrashHandler(h)
    BY <1>0, <2>4 DEF HandlerCallFails, CrashHandler, Unlocked, work
  <2>5. CASE \/ \E p \in Payments : ReceiveFailed(h, p)
             \/ \E o \in Orders : ReceiveCaptured(h, o)
             \/ Policy(h) \/ CapturedBegin(h) \/ CapturedCase(h)
             \/ AgentRecommend(h)
    BY <1>0, <2>5 DEF ReceiveFailed, ReceiveCaptured, Policy, CapturedBegin,
       CapturedPromise, CapturedCase,
       AgentRecommend, rows, money, work, counts
  <2> QED
    BY <1>1, <2>1, <2>2, <2>3, <2>4, <2>5 DEF ByHandler, HandlerStep
<1>2. ASSUME NEW w \in Workers, ByWorker(w) PROVE Kept
  <2>1. UNCHANGED <<payment, lock, agent, requested>>
    BY <1>2, WorkerFrame
  <2>2. CASE WorkerCallFails(w) \/ CrashWorker(w)
    BY <1>0, <2>1, <2>2 DEF WorkerCallFails, CrashWorker
  <2>3. CASE WorkerStep(w)
    BY <1>0, <2>1, <2>3 DEF WorkerStep, counts, Take, VoiceRead, VoiceDial,
       VoiceProgress, RetryOrder, RetryNumber, RetryAttempt, LinkRead,
       LinkCreate, Notify, EscalateRead, EscalateWrite, Complete
  <2> QED
    BY <1>2, <2>2, <2>3 DEF ByWorker
<1>3. Kept
  BY <1>0, <1>1, <1>2, NextBy, ListenerFrame, MakerFrame, ScriptFrame,
     StutterFrame
<1>4. ASSUME NEW w \in Workers, ByWorker(w) PROVE orders' \subseteq Orders
  <2>1. ASSUME worker[w].pc # "idle" PROVE worker[w].row \in Orders
    BY <2>1, WorkersCase DEF Orders
  <2>2. CASE RetryOrder(w) \/ LinkCreate(w)
    BY <1>0, <2>1, <2>2 DEF RetryOrder, LinkCreate, Runs
  <2>3. CASE ~(RetryOrder(w) \/ LinkCreate(w))
    BY <1>0, <1>4, <2>3 DEF ByWorker, WorkerStep, rows, work, Take, VoiceRead,
       VoiceDial, VoiceProgress, RetryNumber, RetryAttempt, LinkRead, Notify,
       EscalateRead, EscalateWrite, Complete, WorkerCallFails, CrashWorker
  <2> QED
    BY <2>2, <2>3
<1>5. orders' \subseteq Orders
  BY <1>0, <1>4, NextBy, HandlerFrame, ListenerFrame, MakerFrame, ScriptFrame,
     StutterFrame
<1> QED
  BY <1>3, <1>5

LEMMA NextTypeInv == TypeInv /\ [Next]_vars => TypeInv'
  BY CasesStay, MadeStay, CallsStay, HandlersStayLinked, WorkersStayLinked,
     AttemptsGrow, PromisesGrow, ListenersStayLinked, MakersStayLinked,
     ScriptsStayLinked, OthersStayTyped DEF TypeInv, TypeOK

\* Every table and process keeps its declared shape.
THEOREM TypeCorrect == Spec => []TypeOK
<1>1. TypeInv => TypeOK
  BY DEF TypeInv
<1> QED
  BY <1>1, InitTypeInv, NextTypeInv, PTL DEF Spec

----------------------------------------------------------------------------
(* Who may insert an action: the dispatch that opened the case, or the run *)
(* of the agent.                                                           *)

Taken(h) == handler[h].pc \in Holding
Before == {"recommend", "policy", "insert"}

Held(h) ==
  LET a == handler[h].row IN
  /\ a \in Cases => Existing(a) /\ requested[a] = 0 /\ handler[h].pc \in Before
  /\ a \in Requests => agent[a] = "RUNNING"
  /\ handler[h].pc = "recommend" => a \in Requests
  /\ handler[h].pc \in Before => ~Made(a)
  /\ handler[h].pc = "report" => Made(a)
  /\ handler[h].pc = "reportFailed" => ~Made(a) \/ rejected > 0

HeldByOne ==
  \A g, h \in Handlers :
    Taken(g) /\ Taken(h) /\ handler[g].row = handler[h].row => g = h

Fresh ==
  /\ \A c \in Cases : ~Existing(c) => requested[c] = 0 /\ ~Made(c)
  /\ \A a \in Requests : agent[a] = "none" => ~Made(a)

HeldInv ==
  /\ \A h \in Handlers : Taken(h) => Held(h)
  /\ HeldByOne /\ Fresh /\ FirstActionOnce /\ AgentRunIsTold

LEMMA InitHeldInv == Init => HeldInv
  BY DEF Init, HeldInv, Taken, Holding, HeldByOne, Fresh, FirstActionOnce,
         AgentRunIsTold, IdleHandler, Made

\* A handler takes no row, and keeps or leaves the one it has.
Keeps(g) ==
  Taken(g)' =>
    /\ Taken(g) /\ handler'[g].row = handler[g].row
    /\ \/ handler'[g].pc = handler[g].pc
       \/ handler[g].pc \in {"recommend", "policy"}
            /\ handler'[g].pc \in {"policy", "insert"}
       \/ /\ handler'[g].pc = "reportFailed" /\ handler[g].row \in Requests
          /\ handler[g].pc = "recommend" \/ rejected' > 0

LEMMA RejectedGrows ==
  ASSUME TypeInv, [Next]_vars PROVE rejected > 0 => rejected' > 0
<1>0. rejected \in Nat
  BY RecoveryAssumption DEF TypeInv, TypeOK
<1>1. ASSUME NEW h \in Handlers, ByHandler(h)
      PROVE  UNCHANGED rejected \/ rejected' = rejected + 1
  BY <1>1 DEF ByHandler, HandlerStep, counts, ReceiveFailed, ReceiveCaptured,
     AgentStart, FailedBegin, FailedCommit, Policy, Insert, CapturedBegin,
     CapturedPromise, CapturedCase, CapturedCommit, AgentRecommend,
     AgentReport, HandlerCallFails, CrashHandler
<1>2. ASSUME NEW w \in Workers, ByWorker(w)
      PROVE  UNCHANGED rejected \/ rejected' = rejected + 1
  BY <1>2 DEF ByWorker, WorkerStep, counts, Take, VoiceRead, VoiceDial,
     VoiceProgress, RetryOrder, RetryNumber, RetryAttempt, LinkRead,
     LinkCreate, Notify, EscalateRead, EscalateWrite, Complete,
     WorkerCallFails, CrashWorker
<1> QED
  BY <1>0, <1>1, <1>2, NextBy, ListenerFrame, MakerFrame, ScriptFrame,
     StutterFrame

LEMMA SteadyHeld ==
  ASSUME TypeInv, HeldInv, [Next]_vars, UNCHANGED <<agent, requested>>,
         \A a \in Rows : Made(a)' <=> Made(a),
         \A g \in Handlers : Keeps(g)
  PROVE  HeldInv'
<1>0. /\ \A c : Existing(c) => Existing(c)'
      /\ rejected > 0 => rejected' > 0
      /\ Cases \cup Requests = Rows /\ Cases \cap Requests = {}
      /\ rejected \in Nat /\ rejected' \in Nat
  BY ExistingStay, RejectedGrows, NextTypeInv, RecoveryAssumption
     DEF TypeInv, TypeOK, Rows
<1>1. ASSUME NEW h \in Handlers, Taken(h)' PROVE Held(h)'
  <2>1. /\ Held(h) /\ handler'[h].row = handler[h].row
        /\ handler[h].row \in Rows
    BY <1>1 DEF HeldInv, Keeps, TypeInv, HandlersLinked, Taken
  <2>2. Keeps(h)
    OBVIOUS
  <2> QED
    BY <1>0, <1>1, <2>1, <2>2 DEF Held, Keeps, Before, Holding, Taken
<1>2. HeldByOne'
  BY DEF HeldInv, HeldByOne, Keeps
<1>3. Fresh'
  BY <1>0 DEF HeldInv, Fresh
<1>4. FirstActionOnce'
  BY DEF HeldInv, FirstActionOnce
<1>5. AgentRunIsTold'
  BY <1>0 DEF HeldInv, AgentRunIsTold, Made
<1> QED
  BY <1>1, <1>2, <1>3, <1>4, <1>5 DEF HeldInv

LEMMA OthersKeep ==
  ASSUME TypeInv, NEW h \in Handlers,
         \A g \in Handlers : g # h => handler'[g] = handler[g], Keeps(h)
  PROVE  \A g \in Handlers : Keeps(g)
  BY DEF Keeps, Taken

LEMMA HandlersKeep ==
  ASSUME TypeInv, HeldInv, [Next]_vars, NEW h \in Handlers, ByHandler(h)
  PROVE  \/ FailedCommit(h) \/ Insert(h) \/ AgentReport(h)
         \/ \E a \in Requests : AgentStart(h, a)
         \/ /\ \A g \in Handlers : Keeps(g)
            /\ UNCHANGED <<agent, requested, action>>
<1>0. handler \in [Handlers -> Handler] /\ rejected \in Nat
  BY RecoveryAssumption DEF TypeInv, TypeOK
<1>3. ASSUME \/ \E p \in Payments : ReceiveFailed(h, p)
             \/ \E o \in Orders : ReceiveCaptured(h, o)
             \/ FailedBegin(h) \/ CapturedBegin(h) \/ CapturedPromise(h)
             \/ CapturedCase(h) \/ CapturedCommit(h) \/ CrashHandler(h)
      PROVE  \A g \in Handlers : Keeps(g)
  <2>1. handler'[h].pc \notin Holding
    <3>1. CASE \E p \in Payments : ReceiveFailed(h, p)
      BY <1>0, <3>1 DEF ReceiveFailed, Handler, Holding
    <3>2. CASE \E o \in Orders : ReceiveCaptured(h, o)
      BY <1>0, <3>2 DEF ReceiveCaptured, Handler, Holding
    <3>3. CASE FailedBegin(h)
      BY <1>0, <3>3 DEF FailedBegin, Handler, Holding
    <3>4. CASE CapturedBegin(h)
      <4>1. IdleHandler.pc = "idle"
        BY DEF IdleHandler
      <4>2. \A p, k : [handler[h] EXCEPT !.pc = "capturing", !.payment = p,
                                        !.number = k].pc = "capturing"
        BY <1>0 DEF Handler
      <4>3. handler'[h].pc \in {"idle", "capturing"}
        BY <1>0, <3>4, <4>1, <4>2 DEF CapturedBegin
      <4> QED
        BY <4>3 DEF Holding
    <3>5. CASE CapturedCommit(h) \/ CrashHandler(h)
      BY <1>0, <3>5 DEF CapturedCommit, CrashHandler, IdleHandler, Holding
    <3>6. CASE CapturedPromise(h)
      BY <1>0, <3>6 DEF CapturedPromise, Handler, Holding
    <3>7. CASE CapturedCase(h)
      BY <1>0, <3>7 DEF CapturedCase, Handler, Holding
    <3> QED
      BY <1>3, <3>1, <3>2, <3>3, <3>4, <3>5, <3>6, <3>7
  <2>2. \A g \in Handlers : g # h => handler'[g] = handler[g]
    BY <1>0, <1>3 DEF ReceiveFailed, ReceiveCaptured, FailedBegin,
       CapturedBegin, CapturedPromise, CapturedCase, CapturedCommit,
       CrashHandler
  <2> QED
    BY <2>1, <2>2, OthersKeep DEF Keeps, Taken
<1>4. ASSUME Policy(h) PROVE \A g \in Handlers : Keeps(g)
  <2>1. /\ handler'[h].pc = "insert" /\ handler[h].pc = "policy"
        /\ handler'[h].row = handler[h].row
    BY <1>0, <1>4 DEF Policy, Handler
  <2>2. \A g \in Handlers : g # h => handler'[g] = handler[g]
    BY <1>0, <1>4 DEF Policy
  <2> QED
    BY <2>1, <2>2, OthersKeep DEF Keeps, Taken, Holding
<1>5. ASSUME AgentRecommend(h) PROVE \A g \in Handlers : Keeps(g)
  <2>1. /\ handler'[h].pc \in {"policy", "reportFailed"}
        /\ handler[h].pc = "recommend"
        /\ handler'[h].row = handler[h].row
    BY <1>0, <1>5 DEF AgentRecommend, Handler
  <2>2. \A g \in Handlers : g # h => handler'[g] = handler[g]
    BY <1>0, <1>5 DEF AgentRecommend
  <2>3. handler[h].row \in Requests
    BY <2>1 DEF HeldInv, Held, Taken, Holding
  <2> QED
    BY <2>1, <2>2, <2>3, OthersKeep DEF Keeps, Taken, Holding
<1>6. ASSUME HandlerCallFails(h) PROVE \A g \in Handlers : Keeps(g)
  <2>1. \A g \in Handlers : g # h => handler'[g] = handler[g]
    BY <1>0, <1>6 DEF HandlerCallFails
  <2>2. rejected' > 0
    BY <1>0, <1>6 DEF HandlerCallFails
  <2>3. CASE handler' = [handler EXCEPT ![h].pc = "reportFailed"]
             /\ \/ handler[h].pc = "report"
                \/ handler[h].pc \in {"policy", "insert"}
                     /\ handler[h].row \in Requests
    <3>1. handler[h].row \in Requests
      BY <2>3 DEF HeldInv, Held, Taken, Holding, Before, TypeInv,
                  HandlersLinked, Rows
    <3>2. handler'[h].pc = "reportFailed" /\ handler'[h].row = handler[h].row
      BY <1>0, <2>3 DEF Handler
    <3> QED
      BY <2>1, <2>2, <2>3, <3>1, <3>2, OthersKeep DEF Keeps, Taken, Holding
  <2>4. CASE \/ handler' = [handler EXCEPT ![h] =
                  [IdleHandler EXCEPT !.pc = "captured",
                                      !.order = handler[h].order]]
             \/ handler' = [handler EXCEPT ![h] =
                  [IdleHandler EXCEPT !.pc = "failed",
                                      !.payment = handler[h].payment]]
             \/ handler' = [handler EXCEPT ![h] = IdleHandler]
    <3>1. CASE handler' = [handler EXCEPT ![h] =
                  [IdleHandler EXCEPT !.pc = "captured",
                                      !.order = handler[h].order]]
      BY <1>0, <3>1, <2>1, OthersKeep DEF IdleHandler, Keeps, Taken, Holding
    <3>2. CASE handler' = [handler EXCEPT ![h] =
                  [IdleHandler EXCEPT !.pc = "failed",
                                      !.payment = handler[h].payment]]
      BY <1>0, <3>2, <2>1, OthersKeep DEF IdleHandler, Keeps, Taken, Holding
    <3>3. CASE handler' = [handler EXCEPT ![h] = IdleHandler]
      BY <1>0, <3>3, <2>1, OthersKeep DEF IdleHandler, Keeps, Taken, Holding
    <3> QED
      BY <2>4, <3>1, <3>2, <3>3
  <2> QED
    BY <1>6, <2>3, <2>4 DEF HandlerCallFails
<1>7. \/ FailedCommit(h) \/ Insert(h) \/ AgentReport(h)
      \/ \E a \in Requests : AgentStart(h, a)
      \/ UNCHANGED <<agent, requested, action>>
  BY DEF ByHandler, HandlerStep, rows, work, counts, ReceiveFailed,
     ReceiveCaptured, FailedBegin, Policy, CapturedBegin, CapturedPromise,
     CapturedCase, CapturedCommit, AgentRecommend, HandlerCallFails,
     CrashHandler
<1> QED
  BY <1>3, <1>4, <1>5, <1>6, <1>7 DEF ByHandler, HandlerStep

\* The insert of an action and the report of a run.
LEMMA InsertHeld ==
  ASSUME TypeInv, HeldInv, [Next]_vars, NEW h \in Handlers, Insert(h)
  PROVE  HeldInv'
<1>0. /\ handler \in [Handlers -> Handler] /\ requested \in [Cases -> Nat]
      /\ Cases \cap Requests = {} /\ Rows = Cases \cup Requests
      /\ \A c : Existing(c) <=> Existing(c)'
      /\ UNCHANGED <<recovery, agent, rejected>>
  BY RecoveryAssumption DEF TypeInv, TypeOK, Insert, Existing, Rows
<1>a. PICK a : a = handler[h].row
  OBVIOUS
<1>1. /\ Taken(h) /\ Held(h) /\ a \in Rows /\ ~Made(a) /\ handler[h].pc = "insert"
  BY <1>a DEF Insert, HeldInv, Taken, Holding, TypeInv, HandlersLinked, Held, Before
<1>2. Made(a)' /\ \A b \in Rows : b # a => action'[b] = action[b]
  BY <1>a, <1>1, InsertWrites DEF Made
<1>3. \A g \in Handlers : g # h => handler'[g] = handler[g]
  BY <1>0 DEF Insert
<1>4. \/ a \in Cases /\ handler'[h].pc = "idle"
      \/ a \in Requests /\ handler'[h].pc = "report" /\ handler'[h].row = a
  BY <1>a, <1>0, <1>1 DEF Insert, IdleHandler, Handler
<1>5. /\ \A c \in Cases : requested'[c] = IF c = a THEN 1 ELSE requested[c]
      /\ a \in Cases => requested[a] = 0
  BY <1>a, <1>0, <1>1 DEF Insert, Held
<1>6. ASSUME NEW g \in Handlers, g # h, Taken(g)' PROVE Held(g)'
  <2>1. /\ Taken(g) /\ Held(g) /\ handler[g].row # a /\ handler[g].row \in Rows
        /\ handler'[g] = handler[g]
    BY <1>a, <1>1, <1>3, <1>6 DEF Taken, HeldInv, HeldByOne, TypeInv, HandlersLinked
  <2>2. Made(handler[g].row)' <=> Made(handler[g].row)
    BY <1>2, <2>1 DEF Made
  <2> QED
    BY <1>a, <1>0, <1>5, <2>1, <2>2 DEF Held
<1>7. ASSUME Taken(h)' PROVE Held(h)'
  BY <1>a, <1>0, <1>1, <1>2, <1>4, <1>7 DEF Held, Taken, Holding, Before
<1>8. HeldByOne'
  BY <1>a, <1>1, <1>3, <1>4 DEF HeldInv, HeldByOne, Taken, Holding
<1>9. Fresh'
  BY <1>a, <1>0, <1>1, <1>2, <1>5 DEF HeldInv, Fresh, Held, Made
<1>10. FirstActionOnce'
  BY <1>a, <1>0, <1>5 DEF HeldInv, FirstActionOnce
<1>11. AgentRunIsTold'
  BY <1>a, <1>0, <1>1, <1>2 DEF HeldInv, AgentRunIsTold, Held, Made
<1> QED
  BY <1>6, <1>7, <1>8, <1>9, <1>10, <1>11 DEF HeldInv

LEMMA ReportHeld ==
  ASSUME TypeInv, HeldInv, [Next]_vars, NEW h \in Handlers, AgentReport(h)
  PROVE  HeldInv'
<1>0. /\ handler \in [Handlers -> Handler]
      /\ agent \in [Requests -> {"none", "RUNNING", "COMPLETED", "FAILED"}]
      /\ Cases \cap Requests = {} /\ Rows = Cases \cup Requests
      /\ UNCHANGED <<recovery, requested, rejected, action>>
      /\ rejected \in Nat
  BY RecoveryAssumption DEF TypeInv, TypeOK, AgentReport, Rows, counts
<1> DEFINE a == handler[h].row
<1>1. /\ Taken(h) /\ Held(h) /\ a \in Rows
      /\ handler[h].pc \in {"report", "reportFailed"}
  BY DEF AgentReport, HeldInv, Taken, Holding, TypeInv, HandlersLinked
<1>2. a \in Requests
  BY <1>0, <1>1 DEF Held, Before
<1>3. /\ \A g \in Handlers : g # h => handler'[g] = handler[g]
      /\ ~Taken(h)'
      /\ \A b \in Requests : b # a => agent'[b] = agent[b]
      /\ agent'[a] = IF handler[h].pc = "report" THEN "COMPLETED" ELSE "FAILED"
  BY <1>0, <1>2 DEF AgentReport, IdleHandler, Taken, Holding
<1>4. \A b : (Existing(b)' <=> Existing(b)) /\ (Made(b)' <=> Made(b))
  BY <1>0 DEF Existing, Made
<1>5. ASSUME NEW g \in Handlers, Taken(g)' PROVE Held(g)'
  <2>1. g # h /\ handler'[g] = handler[g] /\ Taken(g) /\ Held(g)
    BY <1>3, <1>5 DEF HeldInv, Taken
  <2>2. handler[g].row # a
    BY <1>1, <2>1 DEF HeldInv, HeldByOne
  <2> QED
    BY <1>0, <1>3, <1>4, <2>1, <2>2 DEF Held
<1>6. HeldByOne'
  BY <1>3 DEF HeldInv, HeldByOne, Taken
<1>7. Fresh'
  BY <1>0, <1>3, <1>4 DEF HeldInv, Fresh
<1>8. FirstActionOnce'
  BY <1>0 DEF HeldInv, FirstActionOnce
<1>9. AgentRunIsTold'
  BY <1>0, <1>1, <1>2, <1>3 DEF HeldInv, AgentRunIsTold, Held, Made
<1> QED
  BY <1>5, <1>6, <1>7, <1>8, <1>9 DEF HeldInv

\* A row that is taken anew is one that nobody has.
LEMMA NewlyHeld ==
  ASSUME TypeInv, HeldInv, [Next]_vars, NEW h \in Handlers, NEW a \in Rows,
         \A g \in Handlers : Taken(g) => handler[g].row # a,
         \A g \in Handlers : g # h => handler'[g] = handler[g],
         handler'[h].row = a, Held(h)',
         \A b \in Requests : b # a => agent'[b] = agent[b],
         a \in Requests => agent'[a] = "RUNNING",
         UNCHANGED <<requested, rejected, action>>
  PROVE  HeldInv'
<1>0. /\ \A c : Existing(c) => Existing(c)'
      /\ \A b : Made(b)' <=> Made(b)
  BY ExistingStay DEF Made
<1>1. ASSUME NEW g \in Handlers, g # h, Taken(g)' PROVE Held(g)'
  BY <1>0, <1>1 DEF HeldInv, Taken, Held
<1>2. HeldByOne'
  BY DEF HeldInv, HeldByOne, Taken
<1>3. Fresh'
  BY <1>0 DEF HeldInv, Fresh
<1>4. FirstActionOnce'
  BY DEF HeldInv, FirstActionOnce
<1>5. AgentRunIsTold'
  BY DEF HeldInv, AgentRunIsTold
<1> QED
  BY <1>1, <1>2, <1>3, <1>4, <1>5 DEF HeldInv

LEMMA StartHeld ==
  ASSUME TypeInv, HeldInv, [Next]_vars, NEW h \in Handlers, NEW a \in Requests,
         AgentStart(h, a)
  PROVE  HeldInv'
<1>0. /\ handler \in [Handlers -> Handler] /\ a \in Rows /\ a \notin Cases
      /\ agent \in [Requests -> {"none", "RUNNING", "COMPLETED", "FAILED"}]
  BY RecoveryAssumption DEF TypeInv, TypeOK, Rows
<1>1. /\ handler'[h].row = a /\ handler'[h].pc = "recommend"
      /\ \A g \in Handlers : g # h => handler'[g] = handler[g]
      /\ agent' = [agent EXCEPT ![a] = "RUNNING"] /\ agent[a] = "none"
      /\ UNCHANGED <<requested, rejected, action>>
  BY <1>0 DEF AgentStart, Handler, counts
<1>2. \A g \in Handlers : Taken(g) => handler[g].row # a
  BY <1>1 DEF HeldInv, Held
<1>3. Held(h)'
  BY <1>0, <1>1 DEF Held, HeldInv, Fresh, Made, Before
<1> QED
  BY <1>0, <1>1, <1>2, <1>3, NewlyHeld

LEMMA OpenedHeld ==
  ASSUME TypeInv, HeldInv, [Next]_vars, NEW h \in Handlers, FailedCommit(h)
  PROVE  HeldInv'
<1>0. /\ handler \in [Handlers -> Handler] /\ recovery \in [Cases -> Case]
      /\ Cases \cap Requests = {} /\ Cases \subseteq Rows
      /\ UNCHANGED <<agent, requested, rejected, action>>
      /\ handler[h].pc = "failing"
  BY FailedCommitWrites, RecoveryAssumption DEF TypeInv, TypeOK, Rows
<1>1. CASE \/ handler' = [handler EXCEPT ![h].pc = "failed"]
           \/ handler' = [handler EXCEPT ![h] = IdleHandler]
  <2>1. handler'[h].pc \notin Holding
    BY <1>0, <1>1 DEF Handler, IdleHandler, Holding
  <2>2. \A g \in Handlers : g # h => handler'[g] = handler[g]
    BY <1>0, <1>1
  <2>3. \A b \in Rows : Made(b)' <=> Made(b)
    BY <1>0 DEF Made
  <2> QED
    BY <1>0, <2>1, <2>2, <2>3, OthersKeep, SteadyHeld DEF Keeps, Taken
<1>2. ASSUME NEW c \in Cases, recovery[c].status = "ABSENT",
             recovery' = [recovery EXCEPT
               ![c] = [status |-> "OPEN", payment |-> handler[h].payment]],
             handler' = [handler EXCEPT ![h] =
               [IdleHandler EXCEPT !.pc = "policy",
                                   !.payment = handler[h].payment,
                                   !.row = c, !.case = c]]
      PROVE  HeldInv'
  <2>1. handler'[h] = [IdleHandler EXCEPT !.pc = "policy",
                         !.payment = handler[h].payment,
                         !.row = c, !.case = c]
    BY <1>0, <1>2
  <2>2. handler'[h].row = c /\ handler'[h].pc = "policy"
    BY <2>1 DEF IdleHandler
  <2>3. \A g \in Handlers : g # h => handler'[g] = handler[g]
    BY <1>0, <1>2
  <2>4. \A g \in Handlers : Taken(g) => handler[g].row # c
    BY <1>2 DEF HeldInv, Held, Existing
  <2>5. requested[c] = 0 /\ ~Made(c)
    BY <1>2 DEF HeldInv, Fresh, Existing
  <2>6. Existing(c)' /\ ~Made(c)'
    BY <1>0, <1>2, <2>5 DEF Existing, Made
  <2>7. Held(h)'
    BY <1>0, <2>2, <2>5, <2>6 DEF Held, Before
  <2> QED
    BY <1>0, <2>2, <2>3, <2>4, <2>7, NewlyHeld
<1> QED
  BY <1>1, <1>2, FailedCommitWrites

LEMMA NextHeldInv == TypeInv /\ HeldInv /\ [Next]_vars => HeldInv'
<1> SUFFICES ASSUME TypeInv, HeldInv, [Next]_vars PROVE HeldInv'
  OBVIOUS
<1>1. ASSUME UNCHANGED <<handler, agent, requested>>,
             \A a \in Rows : Made(a)' <=> Made(a)
      PROVE  HeldInv'
  BY <1>1, SteadyHeld DEF Keeps, Taken
<1>2. ASSUME NEW h \in Handlers, ByHandler(h) PROVE HeldInv'
  <2>1. CASE FailedCommit(h) \/ Insert(h) \/ AgentReport(h)
             \/ \E a \in Requests : AgentStart(h, a)
    BY <2>1, OpenedHeld, InsertHeld, ReportHeld, StartHeld
  <2>2. CASE /\ \A g \in Handlers : Keeps(g)
             /\ UNCHANGED <<agent, requested, action>>
    BY <2>2, SteadyHeld DEF Made
  <2> QED
    BY <1>2, <2>1, <2>2, HandlersKeep
<1>3. ASSUME NEW w \in Workers, ByWorker(w) PROVE HeldInv'
  <2>1. UNCHANGED <<handler, agent, requested>>
    BY <1>3, WorkerFrame
  <2>2. UNCHANGED action \/ Take(w) \/ Ends(w)
    BY <1>3, WorkerKinds
       DEF ByWorker, RetryNumber, GoesOn, Goto, CrashWorker, rows, work
  <2>3. CASE Take(w)
    BY <1>1, <2>1, <2>3, TakeWrites DEF Made
  <2>4. CASE Ends(w)
    <3>1. PICK s \in {"COMPLETED", "FAILED"} : worker[w].pc # "idle" /\ End(w, s)
      BY <2>4 DEF Ends
    <3>2. PICK a : a = worker[w].row
      OBVIOUS
    <3>3. /\ Made(a) /\ action'[a].status = s
          /\ \A b \in Rows : b # a => action'[b] = action[b]
      BY <3>1, <3>2, EndWrites
    <3> QED
      BY <1>1, <2>1, <3>1, <3>3 DEF Made
  <2> QED
    BY <1>1, <2>1, <2>2, <2>3, <2>4 DEF Made
<1> QED
  BY <1>1, <1>2, <1>3, NextBy, ListenerFrame, MakerFrame, ScriptFrame,
     StutterFrame DEF Made

\* However many dispatches of failures there are, a case gets its first action
\* at most once.
THEOREM OnceForACase == Spec => []FirstActionOnce
<1>1. HeldInv => FirstActionOnce
  BY DEF HeldInv
<1> QED
  BY <1>1, InitTypeInv, NextTypeInv, InitHeldInv, NextHeldInv, PTL DEF Spec

\* The AgentExecution tells what became of the action of its run.
THEOREM RunIsTold == Spec => []AgentRunIsTold
<1>1. HeldInv => AgentRunIsTold
  BY DEF HeldInv
<1> QED
  BY <1>1, InitTypeInv, NextTypeInv, InitHeldInv, NextHeldInv, PTL DEF Spec

----------------------------------------------------------------------------
(* Failed payments are pursued.                                            *)

LEMMA StatusWriters ==
  ASSUME TypeInv, [Next]_vars
  PROVE  \/ UNCHANGED recovery
         \/ \E h \in Handlers : FailedCommit(h) \/ CapturedCommit(h)
         \/ \E c \in Cases : \E s \in Active :
              /\ Existing(c) /\ Admits(c)
              /\ recovery' = [recovery EXCEPT ![c].status = s]
<1>1. ASSUME NEW w \in Workers, VoiceProgress(w) \/ EscalateWrite(w)
      PROVE  \/ UNCHANGED recovery
             \/ \E c \in Cases : \E s \in Active :
                  /\ Existing(c) /\ Admits(c)
                  /\ recovery' = [recovery EXCEPT ![c].status = s]
  BY <1>1, WorkersCase DEF VoiceProgress, EscalateWrite, MoveCase, Active
<1>2. ASSUME NEW l \in Listeners, OutcomeCommit(l)
      PROVE  \/ UNCHANGED recovery
             \/ \E c \in Cases : \E s \in Active :
                  /\ Existing(c) /\ Admits(c)
                  /\ recovery' = [recovery EXCEPT ![c].status = s]
  <2>1. Existing(action[listener[l].row].case)
    BY <1>2 DEF OutcomeCommit, TypeInv, ListenersLinked, ActionsLinked, Made
  <2> QED
    BY <1>2, <2>1 DEF OutcomeCommit, Existing, Active
<1> QED
  BY <1>1, <1>2, RecoveryWriters

LEMMA PaymentWriters ==
  [Next]_vars =>
    \/ UNCHANGED payment
    \/ \E h \in Handlers : FailedCommit(h) \/ CapturedCommit(h)
<1>1. ASSUME NEW h \in Handlers, ByHandler(h)
      PROVE  UNCHANGED payment \/ FailedCommit(h) \/ CapturedCommit(h)
  BY <1>1 DEF ByHandler, HandlerStep, rows, money, ReceiveFailed,
     ReceiveCaptured, AgentStart, FailedBegin, Policy, Insert, CapturedBegin,
     CapturedPromise, CapturedCase, AgentRecommend, AgentReport,
     HandlerCallFails, CrashHandler
<1> QED
  BY <1>1, NextBy, WorkerFrame, ListenerFrame, MakerFrame, ScriptFrame,
     StutterFrame

LEMMA NextPursued ==
  TypeInv /\ FailedIsPursued /\ [Next]_vars => FailedIsPursued'
<1> SUFFICES ASSUME TypeInv, FailedIsPursued, [Next]_vars, NEW p \in Payments,
                    payment'[p] = "FAILED"
             PROVE  ActiveCases(p)' # {}
  BY DEF FailedIsPursued
<1>0. /\ recovery \in [Cases -> Case]
      /\ payment \in [Payments -> {"CREATED", "FAILED", "CAPTURED"}]
  BY DEF TypeInv, TypeOK
<1>1. ASSUME payment[p] = "FAILED", UNCHANGED recovery
      PROVE  ActiveCases(p)' # {}
  BY <1>1 DEF FailedIsPursued, ActiveCases
<1>2. ASSUME payment[p] = "FAILED", NEW c \in Cases, NEW s \in Active,
             recovery' = [recovery EXCEPT ![c].status = s]
      PROVE  ActiveCases(p)' # {}
  <2>1. PICK d \in ActiveCases(p) : TRUE
    BY <1>2 DEF FailedIsPursued
  <2>2. /\ recovery'[c].status = s
        /\ recovery'[c].payment = recovery[c].payment
        /\ \A e \in Cases : e # c => recovery'[e] = recovery[e]
    BY <1>0, <1>2 DEF Case
  <2>3. d \in ActiveCases(p)'
    BY <1>2, <2>1, <2>2 DEF ActiveCases
  <2> QED
    BY <2>3
<1>3. ASSUME NEW h \in Handlers, CapturedCommit(h) PROVE ActiveCases(p)' # {}
  <2>1. handler[h].payment # p /\ payment[p] = "FAILED"
    BY <1>0, <1>3 DEF CapturedCommit
  <2>2. PICK d \in ActiveCases(p) : TRUE
    BY <2>1 DEF FailedIsPursued
  <2>3. d \in Cases /\ d # handler[h].case
    BY <1>3, <2>1, <2>2, ClosedCase DEF ActiveCases, CapturedCommit
  <2>4. recovery'[d] = recovery[d]
    BY <1>3, <2>3 DEF CapturedCommit
  <2> QED
    BY <2>2, <2>4 DEF ActiveCases
<1>4. ASSUME NEW h \in Handlers, FailedCommit(h) PROVE ActiveCases(p)' # {}
  <2> DEFINE q == handler[h].payment
  <2>1. CASE UNCHANGED <<payment, recovery>>
    BY <1>1, <2>1
  <2>2. CASE /\ payment' = [payment EXCEPT ![q] = "FAILED"]
             /\ ActiveCases(q) # {} /\ UNCHANGED recovery
    <3>1. p = q \/ payment[p] = "FAILED"
      BY <1>0, <2>2
    <3> QED
      BY <1>1, <2>2, <3>1 DEF ActiveCases
  <2>3. ASSUME NEW c \in Cases, recovery[c].status = "ABSENT",
               payment' = [payment EXCEPT ![q] = "FAILED"],
               recovery' = [recovery EXCEPT
                 ![c] = [status |-> "OPEN", payment |-> q]]
        PROVE  ActiveCases(p)' # {}
    <3>1. recovery'[c] = [status |-> "OPEN", payment |-> q]
      BY <1>0, <2>3
    <3>2. CASE p = q
      <4>1. c \in ActiveCases(p)'
        BY <3>1, <3>2 DEF ActiveCases, Active
      <4> QED
        BY <4>1
    <3>3. CASE p # q
      <4>1. PICK d \in ActiveCases(p) : TRUE
        BY <1>0, <2>3, <3>3 DEF FailedIsPursued
      <4>2. d # c /\ d \in Cases
        BY <2>3, <4>1 DEF ActiveCases, Active
      <4>3. recovery'[d] = recovery[d]
        BY <1>0, <2>3, <4>2
      <4> QED
        BY <4>1, <4>3 DEF ActiveCases
    <3> QED
      BY <3>2, <3>3
  <2> QED
    BY <1>4, <2>1, <2>2, <2>3, FailedCommitWrites
<1>5. CASE \E h \in Handlers : FailedCommit(h) \/ CapturedCommit(h)
  BY <1>3, <1>4, <1>5
<1>6. CASE UNCHANGED payment
  BY <1>1, <1>2, <1>3, <1>4, <1>6, StatusWriters
<1> QED
  BY <1>5, <1>6, PaymentWriters

\* The failure of a payment is never forgotten, whatever captures,
\* escalations, outcomes and stale updates do.
THEOREM FailedPaymentsPursued == Spec => []FailedIsPursued
<1>1. Init => FailedIsPursued
  BY DEF Init, FailedIsPursued
<1> QED
  BY <1>1, InitTypeInv, NextTypeInv, NextPursued, PTL DEF Spec

----------------------------------------------------------------------------
(* Nothing is recovered without money.                                     *)

Capturing ==
  \A h \in Handlers : handler[h].pc \in Capture =>
    handler[h].number \in DOMAIN attempts[handler[h].payment]
PaidWhenRead ==
  \A s \in Scripts : \A x \in script[s] : x.paid => Paid(x.payment)

PaidInv == Capturing /\ PaidWhenRead /\ RecoveredIsPaid

LEMMA InitPaidInv == Init => PaidInv
  BY DEF Init, PaidInv, Capturing, PaidWhenRead, RecoveredIsPaid, IdleHandler,
         Capture

LEMMA PaidStays ==
  ASSUME TypeInv, [Next]_vars, NEW p \in Payments, Paid(p)
  PROVE  Paid(p)'
  BY AttemptsGrow DEF AttemptsExtend, Paid

\* How a handler gets to the transaction of a failure or a capture.
LEMMA LockSteps ==
  ASSUME TypeInv, [Next]_vars, NEW h \in Handlers,
         handler'[h].pc \in {"failing"} \cup Capture
  PROVE  \/ handler'[h] = handler[h]
         \/ FailedBegin(h) \/ CapturedBegin(h) \/ CapturedPromise(h)
         \/ CapturedCase(h)
<1>0. handler \in [Handlers -> Handler]
  BY DEF TypeInv, TypeOK
<1>1. ASSUME NEW g \in Handlers, ByHandler(g), g # h
      PROVE  handler'[h] = handler[h]
  BY <1>0, <1>1, HandlerPuts, FailedCommitWrites
<1>2. ASSUME ByHandler(h), ~FailedBegin(h), ~CapturedBegin(h),
             ~CapturedPromise(h), ~CapturedCase(h)
      PROVE  FALSE
  <2>1. CASE \/ \E p \in Payments : ReceiveFailed(h, p)
             \/ \E o \in Orders : ReceiveCaptured(h, o)
             \/ Policy(h) \/ AgentRecommend(h)
    <3>1. CASE \E p \in Payments : ReceiveFailed(h, p)
      BY <1>0, <3>1 DEF ReceiveFailed, Handler, Capture
    <3>2. CASE \E o \in Orders : ReceiveCaptured(h, o)
      BY <1>0, <3>2 DEF ReceiveCaptured, Handler, Capture
    <3>4. CASE Policy(h)
      BY <1>0, <3>4 DEF Policy, Handler, Capture
    <3>5. CASE AgentRecommend(h)
      BY <1>0, <3>5 DEF AgentRecommend, Handler, Capture
    <3> QED
      BY <2>1, <3>1, <3>2, <3>4, <3>5
  <2>2. CASE \E a \in Requests : AgentStart(h, a)
    BY <1>0, <2>2 DEF AgentStart, Handler, Capture
  <2>3. CASE Insert(h) \/ CapturedCommit(h) \/ AgentReport(h) \/ CrashHandler(h)
    BY <1>0, <2>3 DEF Insert, CapturedCommit, AgentReport, CrashHandler,
       IdleHandler, Handler, Capture
  <2>4. CASE FailedCommit(h)
    <3>1. ASSUME NEW c \in Cases, handler' = [handler EXCEPT ![h] =
                   [IdleHandler EXCEPT !.pc = "policy",
                                       !.payment = handler[h].payment,
                                       !.row = c, !.case = c]]
          PROVE  FALSE
      BY <1>0, <3>1 DEF IdleHandler, Capture
    <3>2. ASSUME \/ handler' = [handler EXCEPT ![h].pc = "failed"]
                 \/ handler' = [handler EXCEPT ![h] = IdleHandler]
          PROVE  FALSE
      BY <1>0, <3>2 DEF Handler, IdleHandler, Capture
    <3> QED
      BY <2>4, <3>1, <3>2, FailedCommitWrites
  <2>5. CASE HandlerCallFails(h)
    <3>1. ASSUME \/ handler' = [handler EXCEPT ![h] =
                      [IdleHandler EXCEPT !.pc = "failed",
                                          !.payment = handler[h].payment]]
                 \/ handler' = [handler EXCEPT ![h] =
                      [IdleHandler EXCEPT !.pc = "captured",
                                          !.order = handler[h].order]]
          PROVE  FALSE
      BY <1>0, <3>1 DEF IdleHandler, Capture
    <3>2. ASSUME \/ handler' = [handler EXCEPT ![h].pc = "reportFailed"]
                 \/ handler' = [handler EXCEPT ![h] = IdleHandler]
          PROVE  FALSE
      BY <1>0, <3>2 DEF Handler, IdleHandler, Capture
    <3> QED
      BY <2>5, <3>1, <3>2 DEF HandlerCallFails
  <2> QED
    BY <1>2, <2>1, <2>2, <2>3, <2>4, <2>5 DEF ByHandler, HandlerStep
<1> QED
  BY <1>1, <1>2, NextBy, WorkerFrame, ListenerFrame, MakerFrame, ScriptFrame,
     StutterFrame

\* What a capture notes between its reads.
LEMMA CaptureReads ==
  ASSUME TypeInv, NEW h \in Handlers, CapturedPromise(h) \/ CapturedCase(h)
  PROVE  /\ handler[h].pc \in Capture
         /\ handler'[h].payment = handler[h].payment
         /\ handler'[h].number = handler[h].number
         /\ \A g \in Handlers : g # h => handler'[g] = handler[g]
<1>0. handler \in [Handlers -> Handler]
  BY DEF TypeInv, TypeOK
<1>a. handler[h] \in Handler
  BY <1>0
<1>1. ASSUME NEW k, handler[h].pc = "capturing",
             handler' = [handler EXCEPT ![h].pc = "fulfilling",
                                        ![h].promise = k]
      PROVE  /\ handler[h].pc \in Capture
             /\ handler'[h].payment = handler[h].payment
             /\ handler'[h].number = handler[h].number
             /\ \A g \in Handlers : g # h => handler'[g] = handler[g]
  BY <1>0, <1>a, <1>1 DEF Handler, Capture
<1>2. ASSUME NEW c, handler[h].pc = "fulfilling",
             handler' = [handler EXCEPT ![h].pc = "closing", ![h].case = c]
      PROVE  /\ handler[h].pc \in Capture
             /\ handler'[h].payment = handler[h].payment
             /\ handler'[h].number = handler[h].number
             /\ \A g \in Handlers : g # h => handler'[g] = handler[g]
  BY <1>0, <1>a, <1>2 DEF Handler, Capture
<1>3. CASE CapturedPromise(h)
  BY <1>1, <1>3 DEF CapturedPromise
<1>4. CASE CapturedCase(h)
  BY <1>2, <1>4 DEF CapturedCase
<1> QED
  BY <1>3, <1>4

LEMMA NextCapturing ==
  TypeInv /\ Capturing /\ [Next]_vars => Capturing'
<1> SUFFICES ASSUME TypeInv, Capturing, [Next]_vars, NEW h \in Handlers,
                    handler'[h].pc \in Capture
             PROVE  handler'[h].number \in DOMAIN attempts'[handler'[h].payment]
  BY DEF Capturing
<1>0. handler \in [Handlers -> Handler] /\ HandlersLinked
  BY DEF TypeInv, TypeOK
<1>1. \A p \in Payments : \A k \in DOMAIN attempts[p] : k \in DOMAIN attempts'[p]
  BY AttemptsGrow DEF AttemptsExtend
<1>2. CASE handler'[h] = handler[h]
  BY <1>0, <1>1, <1>2 DEF Capturing, HandlersLinked
<1>3. CASE CapturedBegin(h)
  <2>1. PICK p \in Payments : \E k \in DOMAIN attempts[p] :
          handler' = [handler EXCEPT ![h] =
            IF attempts[p][k].status = "CAPTURED" THEN IdleHandler
            ELSE [@ EXCEPT !.pc = "capturing", !.payment = p, !.number = k]]
    BY <1>3 DEF CapturedBegin
  <2>2. PICK k \in DOMAIN attempts[p] :
          handler' = [handler EXCEPT ![h] =
            IF attempts[p][k].status = "CAPTURED" THEN IdleHandler
            ELSE [@ EXCEPT !.pc = "capturing", !.payment = p, !.number = k]]
    BY <2>1
  <2>3. IdleHandler.pc \notin Capture
    BY DEF IdleHandler, Capture
  <2>4. handler'[h] = [handler[h] EXCEPT !.pc = "capturing", !.payment = p,
                                         !.number = k]
    BY <1>0, <2>2, <2>3
  <2>5. handler'[h].payment = p /\ handler'[h].number = k
    BY <1>0, <2>4 DEF Handler
  <2> QED
    BY <1>1, <2>5
<1>4. CASE CapturedPromise(h) \/ CapturedCase(h)
  BY <1>0, <1>1, <1>4, CaptureReads DEF Capturing, HandlersLinked
<1>5. CASE FailedBegin(h)
  BY <1>0, <1>5 DEF FailedBegin, Handler, Capture
<1> QED
  BY <1>2, <1>3, <1>4, <1>5, LockSteps

LEMMA NextPaidWhenRead ==
  TypeInv /\ PaidInv /\ [Next]_vars => PaidWhenRead'
<1> SUFFICES ASSUME TypeInv, PaidInv, [Next]_vars, NEW s \in Scripts,
                    NEW x \in script'[s], x.paid
             PROVE  Paid(x.payment)'
  BY DEF PaidWhenRead
<1>0. script \in [Scripts -> SUBSET Expired]
  BY DEF TypeInv, TypeOK
<1>1. ASSUME x \in script[s] PROVE Paid(x.payment)'
  BY <1>0, <1>1, PaidStays DEF PaidInv, PaidWhenRead, Expired
<1>2. ASSUME NEW t \in Scripts, ScriptWrite(t) PROVE x \in script[s]
  BY <1>0, <1>2 DEF ScriptWrite
<1>3. ASSUME NEW t \in Scripts, ScriptRead(t), x \notin script[s]
      PROVE  Paid(x.payment)'
  <2>1. PICK S \in SUBSET UNION {{p} \X Pending(p) : p \in Payments} :
          script' = [script EXCEPT ![t] = {[payment |-> y[1], number |-> y[2],
                                paid |-> payment[y[1]] = "CAPTURED"] : y \in S}]
    BY <1>3 DEF ScriptRead
  <2>2. \A y \in S : y[1] \in Payments
    BY <2>1
  <2>3. PICK y \in S : x = [payment |-> y[1], number |-> y[2],
                           paid |-> payment[y[1]] = "CAPTURED"]
    BY <1>0, <1>3, <2>1
  <2>4. x.payment \in Payments /\ payment[x.payment] = "CAPTURED"
    BY <2>2, <2>3
  <2> QED
    BY <2>4, PaidStays DEF PaidInv, RecoveredIsPaid
<1> QED
  BY <1>1, <1>2, <1>3, NextBy, HandlerFrame, WorkerFrame, ListenerFrame,
     MakerFrame, StutterFrame DEF ByScript

\* The capture of a payment leaves a captured attempt.
LEMMA CapturedIsPaid ==
  ASSUME TypeInv, Capturing, NEW h \in Handlers, CapturedCommit(h)
  PROVE  \E p \in Payments : p = handler[h].payment /\ Paid(p)'
<1>1. PICK p : p = handler[h].payment
  OBVIOUS
<1>2. PICK n : n = handler[h].number
  OBVIOUS
<1>3. /\ p \in Payments /\ n \in DOMAIN attempts[p]
      /\ attempts' = MarkedCaptured(p, n)
  BY <1>1, <1>2, ClosedCase DEF CapturedCommit, Capturing, Capture
<1>4. /\ attempts'[p][n].status = "CAPTURED"
      /\ n \in DOMAIN attempts'[p]
  BY <1>3, MarkedExtends DEF AttemptsExtend
<1>5. Paid(p)'
  BY <1>4 DEF Paid
<1> QED
  BY <1>1, <1>3, <1>5

\* Who makes a promise FULFILLED.
LEMMA FulfilledBy ==
  ASSUME TypeInv, PaidInv, [Next]_vars, NEW p \in Payments,
         NEW k \in DOMAIN promise'[p], promise'[p][k].status = "FULFILLED"
  PROVE  \/ k \in DOMAIN promise[p] /\ promise[p][k].status = "FULFILLED"
         \/ \E h \in Handlers : CapturedCommit(h) /\ handler[h].payment = p
         \/ Paid(p)
<1>0. /\ promise \in [Payments -> Seq(Promise)] /\ CasesLinked
      /\ script \in [Scripts -> SUBSET Expired]
  BY DEF TypeInv, TypeOK
<1> DEFINE Goal ==
      \/ k \in DOMAIN promise[p] /\ promise[p][k].status = "FULFILLED"
      \/ \E h \in Handlers : CapturedCommit(h) /\ handler[h].payment = p
      \/ Paid(p)
<1>1. ASSUME NEW c \in Cases, NEW q \in Payments, promise' = Promised(q, c)
      PROVE  Goal
  <2>1. CASE p = q
    <3>1. [status |-> "PENDING", case |-> c].status # "FULFILLED"
      OBVIOUS
    <3>2. /\ \A j \in DOMAIN promise[p] : promise'[p][j] = promise[p][j]
          /\ \/ k \in DOMAIN promise[p]
             \/ promise'[p][k] = [status |-> "PENDING", case |-> c]
      BY <1>1, <2>1, PromisedExtends
    <3> QED
      BY <3>1, <3>2
  <2>2. CASE p # q
    BY <1>1, <2>2, PromisedExtends
  <2> QED
    BY <2>1, <2>2
<1>2. ASSUME NEW h \in Handlers, CapturedCommit(h) PROVE Goal
  <2>1. handler[h].payment # p => promise'[p] = promise[p]
    BY <1>0, <1>2 DEF CapturedCommit
  <2> QED
    BY <1>2, <2>1
<1>3. ASSUME NEW l \in Listeners, OutcomeCommit(l) PROVE Goal
  BY <1>0, <1>1, <1>3, OutcomePromises DEF CasesLinked, Existing
<1>4. ASSUME NEW m \in Makers, PromiseInsert(m) PROVE Goal
  <2>1. maker[m].case \in Cases /\ recovery[maker[m].case].payment \in Payments
    BY <1>0, <1>4 DEF PromiseInsert, TypeInv, MakersLinked, CasesLinked, Existing
  <2> QED
    BY <1>1, <1>4, <2>1 DEF PromiseInsert
<1>5. ASSUME NEW s \in Scripts, ScriptWrite(s) PROVE Goal
  <2>1. PICK x \in script[s] :
          \/ x.paid /\ promise' = [promise EXCEPT
               ![x.payment][x.number].status = "FULFILLED"]
          \/ ~x.paid /\ promise' =
               [promise EXCEPT ![x.payment][x.number].status = "BROKEN"]
          \/ UNCHANGED promise
    BY <1>5 DEF ScriptWrite
  <2>2. x.payment # p => promise'[p] = promise[p]
    BY <1>0, <2>1
  <2>3. x.paid => Paid(x.payment)
    BY DEF PaidInv, PaidWhenRead
  <2>4. CASE promise' = [promise EXCEPT ![x.payment][x.number].status = "BROKEN"]
             /\ x.payment = p
    <3>1. DOMAIN promise'[p] = DOMAIN promise[p]
      BY <1>0, <2>4
    <3>2. promise'[p][k] = IF k = x.number
            THEN [promise[p][k] EXCEPT !.status = "BROKEN"] ELSE promise[p][k]
      BY <1>0, <2>4, <3>1
    <3>3. promise[p][k] \in Promise
      BY <1>0, <3>1
    <3> QED
      BY <3>1, <3>2, <3>3 DEF Promise
  <2> QED
    BY <2>1, <2>2, <2>3, <2>4
<1>6. CASE UNCHANGED promise
  BY <1>6
<1> QED
  BY <1>2, <1>3, <1>4, <1>5, <1>6, PromiseWriters

LEMMA NextRecoveredIsPaid ==
  TypeInv /\ PaidInv /\ [Next]_vars => RecoveredIsPaid'
<1> SUFFICES ASSUME TypeInv, PaidInv, [Next]_vars PROVE RecoveredIsPaid'
  OBVIOUS
<1>0. /\ payment \in [Payments -> {"CREATED", "FAILED", "CAPTURED"}]
      /\ recovery \in [Cases -> Case] /\ CasesLinked
  BY DEF TypeInv, TypeOK
<1>1. ASSUME NEW h \in Handlers, CapturedCommit(h), NEW p \in Payments,
             p = handler[h].payment
      PROVE  Paid(p)'
  BY <1>1, CapturedIsPaid DEF PaidInv
<1>2. ASSUME NEW p \in Payments, payment'[p] = "CAPTURED" PROVE Paid(p)'
  <2>1. CASE payment[p] = "CAPTURED"
    BY <2>1, PaidStays DEF PaidInv, RecoveredIsPaid
  <2>2. ASSUME NEW h \in Handlers, CapturedCommit(h), payment[p] # "CAPTURED"
        PROVE  Paid(p)'
    <3>1. p = handler[h].payment
      BY <1>0, <1>2, <2>2 DEF CapturedCommit
    <3> QED
      BY <1>1, <2>2, <3>1
  <2>3. ASSUME NEW h \in Handlers, FailedCommit(h) PROVE payment[p] = "CAPTURED"
    BY <1>0, <1>2, <2>3, FailedCommitWrites
  <2> QED
    BY <1>2, <2>1, <2>2, <2>3, PaymentWriters
<1>3. ASSUME NEW p \in Payments, NEW k \in DOMAIN promise'[p],
             promise'[p][k].status = "FULFILLED"
      PROVE  Paid(p)'
  BY <1>1, <1>3, FulfilledBy, PaidStays DEF PaidInv, RecoveredIsPaid
<1>5. ASSUME NEW c \in Cases, recovery'[c].status = "RECOVERED", NEW p,
             p = recovery'[c].payment
      PROVE  Paid(p)'
  <2>1. CASE recovery[c].status = "RECOVERED"
    <3>1. p = recovery[c].payment /\ p \in Payments
      BY <1>0, <1>5, <2>1, CasesStay DEF CasesLinked, Existing
    <3> QED
      BY <2>1, <3>1, PaidStays DEF PaidInv, RecoveredIsPaid
  <2>2. ASSUME NEW h \in Handlers, CapturedCommit(h),
               recovery[c].status # "RECOVERED"
        PROVE  Paid(p)'
    <3>1. c = handler[h].case
      BY <1>0, <1>5, <2>2 DEF CapturedCommit
    <3>2. recovery[c].payment = handler[h].payment
             /\ recovery[c].status # "ABSENT"
      BY <2>2, <3>1, ClosedCase DEF CapturedCommit, Existing
    <3>3. p = handler[h].payment
      BY <1>5, <3>2, CasesStay
    <3>4. p \in Payments
      BY <2>2, <3>3, ClosedCase DEF CapturedCommit
    <3> QED
      BY <1>1, <2>2, <3>3, <3>4
  <2>3. ASSUME NEW h \in Handlers, FailedCommit(h)
        PROVE  recovery[c].status = "RECOVERED"
    <3>1. ASSUME NEW d \in Cases, recovery' = [recovery EXCEPT
                   ![d] = [status |-> "OPEN", payment |-> handler[h].payment]]
          PROVE  recovery[c].status = "RECOVERED"
      BY <1>0, <1>5, <3>1
    <3> QED
      BY <1>5, <2>3, <3>1, FailedCommitWrites
  <2>4. ASSUME NEW d \in Cases, NEW s \in Active,
               recovery' = [recovery EXCEPT ![d].status = s]
        PROVE  recovery[c].status = "RECOVERED"
    BY <1>0, <1>5, <2>4 DEF Active, Case
  <2> QED
    BY <1>5, <2>1, <2>2, <2>3, <2>4, StatusWriters
<1> QED
  BY <1>2, <1>3, <1>5 DEF RecoveredIsPaid, Paid

LEMMA NextPaidInv == TypeInv /\ PaidInv /\ [Next]_vars => PaidInv'
  BY NextCapturing, NextPaidWhenRead, NextRecoveredIsPaid DEF PaidInv

\* Nothing is reported as recovered without money.
THEOREM RecoveredArePaid == Spec => []RecoveredIsPaid
<1>1. PaidInv => RecoveredIsPaid
  BY DEF PaidInv
<1> QED
  BY <1>1, InitTypeInv, NextTypeInv, InitPaidInv, NextPaidInv, PTL DEF Spec

\* A promise that was kept stays kept.
THEOREM PromisesKept == Spec => KeptStaysKept
<1>1. TypeInv /\ [Next]_vars =>
        [\A p \in Payments : \A k \in DOMAIN promise[p] :
           promise[p][k].status = "FULFILLED" =>
             promise'[p][k].status = "FULFILLED"]_vars
  BY PromisesGrow DEF PromisesExtend, Settles
<1> QED
  BY <1>1, InitTypeInv, NextTypeInv, PTL DEF Spec, KeptStaysKept

----------------------------------------------------------------------------
(* What the handlers of the actions know, and what may overtake them.      *)

\* A row that is there keeps its type and its case: nobody inserts it again.
LEMMA RowsStay ==
  ASSUME TypeInv, HeldInv, [Next]_vars, NEW a, Made(a)
  PROVE  /\ Made(a)'
         /\ action'[a].type = action[a].type /\ action'[a].case = action[a].case
<1>1. ASSUME NEW h \in Handlers, Insert(h) PROVE action'[a] = action[a]
  <2>1. ~Made(handler[h].row)
    BY <1>1 DEF Insert, HeldInv, Held, Taken, Holding, Before
  <2> QED
    BY <1>1, <2>1, InsertWrites DEF Made
<1>2. ASSUME NEW w \in Workers, Take(w)
      PROVE  action'[a].type = action[a].type /\ action'[a].case = action[a].case
  BY <1>2, TakeWrites DEF Made
<1>3. ASSUME NEW w \in Workers, Ends(w)
      PROVE  action'[a].type = action[a].type /\ action'[a].case = action[a].case
  BY <1>3, EndWrites DEF Ends, Made
<1> QED
  BY <1>1, <1>2, <1>3, ActionWriters, MadeStay

\* Only a capture recovers a case.
LEMMA RecoveredBy ==
  ASSUME TypeInv, [Next]_vars, NEW c \in Cases,
         recovery'[c].status = "RECOVERED", recovery[c].status # "RECOVERED"
  PROVE  \E h \in Handlers :
           CapturedCommit(h) /\ c = handler[h].case
<1>0. recovery \in [Cases -> Case]
  BY DEF TypeInv, TypeOK
<1>1. ASSUME NEW h \in Handlers, CapturedCommit(h)
      PROVE  c = handler[h].case
  BY <1>0, <1>1 DEF CapturedCommit
<1>2. ASSUME NEW h \in Handlers, FailedCommit(h) PROVE FALSE
  <2>1. ASSUME NEW d \in Cases, recovery' = [recovery EXCEPT
                 ![d] = [status |-> "OPEN", payment |-> handler[h].payment]]
        PROVE  FALSE
    BY <1>0, <2>1
  <2> QED
    BY <1>2, <2>1, FailedCommitWrites
<1>3. ASSUME NEW d \in Cases, NEW s \in Active,
             recovery' = [recovery EXCEPT ![d].status = s]
      PROVE  FALSE
  BY <1>0, <1>3 DEF Active, Case
<1> QED
  BY <1>1, <1>2, <1>3, StatusWriters

\* What the handler of an action knows at each of its steps.
Working(w) ==
  LET a == worker[w].row IN
  /\ worker[w].pc \in {"dial", "called"} => action[a].type = "VOICE_RECOVERY"
  /\ worker[w].pc \in {"ordered", "attempt"} => action[a].type = "RETRY_PAYMENT"
  /\ worker[w].pc = "link" => action[a].type = "CREATE_PAYMENT_LINK"
  /\ worker[w].pc = "escalate" => action[a].type = "ESCALATE"
  /\ worker[w].pc = "called" => call[a] # "none"
  /\ worker[w].pc = "complete" =>
       /\ action[a].type = "RETRY_PAYMENT" => Stored(a)
       /\ action[a].type = "VOICE_RECOVERY" => call[a] # "none"
  /\ worker[w].pc \in {"dial", "called", "escalate"} /\ ~worker[w].overtaken =>
       recovery[CaseOf(w)].status # "RECOVERED"

WorkInv == CompletedIsStored /\ \A w \in Workers : Working(w)

LEMMA StoredStays ==
  ASSUME TypeInv, [Next]_vars, NEW o, Stored(o) PROVE Stored(o)'
  BY AttemptsGrow DEF AttemptsExtend, Stored

\* A worker that does not move knows what it knew, unless it is overtaken.
LEMMA WorkingStays ==
  ASSUME TypeInv, HeldInv, [Next]_vars, NEW w \in Workers, Working(w),
         worker'[w].pc = worker[w].pc, worker'[w].row = worker[w].row,
         ~worker'[w].overtaken =>
           /\ ~worker[w].overtaken
           /\ worker[w].pc \in {"dial", "called", "escalate"} /\
                recovery'[CaseOf(w)].status = "RECOVERED" =>
                  recovery[CaseOf(w)].status = "RECOVERED"
  PROVE  Working(w)'
<1>1. CASE worker[w].pc \in {"idle", "run"}
  BY <1>1 DEF Working
<1>2. CASE worker[w].pc \notin {"idle", "run"}
  <2>1. PICK a : a = worker[w].row
    OBVIOUS
  <2>2. Made(a) /\ a \in Rows
    BY <1>2, <2>1 DEF TypeInv, WorkersLinked, Made
  <2>3. action'[a].type = action[a].type /\ action'[a].case = action[a].case
    BY <2>2, RowsStay
  <2>4. call[a] # "none" => call'[a] # "none"
    BY <2>2, CallsStay
  <2>5. Stored(a) => Stored(a)'
    BY StoredStays
  <2>6. Stored(worker[w].row) => Stored(worker[w].row)'
    BY <2>1, <2>5 DEF Stored
  <2> QED
    BY <2>1, <2>3, <2>4, <2>6 DEF Working, CaseOf
<1> QED
  BY <1>1, <1>2

\* A worker that does move.
LEMMA WorkerWorks ==
  ASSUME TypeInv, HeldInv, [Next]_vars, NEW w \in Workers, ByWorker(w),
         Working(w)
  PROVE  Working(w)' /\ \A v \in Workers : v # w => worker'[v] = worker[v]
<1>0. worker \in [Workers -> Worker]
  BY DEF TypeInv, TypeOK
<1>1. \A v \in Workers : v # w => worker'[v] = worker[v]
  <2>1. CASE Take(w)
    BY <1>0, <2>1, TakeWrites
  <2>2. CASE RetryNumber(w) \/ Ends(w) \/ GoesOn(w) \/ CrashWorker(w)
    BY <1>0, <2>2 DEF RetryNumber, Ends, End, GoesOn, Goto, CrashWorker
  <2> QED
    BY <2>1, <2>2, WorkerKinds DEF ByWorker
<1>2. CASE Ends(w) \/ CrashWorker(w)
  <2>1. worker'[w].pc = "idle"
    BY <1>0, <1>2 DEF Ends, End, CrashWorker, IdleWorker
  <2> QED
    BY <1>1, <2>1 DEF Working
<1>3. CASE Take(w)
  <2>1. worker'[w].pc = "run"
    BY <1>0, <1>3 DEF Take, Worker
  <2> QED
    BY <1>1, <2>1 DEF Working
<1>4. CASE RetryNumber(w)
  <2>1. /\ worker'[w].pc = "attempt" /\ worker'[w].row = worker[w].row
        /\ worker[w].pc = "ordered" /\ UNCHANGED action
    BY <1>0, <1>4 DEF RetryNumber, Worker, rows, work
  <2> QED
    BY <1>1, <2>1 DEF Working
<1>5. ASSUME GoesOn(w), ~Ends(w) PROVE Working(w)'
  <2>1. PICK pc : Goto(w, pc)
    BY <1>5 DEF GoesOn
  <2>2. /\ worker'[w].pc = pc /\ worker'[w].row = worker[w].row
        /\ worker'[w].overtaken = worker[w].overtaken
        /\ UNCHANGED action /\ CaseOf(w)' = CaseOf(w)
    BY <1>0, <2>1 DEF Goto, Worker, CaseOf
  <2>3. /\ worker[w].pc # "idle"
        /\ worker[w].row \in Rows /\ CaseOf(w) \in Cases
        /\ recovery[CaseOf(w)].payment \in Payments
        /\ call \in [Rows -> {"none", "open"} \cup Outcomes]
        /\ recovery \in [Cases -> Case]
        /\ attempts \in [Payments -> Seq(Attempt)]
    BY <1>5, WorkersCase DEF GoesOn, TypeInv, TypeOK
  <2>4. \A s : Goto(w, s) => s = pc
    BY <1>0, <2>2 DEF Goto, Worker
  <2>5. CASE VoiceRead(w)
    BY <1>5, <2>2, <2>3, <2>4, <2>5
       DEF VoiceRead, Runs, Throw, Ends, Working
  <2>6. CASE VoiceDial(w)
    <3>1. worker[w].pc = "dial" /\ pc = "called" /\ UNCHANGED recovery
             /\ call'[worker[w].row] = "open"
      BY <1>5, <2>3, <2>4, <2>6 DEF VoiceDial, Throw, Ends
    <3> QED
      BY <2>2, <3>1 DEF Working
  <2>7. CASE VoiceProgress(w) \/ EscalateWrite(w)
    <3>1. pc = "complete" /\ UNCHANGED call /\ worker[w].pc \in {"called", "escalate"}
      BY <1>5, <2>3, <2>4, <2>7
         DEF VoiceProgress, EscalateWrite, MoveCase, Throw, Ends
    <3> QED
      BY <2>2, <3>1 DEF Working
  <2>8. CASE RetryOrder(w)
    BY <1>5, <2>2, <2>3, <2>4, <2>8 DEF RetryOrder, Runs, Throw, Ends, Working
  <2>9. CASE RetryAttempt(w)
    <3> DEFINE p == recovery[CaseOf(w)].payment
    <3>1. /\ worker[w].pc = "attempt" /\ pc = "complete"
          /\ attempts' = [attempts EXCEPT ![p] = Append(@,
               [status |-> "CREATED", order |-> worker[w].row])]
      BY <1>5, <2>3, <2>4, <2>9 DEF RetryAttempt, Throw, Ends
    <3>2. [status |-> "CREATED", order |-> worker[w].row] \in Attempt
      BY <2>3 DEF Attempt, Orders
    <3>3. PICK q \in Payments : q = p
      BY <2>3
    <3>4. /\ Len(attempts[q]) + 1 \in DOMAIN attempts'[q]
          /\ attempts'[q][Len(attempts[q]) + 1].order = worker[w].row
      BY <2>3, <3>1, <3>2, <3>3, AppendGrows
    <3>5. PICK a : a = worker[w].row
      OBVIOUS
    <3>6. Stored(a)'
      BY <3>3, <3>4, <3>5 DEF Stored
    <3>7. worker'[w].row = a
      BY <2>2, <3>5
    <3>8. Stored(worker[w].row)'
      BY <3>6, <3>7 DEF Stored
    <3> QED
      BY <2>2, <3>1, <3>8 DEF Working
  <2>10. CASE LinkRead(w) \/ LinkCreate(w)
    BY <1>5, <2>2, <2>3, <2>4, <2>10
       DEF LinkRead, LinkCreate, Runs, Throw, Ends, Working
  <2>11. CASE Notify(w)
    BY <1>5, <2>2, <2>3, <2>4, <2>11 DEF Notify, Runs, Throw, Ends, Working
  <2>12. CASE EscalateRead(w)
    BY <1>5, <2>2, <2>3, <2>4, <2>12
       DEF EscalateRead, Runs, Throw, Ends, Working
  <2>13. CASE Take(w) \/ RetryNumber(w)
    BY <1>3, <1>4, <2>13
  <2>14. CASE Complete(w) \/ WorkerCallFails(w) \/ CrashWorker(w)
    BY <1>2, <2>3, <2>14 DEF Complete, WorkerCallFails, Throw, Ends
  <2> QED
    BY <2>5, <2>6, <2>7, <2>8, <2>9, <2>10, <2>11, <2>12, <2>13, <2>14
       DEF ByWorker, WorkerStep
<1> QED
  BY <1>1, <1>2, <1>3, <1>4, <1>5, WorkerKinds DEF ByWorker

LEMMA InitWorkInv == Init => WorkInv
  BY DEF Init, WorkInv, CompletedIsStored, Working, IdleWorker

LEMMA NextCompleted ==
  TypeInv /\ HeldInv /\ WorkInv /\ [Next]_vars => CompletedIsStored'
<1> SUFFICES ASSUME TypeInv, HeldInv, WorkInv, [Next]_vars, NEW a \in Rows,
                    action'[a].status = "COMPLETED"
             PROVE  /\ action'[a].type = "RETRY_PAYMENT" => Stored(a)'
                    /\ action'[a].type = "VOICE_RECOVERY" => call'[a] # "none"
  BY DEF CompletedIsStored
<1>1. ASSUME Made(a),
             action[a].type = "RETRY_PAYMENT" => Stored(a),
             action[a].type = "VOICE_RECOVERY" => call[a] # "none"
      PROVE  /\ action'[a].type = "RETRY_PAYMENT" => Stored(a)'
             /\ action'[a].type = "VOICE_RECOVERY" => call'[a] # "none"
  BY <1>1, StoredStays, CallsStay, RowsStay
<1>2. CASE action[a].status = "COMPLETED"
  BY <1>1, <1>2 DEF WorkInv, CompletedIsStored, Made
<1>3. ASSUME NEW h \in Handlers, Insert(h) PROVE action[a].status = "COMPLETED"
  BY <1>3, InsertWrites
<1>4. ASSUME NEW w \in Workers, Take(w) PROVE action[a].status = "COMPLETED"
  BY <1>4, TakeWrites
<1>5. ASSUME NEW w \in Workers, Ends(w), action[a].status # "COMPLETED"
      PROVE  /\ Made(a) /\ worker[w].row = a /\ worker[w].pc = "complete"
  BY <1>5, EndWrites DEF Ends
<1>6. ASSUME NEW w \in Workers, Ends(w), action[a].status # "COMPLETED"
      PROVE  /\ action[a].type = "RETRY_PAYMENT" => Stored(a)
             /\ action[a].type = "VOICE_RECOVERY" => call[a] # "none"
  BY <1>5, <1>6 DEF WorkInv, Working
<1> QED
  BY <1>1, <1>2, <1>3, <1>4, <1>5, <1>6, ActionWriters

\* The only step that changes a worker but its own is a capture.
LEMMA WorkersKeep ==
  ASSUME TypeInv, HeldInv, WorkInv, [Next]_vars, NEW v \in Workers, ~ByWorker(v),
         \A h \in Handlers : ~CapturedCommit(h)
  PROVE  worker'[v] = worker[v]
<1>1. ASSUME NEW h \in Handlers, ByHandler(h) PROVE UNCHANGED worker
  BY <1>1 DEF ByHandler, HandlerStep, ReceiveFailed, ReceiveCaptured,
     AgentStart, FailedBegin, FailedCommit, Policy, Insert, CapturedBegin,
     CapturedPromise, CapturedCase, AgentRecommend, AgentReport,
     HandlerCallFails, CrashHandler
<1>2. ASSUME NEW w \in Workers, ByWorker(w) PROVE worker'[v] = worker[v]
  BY <1>2, WorkerWorks DEF WorkInv
<1> QED
  BY <1>1, <1>2, NextBy, ListenerFrame, MakerFrame, ScriptFrame, StutterFrame

LEMMA NextWorking ==
  ASSUME TypeInv, HeldInv, WorkInv, [Next]_vars, NEW v \in Workers
  PROVE  Working(v)'
<1>0. worker \in [Workers -> Worker] /\ Working(v)
  BY DEF TypeInv, TypeOK, WorkInv
<1>1. CASE ByWorker(v)
  BY <1>0, <1>1, WorkerWorks
<1>2. ASSUME NEW h \in Handlers, CapturedCommit(h) PROVE Working(v)'
  <2>1. PICK C : C = {handler[h].case}
    OBVIOUS
  <2>2. worker'[v] = IF /\ worker[v].pc \in {"dial", "called", "escalate"}
                        /\ CaseOf(v) \in C
                       THEN [worker[v] EXCEPT !.overtaken = TRUE] ELSE worker[v]
    BY <1>2, <2>1 DEF CapturedCommit, OvertakeWorkers, CaseOf
  <2>3. /\ [worker[v] EXCEPT !.overtaken = TRUE].pc = worker[v].pc
        /\ [worker[v] EXCEPT !.overtaken = TRUE].row = worker[v].row
        /\ [worker[v] EXCEPT !.overtaken = TRUE].overtaken
    BY <1>0 DEF Worker
  <2>4. CASE /\ worker[v].pc \in {"dial", "called", "escalate"}
             /\ CaseOf(v) \in C
    BY <1>0, <2>2, <2>3, <2>4, WorkingStays
  <2>5. CASE /\ worker[v].pc \in {"dial", "called", "escalate"}
             /\ CaseOf(v) \notin C
    <3>1. CaseOf(v) \in Cases
      BY <2>5, WorkersCase
    <3>2. recovery'[CaseOf(v)] = recovery[CaseOf(v)]
      BY <1>2, <2>1, <2>5, <3>1 DEF CapturedCommit
    <3> QED
      BY <1>0, <2>2, <2>5, <3>2, WorkingStays
  <2>6. CASE worker[v].pc \notin {"dial", "called", "escalate"}
    BY <1>0, <2>2, <2>6, WorkingStays
  <2> QED
    BY <2>4, <2>5, <2>6
<1>3. CASE ~ByWorker(v) /\ \A h \in Handlers : ~CapturedCommit(h)
  <2>1. worker'[v] = worker[v]
    BY <1>3, WorkersKeep
  <2>2. ASSUME worker[v].pc # "idle", recovery'[CaseOf(v)].status = "RECOVERED"
        PROVE  recovery[CaseOf(v)].status = "RECOVERED"
    BY <1>3, <2>2, WorkersCase, RecoveredBy
  <2> QED
    BY <1>0, <2>1, <2>2, WorkingStays
<1> QED
  BY <1>1, <1>2, <1>3

LEMMA NextWorkInv ==
  TypeInv /\ HeldInv /\ WorkInv /\ [Next]_vars => WorkInv'
  BY NextCompleted, NextWorking DEF WorkInv

\* A COMPLETED retry has an attempt for its order, and a COMPLETED voice action
\* has its call, whoever took the attempt's number or moved the case.
THEOREM CompletedAreStored == Spec => []CompletedIsStored
<1>1. WorkInv => CompletedIsStored
  BY DEF WorkInv
<1> QED
  BY <1>1, InitTypeInv, NextTypeInv, InitHeldInv, NextHeldInv, InitWorkInv,
     NextWorkInv, PTL DEF Spec

\* The handler of an action reopens a recovered case only when the capture came
\* between its read and its write.
THEOREM ReopenedWhenOvertaken == Spec => OnlyOvertakenReopen
<1>1. ASSUME TypeInv, WorkInv, [Next]_vars, NEW c \in Cases,
             recovery[c].status = "RECOVERED", recovery'[c].status \in Active
      PROVE  \/ UNCHANGED worker
             \/ \E w \in Workers : worker[w].overtaken /\ worker'[w] # worker[w]
  <2>0. recovery \in [Cases -> Case] /\ worker \in [Workers -> Worker]
    BY <1>1 DEF TypeInv, TypeOK
  <2>1. CASE UNCHANGED recovery
    BY <1>1, <2>1 DEF Active
  <2>2. ASSUME NEW h \in Handlers, CapturedCommit(h) PROVE FALSE
    BY <1>1, <2>0, <2>2 DEF CapturedCommit, Active
  <2>3. ASSUME NEW w \in Workers, VoiceProgress(w) \/ EscalateWrite(w)
        PROVE  worker[w].overtaken /\ worker'[w] # worker[w]
    <3>1. worker[w].pc \in {"called", "escalate"}
      BY <2>3 DEF VoiceProgress, EscalateWrite
    <3>2. CaseOf(w) \in Cases /\ Working(w)
      BY <1>1, <3>1, WorkersCase DEF WorkInv
    <3>3. CASE UNCHANGED recovery
      BY <1>1, <3>3 DEF Active
    <3>4. ASSUME NEW s, recovery' = [recovery EXCEPT ![CaseOf(w)].status = s],
                 Goto(w, "complete")
          PROVE  worker[w].overtaken /\ worker'[w] # worker[w]
      <4>1. c = CaseOf(w)
        BY <1>1, <2>0, <3>2, <3>4 DEF Active
      <4>2. worker'[w].pc = "complete"
        BY <2>0, <3>4 DEF Goto, Worker
      <4> QED
        BY <1>1, <3>1, <3>2, <4>1, <4>2 DEF Working
    <3> QED
      BY <2>3, <3>3, <3>4 DEF VoiceProgress, EscalateWrite, MoveCase
  <2>4. ASSUME NEW h \in Handlers, FailedCommit(h) PROVE UNCHANGED worker
    BY <2>4 DEF FailedCommit
  <2>5. ASSUME NEW l \in Listeners, OutcomeCommit(l) PROVE UNCHANGED worker
    BY <2>5 DEF OutcomeCommit
  <2> QED
    BY <1>1, <2>1, <2>2, <2>3, <2>4, <2>5, RecoveryWriters
<1>2. TypeInv /\ WorkInv /\ [Next]_vars =>
        [\A c \in Cases :
           recovery[c].status = "RECOVERED" /\ recovery'[c].status \in Active =>
             \/ UNCHANGED worker
             \/ \E w \in Workers :
                  worker[w].overtaken /\ worker'[w] # worker[w]]_vars
  BY <1>1
<1> QED
  BY <1>2, InitTypeInv, NextTypeInv, InitHeldInv, NextHeldInv, InitWorkInv,
     NextWorkInv, PTL DEF Spec, OnlyOvertakenReopen

----------------------------------------------------------------------------
(* What a caller of createPromiseToPay knows, and what may overtake it.    *)

Seen(m) ==
  LET c == maker[m].case IN
  ~maker[m].overtaken =>
    /\ maker[m].pc \in {"look", "insert"} =>
         payment[recovery[c].payment] # "CAPTURED"
    /\ maker[m].pc = "insert" => PendingOf(c) = {}

SeenInv == \A m \in Makers : Seen(m)

\* Promises that are settled leave no pending one where there was none, and
\* neither does a new promise of another case.
LEMMA PendingStays ==
  ASSUME TypeInv, [Next]_vars, NEW c, Existing(c), PendingOf(c) = {},
         \/ DOMAIN promise'[recovery[c].payment]
              = DOMAIN promise[recovery[c].payment]
         \/ \E d \in Cases : d # c /\ Existing(d) /\
              promise' = Promised(recovery[d].payment, d)
  PROVE  PendingOf(c)' = {}
<1>1. PICK p : p = recovery[c].payment
  OBVIOUS
<1>2. p \in Payments /\ recovery'[c].payment = p
  <2>1. c \in Cases /\ CasesLinked
    BY DEF Existing, TypeInv
  <2>2. recovery'[c].payment = recovery[c].payment
    BY ExistingStay
  <2> QED
    BY <1>1, <2>1, <2>2 DEF CasesLinked
<1>3. \A k \in DOMAIN promise[p] :
        promise[p][k].status = "PENDING" => promise[p][k].case # c
  BY <1>1 DEF PendingOf, Pending
<1>4. \A k \in DOMAIN promise[p] :
        promise'[p][k].status = "PENDING" => promise'[p][k].case # c
  BY <1>2, <1>3, PromisesGrow DEF PromisesExtend, Settles
<1>5. ASSUME NEW k \in DOMAIN promise'[p], k \notin DOMAIN promise[p]
      PROVE  promise'[p][k].case # c
  <2>1. PICK d \in Cases : d # c /\ Existing(d) /\
              promise' = Promised(recovery[d].payment, d)
    BY <1>1, <1>5
  <2>2. PICK q \in Payments : q = recovery[d].payment
    BY <2>1 DEF TypeInv, CasesLinked
  <2>3. /\ q # p => promise'[p] = promise[p]
        /\ \A j \in DOMAIN promise'[q] : j \in DOMAIN promise[q] \/
             promise'[q][j] = [status |-> "PENDING", case |-> d]
    BY <1>2, <2>1, <2>2, PromisedExtends
  <2>4. promise'[p][k] = [status |-> "PENDING", case |-> d]
    BY <1>5, <2>3
  <2> QED
    BY <2>1, <2>4
<1> QED
  BY <1>1, <1>2, <1>4, <1>5 DEF PendingOf, Pending

\* A caller that does not move knows what it knew, unless it is overtaken.
LEMMA SeenStays ==
  ASSUME TypeInv, [Next]_vars, NEW m \in Makers, Seen(m),
         maker'[m].pc = maker[m].pc, maker'[m].case = maker[m].case,
         ~maker'[m].overtaken =>
           /\ ~maker[m].overtaken
           /\ \A q \in Payments :
                q = recovery[maker[m].case].payment =>
                  /\ payment'[q] = "CAPTURED" => payment[q] = "CAPTURED"
                  /\ \/ DOMAIN promise'[q] = DOMAIN promise[q]
                     \/ \E d \in Cases : d # maker[m].case /\ Existing(d) /\
                          promise' = Promised(recovery[d].payment, d)
  PROVE  Seen(m)'
<1>1. CASE maker[m].pc \notin {"look", "insert"} \/ maker'[m].overtaken
  BY <1>1 DEF Seen
<1>2. CASE maker[m].pc \in {"look", "insert"} /\ ~maker'[m].overtaken
  <2>1. PICK c : c = maker[m].case
    OBVIOUS
  <2>2. Existing(c) /\ maker'[m].case = c
    BY <1>2, <2>1 DEF TypeInv, MakersLinked
  <2>3. /\ recovery[c].payment \in Payments
        /\ recovery'[c].payment = recovery[c].payment
    <3>1. c \in Cases /\ CasesLinked
      BY <2>2 DEF Existing, TypeInv
    <3> QED
      BY <2>2, <3>1, ExistingStay DEF CasesLinked
  <2>4. payment'[recovery'[c].payment] # "CAPTURED"
    BY <1>2, <2>1, <2>2, <2>3 DEF Seen
  <2>5. maker[m].pc = "insert" => PendingOf(c)' = {}
    BY <1>2, <2>1, <2>2, <2>3, PendingStays DEF Seen
  <2>6. maker[m].pc = "insert" => PendingOf(maker[m].case)' = {}
    BY <2>2, <2>5 DEF PendingOf, Pending
  <2> QED
    BY <2>2, <2>4, <2>6 DEF Seen
<1> QED
  BY <1>1, <1>2

LEMMA OwnSeen ==
  ASSUME TypeInv, [Next]_vars, NEW m \in Makers, ByMaker(m), Seen(m)
  PROVE  Seen(m)'
<1>0. maker \in [Makers -> Maker]
  BY DEF TypeInv, TypeOK
<1>1. CASE PromiseInsert(m)
  <2>1. maker' = [OvertakeMakers({maker[m].case}) EXCEPT ![m] = IdleMaker]
    BY <1>1 DEF PromiseInsert
  <2>2. maker'[m] = IdleMaker
    BY <2>1, OvertakeFrame
  <2> QED
    BY <2>2 DEF Seen, IdleMaker
<1>2. ASSUME NEW c \in Cases, PromiseRead(m, c) PROVE Seen(m)'
  <2>1. maker'[m].pc = "look" /\ maker'[m].case = c
    BY <1>0, <1>2 DEF PromiseRead, Maker
  <2>2. UNCHANGED <<payment, recovery>> /\ payment[recovery[c].payment] # "CAPTURED"
    BY <1>2 DEF PromiseRead, rows, money
  <2> QED
    BY <2>1, <2>2 DEF Seen
<1>3. CASE PromiseLook(m)
  <2>1. UNCHANGED <<payment, recovery, promise>> /\ maker[m].pc = "look"
    BY <1>3 DEF PromiseLook, rows, money
  <2>2. CASE PendingOf(maker[m].case) = {}
    <3>1. /\ maker'[m].case = maker[m].case /\ maker'[m].pc = "insert"
          /\ maker'[m].overtaken = maker[m].overtaken
      BY <1>0, <1>3, <2>2 DEF PromiseLook, Maker
    <3> QED
      BY <2>1, <2>2, <3>1 DEF Seen, PendingOf, Pending
  <2>3. CASE PendingOf(maker[m].case) # {}
    <3>1. maker'[m] = IdleMaker
      BY <1>0, <1>3, <2>3 DEF PromiseLook
    <3> QED
      BY <3>1 DEF Seen, IdleMaker
  <2> QED
    BY <2>2, <2>3
<1> QED
  BY <1>1, <1>2, <1>3 DEF ByMaker

\* A new promise marks the callers that look at its case.
LEMMA PromisedSeen ==
  ASSUME TypeInv, [Next]_vars, NEW m \in Makers, Seen(m), UNCHANGED payment,
         NEW d \in Cases, Existing(d), promise' = Promised(recovery[d].payment, d),
         maker'[m] = OvertakeMakers({d})[m]
  PROVE  Seen(m)'
  BY OvertakeFrame, SeenStays

LEMMA NextSeen ==
  ASSUME TypeInv, SeenInv, [Next]_vars, NEW m \in Makers PROVE Seen(m)'
<1>0. /\ Seen(m) /\ maker \in [Makers -> Maker]
      /\ payment \in [Payments -> {"CREATED", "FAILED", "CAPTURED"}]
  BY DEF SeenInv, TypeInv, TypeOK
<1>1. ASSUME NEW n \in Makers, ByMaker(n) PROVE Seen(m)'
  <2>1. CASE n = m
    BY <1>0, <1>1, <2>1, OwnSeen
  <2>2. CASE n # m /\ PromiseInsert(n)
    <3>1. /\ promise' = Promised(recovery[maker[n].case].payment, maker[n].case)
          /\ maker' = [OvertakeMakers({maker[n].case}) EXCEPT ![n] = IdleMaker]
          /\ maker[n].pc = "insert" /\ UNCHANGED payment
      BY <2>2 DEF PromiseInsert, money
    <3>2. Existing(maker[n].case) /\ maker[n].case \in Cases
      BY <3>1 DEF TypeInv, MakersLinked, Existing
    <3>3. maker'[m] = OvertakeMakers({maker[n].case})[m]
      BY <2>2, <3>1, OvertakeFrame
    <3> QED
      BY <1>0, <3>1, <3>2, <3>3, PromisedSeen
  <2>3. CASE n # m /\ ~PromiseInsert(n)
    <3>1. UNCHANGED <<payment, promise>> /\ maker'[m] = maker[m]
      BY <1>0, <1>1, <2>3
         DEF ByMaker, PromiseRead, PromiseLook, rows, money
    <3> QED
      BY <1>0, <3>1, SeenStays
  <2> QED
    BY <2>1, <2>2, <2>3
<1>2. ASSUME NEW l \in Listeners, OutcomeCommit(l) PROVE Seen(m)'
  <2>1. UNCHANGED payment
    BY <1>2 DEF OutcomeCommit, money
  <2> QED
    BY <1>0, <1>2, <2>1, OutcomePromises, PromisedSeen, SeenStays
<1>3. ASSUME NEW h \in Handlers, CapturedCommit(h) PROVE Seen(m)'
  <2>1. PICK p \in Payments : p = handler[h].payment
    BY <1>3, ClosedCase DEF CapturedCommit
  <2>2. PICK C : C = {c \in Cases : recovery[c].payment = p}
    OBVIOUS
  <2>3. /\ maker'[m] = OvertakeMakers(C)[m]
        /\ \A q \in Payments : q # p => payment'[q] = payment[q]
    BY <1>0, <1>3, <2>1, <2>2 DEF CapturedCommit
  <2>4. \A q \in Payments : DOMAIN promise'[q] = DOMAIN promise[q]
    BY <1>3, CapturedSettles
  <2>5. CASE maker[m].pc = "idle"
    <3>1. maker'[m].pc = "idle"
      BY <2>3, <2>5, OvertakeFrame
    <3> QED
      BY <3>1 DEF Seen
  <2>6. CASE maker[m].pc # "idle"
    <3>1. maker[m].case \in Cases
      BY <2>6 DEF TypeInv, MakersLinked, Existing
    <3>2. maker[m].case \notin C => recovery[maker[m].case].payment # p
      BY <2>2, <3>1
    <3> QED
      BY <1>0, <2>3, <2>4, <3>2, OvertakeFrame, SeenStays
  <2> QED
    BY <2>5, <2>6
<1>4. ASSUME NEW s \in Scripts, ScriptWrite(s) PROVE Seen(m)'
  <2>1. UNCHANGED <<payment, maker>>
    BY <1>4 DEF ScriptWrite, money
  <2> QED
    BY <1>0, <1>4, <2>1, ScriptSettles, SeenStays
<1>5. ASSUME NEW h \in Handlers, FailedCommit(h) PROVE Seen(m)'
  <2>1. UNCHANGED <<promise, maker>>
    BY <1>5 DEF FailedCommit
  <2>2. \A q \in Payments : payment'[q] = "CAPTURED" => payment[q] = "CAPTURED"
    BY <1>0, <1>5 DEF FailedCommit
  <2> QED
    BY <1>0, <2>1, <2>2, SeenStays
<1>6. CASE UNCHANGED <<payment, promise, maker>>
  BY <1>0, <1>6, SeenStays
<1>7. \A n \in Makers : PromiseInsert(n) => ByMaker(n)
  BY DEF ByMaker
<1>8. \/ \E n \in Makers : ByMaker(n)
      \/ \E l \in Listeners : OutcomeCommit(l)
      \/ \E h \in Handlers : CapturedCommit(h) \/ FailedCommit(h)
      \/ \E s \in Scripts : ScriptWrite(s)
      \/ UNCHANGED payment /\ UNCHANGED promise /\ UNCHANGED maker
  BY <1>7, PaymentWriters, PromiseWriters, MakerWriters, Zenon
<1> QED
  BY <1>1, <1>2, <1>3, <1>4, <1>5, <1>6, <1>8

\* createPromiseToPay makes a second pending promise of a case, or one for a
\* captured payment, only when another transaction overtakes it.
THEOREM PromisedWhenOvertaken == Spec => OnlyOvertakenPromises
<1>1. Init => SeenInv
  BY DEF Init, SeenInv, Seen, IdleMaker
<1>2. TypeInv /\ SeenInv /\ [Next]_vars => SeenInv'
  BY NextSeen DEF SeenInv
<1>3. SeenInv =>
        [\A m \in Makers :
           LET c == maker[m].case IN
           maker[m].pc = "insert" /\ promise' # promise /\ maker'[m].pc = "idle" =>
           \/ maker[m].overtaken
           \/ PendingOf(c) = {} /\ payment[recovery[c].payment] # "CAPTURED"]_vars
  BY DEF SeenInv, Seen
<1> QED
  BY <1>1, <1>2, <1>3, InitTypeInv, NextTypeInv, PTL
     DEF Spec, OnlyOvertakenPromises
----------------------------------------------------------------------------
(* The refinement: each step of the cases is a step of CaseLife.           *)

\* The abstract state.
Stage == [c \in Cases |-> StageOf(recovery[c].status)]
Owner == [c \in Cases |-> recovery[c].payment]
Due == {p \in Payments : payment[p] = "FAILED"}
PaidOff == {p \in Payments : Paid(p)}
LifeVars == <<Stage, Owner, Due, PaidOff>>

\* The stages of the five statuses.
LEMMA StageOfStatus ==
  /\ StageOf("ABSENT") = "none" /\ StageOf("RECOVERED") = "closed"
  /\ \A s \in Active : StageOf(s) = "active"
<1>1. StageOf("ABSENT") = "none"
  BY Zenon DEF StageOf, Active
<1>2. StageOf("RECOVERED") = "closed"
  BY Zenon DEF StageOf, Active
<1>3. ASSUME NEW s \in Active PROVE StageOf(s) = "active"
  <2>1. s # "ABSENT" /\ s # "RECOVERED"
    BY DEF Active
  <2> QED
    BY <2>1, Zenon DEF StageOf
<1> QED
  BY <1>1, <1>2, <1>3

\* The active cases are the same on both levels.
LEMMA ActiveOfCases ==
  ASSUME TypeInv, NEW p \in Payments
  PROVE  Life!ActiveOf(p) = ActiveCases(p)
<1>1. \A c \in Cases : recovery[c].status \in {"ABSENT", "RECOVERED"} \cup Active
  BY DEF TypeInv, TypeOK, Case
<1>2. \A c \in Cases :
        StageOf(recovery[c].status) = "active" <=> recovery[c].status \in Active
  BY <1>1, StageOfStatus
<1> QED
  BY <1>2 DEF Life!ActiveOf, ActiveCases

\* An attempt that is not captured pays nothing.
LEMMA AppendPaysNothing ==
  ASSUME TypeInv, NEW p \in Payments, NEW e \in Attempt, e.status # "CAPTURED",
         attempts' = [attempts EXCEPT ![p] = Append(@, e)],
         NEW q \in Payments, Paid(q)'
  PROVE  Paid(q)
<1>1. attempts \in [Payments -> Seq(Attempt)]
  BY DEF TypeInv, TypeOK
<1>2. PICK k \in DOMAIN attempts'[q] : attempts'[q][k].status = "CAPTURED"
  BY DEF Paid
<1>3. CASE q = p
  <2>1. attempts'[p] = Append(attempts[p], e)
    BY <1>1
  <2>2. /\ DOMAIN Append(attempts[p], e) =
             DOMAIN attempts[p] \cup {Len(attempts[p]) + 1}
        /\ Append(attempts[p], e)[Len(attempts[p]) + 1] = e
        /\ \A j \in DOMAIN attempts[p] :
             Append(attempts[p], e)[j] = attempts[p][j]
    BY <1>1, AppendGrows
  <2>3. k \in DOMAIN attempts[p] /\ attempts[p][k].status = "CAPTURED"
    BY <1>2, <1>3, <2>1, <2>2
  <2> QED
    BY <1>3, <2>3 DEF Paid
<1>4. CASE q # p
  BY <1>1, <1>2, <1>4 DEF Paid
<1> QED
  BY <1>3, <1>4

\* Only a capture pays.
LEMMA PaidOnlyByCapture ==
  ASSUME TypeInv, [Next]_vars, NEW p \in Payments, Paid(p)',
         ~\E h \in Handlers : CapturedCommit(h)
  PROVE  Paid(p)
<1>1. CASE UNCHANGED attempts
  BY <1>1 DEF Paid
<1>2. ASSUME NEW h \in Handlers, FailedCommit(h) PROVE Paid(p)
  <2>1. PICK q \in Payments : q = handler[h].payment
    BY <1>2, FailedCommitWrites
  <2>2. [status |-> "FAILED", order |-> None] \in Attempt
    BY DEF Attempt
  <2> QED
    BY <1>1, <1>2, <2>1, <2>2, FailedCommitWrites, AppendPaysNothing
<1>3. ASSUME NEW w \in Workers, RetryAttempt(w) PROVE Paid(p)
  <2>1. PICK q \in Payments : q = recovery[CaseOf(w)].payment
    BY <1>3, WorkersCase DEF RetryAttempt
  <2>2. [status |-> "CREATED", order |-> worker[w].row] \in Attempt
    BY <1>3, WorkersCase DEF RetryAttempt, Attempt, Orders
  <2> QED
    BY <1>1, <1>3, <2>1, <2>2, AppendPaysNothing DEF RetryAttempt
<1> QED
  BY <1>1, <1>2, <1>3, AttemptsWriters

\* The failure's transaction fails the payment on the abstract level, or has
\* thrown and left all as it was.
LEMMA FailedKeepsLife ==
  ASSUME TypeInv, [Next]_vars, NEW h \in Handlers, FailedCommit(h)
  PROVE  Life!Next \/ UNCHANGED LifeVars
<1>0. /\ recovery \in [Cases -> Case]
      /\ payment \in [Payments -> {"CREATED", "FAILED", "CAPTURED"}]
  BY DEF TypeInv, TypeOK
<1>1. PICK p \in Payments : p = handler[h].payment
  BY FailedCommitWrites
<1>2. CASE UNCHANGED <<payment, attempts, recovery>>
  BY <1>2 DEF LifeVars, Stage, Owner, Due, PaidOff, Paid
<1>3. ASSUME NEW c \in Cases,
             payment' = [payment EXCEPT ![p] = "FAILED"],
             attempts' = [attempts EXCEPT ![p] =
               Append(@, [status |-> "FAILED", order |-> None])],
             \/ ActiveCases(p) # {} /\ UNCHANGED recovery
             \/ /\ ActiveCases(p) = {} /\ recovery[c].status = "ABSENT"
                /\ recovery' = [recovery EXCEPT
                     ![c] = [status |-> "OPEN", payment |-> p]]
      PROVE  Life!Fail(p)
  <2>1. Due' = Due \cup {p}
    BY <1>0, <1>3 DEF Due
  <2>2. PaidOff' = PaidOff
    <3>1. [status |-> "FAILED", order |-> None] \in Attempt
      BY DEF Attempt
    <3>2. \A q \in Payments : Paid(q)' => Paid(q)
      BY <1>3, <3>1, AppendPaysNothing
    <3> QED
      BY <3>2, PaidStays DEF PaidOff
  <2>3. CASE ActiveCases(p) # {} /\ UNCHANGED recovery
    <3>1. Life!ActiveOf(p) # {} /\ UNCHANGED <<Stage, Owner>>
      BY <2>3, ActiveOfCases DEF Stage, Owner
    <3> QED
      BY <2>1, <2>2, <3>1 DEF Life!Fail, Stage, Owner, Due, PaidOff
  <2>4. CASE /\ ActiveCases(p) = {} /\ recovery[c].status = "ABSENT"
             /\ recovery' = [recovery EXCEPT
                  ![c] = [status |-> "OPEN", payment |-> p]]
    <3>1. \A d \in Cases : recovery'[d] =
            IF d = c THEN [status |-> "OPEN", payment |-> p] ELSE recovery[d]
      BY <1>0, <2>4
    <3>2. Stage[c] = "none" /\ Stage' = [Stage EXCEPT ![c] = "active"]
      <4>1. StageOf("OPEN") = "active"
        BY StageOfStatus DEF Active
      <4>2. Stage[c] = "none"
        BY <2>4, StageOfStatus DEF Stage
      <4>3. \A d \in Cases : StageOf(recovery'[d].status) =
              IF d = c THEN "active" ELSE StageOf(recovery[d].status)
        BY <3>1, <4>1
      <4> QED
        BY <4>2, <4>3 DEF Stage
    <3>3. Owner' = [Owner EXCEPT ![c] = p]
      <4>1. \A d \in Cases : recovery'[d].payment =
              IF d = c THEN p ELSE recovery[d].payment
        BY <3>1
      <4> QED
        BY <4>1 DEF Owner
    <3>4. Life!Open(c, p)
      BY <2>4, <3>2, <3>3, ActiveOfCases DEF Life!Open, Stage, Owner
    <3> QED
      BY <2>1, <2>2, <3>4 DEF Life!Fail, Due, PaidOff
  <2> QED
    BY <1>3, <2>3, <2>4
<1>4. \/ UNCHANGED <<payment, attempts, recovery>>
      \/ \E c \in Cases :
           /\ payment' = [payment EXCEPT ![p] = "FAILED"]
           /\ attempts' = [attempts EXCEPT ![p] =
                Append(@, [status |-> "FAILED", order |-> None])]
           /\ \/ ActiveCases(p) # {} /\ UNCHANGED recovery
              \/ /\ ActiveCases(p) = {} /\ recovery[c].status = "ABSENT"
                 /\ recovery' = [recovery EXCEPT
                      ![c] = [status |-> "OPEN", payment |-> p]]
  BY <1>1, FailedCommitWrites
<1>5. Life!Fail(p) => Life!Next
  BY DEF Life!Next
<1> QED
  BY <1>2, <1>3, <1>4, <1>5

\* Whoever has read what the transaction of a failure or a capture builds on
\* holds the payment's row ...
Locking == {"failing", "fulfilling", "closing"}
HasLock ==
  \A h \in Handlers : handler[h].pc \in Locking => lock[handler[h].payment] = h

\* ... so that the case a capture has found is active until it is closed, and
\* the payment that has none waits for no money.
Found ==
  \A h \in Handlers : handler[h].pc = "closing" =>
    \/ handler[h].case \in ActiveCases(handler[h].payment)
    \/ handler[h].case = None /\ payment[handler[h].payment] # "FAILED"

LockInv == HasLock /\ Found

LEMMA InitLockInv == Init => LockInv
  BY DEF Init, LockInv, HasLock, Found, Locking, IdleHandler

LEMMA LockWriters ==
  [Next]_vars =>
    \/ UNCHANGED lock
    \/ \E g \in Handlers : FailedBegin(g) \/ CapturedPromise(g)
    \/ \E g \in Handlers : \/ FailedCommit(g) \/ CapturedCommit(g)
                          \/ HandlerCallFails(g) \/ CrashHandler(g)
<1>1. ASSUME NEW g \in Handlers, ByHandler(g)
      PROVE  \/ UNCHANGED lock
             \/ FailedBegin(g) \/ CapturedPromise(g)
             \/ FailedCommit(g) \/ CapturedCommit(g)
             \/ HandlerCallFails(g) \/ CrashHandler(g)
  BY <1>1 DEF ByHandler, HandlerStep, rows, money, ReceiveFailed,
     ReceiveCaptured, AgentStart, Policy, Insert, CapturedBegin, CapturedCase,
     AgentRecommend, AgentReport
<1> QED
  BY <1>1, NextBy, WorkerFrame, ListenerFrame, MakerFrame, ScriptFrame,
     StutterFrame

\* Who gives the row back is through with it, and gives back none but its own.
LEMMA Releases ==
  ASSUME TypeInv, HasLock, NEW g \in Handlers,
         \/ FailedCommit(g) \/ CapturedCommit(g)
         \/ HandlerCallFails(g) \/ CrashHandler(g)
  PROVE  /\ handler'[g].pc \notin Locking
         /\ \A p \in Payments : lock[p] # g => lock'[p] = lock[p]
<1>0. /\ handler \in [Handlers -> Handler]
      /\ lock \in [Payments -> Handlers \cup {None}]
  BY DEF TypeInv, TypeOK
<1>1. CASE FailedCommit(g)
  <2>1. PICK q \in Payments : q = handler[g].payment
    BY <1>1, FailedCommitWrites
  <2>2. lock[q] = g /\ lock' = [lock EXCEPT ![q] = None]
    BY <1>1, <2>1, FailedCommitWrites DEF HasLock, Locking
  <2>3. ASSUME NEW c \in Cases, handler' = [handler EXCEPT ![g] =
                 [IdleHandler EXCEPT !.pc = "policy",
                                     !.payment = handler[g].payment,
                                     !.row = c, !.case = c]]
        PROVE  handler'[g].pc \notin Locking
    BY <1>0, <2>3 DEF IdleHandler, Locking
  <2>4. ASSUME \/ handler' = [handler EXCEPT ![g].pc = "failed"]
               \/ handler' = [handler EXCEPT ![g] = IdleHandler]
        PROVE  handler'[g].pc \notin Locking
    BY <1>0, <2>4 DEF Handler, IdleHandler, Locking
  <2>5. handler'[g].pc \notin Locking
    BY <1>1, <2>3, <2>4, FailedCommitWrites
  <2> QED
    BY <1>0, <2>2, <2>5
<1>2. CASE CapturedCommit(g)
  <2>1. PICK q \in Payments : q = handler[g].payment
    BY <1>2, ClosedCase DEF CapturedCommit
  <2>2. lock[q] = g /\ lock' = [lock EXCEPT ![q] = None]
    BY <1>2, <2>1 DEF CapturedCommit, HasLock, Locking
  <2>3. handler'[g].pc \notin Locking
    BY <1>0, <1>2 DEF CapturedCommit, IdleHandler, Locking
  <2> QED
    BY <1>0, <2>2, <2>3
<1>3. CASE HandlerCallFails(g) \/ CrashHandler(g)
  <2>1. lock' = Unlocked(g)
    BY <1>3 DEF HandlerCallFails, CrashHandler
  <2>2. ASSUME \/ handler' = [handler EXCEPT ![g] =
                    [IdleHandler EXCEPT !.pc = "failed",
                                        !.payment = handler[g].payment]]
               \/ handler' = [handler EXCEPT ![g] =
                    [IdleHandler EXCEPT !.pc = "captured",
                                        !.order = handler[g].order]]
        PROVE  handler'[g].pc \notin Locking
    BY <1>0, <2>2 DEF IdleHandler, Locking
  <2>3. ASSUME \/ handler' = [handler EXCEPT ![g].pc = "reportFailed"]
               \/ handler' = [handler EXCEPT ![g] = IdleHandler]
        PROVE  handler'[g].pc \notin Locking
    BY <1>0, <2>3 DEF Handler, IdleHandler, Locking
  <2> QED
    BY <1>3, <2>1, <2>2, <2>3 DEF HandlerCallFails, CrashHandler, Unlocked
<1> QED
  BY <1>1, <1>2, <1>3

LEMMA NextHasLock ==
  TypeInv /\ HasLock /\ [Next]_vars => HasLock'
<1> SUFFICES ASSUME TypeInv, HasLock, [Next]_vars, NEW h \in Handlers,
                    handler'[h].pc \in Locking
             PROVE  lock'[handler'[h].payment] = h
  BY DEF HasLock
<1>0. /\ handler \in [Handlers -> Handler]
      /\ lock \in [Payments -> Handlers \cup {None}]
      /\ None \notin Handlers
  BY RecoveryAssumption DEF TypeInv, TypeOK
<1>1. PICK p : p = handler[h].payment
  OBVIOUS
<1>2. CASE handler[h].pc \in Locking /\ handler'[h].payment = p
  <2>1. p \in Payments /\ lock[p] = h
    BY <1>1, <1>2 DEF HasLock, Locking, TypeInv, HandlersLinked, Capture
  <2>2. ASSUME NEW g \in Handlers, FailedBegin(g) \/ CapturedPromise(g)
        PROVE  lock'[p] = h
    BY <1>0, <2>1, <2>2 DEF FailedBegin, CapturedPromise
  <2>3. ASSUME NEW g \in Handlers,
               \/ FailedCommit(g) \/ CapturedCommit(g)
               \/ HandlerCallFails(g) \/ CrashHandler(g)
        PROVE  lock'[p] = h
    BY <2>1, <2>3, Releases
  <2> QED
    BY <1>2, <2>1, <2>2, <2>3, LockWriters
<1>3. CASE FailedBegin(h)
  <2>1. p \in Payments
    BY <1>1, <1>3 DEF FailedBegin, TypeInv, HandlersLinked
  <2>2. handler'[h].payment = p
    BY <1>0, <1>1, <1>3 DEF FailedBegin, Handler
  <2> QED
    BY <1>0, <1>1, <1>3, <2>1, <2>2 DEF FailedBegin
<1>4. CASE CapturedPromise(h)
  <2>1. p \in Payments
    BY <1>1, <1>4 DEF CapturedPromise, TypeInv, HandlersLinked, Capture
  <2>2. handler'[h].payment = p
    BY <1>1, <1>4, CaptureReads
  <2> QED
    BY <1>0, <1>1, <1>4, <2>1, <2>2 DEF CapturedPromise
<1>5. CASE CapturedCase(h)
  BY <1>1, <1>2, <1>5, CaptureReads DEF CapturedCase, Locking
<1>6. CASE CapturedBegin(h)
  <2>1. IdleHandler.pc = "idle"
    BY DEF IdleHandler
  <2>2. \A q, k : [handler[h] EXCEPT !.pc = "capturing", !.payment = q,
                                    !.number = k].pc = "capturing"
    BY <1>0 DEF Handler
  <2>3. handler'[h].pc \in {"idle", "capturing"}
    BY <1>0, <1>6, <2>1, <2>2 DEF CapturedBegin
  <2> QED
    BY <2>3 DEF Locking
<1>7. CASE handler'[h] = handler[h]
  BY <1>1, <1>2, <1>7
<1>8. handler'[h].pc \in {"failing"} \cup Capture
  BY DEF Locking, Capture
<1> QED
  BY <1>3, <1>4, <1>5, <1>6, <1>7, <1>8, LockSteps

LEMMA NextFound ==
  TypeInv /\ FailedIsPursued /\ LockInv /\ [Next]_vars => Found'
<1> SUFFICES ASSUME TypeInv, FailedIsPursued, LockInv, [Next]_vars,
                    NEW h \in Handlers, handler'[h].pc = "closing",
                    NEW p, p = handler'[h].payment,
                    NEW c, c = handler'[h].case
             PROVE  \/ c \in ActiveCases(p)'
                    \/ c = None /\ payment'[p] # "FAILED"
  BY DEF Found, ActiveCases
<1>0. /\ handler \in [Handlers -> Handler] /\ HasLock /\ Found
      /\ recovery \in [Cases -> Case]
      /\ payment \in [Payments -> {"CREATED", "FAILED", "CAPTURED"}]
  BY DEF TypeInv, TypeOK, LockInv
<1>1. CASE handler'[h] = handler[h]
  <2>1. /\ handler[h].pc = "closing"
        /\ p = handler[h].payment /\ c = handler[h].case
    BY <1>1
  <2>2. p \in Payments /\ lock[p] = h
    BY <1>0, <2>1, ClosedCase DEF HasLock, Locking
  <2>3. ASSUME NEW g \in Handlers, FailedCommit(g) PROVE handler[g].payment # p
    BY <1>0, <2>1, <2>2, <2>3 DEF FailedCommit, HasLock, Locking
  <2>4. ASSUME NEW g \in Handlers, CapturedCommit(g)
        PROVE  handler[g].payment # p
    <3>1. handler'[g] = IdleHandler
      BY <1>0, <2>4 DEF CapturedCommit
    <3>2. g # h
      BY <3>1 DEF IdleHandler
    <3> QED
      BY <1>0, <2>2, <2>4, <3>2 DEF CapturedCommit, HasLock, Locking
  <2>5. CASE c \in ActiveCases(p)
    <3>1. c \in Cases /\ recovery[c].status \in Active /\ recovery[c].payment = p
      BY <2>5 DEF ActiveCases
    <3>2. recovery'[c].payment = p
      BY <3>1, CasesStay DEF Active
    <3>3. ASSUME NEW g \in Handlers, CapturedCommit(g)
          PROVE  recovery'[c].status \in Active
      <4>1. c # handler[g].case
        BY <2>4, <3>1, <3>3, ClosedCase DEF CapturedCommit
      <4> QED
        BY <3>1, <3>3, <4>1 DEF CapturedCommit
    <3>4. ASSUME NEW g \in Handlers, FailedCommit(g)
          PROVE  recovery'[c].status \in Active
      <4>1. ASSUME NEW d \in Cases, recovery[d].status = "ABSENT",
                   recovery' = [recovery EXCEPT
                     ![d] = [status |-> "OPEN", payment |-> handler[g].payment]]
            PROVE  recovery'[c].status \in Active
        BY <1>0, <3>1, <4>1 DEF Active
      <4> QED
        BY <3>1, <3>4, <4>1, FailedCommitWrites
    <3>5. ASSUME NEW d \in Cases, NEW s \in Active,
                 recovery' = [recovery EXCEPT ![d].status = s]
          PROVE  recovery'[c].status \in Active
      BY <1>0, <3>1, <3>5 DEF Case
    <3>6. recovery'[c].status \in Active
      BY <3>1, <3>3, <3>4, <3>5, StatusWriters
    <3> QED
      BY <3>1, <3>2, <3>6 DEF ActiveCases
  <2>6. CASE c = None /\ payment[p] # "FAILED"
    <3>1. ASSUME NEW g \in Handlers, FailedCommit(g)
          PROVE  payment'[p] # "FAILED"
      BY <1>0, <2>2, <2>3, <2>6, <3>1, FailedCommitWrites
    <3>2. ASSUME NEW g \in Handlers, CapturedCommit(g)
          PROVE  payment'[p] # "FAILED"
      BY <1>0, <2>2, <2>6, <3>2 DEF CapturedCommit
    <3> QED
      BY <2>6, <3>1, <3>2, PaymentWriters
  <2> QED
    BY <1>0, <2>1, <2>5, <2>6 DEF Found
<1>2. CASE CapturedCase(h)
  <2>1. p = handler[h].payment /\ p \in Payments
    BY <1>2, CaptureReads DEF CapturedCase, Capture, TypeInv, HandlersLinked
  <2>2. PICK d : /\ \/ d = None /\ ActiveCases(p) = {}
                    \/ d \in ActiveCases(p)
                 /\ handler' = [handler EXCEPT ![h].pc = "closing",
                                               ![h].case = d]
    BY <1>2, <2>1 DEF CapturedCase, Closable
  <2>3. d = c
    BY <1>0, <2>2 DEF Handler
  <2>4. UNCHANGED <<recovery, payment>>
    BY <1>2 DEF CapturedCase, rows, money
  <2>5. CASE d \in ActiveCases(p)
    BY <2>3, <2>4, <2>5 DEF ActiveCases
  <2>6. CASE d = None /\ ActiveCases(p) = {}
    BY <2>1, <2>3, <2>4, <2>6 DEF FailedIsPursued
  <2> QED
    BY <2>2, <2>5, <2>6
<1>3. CASE FailedBegin(h)
  BY <1>0, <1>3 DEF FailedBegin, Handler
<1>4. CASE CapturedPromise(h)
  BY <1>0, <1>4 DEF CapturedPromise, Handler
<1>5. CASE CapturedBegin(h)
  <2>1. IdleHandler.pc = "idle"
    BY DEF IdleHandler
  <2>2. \A q, k : [handler[h] EXCEPT !.pc = "capturing", !.payment = q,
                                    !.number = k].pc = "capturing"
    BY <1>0 DEF Handler
  <2>3. handler'[h].pc \in {"idle", "capturing"}
    BY <1>0, <1>5, <2>1, <2>2 DEF CapturedBegin
  <2> QED
    BY <2>3
<1>6. handler'[h].pc \in {"failing"} \cup Capture
  BY DEF Capture
<1> QED
  BY <1>1, <1>2, <1>3, <1>4, <1>5, <1>6, LockSteps

LEMMA NextLockInv ==
  TypeInv /\ FailedIsPursued /\ LockInv /\ [Next]_vars => LockInv'
  BY NextHasLock, NextFound DEF LockInv

\* The capture's transaction pays on the abstract level.
LEMMA CapturedKeepsLife ==
  ASSUME TypeInv, PaidInv, LockInv, [Next]_vars, NEW h \in Handlers,
         CapturedCommit(h)
  PROVE  Life!Next
<1>0. /\ recovery \in [Cases -> Case]
      /\ payment \in [Payments -> {"CREATED", "FAILED", "CAPTURED"}]
      /\ attempts \in [Payments -> Seq(Attempt)]
  BY DEF TypeInv, TypeOK
<1>1. PICK p \in Payments : p = handler[h].payment /\ Paid(p)'
  BY CapturedIsPaid, ClosedCase DEF PaidInv, CapturedCommit
<1>2. PICK n : n = handler[h].number
  OBVIOUS
<1>a. PICK d : /\ d = handler[h].case
               /\ \/ d \in ActiveCases(p)
                  \/ d = None /\ payment[p] # "FAILED"
  BY <1>1 DEF LockInv, Found, CapturedCommit
<1>3. /\ payment' = [payment EXCEPT ![p] = "CAPTURED"]
      /\ attempts' = MarkedCaptured(p, n)
      /\ recovery' = [c \in Cases |-> IF c = d
           THEN [recovery[c] EXCEPT !.status = "RECOVERED"] ELSE recovery[c]]
  BY <1>1, <1>2, <1>a DEF CapturedCommit
<1>4. Due' = Due \ {p}
  BY <1>0, <1>3 DEF Due
<1>5. PaidOff' = PaidOff \cup {p}
  <2>1. ASSUME NEW q \in Payments, q # p PROVE attempts'[q] = attempts[q]
    BY <1>0, <1>3, <2>1 DEF MarkedCaptured
  <2>2. ASSUME NEW q \in Payments, q # p PROVE Paid(q)' <=> Paid(q)
    BY <2>1, <2>2 DEF Paid
  <2> QED
    BY <1>1, <2>2 DEF PaidOff
<1>6. ASSUME NEW c \in Cases
      PROVE  /\ recovery'[c].payment = recovery[c].payment
             /\ recovery'[c].status =
                  IF c = d THEN "RECOVERED" ELSE recovery[c].status
  BY <1>0, <1>3 DEF Case
<1>7. Owner' = Owner
  BY <1>6 DEF Owner
<1>8. \/ \E c \in ActiveCases(p) : Stage' = [Stage EXCEPT ![c] = "closed"]
      \/ p \notin Due /\ UNCHANGED Stage
  <2>1. \A c \in Cases : StageOf(recovery'[c].status) =
          IF c = d THEN "closed" ELSE StageOf(recovery[c].status)
    BY <1>6, StageOfStatus
  <2>2. CASE d \in ActiveCases(p)
    <3>1. Stage' = [Stage EXCEPT ![d] = "closed"]
      BY <2>1 DEF Stage
    <3> QED
      BY <2>2, <3>1
  <2>3. CASE d = None /\ payment[p] # "FAILED"
    <3>1. None \notin Cases
      BY RecoveryAssumption DEF Orders, Rows
    <3>2. UNCHANGED Stage
      BY <2>1, <2>3, <3>1 DEF Stage
    <3> QED
      BY <2>3, <3>2 DEF Due
  <2> QED
    BY <1>a, <2>2, <2>3
<1>9. Life!Pay(p)
  BY <1>4, <1>5, <1>7, <1>8, ActiveOfCases
     DEF Life!Pay, Stage, Owner, Due, PaidOff
<1> QED
  BY <1>9 DEF Life!Next

\* Every other write of a case leaves it active, or opens it again where the
\* index on active cases allows it.
LEMMA WrittenKeepsLife ==
  ASSUME TypeInv, NEW c \in Cases, NEW s \in Active, Existing(c), Admits(c),
         recovery' = [recovery EXCEPT ![c].status = s],
         UNCHANGED <<Due, PaidOff>>
  PROVE  Life!Next \/ UNCHANGED LifeVars
<1>0. recovery \in [Cases -> Case]
  BY DEF TypeInv, TypeOK
<1>1. PICK p \in Payments : p = recovery[c].payment
  BY DEF TypeInv, CasesLinked
<1>2. \A d \in Cases :
        /\ recovery'[d].payment = recovery[d].payment
        /\ recovery'[d].status = IF d = c THEN s ELSE recovery[d].status
  BY <1>0 DEF Case
<1>3. Owner' = Owner
  BY <1>2 DEF Owner
<1>4. Stage' = [Stage EXCEPT ![c] = "active"]
  <2>1. \A d \in Cases : StageOf(recovery'[d].status) =
          IF d = c THEN "active" ELSE StageOf(recovery[d].status)
    BY <1>2, StageOfStatus
  <2> QED
    BY <2>1 DEF Stage
<1>5. CASE recovery[c].status \in Active
  <2>1. Stage[c] = "active"
    BY <1>5, StageOfStatus DEF Stage
  <2>2. Stage' = Stage
    BY <1>4, <2>1 DEF Stage
  <2> QED
    BY <1>3, <2>2 DEF LifeVars
<1>6. CASE recovery[c].status \notin Active
  <2>1. recovery[c].status = "RECOVERED"
    BY <1>0, <1>6 DEF Existing, Case
  <2>2. Stage[c] = "closed"
    BY <2>1, StageOfStatus DEF Stage
  <2>3. ActiveCases(p) = {}
    BY <1>1, <1>6 DEF Admits, ActiveCases
  <2>4. Life!ActiveOf(Owner[c]) = {}
    BY <1>1, <2>3, ActiveOfCases DEF Owner
  <2>5. Life!Reopen(c)
    BY <1>3, <1>4, <2>2, <2>4 DEF Life!Reopen, Stage, Owner, Due, PaidOff
  <2> QED
    BY <2>5 DEF Life!Next
<1> QED
  BY <1>5, <1>6

\* Every step maps to a step of CaseLife, or to a stutter.
LEMMA NextLife ==
  TypeInv /\ PaidInv /\ LockInv /\ [Next]_vars =>
    Life!Next \/ UNCHANGED LifeVars
<1> SUFFICES ASSUME TypeInv, PaidInv, LockInv, [Next]_vars
             PROVE  Life!Next \/ UNCHANGED LifeVars
  OBVIOUS
<1>1. CASE \E h \in Handlers : FailedCommit(h) \/ CapturedCommit(h)
  BY <1>1, FailedKeepsLife, CapturedKeepsLife
<1>2. CASE ~\E h \in Handlers : FailedCommit(h) \/ CapturedCommit(h)
  <2>1. Due' = Due
    BY <1>2, PaymentWriters DEF Due
  <2>2. \A p \in Payments : Paid(p)' <=> Paid(p)
    BY <1>2, PaidStays, PaidOnlyByCapture
  <2>3. PaidOff' = PaidOff
    BY <2>2 DEF PaidOff
  <2>4. CASE UNCHANGED recovery
    BY <2>1, <2>3, <2>4 DEF LifeVars, Stage, Owner
  <2> QED
    BY <1>2, <2>1, <2>3, <2>4, StatusWriters, WrittenKeepsLife
<1> QED
  BY <1>1, <1>2

\* The empty tables are the abstract initial state.
LEMMA InitLife == Init => Life!Init
<1> SUFFICES ASSUME Init PROVE Life!Init
  OBVIOUS
<1>1. \A p \in Payments : payment[p] # "FAILED"
  BY DEF Init
<1>2. \A p \in Payments : ~Paid(p)
  BY DEF Init, Paid
<1>3. \A c \in Cases : recovery[c].status = "ABSENT" /\ recovery[c].payment = None
  BY DEF Init
<1> QED
  BY <1>1, <1>2, <1>3, StageOfStatus DEF Life!Init

\* All the processes together implement CaseLife, whatever is rejected, lost,
\* repeated or written late.
THEOREM ImplementsLife == Spec => KeepsLife
<1>1. TypeInv /\ PaidInv /\ LockInv /\ [Next]_vars => [Life!Next]_LifeVars
  BY NextLife
<1>2. Init => FailedIsPursued
  BY DEF Init, FailedIsPursued
<1> QED
  BY <1>1, <1>2, InitTypeInv, NextTypeInv, InitPaidInv, NextPaidInv,
     NextPursued, InitLockInv, NextLockInv, InitLife, PTL
     DEF Spec, KeepsLife, Life!Spec, Life!life, LifeVars, Stage, Owner, Due,
         PaidOff

----------------------------------------------------------------------------
(* One worker for an action, one attempt from it.                          *)

Busy(w) == worker[w].pc # "idle"

\* The claim takes APPROVED rows only, so nobody else works on a worker's row.
OneWorker ==
  /\ \A w \in Workers : Busy(w) => action[worker[w].row].status = "EXECUTING"
  /\ \A v, w \in Workers :
       Busy(v) /\ Busy(w) /\ worker[v].row = worker[w].row => v = w

\* A worker keeps its row from its claim to its end.
LEMMA WorkerMoves ==
  ASSUME TypeInv, HeldInv, WorkInv, [Next]_vars, NEW v \in Workers
  PROVE  \/ Take(v) \/ Ends(v) \/ CrashWorker(v)
         \/ /\ worker'[v].row = worker[v].row
            /\ Busy(v)' <=> Busy(v)
<1>0. worker \in [Workers -> Worker]
  BY DEF TypeInv, TypeOK
<1>1. CASE RetryNumber(v)
  <2>1. /\ worker'[v].pc = "attempt" /\ worker'[v].row = worker[v].row
        /\ worker[v].pc = "ordered"
    BY <1>0, <1>1 DEF RetryNumber, Worker
  <2> QED
    BY <2>1 DEF Busy
<1>2. CASE GoesOn(v)
  <2>1. PICK pc \in {"dial", "called", "ordered", "link", "escalate",
                     "complete"} : worker' = [worker EXCEPT ![v].pc = pc]
    BY <1>2 DEF GoesOn, Goto
  <2>2. worker'[v].pc = pc /\ worker'[v].row = worker[v].row
    BY <1>0, <2>1 DEF Worker
  <2> QED
    BY <1>2, <2>2 DEF GoesOn, Busy
<1>3. ASSUME NEW h \in Handlers, CapturedCommit(h)
      PROVE  worker'[v].row = worker[v].row /\ worker'[v].pc = worker[v].pc
  BY <1>0, <1>3 DEF CapturedCommit, OvertakeWorkers, Worker
<1>4. CASE ~ByWorker(v) /\ \A h \in Handlers : ~CapturedCommit(h)
  BY <1>4, WorkersKeep DEF Busy
<1> QED
  BY <1>1, <1>2, <1>3, <1>4, WorkerKinds DEF ByWorker, Busy

\* What a worker that stops, or a crash, leaves behind.
LEMMA WorkerStops ==
  ASSUME TypeInv, NEW v \in Workers, Ends(v) \/ CrashWorker(v)
  PROVE  Busy(v) /\ ~Busy(v)'
  BY DEF TypeInv, TypeOK, Ends, End, CrashWorker, IdleWorker, Busy

\* The status of a row that is executed changes at its own worker's end only.
LEMMA ExecutingStays ==
  ASSUME TypeInv, HeldInv, [Next]_vars, NEW a \in Rows,
         action[a].status = "EXECUTING",
         \A w \in Workers : Ends(w) => worker[w].row # a
  PROVE  action'[a].status = "EXECUTING"
<1>0. Made(a)
  BY DEF Made
<1>1. ASSUME NEW h \in Handlers, Insert(h) PROVE action'[a] = action[a]
  <2>1. ~Made(handler[h].row)
    BY <1>1 DEF Insert, HeldInv, Held, Taken, Holding, Before
  <2> QED
    BY <1>0, <1>1, <2>1, InsertWrites
<1>2. ASSUME NEW w \in Workers, Take(w) PROVE action'[a] = action[a]
  BY <1>2, TakeWrites
<1>3. ASSUME NEW w \in Workers, Ends(w) PROVE action'[a] = action[a]
  BY <1>3, EndWrites DEF Ends
<1> QED
  BY <1>1, <1>2, <1>3, ActionWriters

LEMMA InitOneWorker == Init => OneWorker
  BY DEF Init, OneWorker, Busy, IdleWorker

LEMMA NextOneWorker ==
  TypeInv /\ HeldInv /\ WorkInv /\ OneWorker /\ [Next]_vars => OneWorker'
<1> SUFFICES ASSUME TypeInv, HeldInv, WorkInv, OneWorker, [Next]_vars
             PROVE  OneWorker'
  OBVIOUS
<1>0. worker \in [Workers -> Worker]
  BY DEF TypeInv, TypeOK
<1>1. ASSUME NEW v \in Workers, Busy(v)', ~Take(v)
      PROVE  Busy(v) /\ worker'[v].row = worker[v].row
  BY <1>1, WorkerMoves, WorkerStops
<1>2. ASSUME NEW v \in Workers, Take(v)
      PROVE  \E a \in Rows :
               /\ worker'[v].row = a /\ action[a].status = "APPROVED"
               /\ action'[a].status = "EXECUTING"
               /\ \A w \in Workers : w # v => worker'[w] = worker[w]
  <2>1. PICK a \in Rows :
          /\ action[a].status = "APPROVED"
          /\ action'[a].status = "EXECUTING"
          /\ worker' = [worker EXCEPT ![v].pc = "run", ![v].row = a]
    BY <1>2, TakeWrites
  <2>2. worker'[v].row = a
    BY <1>0, <2>1 DEF Worker
  <2>3. \A w \in Workers : w # v => worker'[w] = worker[w]
    BY <1>0, <2>1
  <2> QED
    BY <2>1, <2>2, <2>3
<1>3. ASSUME NEW v \in Workers, Busy(v)'
      PROVE  action'[worker'[v].row].status = "EXECUTING"
  <2>1. CASE Take(v)
    BY <1>2, <2>1
  <2>2. CASE ~Take(v)
    <3>1. PICK a : a = worker[v].row
      OBVIOUS
    <3>2. /\ Busy(v) /\ worker'[v].row = a /\ a \in Rows
          /\ action[a].status = "EXECUTING"
      BY <1>1, <1>3, <2>2, <3>1 DEF OneWorker, TypeInv, WorkersLinked, Made, Busy
    <3>3. ASSUME NEW w \in Workers, Ends(w), worker[w].row = a PROVE FALSE
      BY <1>3, <3>1, <3>2, <3>3, WorkerStops DEF OneWorker
    <3> QED
      BY <3>2, <3>3, ExecutingStays
  <2> QED
    BY <2>1, <2>2
<1>4. ASSUME NEW v \in Workers, NEW w \in Workers, Busy(v)', Busy(w)',
             worker'[v].row = worker'[w].row, Take(v), v # w
      PROVE  FALSE
  <2>1. PICK a \in Rows :
          /\ worker'[v].row = a /\ action[a].status = "APPROVED"
          /\ \A u \in Workers : u # v => worker'[u] = worker[u]
    BY <1>2, <1>4
  <2>2. worker'[w] = worker[w]
    BY <1>4, <2>1
  <2>3. Busy(w) /\ worker[w].row = a
    BY <1>4, <2>1, <2>2 DEF Busy
  <2> QED
    BY <2>1, <2>3 DEF OneWorker
<1>5. ASSUME NEW v \in Workers, NEW w \in Workers, Busy(v)', Busy(w)',
             worker'[v].row = worker'[w].row
      PROVE  v = w
  <2>1. CASE Take(v) \/ Take(w)
    BY <1>4, <1>5, <2>1
  <2>2. CASE ~Take(v) /\ ~Take(w)
    BY <1>1, <1>5, <2>2 DEF OneWorker
  <2> QED
    BY <2>1, <2>2
<1> QED
  BY <1>3, <1>5 DEF OneWorker

\* A row whose work has not been tried, or not come to its attempt, has none.
Unspent ==
  /\ \A a \in Rows :
       action[a].status \in {"ABSENT", "REJECTED", "APPROVED"} => ~Stored(a)
  /\ \A w \in Workers :
       worker[w].pc \in {"run", "ordered", "attempt"} => ~Stored(worker[w].row)

AttemptInv == OneWorker /\ Unspent /\ AddsOneAttempt

LEMMA InitAttemptInv == Init => AttemptInv
<1> SUFFICES ASSUME Init PROVE AttemptInv
  OBVIOUS
<1>1. PICK S \in SUBSET Payments : attempts = [p \in Payments |->
        IF p \in S THEN <<[status |-> "CREATED", order |-> p]>> ELSE <<>>]
  BY DEF Init
<1>2. ASSUME NEW p \in Payments, NEW k \in DOMAIN attempts[p]
      PROVE  attempts[p][k].order \notin Rows
  <2>1. attempts[p][k].order = p
    BY <1>1, <1>2
  <2> QED
    BY <2>1, RecoveryAssumption
<1>3. \A a \in Rows : ~Stored(a)
  BY <1>2 DEF Stored
<1>4. \A w \in Workers : worker[w].pc = "idle"
  BY DEF Init, IdleWorker
<1> QED
  BY <1>2, <1>3, <1>4, InitOneWorker DEF AttemptInv, Unspent, AddsOneAttempt

\* The handler of a retry comes to its attempt from its claim only.
LEMMA AttemptFrom ==
  ASSUME TypeInv, NEW w \in Workers, ByWorker(w), ~Take(w),
         worker'[w].pc \in {"run", "ordered", "attempt"}
  PROVE  /\ worker[w].pc \in {"run", "ordered", "attempt"}
         /\ ~RetryAttempt(w)
<1>0. worker \in [Workers -> Worker]
  BY DEF TypeInv, TypeOK
<1>1. ASSUME NEW s, worker' = [worker EXCEPT ![w].pc = s]
      PROVE  worker'[w].pc = s
  BY <1>0, <1>1 DEF Worker
<1>2. ASSUME worker' = [worker EXCEPT ![w] = IdleWorker] PROVE FALSE
  BY <1>0, <1>2 DEF IdleWorker
<1>3. ASSUME NEW s, End(w, s) PROVE FALSE
  BY <1>2, <1>3 DEF End
<1>4. ASSUME VoiceRead(w) \/ VoiceDial(w) \/ VoiceProgress(w) PROVE FALSE
  BY <1>1, <1>3, <1>4
     DEF VoiceRead, VoiceDial, VoiceProgress, MoveCase, Goto, Throw
<1>5. ASSUME LinkRead(w) \/ LinkCreate(w) \/ Notify(w) PROVE FALSE
  BY <1>1, <1>3, <1>5 DEF LinkRead, LinkCreate, Notify, Goto, Throw
<1>6. ASSUME EscalateRead(w) \/ EscalateWrite(w) \/ Complete(w) PROVE FALSE
  BY <1>1, <1>3, <1>6
     DEF EscalateRead, EscalateWrite, MoveCase, Complete, Goto, Throw
<1>7. ASSUME RetryAttempt(w) PROVE FALSE
  BY <1>1, <1>3, <1>7 DEF RetryAttempt, Goto, Throw
<1>8. ASSUME WorkerCallFails(w) \/ CrashWorker(w) PROVE FALSE
  BY <1>2, <1>3, <1>8 DEF WorkerCallFails, CrashWorker, Throw
<1>9. ASSUME RetryOrder(w) \/ RetryNumber(w)
      PROVE  worker[w].pc \in {"run", "ordered", "attempt"}
  BY <1>9 DEF RetryOrder, RetryNumber, Runs
<1> QED
  BY <1>4, <1>5, <1>6, <1>7, <1>8, <1>9 DEF ByWorker, WorkerStep

\* The only attempt with the order of an action that a step adds.
LEMMA AttemptAdded ==
  ASSUME TypeInv, [Next]_vars, NEW p \in Payments, NEW k \in DOMAIN attempts'[p],
         NEW a \in Rows, attempts'[p][k].order = a
  PROVE  \/ k \in DOMAIN attempts[p] /\ attempts[p][k].order = a
         \/ \E w \in Workers :
              /\ RetryAttempt(w) /\ ~Ends(w)
              /\ worker[w].row = a /\ recovery[CaseOf(w)].payment = p
              /\ k = Len(attempts[p]) + 1
<1>0. attempts \in [Payments -> Seq(Attempt)]
  BY DEF TypeInv, TypeOK
<1>1. ASSUME NEW q \in Payments, NEW e \in Attempt,
             attempts' = [attempts EXCEPT ![q] = Append(@, e)],
             k \notin DOMAIN attempts[p]
      PROVE  p = q /\ k = Len(attempts[p]) + 1 /\ e.order = a
  <2>1. p = q
    BY <1>0, <1>1
  <2>2. attempts'[p] = Append(attempts[p], e)
    BY <1>0, <1>1, <2>1
  <2> QED
    BY <1>0, <1>1, <2>1, <2>2, AppendGrows
<1>2. ASSUME k \in DOMAIN attempts[p] PROVE attempts[p][k].order = a
  BY <1>2, AttemptsGrow DEF AttemptsExtend
<1>3. ASSUME NEW h \in Handlers, FailedCommit(h), k \notin DOMAIN attempts[p]
      PROVE  FALSE
  <2>1. [status |-> "FAILED", order |-> None] \in Attempt
    BY DEF Attempt
  <2>2. handler[h].payment \in Payments
    BY <1>3, FailedCommitWrites
  <2>3. CASE UNCHANGED attempts
    BY <1>3, <2>3
  <2>4. CASE attempts' = [attempts EXCEPT ![handler[h].payment] =
                 Append(@, [status |-> "FAILED", order |-> None])]
    <3>1. a = None
      BY <1>1, <1>3, <2>1, <2>2, <2>4
    <3> QED
      BY <3>1, RecoveryAssumption DEF Orders
  <2> QED
    BY <1>3, <2>3, <2>4, FailedCommitWrites
<1>4. ASSUME NEW h \in Handlers, CapturedCommit(h) PROVE k \in DOMAIN attempts[p]
  BY <1>0, <1>4 DEF CapturedCommit, MarkedCaptured
<1>5. ASSUME NEW w \in Workers, RetryAttempt(w), k \notin DOMAIN attempts[p]
      PROVE  /\ ~Ends(w) /\ worker[w].row = a
             /\ recovery[CaseOf(w)].payment = p /\ k = Len(attempts[p]) + 1
  <2>1. /\ worker[w].row \in Rows /\ recovery[CaseOf(w)].payment \in Payments
        /\ worker[w].pc = "attempt"
    BY <1>5, WorkersCase DEF RetryAttempt
  <2>2. [status |-> "CREATED", order |-> worker[w].row] \in Attempt
    BY <2>1 DEF Attempt, Orders
  <2>3. ~UNCHANGED attempts
    BY <1>5
  <2>4. /\ attempts' = [attempts EXCEPT ![recovery[CaseOf(w)].payment] =
             Append(@, [status |-> "CREATED", order |-> worker[w].row])]
        /\ Goto(w, "complete")
    BY <1>5, <2>3 DEF RetryAttempt
  <2>5. recovery[CaseOf(w)].payment = p /\ k = Len(attempts[p]) + 1
          /\ worker[w].row = a
    BY <1>1, <1>5, <2>1, <2>2, <2>4
  <2>6. worker \in [Workers -> Worker]
    BY DEF TypeInv, TypeOK
  <2>7. worker'[w].pc = "complete"
    BY <2>4, <2>6 DEF Goto, Worker
  <2>8. ~Ends(w)
    BY <2>6, <2>7 DEF Ends, End, IdleWorker
  <2> QED
    BY <2>5, <2>8
<1> QED
  BY <1>2, <1>3, <1>4, <1>5, AttemptsWriters

\* A row that has an attempt now had one, or its worker has just added it.
LEMMA StoredBy ==
  ASSUME TypeInv, [Next]_vars, NEW a \in Rows, Stored(a)'
  PROVE  Stored(a) \/ \E w \in Workers :
           RetryAttempt(w) /\ ~Ends(w) /\ worker[w].row = a
<1>1. PICK p \in Payments : \E k \in DOMAIN attempts'[p] :
        attempts'[p][k].order = a
  BY DEF Stored
<1>2. PICK k \in DOMAIN attempts'[p] : attempts'[p][k].order = a
  BY <1>1
<1> QED
  BY <1>2, AttemptAdded DEF Stored

LEMMA NextUnspent ==
  TypeInv /\ HeldInv /\ WorkInv /\ AttemptInv /\ [Next]_vars => Unspent'
<1> SUFFICES ASSUME TypeInv, HeldInv, WorkInv, AttemptInv, [Next]_vars
             PROVE  Unspent'
  OBVIOUS
<1>0. /\ OneWorker /\ Unspent /\ action \in [Rows -> Action]
      /\ action' \in [Rows -> Action]
  BY MadeStay DEF AttemptInv, TypeInv, TypeOK
<1>1. ASSUME NEW w \in Workers, RetryAttempt(w)
      PROVE  /\ Busy(w) /\ worker[w].row \in Rows
             /\ action[worker[w].row].status = "EXECUTING"
             /\ ~Stored(worker[w].row)
  BY <1>0, <1>1 DEF RetryAttempt, Busy, OneWorker, Unspent, TypeInv,
     WorkersLinked, Made
<1>2. ASSUME NEW w \in Workers, RetryAttempt(w), ~Ends(w), NEW v \in Workers,
             Ends(v)
      PROVE  worker[v].row # worker[w].row
  BY <1>0, <1>1, <1>2, WorkerStops DEF OneWorker
<1>3. ASSUME NEW a \in Rows, Stored(a)',
             action'[a].status \in {"ABSENT", "REJECTED", "APPROVED"}
      PROVE  FALSE
  <2>1. CASE Stored(a)
    <3>1. action[a].status \notin {"ABSENT", "REJECTED", "APPROVED"}
      BY <1>0, <2>1 DEF Unspent
    <3>2. Made(a)
      BY <3>1 DEF Made
    <3>3. ASSUME NEW h \in Handlers, Insert(h) PROVE action'[a] = action[a]
      <4>1. ~Made(handler[h].row)
        BY <3>3 DEF Insert, HeldInv, Held, Taken, Holding, Before
      <4> QED
        BY <3>2, <3>3, <4>1, InsertWrites
    <3>4. ASSUME NEW w \in Workers, Take(w) PROVE action'[a] = action[a]
      BY <3>1, <3>4, TakeWrites
    <3>5. ASSUME NEW w \in Workers, Ends(w)
          PROVE  \/ action'[a] = action[a]
                 \/ action'[a].status \in {"COMPLETED", "FAILED"}
      BY <3>5, EndWrites DEF Ends
    <3> QED
      BY <1>3, <3>1, <3>3, <3>4, <3>5, ActionWriters
  <2>2. ASSUME NEW w \in Workers, RetryAttempt(w), ~Ends(w), worker[w].row = a
        PROVE  FALSE
    <3>1. action'[a].status = "EXECUTING"
      BY <1>1, <1>2, <2>2, ExecutingStays
    <3> QED
      BY <1>3, <3>1
  <2> QED
    BY <1>3, <2>1, <2>2, StoredBy
<1>4. ASSUME NEW v \in Workers,
             worker'[v].pc \in {"run", "ordered", "attempt"}, Take(v)
      PROVE  ~Stored(worker[v].row)'
  <2>1. PICK a \in Rows :
          /\ action[a].status = "APPROVED"
          /\ worker' = [worker EXCEPT ![v].pc = "run", ![v].row = a]
    BY <1>4, TakeWrites
  <2>2. worker \in [Workers -> Worker]
    BY DEF TypeInv, TypeOK
  <2>3. worker'[v].row = a
    BY <2>1, <2>2 DEF Worker
  <2>4. ~Stored(a) /\ UNCHANGED attempts
    BY <1>0, <1>4, <2>1 DEF Unspent, Take, money
  <2>5. ~Stored(a)'
    BY <2>4 DEF Stored
  <2> QED
    BY <2>3, <2>5 DEF Stored
<1>5. ASSUME NEW v \in Workers,
             worker'[v].pc \in {"run", "ordered", "attempt"}, ~Take(v)
      PROVE  ~Stored(worker[v].row)'
  <2>1. Busy(v) /\ worker'[v].row = worker[v].row
    BY <1>5, WorkerMoves, WorkerStops DEF Busy
  <2>2. worker[v].pc \in {"run", "ordered", "attempt"} /\ ~RetryAttempt(v)
    <3>1. CASE ByWorker(v)
      BY <1>5, <3>1, AttemptFrom
    <3>2. ASSUME NEW h \in Handlers, CapturedCommit(h)
          PROVE  worker'[v].pc = worker[v].pc
      <4>1. worker \in [Workers -> Worker]
        BY DEF TypeInv, TypeOK
      <4> QED
        BY <3>2, <4>1 DEF CapturedCommit, OvertakeWorkers, Worker
    <3>3. CASE ~ByWorker(v)
      <4>1. worker'[v].pc = worker[v].pc
        BY <3>2, <3>3, WorkersKeep
      <4>2. ~RetryAttempt(v)
        BY <3>3 DEF ByWorker, WorkerStep
      <4> QED
        BY <1>5, <4>1, <4>2
    <3> QED
      BY <3>1, <3>3
  <2>3. PICK a : a = worker[v].row
    OBVIOUS
  <2>4. ~Stored(a) /\ a \in Rows
    BY <1>0, <2>1, <2>2, <2>3 DEF Unspent, TypeInv, WorkersLinked, Made, Busy
  <2>5. ASSUME NEW w \in Workers, RetryAttempt(w), worker[w].row = a PROVE FALSE
    BY <1>0, <1>1, <2>1, <2>2, <2>3, <2>5 DEF OneWorker
  <2>6. ~Stored(a)'
    BY <2>4, <2>5, StoredBy
  <2>7. worker'[v].row = a
    BY <2>1, <2>3
  <2> QED
    BY <2>6, <2>7 DEF Stored
<1>6. \A a \in Rows :
        action'[a].status \in {"ABSENT", "REJECTED", "APPROVED"} => ~Stored(a)'
  BY <1>3
<1>7. \A v \in Workers :
        worker'[v].pc \in {"run", "ordered", "attempt"} => ~Stored(worker[v].row)'
  BY <1>4, <1>5
<1> QED
  BY <1>6, <1>7 DEF Unspent

LEMMA NextAddsOne ==
  TypeInv /\ HeldInv /\ WorkInv /\ AttemptInv /\ [Next]_vars => AddsOneAttempt'
<1> SUFFICES ASSUME TypeInv, HeldInv, WorkInv, AttemptInv, [Next]_vars,
                    NEW p \in Payments, NEW k \in DOMAIN attempts'[p],
                    NEW a \in Rows, attempts'[p][k].order = a
             PROVE  /\ action'[a].type = "RETRY_PAYMENT"
                    /\ recovery'[action'[a].case].payment = p
                    /\ \A j \in DOMAIN attempts'[p] :
                         attempts'[p][j].order = a => j = k
  BY DEF AddsOneAttempt
<1>0. Unspent /\ AddsOneAttempt
  BY DEF AttemptInv
<1>1. ASSUME NEW w \in Workers, RetryAttempt(w), worker[w].row = a
      PROVE  Made(a) /\ ~Stored(a) /\ action[a].type = "RETRY_PAYMENT"
  BY <1>0, <1>1 DEF RetryAttempt, Unspent, TypeInv, WorkersLinked, WorkInv,
     Working
<1>2. ASSUME Stored(a) PROVE Made(a)
  BY <1>0, <1>2 DEF Unspent, Made
<1>3. ASSUME Made(a), action[a].type = "RETRY_PAYMENT",
             recovery[action[a].case].payment = p
      PROVE  /\ action'[a].type = "RETRY_PAYMENT"
             /\ recovery'[action'[a].case].payment = p
  BY <1>3, RowsStay, ExistingStay DEF TypeInv, ActionsLinked
<1>4. CASE k \in DOMAIN attempts[p] /\ attempts[p][k].order = a
  <2>1. Stored(a)
    BY <1>4 DEF Stored
  <2>2. /\ action[a].type = "RETRY_PAYMENT"
        /\ recovery[action[a].case].payment = p
        /\ \A j \in DOMAIN attempts[p] : attempts[p][j].order = a => j = k
    BY <1>0, <1>4 DEF AddsOneAttempt
  <2>3. ASSUME NEW j \in DOMAIN attempts'[p], attempts'[p][j].order = a
        PROVE  j = k
    BY <1>1, <2>1, <2>2, <2>3, AttemptAdded
  <2> QED
    BY <1>2, <1>3, <2>1, <2>2, <2>3
<1>5. ASSUME NEW w \in Workers, RetryAttempt(w), worker[w].row = a,
             recovery[CaseOf(w)].payment = p, k = Len(attempts[p]) + 1
      PROVE  /\ action'[a].type = "RETRY_PAYMENT"
             /\ recovery'[action'[a].case].payment = p
             /\ \A j \in DOMAIN attempts'[p] :
                  attempts'[p][j].order = a => j = k
  <2>1. /\ Made(a) /\ ~Stored(a) /\ action[a].type = "RETRY_PAYMENT"
        /\ recovery[action[a].case].payment = p
    BY <1>1, <1>5 DEF CaseOf
  <2>2. ASSUME NEW j \in DOMAIN attempts'[p], attempts'[p][j].order = a
        PROVE  j = k
    <3>1. ~(j \in DOMAIN attempts[p] /\ attempts[p][j].order = a)
      BY <2>1 DEF Stored
    <3> QED
      BY <1>5, <2>2, <3>1, AttemptAdded
  <2> QED
    BY <1>3, <2>1, <2>2
<1> QED
  BY <1>4, <1>5, AttemptAdded

\* However its handler is interrupted and its result refused, an action adds at
\* most one attempt, and to the payment of its own case.
THEOREM OneAttemptEach == Spec => []AddsOneAttempt
<1>1. AttemptInv => AddsOneAttempt
  BY DEF AttemptInv
<1>2. TypeInv /\ HeldInv /\ WorkInv /\ AttemptInv /\ [Next]_vars => AttemptInv'
  BY NextOneWorker, NextUnspent, NextAddsOne DEF AttemptInv
<1> QED
  BY <1>1, <1>2, InitTypeInv, NextTypeInv, InitHeldInv, NextHeldInv, InitWorkInv,
     NextWorkInv, InitAttemptInv, PTL DEF Spec

----------------------------------------------------------------------------
(* Without faults, whatever is under way has somebody who does it.         *)

Faultless == rejected + crashes = 0

\* A handler has the row of every case and run that is unfinished, and a worker
\* every row that is executed.
Attended ==
  Faultless =>
    /\ \A c \in Cases : Existing(c) /\ ~Made(c) =>
         \E h \in Handlers :
           handler[h].pc \in {"policy", "insert"} /\ handler[h].row = c
    /\ \A a \in Requests : agent[a] = "RUNNING" =>
         \E h \in Handlers : Taken(h) /\ handler[h].row = a
    /\ \A a \in Rows : action[a].status = "EXECUTING" =>
         \E w \in Workers : Busy(w) /\ worker[w].row = a

LEMMA NoFaultStep ==
  ASSUME TypeInv, [Next]_vars, Faultless'
  PROVE  /\ Faultless
         /\ \A h \in Handlers : ~HandlerCallFails(h) /\ ~CrashHandler(h)
         /\ \A w \in Workers : ~WorkerCallFails(w) /\ ~CrashWorker(w)
<1>0. /\ rejected \in Nat /\ crashes \in Nat
      /\ rejected' \in Nat /\ crashes' \in Nat
  BY NextTypeInv, RecoveryAssumption DEF TypeInv, TypeOK
<1>a. rejected' = 0 /\ crashes' = 0
  <2>1. rejected' + crashes' = 0
    BY DEF Faultless
  <2>2. \A m, n \in Nat : m + n = 0 => m = 0 /\ n = 0
    OBVIOUS
  <2> QED
    BY <1>0, <2>1, <2>2
<1>1. ASSUME NEW h \in Handlers, HandlerCallFails(h) \/ CrashHandler(h)
      PROVE  FALSE
  BY <1>0, <1>a, <1>1 DEF HandlerCallFails, CrashHandler
<1>2. ASSUME NEW w \in Workers, WorkerCallFails(w) \/ CrashWorker(w)
      PROVE  FALSE
  <2>1. \/ rejected' = rejected + 1 /\ UNCHANGED crashes
        \/ crashes' = crashes + 1 /\ UNCHANGED rejected
    BY <1>2 DEF WorkerCallFails, CrashWorker
  <2> QED
    BY <1>0, <1>a, <2>1
<1>3. ASSUME NEW h \in Handlers, ByHandler(h) PROVE UNCHANGED <<rejected, crashes>>
  BY <1>1, <1>3 DEF ByHandler, HandlerStep, counts, ReceiveFailed,
     ReceiveCaptured, AgentStart, FailedBegin, FailedCommit, Policy, Insert,
     CapturedBegin, CapturedPromise, CapturedCase, CapturedCommit,
     AgentRecommend, AgentReport
<1>4. ASSUME NEW w \in Workers, ByWorker(w) PROVE UNCHANGED <<rejected, crashes>>
  BY <1>2, <1>4 DEF ByWorker, WorkerStep, counts, Take, VoiceRead, VoiceDial,
     VoiceProgress, RetryOrder, RetryNumber, RetryAttempt, LinkRead,
     LinkCreate, Notify, EscalateRead, EscalateWrite, Complete
<1>5. UNCHANGED <<rejected, crashes>>
  BY <1>3, <1>4, NextBy, ListenerFrame, MakerFrame, ScriptFrame, StutterFrame
<1> QED
  BY <1>0, <1>a, <1>1, <1>2, <1>5 DEF Faultless

\* A handler that has a row keeps it until its insert or its report.
LEMMA HoldsOn ==
  ASSUME TypeInv, [Next]_vars, Faultless', NEW g \in Handlers, Taken(g),
         ~Insert(g), ~AgentReport(g)
  PROVE  /\ Taken(g)' /\ handler'[g].row = handler[g].row
         /\ handler[g].pc \in {"policy", "insert"} =>
              handler'[g].pc \in {"policy", "insert"}
<1>0. handler \in [Handlers -> Handler]
  BY DEF TypeInv, TypeOK
<1>1. CASE Policy(g)
  <2>1. handler'[g].pc = "insert" /\ handler'[g].row = handler[g].row
    BY <1>0, <1>1 DEF Policy, Handler
  <2> QED
    BY <2>1 DEF Taken, Holding
<1>2. CASE AgentRecommend(g)
  <2>1. /\ handler'[g].pc \in {"policy", "reportFailed"}
        /\ handler[g].pc = "recommend" /\ handler'[g].row = handler[g].row
    BY <1>0, <1>2 DEF AgentRecommend, Handler
  <2> QED
    BY <2>1 DEF Taken, Holding
<1>3. ASSUME ByHandler(g), ~Policy(g), ~AgentRecommend(g) PROVE FALSE
  BY <1>3, NoFaultStep DEF ByHandler, HandlerStep, ReceiveFailed,
     ReceiveCaptured, AgentStart, FailedBegin, FailedCommit, CapturedBegin,
     CapturedPromise, CapturedCase, CapturedCommit, Taken, Holding
<1>4. ASSUME NEW h \in Handlers, ByHandler(h), h # g
      PROVE  handler'[g] = handler[g]
  BY <1>0, <1>4, HandlerPuts, FailedCommitWrites
<1>5. CASE handler'[g] = handler[g]
  BY <1>5 DEF Taken
<1>6. \/ ByHandler(g)
      \/ \E h \in Handlers : ByHandler(h) /\ h # g
      \/ UNCHANGED handler
  BY NextBy, WorkerFrame, ListenerFrame, MakerFrame, ScriptFrame, StutterFrame
<1> QED
  BY <1>1, <1>2, <1>3, <1>4, <1>5, <1>6

LEMMA InitAttended == Init => Attended
  BY DEF Init, Attended, Existing

LEMMA NextAttended ==
  TypeInv /\ HeldInv /\ WorkInv /\ OneWorker /\ Attended /\ [Next]_vars
    => Attended'
<1> SUFFICES ASSUME TypeInv, HeldInv, WorkInv, OneWorker, Attended,
                    [Next]_vars, Faultless'
             PROVE  /\ \A c \in Cases : Existing(c)' /\ ~Made(c)' =>
                         \E h \in Handlers :
                           /\ handler'[h].pc \in {"policy", "insert"}
                           /\ handler'[h].row = c
                    /\ \A a \in Requests : agent'[a] = "RUNNING" =>
                         \E h \in Handlers : Taken(h)' /\ handler'[h].row = a
                    /\ \A a \in Rows : action'[a].status = "EXECUTING" =>
                         \E w \in Workers : Busy(w)' /\ worker'[w].row = a
  BY DEF Attended
<1>0. /\ handler \in [Handlers -> Handler] /\ worker \in [Workers -> Worker]
      /\ action \in [Rows -> Action] /\ action' \in [Rows -> Action]
      /\ recovery \in [Cases -> Case]
      /\ agent \in [Requests -> {"none", "RUNNING", "COMPLETED", "FAILED"}]
      /\ Cases \cap Requests = {} /\ Rows = Cases \cup Requests
  BY MadeStay, RecoveryAssumption DEF TypeInv, TypeOK, Rows
<1>1. Faultless
  BY NoFaultStep
<1>2. ASSUME NEW c \in Cases, Existing(c), ~Made(c)'
      PROVE  \E h \in Handlers :
               handler'[h].pc \in {"policy", "insert"} /\ handler'[h].row = c
  <2>1. ~Made(c)
    BY <1>2, MadeStay
  <2>2. PICK h \in Handlers :
          handler[h].pc \in {"policy", "insert"} /\ handler[h].row = c
    BY <1>1, <1>2, <2>1 DEF Attended
  <2>3. ~Insert(h)
    BY <1>2, <2>2, InsertWrites, <1>0 DEF Made
  <2>4. Taken(h) /\ ~AgentReport(h)
    BY <2>2 DEF Taken, Holding, AgentReport
  <2>5. handler'[h].pc \in {"policy", "insert"} /\ handler'[h].row = c
    BY <2>2, <2>3, <2>4, HoldsOn
  <2> QED
    BY <2>5
<1>3. ASSUME NEW c \in Cases, ~Existing(c), Existing(c)'
      PROVE  \E h \in Handlers :
               handler'[h].pc \in {"policy", "insert"} /\ handler'[h].row = c
  <2>1. ASSUME NEW h \in Handlers, CapturedCommit(h) PROVE FALSE
    BY <1>0, <1>3, <2>1, ClosedCase DEF CapturedCommit, Existing
  <2>2. ASSUME NEW d \in Cases, NEW s \in Active, Existing(d),
               recovery' = [recovery EXCEPT ![d].status = s]
        PROVE  FALSE
    BY <1>0, <1>3, <2>2 DEF Existing
  <2>3. PICK h \in Handlers : FailedCommit(h)
    BY <1>3, <2>1, <2>2, StatusWriters DEF Existing
  <2>4. PICK d \in Cases :
          /\ recovery' = [recovery EXCEPT
               ![d] = [status |-> "OPEN", payment |-> handler[h].payment]]
          /\ handler' = [handler EXCEPT ![h] =
               [IdleHandler EXCEPT !.pc = "policy",
                                   !.payment = handler[h].payment,
                                   !.row = d, !.case = d]]
    BY <1>3, <2>3, FailedCommitWrites DEF Existing
  <2>5. c = d
    BY <1>0, <1>3, <2>4 DEF Existing
  <2>6. handler'[h] = [IdleHandler EXCEPT !.pc = "policy",
                         !.payment = handler[h].payment,
                         !.row = d, !.case = d]
    BY <1>0, <2>4
  <2>7. handler'[h].pc = "policy" /\ handler'[h].row = c
    BY <2>5, <2>6 DEF IdleHandler
  <2> QED
    BY <2>7
<1>4. ASSUME NEW a \in Requests, agent'[a] = "RUNNING", agent[a] = "RUNNING"
      PROVE  \E h \in Handlers : Taken(h)' /\ handler'[h].row = a
  <2>1. PICK h \in Handlers : Taken(h) /\ handler[h].row = a
    BY <1>1, <1>4 DEF Attended
  <2>2. ASSUME AgentReport(h) PROVE FALSE
    BY <1>0, <1>4, <2>1, <2>2 DEF AgentReport
  <2>3. CASE Insert(h)
    <3>1. handler'[h].pc = "report" /\ handler'[h].row = a
      BY <1>0, <2>1, <2>3 DEF Insert, Handler
    <3> QED
      BY <3>1 DEF Taken, Holding
  <2>4. CASE ~Insert(h)
    BY <2>1, <2>2, <2>4, HoldsOn
  <2> QED
    BY <2>3, <2>4
<1>5. ASSUME NEW a \in Requests, agent'[a] = "RUNNING", agent[a] # "RUNNING"
      PROVE  \E h \in Handlers : Taken(h)' /\ handler'[h].row = a
  <2>1. ASSUME NEW h \in Handlers, AgentReport(h) PROVE FALSE
    <3>1. \A s \in {"COMPLETED", "FAILED"} : s # "RUNNING"
      OBVIOUS
    <3>2. PICK s \in {"COMPLETED", "FAILED"} :
            agent' = [agent EXCEPT ![handler[h].row] = s]
      BY <2>1 DEF AgentReport
    <3> QED
      BY <1>0, <1>5, <3>1, <3>2
  <2>2. ASSUME NEW h \in Handlers, ByHandler(h)
        PROVE  \E b \in Requests : AgentStart(h, b)
    BY <1>5, <2>1, <2>2, NoFaultStep DEF ByHandler, HandlerStep, rows, work,
       ReceiveFailed, ReceiveCaptured, FailedBegin, FailedCommit, Policy,
       Insert, CapturedBegin, CapturedPromise, CapturedCase, CapturedCommit,
       AgentRecommend
  <2>3. ~UNCHANGED agent
    BY <1>5
  <2>4. PICK h \in Handlers : ByHandler(h)
    <3>1. ASSUME NEW m \in Makers, ByMaker(m) PROVE UNCHANGED agent
      BY <3>1, MakerFrame
    <3>2. ASSUME NEW s \in Scripts, ByScript(s) PROVE UNCHANGED agent
      BY <3>2, ScriptFrame
    <3> QED
      BY <2>3, <3>1, <3>2, NextBy, WorkerFrame, ListenerFrame, StutterFrame
  <2>5. PICK b \in Requests : AgentStart(h, b)
    BY <2>2, <2>4
  <2>6. b = a
    BY <1>0, <1>5, <2>5 DEF AgentStart
  <2>7. handler'[h].pc = "recommend" /\ handler'[h].row = a
    BY <1>0, <2>5, <2>6 DEF AgentStart, Handler
  <2> QED
    BY <2>7 DEF Taken, Holding
<1>6. ASSUME NEW a \in Rows, action'[a].status = "EXECUTING",
             action[a].status = "EXECUTING"
      PROVE  \E w \in Workers : Busy(w)' /\ worker'[w].row = a
  <2>1. PICK w \in Workers : Busy(w) /\ worker[w].row = a
    BY <1>1, <1>6 DEF Attended
  <2>2. ~Take(w)
    BY <2>1 DEF Take, Busy
  <2>3. ~Ends(w)
    BY <1>6, <2>1, EndWrites DEF Ends
  <2> QED
    BY <2>1, <2>2, <2>3, WorkerMoves, NoFaultStep
<1>7. ASSUME NEW a \in Rows, action'[a].status = "EXECUTING",
             action[a].status # "EXECUTING"
      PROVE  \E w \in Workers : Busy(w)' /\ worker'[w].row = a
  <2>1. ASSUME NEW h \in Handlers, Insert(h) PROVE FALSE
    BY <1>7, <2>1, InsertWrites
  <2>2. ASSUME NEW w \in Workers, Ends(w) PROVE FALSE
    BY <1>7, <2>2, EndWrites DEF Ends
  <2>3. PICK w \in Workers : Take(w)
    BY <1>7, <2>1, <2>2, ActionWriters
  <2>4. PICK b \in Rows :
          /\ \A d \in Rows : d # b => action'[d] = action[d]
          /\ worker' = [worker EXCEPT ![w].pc = "run", ![w].row = b]
    BY <2>3, TakeWrites
  <2>5. b = a
    BY <1>7, <2>4
  <2>6. worker'[w].pc = "run" /\ worker'[w].row = a
    BY <1>0, <2>4, <2>5 DEF Worker
  <2> QED
    BY <2>6 DEF Busy
<1>8. /\ \A c \in Cases : Existing(c)' /\ ~Made(c)' =>
           \E h \in Handlers :
             handler'[h].pc \in {"policy", "insert"} /\ handler'[h].row = c
      /\ \A a \in Requests : agent'[a] = "RUNNING" =>
           \E h \in Handlers : Taken(h)' /\ handler'[h].row = a
  BY <1>2, <1>3, <1>4, <1>5
<1> QED
  BY <1>6, <1>7, <1>8

\* Without faults nothing is left lying: every unfinished case, run of the
\* agent and action has a process at work on it.
THEOREM NothingLeftLying == Spec => []NothingAbandoned
<1>1. TypeInv /\ Attended => NothingAbandoned
  <2> SUFFICES ASSUME TypeInv, Attended PROVE NothingAbandoned
    OBVIOUS
  <2>1. \A h \in Handlers : Taken(h) => handler[h].pc # "idle"
    BY DEF Taken, Holding
  <2>2. Cases \subseteq Rows
    BY DEF Rows
  <2> QED
    BY <2>1, <2>2 DEF Attended, NothingAbandoned, Faultless, Existing, Made, Busy
<1> QED
  BY <1>1, InitTypeInv, NextTypeInv, InitHeldInv, NextHeldInv, InitWorkInv,
     NextWorkInv, InitOneWorker, NextOneWorker, InitAttended, NextAttended,
     PTL DEF Spec
=============================================================================
