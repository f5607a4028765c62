----------------------- MODULE WebhookEvents_proofs -----------------------
(***************************************************************************)
(* Proofs about WebhookEvents, for any sets of events, deliveries and      *)
(* processes and any values of the limits.                                 *)
(***************************************************************************)
EXTENDS WebhookEvents, FiniteSetTheorems, TLAPS

(* Which actions write which variable.                                     *)

\* The actions that write the table.
LEMMA RowWriters ==
  [Next]_vars =>
    \/ UNCHANGED row
    \/ \E d \in Deliveries : Create(d) \/ Mark(d) \/ Succeed(d) \/ Fail(d)
    \/ \E i \in Workers :
         Claim(i) \/ ScriptClaim(i) \/ RetrySucceed(i) \/ RetryFail(i)
    \/ \E e \in Events : RetryTimeComes(e) \/ LockTimesOut(e)
  BY DEF Next, vars, RequestStep, WorkerStep, Reject, Deliver, Lookup,
         Dispatched, RequestCallFails, Poll, Visit, ScriptPoll,
         RetryDispatched, Reread, WorkerCallFails, Crash

\* The actions that write the handlers' records.
LEMMA RequestWriters ==
  [Next]_vars =>
    \/ UNCHANGED request
    \/ \E d \in Deliveries :
         \/ Reject(d)
         \/ \E e \in Events, i \in Instances : Deliver(d, e, i)
         \/ RequestStep(d)
         \/ RequestCallFails(d)
    \/ \E i \in Workers : Crash(i)
  BY DEF Next, vars, WorkerStep, Poll, Visit, Claim, ScriptPoll, ScriptClaim,
         RetryDispatched, RetrySucceed, Reread, RetryFail, WorkerCallFails,
         RetryTimeComes, LockTimesOut

\* The actions that write the retry passes' records.
LEMMA WorkerWriters ==
  [Next]_vars =>
    \/ UNCHANGED worker
    \/ \E i \in Workers : WorkerStep(i) \/ WorkerCallFails(i) \/ Crash(i)
  BY DEF Next, vars, RequestStep, Reject, Deliver, Create, Lookup, Mark,
         Dispatched, Succeed, Fail, RequestCallFails, RetryTimeComes,
         LockTimesOut

\* Only a claim of an instance's pass counts as one.
LEMMA ClaimsWriters ==
  [Next]_vars => UNCHANGED claims \/ \E i \in Workers : Claim(i)
  BY DEF Next, vars, RequestStep, WorkerStep, Reject, Deliver, Create, Lookup,
         Mark, Dispatched, Succeed, Fail, RequestCallFails, Poll, Visit,
         ScriptPoll, ScriptClaim, RetryDispatched, RetrySucceed, Reread,
         RetryFail, WorkerCallFails, RetryTimeComes, LockTimesOut, Crash

\* Only the route's duplicate check readmits an event.
LEMMA ReadmittedWriters ==
  [Next]_vars => UNCHANGED readmitted \/ \E d \in Deliveries : Lookup(d)
  BY DEF Next, vars, RequestStep, WorkerStep, Reject, Deliver, Create, Mark,
         Dispatched, Succeed, Fail, RequestCallFails, Poll, Visit, Claim,
         ScriptPoll, ScriptClaim, RetryDispatched, RetrySucceed, Reread,
         RetryFail, WorkerCallFails, RetryTimeComes, LockTimesOut, Crash

----------------------------------------------------------------------------
(* Types.                                                                  *)

RequestTyped == request \in [Deliveries -> Request]
WorkerTyped == worker \in [Workers -> Worker]
RowTyped == row \in [Events -> Row]

\* A handler past its start has an event, and so has a worker past its choice.
RequestEngaged ==
  \A d \in Deliveries :
    request[d].pc \in {"create", "lookup", "mark", "dispatch",
                       "succeed", "fail"} => request[d].event \in Events
WorkerEngaged ==
  \A i \in Workers : worker[i].pc # "idle" => worker[i].event \in Events

TypeInv == TypeOK /\ RequestEngaged /\ WorkerEngaged

\* What the handler's actions do to their request.
LEMMA RequestSteps ==
  ASSUME TypeInv, NEW d \in Deliveries,
         \/ Reject(d)
         \/ \E e \in Events, i \in Instances : Deliver(d, e, i)
         \/ RequestStep(d)
         \/ RequestCallFails(d)
  PROVE  RequestTyped' /\ RequestEngaged'
<1>0. request[d] \in Request /\ row \in [Events -> Row]
  BY DEF TypeInv, TypeOK
<1>1. CASE Reject(d)
  <2>1. RequestTyped'
    BY <1>0, <1>1
       DEF Reject, TypeInv, TypeOK, RequestTyped, Request, RequestPc,
           RequestEngaged
  <2>2. RequestEngaged'
    BY <1>0, <1>1 DEF Reject, TypeInv, TypeOK, RequestEngaged, Request
  <2> QED
    BY <2>1, <2>2
<1>2. CASE \E e \in Events, i \in Instances : Deliver(d, e, i)
  <2>0. PICK e \in Events, i \in Instances : Deliver(d, e, i)
    BY <1>2
  <2>1. RequestTyped'
    BY <1>0, <2>0
       DEF Deliver, TypeInv, TypeOK, RequestTyped, Request, RequestPc,
           RequestEngaged
  <2>2. RequestEngaged'
    BY <1>0, <2>0 DEF Deliver, TypeInv, TypeOK, RequestEngaged, Request
  <2> QED
    BY <2>1, <2>2
<1>3. CASE Create(d)
  <2>1. RequestTyped'
    BY <1>0, <1>3
       DEF Create, TypeInv, TypeOK, RequestTyped, Request, RequestPc,
           RequestEngaged
  <2>2. RequestEngaged'
    BY <1>0, <1>3 DEF Create, TypeInv, TypeOK, RequestEngaged, Request
  <2> QED
    BY <2>1, <2>2
<1>4. CASE Lookup(d)
  <2>1. RequestTyped'
    BY <1>0, <1>4
       DEF Lookup, TypeInv, TypeOK, RequestTyped, Request, RequestPc,
           RequestEngaged, Row
  <2>2. RequestEngaged'
    BY <1>0, <1>4 DEF Lookup, TypeInv, TypeOK, RequestEngaged, Request
  <2> QED
    BY <2>1, <2>2
<1>5. CASE Mark(d)
  <2>1. RequestTyped'
    BY <1>0, <1>5
       DEF Mark, TypeInv, TypeOK, RequestTyped, Request, RequestPc,
           RequestEngaged
  <2>2. RequestEngaged'
    BY <1>0, <1>5 DEF Mark, TypeInv, TypeOK, RequestEngaged, Request
  <2> QED
    BY <2>1, <2>2
<1>6. CASE Dispatched(d)
  <2>1. RequestTyped'
    BY <1>0, <1>6
       DEF Dispatched, TypeInv, TypeOK, RequestTyped, Request, RequestPc,
           RequestEngaged
  <2>2. RequestEngaged'
    BY <1>0, <1>6 DEF Dispatched, TypeInv, TypeOK, RequestEngaged, Request
  <2> QED
    BY <2>1, <2>2
<1>7. CASE Succeed(d)
  <2>1. RequestTyped'
    BY <1>0, <1>7
       DEF Succeed, TypeInv, TypeOK, RequestTyped, Request, RequestPc,
           RequestEngaged
  <2>2. RequestEngaged'
    BY <1>0, <1>7 DEF Succeed, TypeInv, TypeOK, RequestEngaged, Request
  <2> QED
    BY <2>1, <2>2
<1>8. CASE Fail(d)
  <2>1. RequestTyped'
    BY <1>0, <1>8
       DEF Fail, TypeInv, TypeOK, RequestTyped, Request, RequestPc,
           RequestEngaged
  <2>2. RequestEngaged'
    BY <1>0, <1>8 DEF Fail, TypeInv, TypeOK, RequestEngaged, Request
  <2> QED
    BY <2>1, <2>2
<1>9. CASE RequestCallFails(d)
  <2>1. RequestTyped'
    BY <1>0, <1>9
       DEF RequestCallFails, TypeInv, TypeOK, RequestTyped, Request,
           RequestPc, RequestEngaged
  <2>2. RequestEngaged'
    BY <1>0, <1>9 DEF RequestCallFails, TypeInv, TypeOK, RequestEngaged, Request
  <2> QED
    BY <2>1, <2>2
<1> QED
  BY <1>1, <1>2, <1>3, <1>4, <1>5, <1>6, <1>7, <1>8, <1>9 DEF RequestStep

\* What the retry passes do to their worker record.
LEMMA WorkerSteps ==
  ASSUME TypeInv, NEW i \in Workers, WorkerStep(i) \/ WorkerCallFails(i)
  PROVE  WorkerTyped' /\ WorkerEngaged'
<1>0. worker[i] \in Worker /\ row \in [Events -> Row]
  BY DEF TypeInv, TypeOK
<1>1. CASE Poll(i)
  <2>1. WorkerTyped'
    BY <1>0, <1>1
       DEF Poll, TypeInv, TypeOK, WorkerTyped, Worker, WorkerPc,
           WorkerEngaged, Oldest
  <2>2. WorkerEngaged'
    BY <1>0, <1>1 DEF Poll, TypeInv, TypeOK, WorkerEngaged, Worker, Oldest
  <2> QED
    BY <2>1, <2>2
<1>2. CASE Visit(i)
  <2>1. WorkerTyped'
    BY <1>0, <1>2
       DEF Visit, TypeInv, TypeOK, WorkerTyped, Worker, WorkerPc,
           WorkerEngaged
  <2>2. WorkerEngaged'
    BY <1>0, <1>2 DEF Visit, TypeInv, TypeOK, WorkerEngaged, Worker
  <2> QED
    BY <2>1, <2>2
<1>3. CASE Claim(i)
  <2>1. WorkerTyped'
    BY <1>0, <1>3
       DEF Claim, TypeInv, TypeOK, WorkerTyped, Worker, WorkerPc,
           WorkerEngaged
  <2>2. WorkerEngaged'
    BY <1>0, <1>3 DEF Claim, TypeInv, TypeOK, WorkerEngaged, Worker
  <2> QED
    BY <2>1, <2>2
<1>4. CASE ScriptPoll(i)
  <2>1. WorkerTyped'
    BY <1>0, <1>4
       DEF ScriptPoll, TypeInv, TypeOK, WorkerTyped, Worker, WorkerPc,
           WorkerEngaged
  <2>2. WorkerEngaged'
    BY <1>0, <1>4 DEF ScriptPoll, TypeInv, TypeOK, WorkerEngaged, Worker
  <2> QED
    BY <2>1, <2>2
<1>5. CASE ScriptClaim(i)
  <2>1. WorkerTyped'
    BY <1>0, <1>5
       DEF ScriptClaim, TypeInv, TypeOK, WorkerTyped, Worker, WorkerPc,
           WorkerEngaged
  <2>2. WorkerEngaged'
    BY <1>0, <1>5 DEF ScriptClaim, TypeInv, TypeOK, WorkerEngaged, Worker
  <2> QED
    BY <2>1, <2>2
<1>6. CASE RetryDispatched(i)
  <2>1. WorkerTyped'
    BY <1>0, <1>6
       DEF RetryDispatched, TypeInv, TypeOK, WorkerTyped, Worker, WorkerPc,
           WorkerEngaged
  <2>2. WorkerEngaged'
    BY <1>0, <1>6 DEF RetryDispatched, TypeInv, TypeOK, WorkerEngaged, Worker
  <2> QED
    BY <2>1, <2>2
<1>7. CASE RetrySucceed(i)
  <2>1. WorkerTyped'
    BY <1>0, <1>7
       DEF RetrySucceed, TypeInv, TypeOK, WorkerTyped, Worker, WorkerPc,
           WorkerEngaged
  <2>2. WorkerEngaged'
    BY <1>0, <1>7 DEF RetrySucceed, TypeInv, TypeOK, WorkerEngaged, Worker
  <2> QED
    BY <2>1, <2>2
<1>8. CASE Reread(i)
  <2>1. WorkerTyped'
    BY <1>0, <1>8
       DEF Reread, TypeInv, TypeOK, WorkerTyped, Worker, WorkerPc,
           WorkerEngaged, Row
  <2>2. WorkerEngaged'
    BY <1>0, <1>8 DEF Reread, TypeInv, TypeOK, WorkerEngaged, Worker, Row
  <2> QED
    BY <2>1, <2>2
<1>9. CASE RetryFail(i)
  <2>1. WorkerTyped'
    BY <1>0, <1>9
       DEF RetryFail, TypeInv, TypeOK, WorkerTyped, Worker, WorkerPc,
           WorkerEngaged
  <2>2. WorkerEngaged'
    BY <1>0, <1>9 DEF RetryFail, TypeInv, TypeOK, WorkerEngaged, Worker
  <2> QED
    BY <2>1, <2>2
<1>10. CASE WorkerCallFails(i)
  <2>1. WorkerTyped'
    BY <1>0, <1>10
       DEF WorkerCallFails, TypeInv, TypeOK, WorkerTyped, Worker, WorkerPc,
           WorkerEngaged, Idle
  <2>2. WorkerEngaged'
    BY <1>0, <1>10
       DEF WorkerCallFails, TypeInv, TypeOK, WorkerEngaged, Worker, Idle
  <2> QED
    BY <2>1, <2>2
<1> QED
  BY <1>1, <1>2, <1>3, <1>4, <1>5, <1>6, <1>7, <1>8, <1>9, <1>10 DEF WorkerStep

\* What a step does to a row, one case per write.
LEMMA RowSteps == TypeInv /\ [Next]_vars => RowTyped'
<1> SUFFICES ASSUME TypeInv, [Next]_vars PROVE RowTyped'
  OBVIOUS
<1>0. row \in [Events -> Row]
  BY DEF TypeInv, TypeOK
<1>1. ASSUME NEW d \in Deliveries, Create(d) PROVE RowTyped'
  <2>1. Cardinality(Stored) + 1 \in Nat
    BY CountsAssumption, FS_Subset, FS_CardinalityType DEF Stored
  <2> QED
    BY <1>0, <1>1, <2>1 DEF Create, RowTyped, Row, Statuses
<1>2. ASSUME NEW d \in Deliveries, Mark(d) \/ Succeed(d) \/ Fail(d)
      PROVE  RowTyped'
  <2>1. request[d].event \in Events
    BY <1>2 DEF TypeInv, RequestEngaged, Mark, Succeed, Fail
  <2> QED
    BY <1>0, <1>2, <2>1 DEF Mark, Succeed, Fail, RowTyped, Row, Statuses
<1>3. ASSUME NEW i \in Workers,
             Claim(i) \/ RetrySucceed(i) \/ RetryFail(i)
      PROVE  RowTyped'
  <2>1. worker[i].event \in Events
    BY <1>3 DEF TypeInv, WorkerEngaged, Claim, RetrySucceed, RetryFail
  <2>2. CASE Claim(i)
    BY <1>0, <2>1, <2>2 DEF Claim, RowTyped, Row, Statuses
  <2>3. CASE RetrySucceed(i)
    BY <1>0, <2>1, <2>3 DEF RetrySucceed, RowTyped, Row, Statuses
  <2>4. CASE RetryFail(i)
    BY <1>0, <2>1, <2>4 DEF RetryFail, RowTyped, Row, Statuses
  <2> QED
    BY <1>3, <2>2, <2>3, <2>4
<1>4. ASSUME NEW i \in Workers, ScriptClaim(i) PROVE RowTyped'
  <2>1. worker[i].batch \in SUBSET Events
    BY DEF TypeInv, TypeOK, Worker
  <2> QED
    BY <1>0, <1>4, <2>1 DEF ScriptClaim, RowTyped, Row, Statuses
<1>5. ASSUME NEW e \in Events, RetryTimeComes(e) \/ LockTimesOut(e)
      PROVE  RowTyped'
  BY <1>0, <1>5 DEF RetryTimeComes, LockTimesOut, RowTyped, Row, Statuses
<1>6. CASE row' = row
  BY <1>0, <1>6 DEF RowTyped
<1> QED
  BY <1>1, <1>2, <1>3, <1>4, <1>5, <1>6, RowWriters

\* The histories and the fault counter keep their types.
LEMMA HistorySteps ==
  TypeInv /\ [Next]_vars =>
    /\ claims' \in [Events -> Nat]
    /\ readmitted' \in [Events -> BOOLEAN]
    /\ faults' \in 0..MaxFaults
<1> SUFFICES ASSUME TypeInv, [Next]_vars
             PROVE  /\ claims' \in [Events -> Nat]
                    /\ readmitted' \in [Events -> BOOLEAN]
                    /\ faults' \in 0..MaxFaults
  OBVIOUS
<1>0. /\ claims \in [Events -> Nat] /\ readmitted \in [Events -> BOOLEAN]
      /\ faults \in 0..MaxFaults /\ MaxFaults \in Nat
  BY CountsAssumption DEF TypeInv, TypeOK
<1>1. ASSUME NEW i \in Workers, Claim(i)
      PROVE  claims' \in [Events -> Nat] /\ UNCHANGED <<readmitted, faults>>
  <2>1. worker[i].event \in Events
    BY <1>1 DEF TypeInv, WorkerEngaged, Claim
  <2> QED
    BY <1>0, <1>1, <2>1 DEF Claim
<1>2. ASSUME NEW d \in Deliveries, Lookup(d)
      PROVE  readmitted' \in [Events -> BOOLEAN] /\ UNCHANGED <<claims, faults>>
  BY <1>0, <1>2 DEF Lookup
<1>3. ASSUME faults < MaxFaults, faults' = faults + 1,
             UNCHANGED <<claims, readmitted>>
      PROVE  faults' \in 0..MaxFaults /\ UNCHANGED <<claims, readmitted>>
  BY <1>0, <1>3
<1>4. CASE UNCHANGED <<claims, readmitted, faults>>
  BY <1>0, <1>4
<1> QED
  BY <1>0, <1>1, <1>2, <1>3, <1>4
     DEF Next, vars, RequestStep, WorkerStep, Reject, Deliver, Create, Mark,
         Dispatched, Succeed, Fail, RequestCallFails, Poll, Visit, ScriptPoll,
         ScriptClaim, RetryDispatched, RetrySucceed, Reread, RetryFail,
         WorkerCallFails, RetryTimeComes, LockTimesOut, Crash

\* A crash leaves well-formed handlers and passes behind.
LEMMA CrashSteps ==
  ASSUME TypeInv, NEW i \in Workers, Crash(i)
  PROVE  RequestTyped' /\ RequestEngaged' /\ WorkerTyped' /\ WorkerEngaged'
<1>1. RequestTyped' /\ RequestEngaged'
  BY DEF Crash, TypeInv, TypeOK, RequestTyped, RequestEngaged, Request,
         RequestPc
<1>2. WorkerTyped' /\ WorkerEngaged'
  BY DEF Crash, TypeInv, TypeOK, WorkerTyped, WorkerEngaged, Worker,
         WorkerPc, Idle
<1> QED
  BY <1>1, <1>2

\* Every step of the route, the passes and the environment keeps the types.
LEMMA NextTypeInv == TypeInv /\ [Next]_vars => TypeInv'
<1> SUFFICES ASSUME TypeInv, [Next]_vars PROVE TypeInv'
  OBVIOUS
<1>1. RequestTyped' /\ RequestEngaged' /\ WorkerTyped' /\ WorkerEngaged'
  <2>0. RequestTyped /\ RequestEngaged /\ WorkerTyped /\ WorkerEngaged
    BY DEF TypeInv, TypeOK, RequestTyped, WorkerTyped
  <2>1. ASSUME NEW d \in Deliveries,
               \/ Reject(d)
               \/ \E e \in Events, i \in Instances : Deliver(d, e, i)
               \/ RequestStep(d)
               \/ RequestCallFails(d)
        PROVE  /\ RequestTyped' /\ RequestEngaged'
               /\ WorkerTyped' /\ WorkerEngaged'
    <3>1. RequestTyped' /\ RequestEngaged'
      BY <2>1, RequestSteps
    <3>2. UNCHANGED worker
      BY <2>1 DEF Reject, Deliver, RequestStep, RequestCallFails, Create,
                  Lookup, Mark, Dispatched, Succeed, Fail
    <3> QED
      BY <2>0, <3>1, <3>2 DEF WorkerTyped, WorkerEngaged
  <2>2. ASSUME NEW i \in Workers, WorkerStep(i) \/ WorkerCallFails(i)
        PROVE  /\ RequestTyped' /\ RequestEngaged'
               /\ WorkerTyped' /\ WorkerEngaged'
    <3>1. WorkerTyped' /\ WorkerEngaged'
      BY <2>2, WorkerSteps
    <3>2. UNCHANGED request
      BY <2>2 DEF WorkerStep, WorkerCallFails, Poll, Visit, Claim, ScriptPoll,
                  ScriptClaim, RetryDispatched, RetrySucceed, Reread, RetryFail
    <3> QED
      BY <2>0, <3>1, <3>2 DEF RequestTyped, RequestEngaged
  <2>3. ASSUME NEW i \in Workers, Crash(i)
        PROVE  /\ RequestTyped' /\ RequestEngaged'
               /\ WorkerTyped' /\ WorkerEngaged'
    BY <2>3, CrashSteps
  <2>4. CASE UNCHANGED <<request, worker>>
    BY <2>0, <2>4 DEF RequestTyped, RequestEngaged, WorkerTyped, WorkerEngaged
  <2> QED
    BY <2>1, <2>2, <2>3, <2>4
       DEF Next, vars, RetryTimeComes, LockTimesOut
<1> QED
  BY <1>1, RowSteps, HistorySteps
     DEF TypeInv, TypeOK, RequestTyped, WorkerTyped, RowTyped

\* The empty table and idle processes are well typed.
LEMMA InitTypeInv == Init => TypeInv
<1> SUFFICES ASSUME Init PROVE TypeInv
  OBVIOUS
<1>1. row \in [Events -> Row]
  BY DEF Init, NoRow, Row, Statuses
<1>2. request \in [Deliveries -> Request] /\ RequestEngaged
  BY DEF Init, Unsent, Request, RequestPc, RequestEngaged
<1>3. worker \in [Workers -> Worker] /\ WorkerEngaged
  BY DEF Init, Idle, Worker, WorkerPc, WorkerEngaged
<1> QED
  BY <1>1, <1>2, <1>3, CountsAssumption DEF Init, TypeInv, TypeOK

\* Every row, handler and worker always has its declared shape.
THEOREM TypeCorrect == Spec => []TypeOK
<1>1. TypeInv => TypeOK
  BY DEF TypeInv
<1> QED
  BY <1>1, InitTypeInv, NextTypeInv, PTL DEF Spec

----------------------------------------------------------------------------
(* Counting attempts.                                                      *)

\* No step takes an attempt back.
LEMMA AttemptsGrow ==
  ASSUME TypeInv, [Next]_vars, NEW e \in Events
  PROVE  row'[e].attempts >= row[e].attempts
<1>0. row \in [Events -> Row] /\ row[e].attempts \in Nat
  BY DEF TypeInv, TypeOK, Row
<1>1. ASSUME NEW d \in Deliveries,
             Create(d) \/ Mark(d) \/ Succeed(d) \/ Fail(d)
      PROVE  row'[e].attempts >= row[e].attempts
  <2>1. CASE Create(d)
    BY <1>0, <2>1 DEF Create, Row
  <2>2. CASE Mark(d)
    BY <1>0, <2>2 DEF Mark, Row
  <2>3. CASE Succeed(d)
    BY <1>0, <2>3 DEF Succeed, Row
  <2>4. CASE Fail(d)
    BY <1>0, <2>4 DEF Fail, Row
  <2> QED
    BY <1>1, <2>1, <2>2, <2>3, <2>4
<1>2. ASSUME NEW i \in Workers,
             Claim(i) \/ ScriptClaim(i) \/ RetrySucceed(i) \/ RetryFail(i)
      PROVE  row'[e].attempts >= row[e].attempts
  <2>1. CASE Claim(i)
    BY <1>0, <2>1 DEF Claim, Row
  <2>2. CASE ScriptClaim(i)
    BY <1>0, <2>2 DEF ScriptClaim, Row
  <2>3. CASE RetrySucceed(i)
    BY <1>0, <2>3 DEF RetrySucceed, Row
  <2>4. CASE RetryFail(i)
    BY <1>0, <2>4 DEF RetryFail, Row
  <2> QED
    BY <1>2, <2>1, <2>2, <2>3, <2>4
<1>3. ASSUME NEW f \in Events, RetryTimeComes(f) \/ LockTimesOut(f)
      PROVE  row'[e].attempts >= row[e].attempts
  BY <1>0, <1>3 DEF RetryTimeComes, LockTimesOut, Row
<1>4. CASE UNCHANGED row
  BY <1>0, <1>4
<1> QED
  BY <1>1, <1>2, <1>3, <1>4, RowWriters

\* Every claim of a pass is one of the row's attempts, and is made below the
\* limit.
Counted ==
  \A e \in Events : claims[e] <= row[e].attempts /\ claims[e] <= MaxAttempts

\* No step lets the claims outrun the attempts or the limit.
LEMMA CountedSteps == TypeInv /\ Counted /\ [Next]_vars => Counted'
<1> SUFFICES ASSUME TypeInv, Counted, [Next]_vars, NEW e \in Events
             PROVE  claims'[e] <= row'[e].attempts /\ claims'[e] <= MaxAttempts
  BY DEF Counted
<1>0. /\ row \in [Events -> Row] /\ claims \in [Events -> Nat]
      /\ row[e].attempts \in Nat /\ claims[e] \in Nat /\ MaxAttempts \in Nat
      /\ claims[e] <= row[e].attempts /\ claims[e] <= MaxAttempts
  BY CountsAssumption DEF TypeInv, TypeOK, Row, Counted
<1>1. ASSUME NEW i \in Workers, Claim(i)
      PROVE  claims'[e] <= row'[e].attempts /\ claims'[e] <= MaxAttempts
  BY <1>0, <1>1 DEF Claim, Row
<1>2. CASE UNCHANGED claims
  <2>1. row'[e].attempts \in Nat /\ row'[e].attempts >= row[e].attempts
    BY AttemptsGrow, RowSteps DEF RowTyped, Row
  <2> QED
    BY <1>0, <1>2, <2>1
<1> QED
  BY <1>1, <1>2, ClaimsWriters

\* Retry passes claim an event at most MAX_ATTEMPTS times, whatever the
\* number of deliveries, processes, crashes and rejected calls.
THEOREM RetriesAreBounded == Spec => []ClaimsBounded
<1>1. Init => Counted
  BY CountsAssumption DEF Init, Counted, NoRow
<1>2. Counted => ClaimsBounded
  BY DEF Counted, ClaimsBounded
<1> QED
  BY <1>1, <1>2, InitTypeInv, NextTypeInv, CountedSteps, PTL DEF Spec

----------------------------------------------------------------------------
(* Giving up.                                                              *)

\* The counts that decide about another retry were read from the row, so
\* they are at most what the row holds by the time they are used.
ReadsAreOld ==
  /\ \A d \in Deliveries :
       /\ request[d].pc = "unsent" => request[d].snapshot = 0
       /\ request[d].event \in Events =>
            request[d].snapshot <= row[request[d].event].attempts
  /\ \A i \in Workers :
       worker[i].pc = "fail" =>
         worker[i].current <= row[worker[i].event].attempts

\* No step makes a count read earlier exceed the row's own.
LEMMA ReadsAreOldSteps == TypeInv /\ ReadsAreOld /\ [Next]_vars => ReadsAreOld'
<1> SUFFICES ASSUME TypeInv, ReadsAreOld, [Next]_vars PROVE ReadsAreOld'
  OBVIOUS
<1>0. /\ row \in [Events -> Row] /\ request \in [Deliveries -> Request]
      /\ worker \in [Workers -> Worker]
      /\ \A e \in Events : row[e].attempts \in Nat
  BY DEF TypeInv, TypeOK, Row
<1>1. \A e \in Events :
        row'[e].attempts \in Nat /\ row'[e].attempts >= row[e].attempts
  BY AttemptsGrow, RowSteps DEF RowTyped, Row
<1>2. ASSUME NEW d \in Deliveries
      PROVE  /\ request'[d].pc = "unsent" => request'[d].snapshot = 0
             /\ request'[d].event \in Events =>
                  request'[d].snapshot <= row'[request'[d].event].attempts
  <2>0. /\ request[d].snapshot \in Nat
        /\ request[d].pc = "unsent" => request[d].snapshot = 0
        /\ request[d].event \in Events =>
             request[d].snapshot <= row[request[d].event].attempts
    BY <1>0 DEF ReadsAreOld, Request
  <2>1. ASSUME NEW e \in Events, NEW i \in Instances, Deliver(d, e, i)
        PROVE  request'[d].pc # "unsent" /\ request'[d].snapshot = 0
               /\ request'[d].event = e
    BY <1>0, <2>0, <2>1 DEF Deliver, Request
  <2>2. CASE Lookup(d)
    BY <1>0, <1>1, <2>0, <2>2 DEF Lookup, Request
  <2>3. CASE /\ request'[d].event = request[d].event
             /\ request'[d].snapshot = request[d].snapshot
             /\ request'[d].pc = "unsent" => request[d].pc = "unsent"
    BY <1>0, <1>1, <2>0, <2>3
  <2>4. ASSUME NEW c \in Deliveries,
               \/ Reject(c) \/ RequestCallFails(c)
               \/ Create(c) \/ Mark(c) \/ Dispatched(c) \/ Succeed(c) \/ Fail(c)
        PROVE  /\ request'[d].event = request[d].event
               /\ request'[d].snapshot = request[d].snapshot
               /\ request'[d].pc = "unsent" => request[d].pc = "unsent"
    <3>1. CASE Reject(c) \/ RequestCallFails(c)
      BY <1>0, <3>1 DEF Reject, RequestCallFails, Request
    <3>2. CASE Create(c) \/ Mark(c) \/ Dispatched(c)
      BY <1>0, <3>2 DEF Create, Mark, Dispatched, Request
    <3>3. CASE Succeed(c) \/ Fail(c)
      BY <1>0, <3>3 DEF Succeed, Fail, Request
    <3> QED
      BY <2>4, <3>1, <3>2, <3>3
  <2>5. ASSUME NEW c \in Deliveries, c # d,
               \/ Lookup(c)
               \/ \E e \in Events, i \in Instances : Deliver(c, e, i)
        PROVE  request'[d] = request[d]
    BY <1>0, <2>5 DEF Lookup, Deliver
  <2>6. ASSUME NEW i \in Workers, Crash(i)
        PROVE  /\ request'[d].event = request[d].event
               /\ request'[d].snapshot = request[d].snapshot
               /\ request'[d].pc = "unsent" => request[d].pc = "unsent"
    BY <1>0, <2>6 DEF Crash, Request
  <2>7. CASE UNCHANGED request
    BY <2>3, <2>7
  <2> QED
    <3>1. ASSUME NEW e \in Events, NEW i \in Instances, Deliver(d, e, i)
          PROVE  request'[d].snapshot <= row'[request'[d].event].attempts
      BY <1>1, <2>1, <3>1
    <3>2. ASSUME NEW c \in Deliveries, c # d,
                 \/ Lookup(c)
                 \/ \E e \in Events, i \in Instances : Deliver(c, e, i)
          PROVE  /\ request'[d].event = request[d].event
                 /\ request'[d].snapshot = request[d].snapshot
                 /\ request'[d].pc = "unsent" => request[d].pc = "unsent"
      BY <2>5, <3>2
    <3> QED
      BY <2>1, <2>2, <2>3, <2>4, <2>6, <2>7, <3>1, <3>2, RequestWriters
         DEF RequestStep
<1>3. ASSUME NEW i \in Workers, worker'[i].pc = "fail"
      PROVE  worker'[i].current <= row'[worker'[i].event].attempts
  <2>0. /\ worker[i] \in Worker
        /\ worker[i].pc # "idle" => worker[i].event \in Events
    BY <1>0 DEF TypeInv, WorkerEngaged
  <2>1. CASE Reread(i)
    BY <1>0, <1>1, <2>0, <2>1 DEF Reread, Worker
  <2>2. CASE worker'[i] = worker[i]
    <3>1. worker[i].current <= row[worker[i].event].attempts
      BY <1>3, <2>2 DEF ReadsAreOld
    <3> QED
      BY <1>0, <1>1, <1>3, <2>0, <2>2, <3>1 DEF Worker
  <2>3. CASE WorkerStep(i) /\ ~Reread(i)
    <3>1. CASE Poll(i)
      BY <1>0, <1>3, <2>0, <3>1 DEF Poll, Worker
    <3>2. CASE Visit(i)
      BY <1>0, <1>3, <2>0, <3>2 DEF Visit, Worker
    <3>4. CASE Claim(i)
      BY <1>0, <1>3, <2>0, <3>4 DEF Claim, Worker
    <3>5. CASE ScriptPoll(i)
      BY <1>0, <1>3, <2>0, <3>5 DEF ScriptPoll, Worker
    <3>6. CASE ScriptClaim(i)
      BY <1>0, <1>3, <2>0, <3>6 DEF ScriptClaim, Worker
    <3>3. CASE RetryDispatched(i) \/ RetrySucceed(i) \/ RetryFail(i)
      BY <1>0, <1>3, <2>0, <3>3
         DEF RetryDispatched, RetrySucceed, RetryFail, Worker
    <3> QED
      BY <2>3, <3>1, <3>2, <3>3, <3>4, <3>5, <3>6 DEF WorkerStep
  <2>4. CASE WorkerCallFails(i) \/ Crash(i)
    BY <1>0, <1>3, <2>0, <2>4 DEF WorkerCallFails, Crash, Idle, Worker
  <2>5. ASSUME NEW j \in Workers, j # i,
               WorkerStep(j) \/ WorkerCallFails(j) \/ Crash(j)
        PROVE  worker'[i] = worker[i]
    BY <1>0, <2>5
       DEF WorkerStep, Poll, Visit, Claim, ScriptPoll, ScriptClaim,
           RetryDispatched, RetrySucceed, Reread, RetryFail,
           WorkerCallFails, Crash
  <2>6. CASE UNCHANGED worker
    BY <2>2, <2>6
  <2> QED
    BY <2>1, <2>2, <2>3, <2>4, <2>5, <2>6, WorkerWriters
<1> QED
  BY <1>2, <1>3 DEF ReadsAreOld

\* A step to FAILED, decided with an old count, finds the limit reached.
LEMMA GivenUpSteps ==
  TypeInv /\ ReadsAreOld /\ GivenUpOnlyAtLimit /\ [Next]_vars
    => GivenUpOnlyAtLimit'
<1> SUFFICES ASSUME TypeInv, ReadsAreOld, GivenUpOnlyAtLimit, [Next]_vars,
                    NEW e \in Events, row'[e].status = "FAILED"
             PROVE  row'[e].attempts >= MaxAttempts
  BY DEF GivenUpOnlyAtLimit
<1>0. /\ row \in [Events -> Row] /\ row[e].attempts \in Nat
      /\ request \in [Deliveries -> Request] /\ worker \in [Workers -> Worker]
      /\ row'[e].attempts \in Nat /\ row'[e].attempts >= row[e].attempts
      /\ MaxAttempts \in Nat
  BY AttemptsGrow, RowSteps, CountsAssumption
     DEF TypeInv, TypeOK, RowTyped, Row
<1>1. ASSUME NEW d \in Deliveries, Fail(d), request[d].event = e
      PROVE  row[e].attempts >= MaxAttempts
  BY <1>0, <1>1 DEF Fail, ReadsAreOld, Row, Request
<1>2. ASSUME NEW i \in Workers, RetryFail(i), worker[i].event = e
      PROVE  row[e].attempts >= MaxAttempts
  BY <1>0, <1>2 DEF RetryFail, ReadsAreOld, Row, Worker
<1>3. CASE row[e].status = "FAILED"
  BY <1>0, <1>3 DEF GivenUpOnlyAtLimit
<1>4. ASSUME NEW d \in Deliveries, Fail(d), request[d].event # e
      PROVE  row[e].status = "FAILED"
  BY <1>0, <1>4 DEF Fail
<1>5. ASSUME NEW i \in Workers, RetryFail(i), worker[i].event # e
      PROVE  row[e].status = "FAILED"
  BY <1>0, <1>5 DEF RetryFail
<1>6. ASSUME NEW d \in Deliveries, Create(d) \/ Mark(d) \/ Succeed(d)
      PROVE  row[e].status = "FAILED"
  BY <1>0, <1>6 DEF Create, Mark, Succeed, Row
<1>7. ASSUME NEW i \in Workers, Claim(i) \/ ScriptClaim(i) \/ RetrySucceed(i)
      PROVE  row[e].status = "FAILED"
  <2>1. CASE Claim(i)
    BY <1>0, <2>1 DEF Claim, Row
  <2>2. CASE ScriptClaim(i)
    BY <1>0, <2>2 DEF ScriptClaim, Row
  <2>3. CASE RetrySucceed(i)
    BY <1>0, <2>3 DEF RetrySucceed, Row
  <2> QED
    BY <1>7, <2>1, <2>2, <2>3
<1>8. ASSUME NEW f \in Events, RetryTimeComes(f) \/ LockTimesOut(f)
      PROVE  row[e].status = "FAILED"
  BY <1>0, <1>8 DEF RetryTimeComes, LockTimesOut, Row
<1>9. CASE UNCHANGED row
  BY <1>3, <1>9
<1> QED
  BY <1>0, <1>1, <1>2, <1>3, <1>4, <1>5, <1>6, <1>7, <1>8, <1>9, RowWriters

\* An event is FAILED only after at least MAX_ATTEMPTS attempts, although the
\* route and the passes decide with counts they read some steps before.
THEOREM GivesUpOnlyAtLimit == Spec => []GivenUpOnlyAtLimit
<1>1. Init => ReadsAreOld /\ GivenUpOnlyAtLimit
  BY DEF Init, ReadsAreOld, GivenUpOnlyAtLimit, NoRow, Unsent, Idle
<1> QED
  BY <1>1, InitTypeInv, NextTypeInv, ReadsAreOldSteps, GivenUpSteps, PTL
     DEF Spec

----------------------------------------------------------------------------
(* One holder.                                                             *)

RequestBusy(d, e) ==
  RequestHolds(d, e) \/ (request[d].pc = "mark" /\ request[d].event = e)

\* The strengthening of SingleHolder: a request that inserted the row and has
\* not moved it yet counts as busy with it too, and the status tells apart
\* the states with and without a busy process.
Sole(e) ==
  /\ \A d \in Deliveries :
       RequestBusy(d, e) =>
         row[e].status = IF request[d].pc = "mark" THEN "RECEIVED"
                                                   ELSE "PROCESSING"
  /\ \A i \in Workers : WorkerHolds(i, e) => row[e].status = "PROCESSING"
  /\ \A c, d \in Deliveries : RequestBusy(c, e) /\ RequestBusy(d, e) => c = d
  /\ \A i, j \in Workers : WorkerHolds(i, e) /\ WorkerHolds(j, e) => i = j
  /\ \A d \in Deliveries, i \in Workers :
       ~(RequestBusy(d, e) /\ WorkerHolds(i, e))

SoleInv == \A e \in Events : ~readmitted[e] => Sole(e)

\* Sole(e) needs no argument when its row keeps the status and no process
\* becomes busy with e or moves from the insert on.
LEMMA SoleFrame ==
  ASSUME NEW e \in Events, Sole(e), row'[e].status = row[e].status,
         \A d \in Deliveries :
           RequestBusy(d, e)' =>
             /\ RequestBusy(d, e)
             /\ (request'[d].pc = "mark") = (request[d].pc = "mark"),
         \A i \in Workers : WorkerHolds(i, e)' => WorkerHolds(i, e)
  PROVE  Sole(e)'
  BY DEF Sole

\* The route keeps one process per event unless it readmits the event.
LEMMA SoleRequestSteps ==
  ASSUME TypeInv, NEW e \in Events, Sole(e), ~readmitted'[e],
         NEW d \in Deliveries,
         \/ Reject(d)
         \/ \E f \in Events, i \in Instances : Deliver(d, f, i)
         \/ RequestStep(d)
         \/ RequestCallFails(d)
  PROVE  Sole(e)'
<1>0. /\ row \in [Events -> Row] /\ request \in [Deliveries -> Request]
      /\ readmitted \in [Events -> BOOLEAN] /\ request[d] \in Request
  BY DEF TypeInv, TypeOK
<1> USE DEF RequestBusy, RequestHolds, WorkerHolds, Request
<1>1. CASE Create(d)
  <2>1. CASE request[d].event = e /\ row[e].status = "ABSENT"
    <3>1. /\ \A c \in Deliveries : ~RequestBusy(c, e)
          /\ \A i \in Workers : ~WorkerHolds(i, e)
      BY <2>1 DEF Sole
    <3>2. /\ \A c \in Deliveries : RequestBusy(c, e)' => c = d
          /\ \A i \in Workers : ~WorkerHolds(i, e)'
      BY <1>0, <1>1, <3>1 DEF Create
    <3>3. request'[d].pc = "mark" /\ row'[e].status = "RECEIVED"
      BY <1>0, <1>1, <2>1 DEF Create, Row
    <3> QED
      BY <3>2, <3>3 DEF Sole
  <2>2. CASE ~(request[d].event = e /\ row[e].status = "ABSENT")
    <3>1. row'[e].status = row[e].status /\ UNCHANGED worker
      BY <1>0, <1>1, <2>2 DEF Create
    <3>2. \A c \in Deliveries :
            RequestBusy(c, e)' =>
              RequestBusy(c, e) /\ request'[c].pc = request[c].pc
      BY <1>0, <1>1, <2>2 DEF Create
    <3> QED
      BY <3>1, <3>2, SoleFrame
  <2> QED
    BY <2>1, <2>2
<1>2. CASE Lookup(d)
  <2>1. request[d].event = e => request'[d].pc = "answered"
    BY <1>0, <1>2 DEF Lookup
  <2>2. \A c \in Deliveries :
          RequestBusy(c, e)' =>
            RequestBusy(c, e) /\ request'[c].pc = request[c].pc
    BY <1>0, <1>2, <2>1 DEF Lookup
  <2>3. UNCHANGED <<row, worker>>
    BY <1>2 DEF Lookup
  <2> QED
    BY <2>2, <2>3, SoleFrame
<1>3. CASE Mark(d)
  BY <1>0, <1>3 DEF Mark, Sole
<1>4. CASE Dispatched(d)
  BY <1>0, <1>4 DEF Dispatched, Sole
<1>5. CASE Succeed(d)
  BY <1>0, <1>5 DEF Succeed, Sole
<1>6. CASE Fail(d)
  BY <1>0, <1>6 DEF Fail, Sole
<1>7. CASE Reject(d)
  BY <1>0, <1>7 DEF Reject, Sole
<1>8. CASE RequestCallFails(d)
  BY <1>0, <1>8 DEF RequestCallFails, Sole
<1>9. ASSUME NEW f \in Events, NEW i \in Instances, Deliver(d, f, i)
      PROVE  Sole(e)'
  <2>1. /\ UNCHANGED <<row, worker>>
        /\ \A c \in Deliveries :
             RequestBusy(c, e)' =>
               RequestBusy(c, e) /\ request'[c].pc = request[c].pc
    BY <1>0, <1>9 DEF Deliver
  <2> QED
    BY <2>1, SoleFrame
<1> QED
  BY <1>1, <1>2, <1>3, <1>4, <1>5, <1>6, <1>7, <1>8, <1>9 DEF RequestStep

\* The passes keep one process per event: they claim RETRY_PENDING rows only.
LEMMA SoleWorkerSteps ==
  ASSUME TypeInv, NEW e \in Events, Sole(e),
         NEW i \in Workers, WorkerStep(i) \/ WorkerCallFails(i) \/ Crash(i)
  PROVE  Sole(e)'
<1>0. /\ row \in [Events -> Row] /\ request \in [Deliveries -> Request]
      /\ worker \in [Workers -> Worker] /\ worker[i] \in Worker
  BY DEF TypeInv, TypeOK
<1> USE DEF RequestBusy, RequestHolds, WorkerHolds
\* A claim finds RETRY_PENDING, a status under which nobody is busy.
<1>1. ASSUME row[e].status = "RETRY_PENDING",
             row'[e].status = "PROCESSING",
             UNCHANGED request,
             \A j \in Workers : j # i => worker'[j] = worker[j]
      PROVE  Sole(e)'
  <2>1. /\ \A c \in Deliveries : ~RequestBusy(c, e)
        /\ \A j \in Workers : ~WorkerHolds(j, e)
    BY <1>1 DEF Sole
  <2>2. /\ \A c \in Deliveries : ~RequestBusy(c, e)'
        /\ \A j \in Workers : WorkerHolds(j, e)' => j = i
    BY <1>1, <2>1
  <2> QED
    BY <1>1, <2>2 DEF Sole
\* Any other step of the pass that leaves the row alone.
<1>2. ASSUME row'[e].status = row[e].status,
             UNCHANGED request,
             WorkerHolds(i, e)' => WorkerHolds(i, e),
             \A j \in Workers : j # i => worker'[j] = worker[j]
      PROVE  Sole(e)'
  BY <1>2, SoleFrame
<1>3. CASE Claim(i)
  <2>0. /\ UNCHANGED request
        /\ \A j \in Workers : j # i => worker'[j] = worker[j]
    BY <1>0, <1>3 DEF Claim
  <2>1. CASE worker[i].event = e /\ row'[e] # row[e]
    BY <1>0, <1>1, <1>3, <2>0, <2>1 DEF Claim, Row
  <2>2. CASE worker[i].event # e
    BY <1>0, <1>2, <1>3, <2>0, <2>2 DEF Claim, Worker
  <2>3. CASE row[e].status # "RETRY_PENDING"
    BY <1>0, <1>2, <1>3, <2>0, <2>3 DEF Claim, Worker
  <2>4. CASE worker'[i].pc = "idle"
    BY <1>0, <1>2, <1>3, <2>0, <2>4 DEF Claim, Worker
  <2> QED
    BY <1>0, <1>3, <2>1, <2>2, <2>3, <2>4 DEF Claim, Worker, Row
<1>4. CASE ScriptClaim(i)
  <2>0. /\ UNCHANGED request
        /\ \A j \in Workers : j # i => worker'[j] = worker[j]
    BY <1>0, <1>4 DEF ScriptClaim
  <2>1. PICK f \in worker[i].batch :
          \/ /\ row[f].status = "RETRY_PENDING"
             /\ row' = [row EXCEPT ![f].status = "PROCESSING",
                                   ![f].attempts = @ + 1,
                                   ![f].lockedAt = "held"]
             /\ worker' = [worker EXCEPT ![i].batch = @ \ {f},
                             ![i].pc = "dispatch", ![i].event = f]
          \/ /\ worker' = [worker EXCEPT ![i].batch = @ \ {f}]
             /\ UNCHANGED row
    BY <1>4 DEF ScriptClaim
  <2>2. CASE f = e /\ worker'[i].pc = "dispatch"
    BY <1>0, <1>1, <1>4, <2>0, <2>1, <2>2 DEF ScriptClaim, Worker
  <2>3. CASE f # e \/ UNCHANGED row
    BY <1>0, <1>2, <1>4, <2>0, <2>1, <2>3 DEF ScriptClaim, Worker
  <2> QED
    BY <1>0, <2>1, <2>2, <2>3 DEF Worker
<1>5. CASE Visit(i)
  <2>1. /\ UNCHANGED <<row, request>>
        /\ \A j \in Workers : j # i => worker'[j] = worker[j]
        /\ worker'[i].pc \in {"idle", "claim"}
    BY <1>0, <1>5 DEF Visit, Worker
  <2> QED
    BY <1>2, <2>1
<1>6. CASE WorkerCallFails(i)
  <2>1. /\ UNCHANGED <<row, request>>
        /\ \A j \in Workers : j # i => worker'[j] = worker[j]
        /\ WorkerHolds(i, e)' => WorkerHolds(i, e)
    BY <1>0, <1>6 DEF WorkerCallFails, Worker, Idle
  <2> QED
    BY <1>2, <2>1
<1>7. CASE Poll(i)
  BY <1>0, <1>7 DEF Poll, Sole, Worker
<1>8. CASE ScriptPoll(i)
  BY <1>0, <1>8 DEF ScriptPoll, Sole, Worker
<1>9. CASE RetryDispatched(i)
  BY <1>0, <1>9 DEF RetryDispatched, Sole, Worker
<1>10. CASE RetrySucceed(i)
  BY <1>0, <1>10 DEF RetrySucceed, Sole, Worker
<1>11. CASE Reread(i)
  BY <1>0, <1>11 DEF Reread, Sole, Worker
<1>12. CASE RetryFail(i)
  BY <1>0, <1>12 DEF RetryFail, Sole, Worker
<1>13. CASE Crash(i)
  BY <1>0, <1>13 DEF Crash, Idle, Sole, Worker, Request
<1> QED
  BY <1>3, <1>4, <1>5, <1>6, <1>7, <1>8, <1>9, <1>10, <1>11, <1>12, <1>13
     DEF WorkerStep

\* No step gives an event that was not readmitted a second process.
LEMMA SoleSteps == TypeInv /\ SoleInv /\ [Next]_vars => SoleInv'
<1> SUFFICES ASSUME TypeInv, SoleInv, [Next]_vars,
                    NEW e \in Events, ~readmitted'[e]
             PROVE  Sole(e)'
  BY DEF SoleInv
<1>1. ~readmitted[e]
  BY ReadmittedWriters DEF Lookup, TypeInv, TypeOK
<1>2. Sole(e)
  BY <1>1 DEF SoleInv
<1>3. ASSUME NEW f \in Events, RetryTimeComes(f) \/ LockTimesOut(f)
      PROVE  Sole(e)'
  <2>1. row'[e].status = row[e].status
    BY <1>3 DEF RetryTimeComes, LockTimesOut, TypeInv, TypeOK, Row
  <2>2. UNCHANGED <<request, worker>>
    BY <1>3 DEF RetryTimeComes, LockTimesOut
  <2> QED
    BY <1>2, <2>1, <2>2, SoleFrame DEF RequestBusy, RequestHolds, WorkerHolds
<1>4. CASE UNCHANGED vars
  BY <1>2, <1>4, SoleFrame
     DEF vars, RequestBusy, RequestHolds, WorkerHolds
<1> QED
  BY <1>2, <1>3, <1>4, SoleRequestSteps, SoleWorkerSteps DEF Next

\* Without a redelivery that passed the duplicate check, an event has at most
\* one process between its move to PROCESSING and the write of its result.
THEOREM OneHolder == Spec => []SingleHolder
<1>1. Init => SoleInv
  BY DEF Init, SoleInv, Sole, RequestBusy, RequestHolds, WorkerHolds, Unsent,
         Idle
<1>2. SoleInv => SingleHolder
  BY DEF SoleInv, Sole, RequestBusy, SingleHolder, Holders
<1> QED
  BY <1>1, <1>2, InitTypeInv, NextTypeInv, SoleSteps, PTL DEF Spec

\* A processed event is not moved back as long as it was not readmitted: its
\* writers would be busy with it, and busy processes see PROCESSING.
THEOREM ProcessedStays == Spec => ProcessedIsFinal
<1>1. ASSUME TypeInv, SoleInv, [Next]_vars, NEW e \in Events,
             row[e].status = "PROCESSED", ~readmitted'[e]
      PROVE  row'[e].status = "PROCESSED"
  <2>0. row \in [Events -> Row] /\ Sole(e)
    BY <1>1, ReadmittedWriters DEF Lookup, TypeInv, TypeOK, SoleInv
  <2>1. ASSUME NEW d \in Deliveries, Create(d) \/ Succeed(d)
        PROVE  row'[e].status = "PROCESSED"
    BY <1>1, <2>0, <2>1 DEF Create, Succeed, Row
  <2>2. ASSUME NEW d \in Deliveries, Mark(d) \/ Fail(d)
        PROVE  row'[e].status = "PROCESSED"
    BY <1>1, <2>0, <2>2 DEF Mark, Fail, Row, Sole, RequestBusy, RequestHolds
  <2>3. ASSUME NEW i \in Workers, Claim(i)
        PROVE  row'[e].status = "PROCESSED"
    BY <1>1, <2>0, <2>3 DEF Claim, Row
  <2>4. ASSUME NEW i \in Workers, ScriptClaim(i)
        PROVE  row'[e].status = "PROCESSED"
    BY <1>1, <2>0, <2>4 DEF ScriptClaim, Row
  <2>5. ASSUME NEW i \in Workers, RetrySucceed(i) \/ RetryFail(i)
        PROVE  row'[e].status = "PROCESSED"
    BY <1>1, <2>0, <2>5 DEF RetrySucceed, RetryFail, Row, Sole, WorkerHolds
  <2>6. ASSUME NEW f \in Events, RetryTimeComes(f) \/ LockTimesOut(f)
        PROVE  row'[e].status = "PROCESSED"
    BY <1>1, <2>0, <2>6 DEF RetryTimeComes, LockTimesOut, Row
  <2> QED
    BY <1>1, <2>1, <2>2, <2>3, <2>4, <2>5, <2>6, RowWriters
<1>2. TypeInv /\ SoleInv /\ [Next]_vars =>
        [\A e \in Events :
           row[e].status = "PROCESSED" /\ ~readmitted'[e]
             => row'[e].status = "PROCESSED"]_vars
  BY <1>1
<1>3. Init => SoleInv
  BY DEF Init, SoleInv, Sole, RequestBusy, RequestHolds, WorkerHolds, Unsent,
         Idle
<1> QED
  BY <1>2, <1>3, InitTypeInv, NextTypeInv, SoleSteps, PTL
     DEF Spec, ProcessedIsFinal

----------------------------------------------------------------------------
(* Nothing is stranded.                                                    *)

\* The process that will move the row on: the delivery about to mark a new
\* row, or a holder of a row in PROCESSING.
Attended(e) ==
  /\ row[e].status = "RECEIVED" =>
       \E d \in Deliveries : request[d].pc = "mark" /\ request[d].event = e
  /\ row[e].status = "PROCESSING" =>
       \/ \E d \in Deliveries : RequestHolds(d, e)
       \/ \E i \in Workers : WorkerHolds(i, e)

AttendedInv == faults = 0 => \A e \in Events : Attended(e)

\* The route leaves a row only by writing its next status.
LEMMA AttendedRequestSteps ==
  ASSUME TypeInv, NEW e \in Events, Attended(e), NEW d \in Deliveries,
         \/ Reject(d)
         \/ \E f \in Events, i \in Instances : Deliver(d, f, i)
         \/ RequestStep(d)
  PROVE  Attended(e)'
<1>0. /\ row \in [Events -> Row] /\ request \in [Deliveries -> Request]
      /\ request[d] \in Request /\ request[d].event \in Events \cup {None}
  BY DEF TypeInv, TypeOK, Request
<1> USE DEF Attended, RequestHolds, WorkerHolds, Request
<1>9. request' \in [Deliveries -> Request]
  BY RequestSteps DEF RequestTyped, RequestStep
<1>10. ASSUME row'[e].status = row[e].status, UNCHANGED worker,
              \A c \in Deliveries : c # d => request'[c] = request[c],
              request[d].event = e /\ request[d].pc # "create" =>
                /\ request'[d].event = e
                /\ request'[d].pc = "mark" <=> request[d].pc = "mark"
                /\ request[d].pc \in {"dispatch", "succeed", "fail"} =>
                     request'[d].pc \in {"dispatch", "succeed", "fail"}
       PROVE  Attended(e)'
  BY <1>10
<1>1. CASE Create(d)
  <2>1. CASE request[d].event = e /\ row[e].status = "ABSENT"
    <3>1. /\ row'[e].status = "RECEIVED"
          /\ request'[d].pc = "mark" /\ request'[d].event = e
      BY <1>0, <1>1, <2>1 DEF Create, Row
    <3> QED
      BY <3>1
  <2>2. CASE ~(request[d].event = e /\ row[e].status = "ABSENT")
    <3>1. /\ row'[e] = row[e] /\ UNCHANGED worker
          /\ \A c \in Deliveries : c # d => request'[c] = request[c]
          /\ request[d].pc = "create"
      BY <1>0, <1>1, <2>2 DEF Create
    <3> QED
      BY <1>10, <3>1
  <2> QED
    BY <2>1, <2>2
<1>2. CASE Lookup(d)
  BY <1>0, <1>2 DEF Lookup
<1>3. CASE Mark(d)
  <2>1. /\ UNCHANGED worker
        /\ \A c \in Deliveries : c # d => request'[c] = request[c]
        /\ request[d].pc = "mark"
        /\ request'[d].pc = "dispatch" /\ request'[d].event = request[d].event
    BY <1>0, <1>3 DEF Mark
  <2>2. CASE request[d].event = e
    <3>1. row'[e].status = "PROCESSING"
      BY <1>0, <1>3, <2>2 DEF Mark, Row
    <3> QED
      BY <2>1, <2>2, <3>1
  <2>3. CASE request[d].event # e
    <3>1. row'[e] = row[e]
      BY <1>0, <1>3, <2>3 DEF Mark
    <3> QED
      BY <1>10, <2>1, <2>3, <3>1
  <2> QED
    BY <2>2, <2>3
<1>4. CASE Dispatched(d)
  BY <1>0, <1>4 DEF Dispatched
<1>5. CASE Succeed(d)
  <2>1. CASE request[d].event = e
    <3>1. row'[e].status = "PROCESSED"
      BY <1>0, <1>5, <2>1 DEF Succeed, Row
    <3> QED
      BY <3>1
  <2>2. CASE request[d].event # e
    <3>1. /\ row'[e] = row[e] /\ UNCHANGED worker
          /\ \A c \in Deliveries : c # d => request'[c] = request[c]
      BY <1>0, <1>5, <2>2 DEF Succeed
    <3> QED
      BY <1>10, <2>2, <3>1
  <2> QED
    BY <2>1, <2>2
<1>6. CASE Fail(d)
  BY <1>0, <1>6 DEF Fail, Row
<1>7. CASE Reject(d)
  BY <1>0, <1>7 DEF Reject
<1>8. ASSUME NEW f \in Events, NEW i \in Instances, Deliver(d, f, i)
      PROVE  Attended(e)'
  BY <1>0, <1>8 DEF Deliver
<1> QED
  BY <1>1, <1>2, <1>3, <1>4, <1>5, <1>6, <1>7, <1>8 DEF RequestStep

\* So do the passes.
LEMMA AttendedWorkerSteps ==
  ASSUME TypeInv, NEW e \in Events, Attended(e), NEW i \in Workers,
         WorkerStep(i)
  PROVE  Attended(e)'
<1>0. /\ row \in [Events -> Row] /\ worker \in [Workers -> Worker]
      /\ worker[i] \in Worker /\ worker[i].event \in Events \cup {None}
  BY DEF TypeInv, TypeOK, Worker
<1> USE DEF Attended, RequestHolds, WorkerHolds, Worker
<1>1. CASE Poll(i)
  BY <1>0, <1>1 DEF Poll
<1>2. CASE Visit(i)
  BY <1>0, <1>2 DEF Visit
<1>3. CASE Claim(i)
  BY <1>0, <1>3 DEF Claim, Row
<1>4. CASE ScriptPoll(i)
  BY <1>0, <1>4 DEF ScriptPoll
<1>5. CASE ScriptClaim(i)
  BY <1>0, <1>5 DEF ScriptClaim, Row
<1>6. CASE RetryDispatched(i)
  BY <1>0, <1>6 DEF RetryDispatched
<1>7. CASE RetrySucceed(i)
  BY <1>0, <1>7 DEF RetrySucceed, Row
<1>8. CASE Reread(i)
  BY <1>0, <1>8 DEF Reread
<1>9. CASE RetryFail(i)
  BY <1>0, <1>9 DEF RetryFail, Row
<1> QED
  BY <1>1, <1>2, <1>3, <1>4, <1>5, <1>6, <1>7, <1>8, <1>9 DEF WorkerStep

\* No step but a fault leaves a row unattended.
LEMMA AttendedSteps == TypeInv /\ AttendedInv /\ [Next]_vars => AttendedInv'
<1> SUFFICES ASSUME TypeInv, AttendedInv, [Next]_vars, faults' = 0,
                    NEW e \in Events
             PROVE  Attended(e)'
  BY DEF AttendedInv
<1>0. faults \in Nat /\ faults + 1 # 0
  BY CountsAssumption DEF TypeInv, TypeOK
<1>1. /\ \A d \in Deliveries : ~RequestCallFails(d)
      /\ \A i \in Workers : ~WorkerCallFails(i) /\ ~Crash(i)
  BY <1>0 DEF RequestCallFails, WorkerCallFails, Crash
<1>2. faults = 0
  BY <1>1 DEF Next, vars, RequestStep, WorkerStep, Reject, Deliver, Create,
         Lookup, Mark, Dispatched, Succeed, Fail, Poll, Visit, Claim,
         ScriptPoll, ScriptClaim, RetryDispatched, RetrySucceed, Reread,
         RetryFail, RetryTimeComes, LockTimesOut
<1>3. Attended(e)
  BY <1>2 DEF AttendedInv
<1>4. ASSUME NEW f \in Events, RetryTimeComes(f) \/ LockTimesOut(f)
      PROVE  Attended(e)'
  <2>1. row'[e].status = row[e].status /\ UNCHANGED <<request, worker>>
    BY <1>4 DEF RetryTimeComes, LockTimesOut, TypeInv, TypeOK, Row
  <2> QED
    BY <1>3, <2>1 DEF Attended, RequestHolds, WorkerHolds
<1>5. CASE UNCHANGED vars
  BY <1>3, <1>5 DEF vars, Attended, RequestHolds, WorkerHolds
<1> QED
  BY <1>1, <1>3, <1>4, <1>5, AttendedRequestSteps, AttendedWorkerSteps
     DEF Next

\* What a row that came once knows of its tries.  A new row has none; the
\* delivery that inserted it decides by a count of 0 and finds no lock; the
\* count a pass has re-read is still the row's; and a row that waits for its
\* retry has attempts left, a time, and no lock.
Orderly(e) ==
  /\ row[e].status \in {"ABSENT", "RECEIVED"} =>
       row[e].attempts = 0 /\ row[e].lockedAt = "null"
  /\ \A d \in Deliveries :
       RequestBusy(d, e) =>
         /\ request[d].snapshot = 0
         /\ row[e].lockedAt = "null"
         /\ row[e].attempts = IF request[d].pc = "mark" THEN 0 ELSE 1
  /\ \A i \in Workers :
       WorkerHolds(i, e) /\ worker[i].pc = "fail" =>
         worker[i].current = row[e].attempts
  /\ row[e].status = "RETRY_PENDING" =>
       /\ row[e].attempts < MaxAttempts
       /\ row[e].retryAt \in {"later", "due"}
       /\ row[e].lockedAt = "null"

OrderlyInv == \A e \in Events : ~readmitted[e] => Orderly(e)

\* A delivery of an event takes no snapshot before its duplicate check.
LEMMA NewSnapshot ==
  ASSUME TypeInv, ReadsAreOld, NEW d \in Deliveries, NEW e \in Events,
         request[d].event = e, row[e].attempts = 0
  PROVE  request[d].snapshot = 0
  BY DEF TypeInv, TypeOK, ReadsAreOld, Request

\* The route keeps order unless it readmits the event.
LEMMA OrderlyRequestSteps ==
  ASSUME MaxAttempts > 1, TypeInv, ReadsAreOld, NEW e \in Events,
         Sole(e), Orderly(e), ~readmitted'[e], NEW d \in Deliveries,
         \/ Reject(d)
         \/ \E f \in Events, i \in Instances : Deliver(d, f, i)
         \/ RequestStep(d)
         \/ RequestCallFails(d)
  PROVE  Orderly(e)'
<1>0. /\ row \in [Events -> Row] /\ request \in [Deliveries -> Request]
      /\ readmitted \in [Events -> BOOLEAN] /\ request[d] \in Request
      /\ row[e].attempts \in Nat /\ MaxAttempts \in Nat
  BY CountsAssumption DEF TypeInv, TypeOK, Row
<1> USE DEF Orderly, RequestBusy, RequestHolds, WorkerHolds, Request
<1>1. CASE Create(d)
  <2>1. CASE request[d].event = e /\ row[e].status = "ABSENT"
    <3>1. /\ \A c \in Deliveries : ~RequestBusy(c, e)
          /\ \A i \in Workers : ~WorkerHolds(i, e)
      BY <2>1 DEF Sole
    <3>2. request[d].snapshot = 0
      BY <1>0, <2>1, NewSnapshot
    <3>3. /\ row'[e].status = "RECEIVED" /\ row'[e].attempts = 0
          /\ row'[e].lockedAt = "null"
      BY <1>0, <1>1, <2>1 DEF Create, Row
    <3>4. /\ request'[d].pc = "mark" /\ request'[d].snapshot = 0
          /\ \A c \in Deliveries : c # d => request'[c] = request[c]
          /\ worker' = worker
      BY <1>0, <1>1, <2>1, <3>2 DEF Create
    <3> QED
      BY <3>1, <3>3, <3>4
  <2>2. CASE ~(request[d].event = e /\ row[e].status = "ABSENT")
    <3>1. row'[e] = row[e] /\ UNCHANGED worker
      BY <1>0, <1>1, <2>2 DEF Create
    <3>2. \A c \in Deliveries :
            RequestBusy(c, e)' =>
              RequestBusy(c, e) /\ request'[c] = request[c]
      BY <1>0, <1>1, <2>2 DEF Create
    <3> QED
      BY <3>1, <3>2
  <2> QED
    BY <2>1, <2>2
<1>2. CASE Lookup(d)
  <2>1. request[d].event = e => request'[d].pc = "answered"
    BY <1>0, <1>2 DEF Lookup
  <2>2. \A c \in Deliveries :
          RequestBusy(c, e)' =>
            RequestBusy(c, e) /\ request'[c] = request[c]
    BY <1>0, <1>2, <2>1 DEF Lookup
  <2>3. UNCHANGED <<row, worker>>
    BY <1>2 DEF Lookup
  <2> QED
    BY <2>2, <2>3
<1>3. CASE Mark(d)
  <2>1. CASE request[d].event = e
    <3>1. RequestBusy(d, e)
      BY <1>3, <2>1 DEF Mark
    <3>2. /\ \A c \in Deliveries : RequestBusy(c, e) => c = d
          /\ \A i \in Workers : ~WorkerHolds(i, e)
      BY <3>1 DEF Sole
    <3>3. /\ request[d].snapshot = 0 /\ row[e].lockedAt = "null"
          /\ row[e].attempts = 0
      BY <1>3, <3>1 DEF Mark
    <3>4. /\ row'[e].status = "PROCESSING" /\ row'[e].attempts = 1
          /\ row'[e].lockedAt = "null"
      BY <1>0, <1>3, <2>1, <3>3 DEF Mark, Row
    <3>5. /\ request'[d].pc = "dispatch" /\ request'[d].snapshot = 0
          /\ \A c \in Deliveries : c # d => request'[c] = request[c]
          /\ worker' = worker
      BY <1>0, <1>3, <3>3 DEF Mark
    <3> QED
      BY <3>2, <3>4, <3>5
  <2>2. CASE request[d].event # e
    BY <1>0, <1>3, <2>2 DEF Mark
  <2> QED
    BY <2>1, <2>2
<1>4. CASE Dispatched(d)
  BY <1>0, <1>4 DEF Dispatched
<1>5. CASE Succeed(d)
  BY <1>0, <1>5 DEF Succeed, Row, Sole
<1>6. CASE Fail(d)
  <2>1. CASE request[d].event = e
    <3>1. RequestBusy(d, e)
      BY <1>6, <2>1 DEF Fail
    <3>2. /\ \A c \in Deliveries : RequestBusy(c, e) => c = d
          /\ \A i \in Workers : ~WorkerHolds(i, e)
      BY <3>1 DEF Sole
    <3>3. /\ request[d].snapshot = 0 /\ row[e].lockedAt = "null"
          /\ row[e].attempts = 1
      BY <1>6, <3>1 DEF Fail
    <3>4. /\ row'[e].status = "RETRY_PENDING" /\ row'[e].attempts = 1
          /\ row'[e].lockedAt = "null" /\ row'[e].retryAt = "later"
      BY <1>0, <1>6, <2>1, <3>3 DEF Fail, Row
    <3>5. /\ request'[d].pc = "answered"
          /\ \A c \in Deliveries : c # d => request'[c] = request[c]
          /\ worker' = worker
      BY <1>0, <1>6 DEF Fail
    <3> QED
      BY <1>0, <3>2, <3>4, <3>5
  <2>2. CASE request[d].event # e
    BY <1>0, <1>6, <2>2 DEF Fail
  <2> QED
    BY <2>1, <2>2
<1>7. CASE Reject(d)
  BY <1>0, <1>7 DEF Reject
<1>8. CASE RequestCallFails(d)
  BY <1>0, <1>8 DEF RequestCallFails
<1>9. ASSUME NEW f \in Events, NEW i \in Instances, Deliver(d, f, i)
      PROVE  Orderly(e)'
  BY <1>0, <1>9 DEF Deliver
<1> QED
  BY <1>1, <1>2, <1>3, <1>4, <1>5, <1>6, <1>7, <1>8, <1>9 DEF RequestStep

\* The passes keep order: a claim finds attempts left, and its holder alone
\* moves the count until it has written its result.
LEMMA OrderlyWorkerSteps ==
  ASSUME TypeInv, NEW e \in Events, Sole(e), Orderly(e),
         NEW i \in Workers, WorkerStep(i) \/ WorkerCallFails(i)
  PROVE  Orderly(e)'
<1>0. /\ row \in [Events -> Row] /\ worker \in [Workers -> Worker]
      /\ worker[i] \in Worker /\ row[e].attempts \in Nat
      /\ MaxAttempts \in Nat
  BY CountsAssumption DEF TypeInv, TypeOK, Row
<1>10. UNCHANGED request /\ \A j \in Workers : j # i => worker'[j] = worker[j]
  BY <1>0 DEF WorkerStep, WorkerCallFails, Poll, Visit, Claim, ScriptPoll,
              ScriptClaim, RetryDispatched, RetrySucceed, Reread, RetryFail
<1> USE DEF Orderly, RequestBusy, RequestHolds, WorkerHolds, Worker
\* A step that leaves the row alone, and the count a failing pass has re-read.
<1>11. ASSUME row'[e] = row[e],
              WorkerHolds(i, e)' /\ worker'[i].pc = "fail" =>
                worker'[i].current = row[e].attempts
       PROVE  Orderly(e)'
  BY <1>10, <1>11
\* A claim of e: under RETRY_PENDING nobody is busy with it.
<1>12. ASSUME row[e].status = "RETRY_PENDING", row'[e].status = "PROCESSING",
              worker'[i].pc = "dispatch"
       PROVE  Orderly(e)'
  <2>1. /\ \A c \in Deliveries : ~RequestBusy(c, e)
        /\ \A j \in Workers : ~WorkerHolds(j, e)
    BY <1>12 DEF Sole
  <2> QED
    BY <1>10, <1>12, <2>1
\* The write of the result of e: its writer was the only one busy with it.
<1>13. ASSUME WorkerHolds(i, e), worker'[i].pc = "idle",
              row'[e].status # "RECEIVED", row'[e].status # "ABSENT",
              row'[e].status = "RETRY_PENDING" =>
                /\ row'[e].attempts < MaxAttempts
                /\ row'[e].retryAt \in {"later", "due"}
                /\ row'[e].lockedAt = "null"
       PROVE  Orderly(e)'
  <2>1. /\ \A c \in Deliveries : ~RequestBusy(c, e)
        /\ \A j \in Workers : WorkerHolds(j, e) => j = i
    BY <1>13 DEF Sole
  <2> QED
    BY <1>10, <1>13, <2>1
<1>1. CASE Poll(i) \/ Visit(i) \/ ScriptPoll(i) \/ RetryDispatched(i)
  <2>1. UNCHANGED row
    BY <1>1 DEF Poll, Visit, ScriptPoll, RetryDispatched
  <2>2. CASE Poll(i) \/ ScriptPoll(i)
    BY <1>0, <1>11, <2>1, <2>2 DEF Poll, ScriptPoll
  <2>3. CASE Visit(i)
    BY <1>0, <1>11, <2>1, <2>3 DEF Visit
  <2>4. CASE RetryDispatched(i)
    BY <1>0, <1>11, <2>1, <2>4 DEF RetryDispatched
  <2> QED
    BY <1>1, <2>2, <2>3, <2>4
<1>2. CASE Reread(i)
  BY <1>0, <1>2, <1>11 DEF Reread
<1>3. CASE Claim(i)
  <2>1. CASE worker[i].event = e /\ worker'[i].pc = "dispatch"
    BY <1>0, <1>3, <1>12, <2>1 DEF Claim, Row
  <2>2. CASE worker[i].event # e \/ worker'[i].pc = "idle"
    BY <1>0, <1>3, <1>11, <2>2 DEF Claim
  <2> QED
    BY <1>0, <1>3, <2>1, <2>2 DEF Claim
<1>4. CASE ScriptClaim(i)
  <2>1. PICK f \in worker[i].batch :
          \/ /\ row[f].status = "RETRY_PENDING"
             /\ row' = [row EXCEPT ![f].status = "PROCESSING",
                                   ![f].attempts = @ + 1,
                                   ![f].lockedAt = "held"]
             /\ worker' = [worker EXCEPT ![i].batch = @ \ {f},
                             ![i].pc = "dispatch", ![i].event = f]
          \/ /\ worker' = [worker EXCEPT ![i].batch = @ \ {f}]
             /\ UNCHANGED row
    BY <1>4 DEF ScriptClaim
  <2>2. CASE f = e /\ worker'[i].pc = "dispatch"
    BY <1>0, <1>4, <1>12, <2>1, <2>2 DEF ScriptClaim, Row
  <2>3. CASE (f # e \/ UNCHANGED row) /\ worker'[i].pc # "fail"
    BY <1>0, <1>11, <2>1, <2>3
  <2>4. \/ worker'[i].pc = "dispatch"
        \/ UNCHANGED row /\ worker'[i].pc = "idle"
    BY <1>0, <1>4, <2>1 DEF ScriptClaim
  <2> QED
    BY <2>2, <2>3, <2>4
<1>5. CASE RetrySucceed(i)
  <2>1. CASE worker[i].event = e
    <3>1. WorkerHolds(i, e)
      BY <1>5, <2>1 DEF RetrySucceed
    <3>2. worker'[i].pc = "idle" /\ row'[e].status = "PROCESSED"
      BY <1>0, <1>5, <2>1 DEF RetrySucceed, Row
    <3> QED
      BY <1>13, <3>1, <3>2
  <2>2. CASE worker[i].event # e
    BY <1>0, <1>5, <1>11, <2>2 DEF RetrySucceed
  <2> QED
    BY <2>1, <2>2
<1>6. CASE RetryFail(i)
  <2>1. CASE worker[i].event = e
    <3>1. WorkerHolds(i, e) /\ worker[i].current = row[e].attempts
      BY <1>6, <2>1 DEF RetryFail
    <3>2. /\ worker'[i].pc = "idle" /\ row'[e].attempts = row[e].attempts
          /\ row'[e].status =
               IF row[e].attempts < MaxAttempts THEN "RETRY_PENDING" ELSE "FAILED"
          /\ row'[e].lockedAt = "null"
          /\ row[e].attempts < MaxAttempts => row'[e].retryAt = "later"
      BY <1>0, <1>6, <2>1, <3>1 DEF RetryFail, Row
    <3> QED
      BY <1>13, <3>1, <3>2
  <2>2. CASE worker[i].event # e
    BY <1>0, <1>6, <1>11, <2>2 DEF RetryFail
  <2> QED
    BY <2>1, <2>2
<1>7. CASE WorkerCallFails(i)
  <2>1. row' = row /\ worker'[i].pc # "fail"
    BY <1>0, <1>7 DEF WorkerCallFails, Idle
  <2> QED
    BY <1>11, <2>1
<1> QED
  BY <1>1, <1>2, <1>3, <1>4, <1>5, <1>6, <1>7 DEF WorkerStep

\* No step takes an event that came once out of order.
LEMMA OrderlySteps ==
  ASSUME MaxAttempts > 1
  PROVE  TypeInv /\ ReadsAreOld /\ SoleInv /\ OrderlyInv /\ [Next]_vars
           => OrderlyInv'
<1> SUFFICES ASSUME TypeInv, ReadsAreOld, SoleInv, OrderlyInv, [Next]_vars,
                    NEW e \in Events, ~readmitted'[e]
             PROVE  Orderly(e)'
  BY DEF OrderlyInv
<1>1. ~readmitted[e]
  BY ReadmittedWriters DEF Lookup, TypeInv, TypeOK
<1>2. Sole(e) /\ Orderly(e)
  BY <1>1 DEF SoleInv, OrderlyInv
<1>3. ASSUME NEW f \in Events, RetryTimeComes(f) \/ LockTimesOut(f)
      PROVE  Orderly(e)'
  <2>0. row \in [Events -> Row]
    BY DEF TypeInv, TypeOK
  <2>1. /\ row'[e].status = row[e].status
        /\ row'[e].attempts = row[e].attempts
        /\ row'[e].lockedAt = row[e].lockedAt \/ row[e].lockedAt = "held"
        /\ row'[e].retryAt = row[e].retryAt \/ row'[e].retryAt = "due"
    BY <1>3, <2>0 DEF RetryTimeComes, LockTimesOut, Row
  <2>2. UNCHANGED <<request, worker>>
    BY <1>3 DEF RetryTimeComes, LockTimesOut
  <2> QED
    BY <1>2, <2>1, <2>2 DEF Orderly, RequestBusy, RequestHolds, WorkerHolds
<1>4. ASSUME NEW i \in Workers, Crash(i)
      PROVE  Orderly(e)'
  <2>0. request \in [Deliveries -> Request] /\ worker \in [Workers -> Worker]
    BY DEF TypeInv, TypeOK
  <2>1. /\ row' = row
        /\ \A d \in Deliveries : request'[d].pc = "lost" \/ request'[d] = request[d]
        /\ \A j \in Workers : worker'[j].pc = "idle" \/ worker'[j] = worker[j]
    BY <1>4, <2>0 DEF Crash, Idle, Request
  <2> QED
    BY <1>2, <2>1 DEF Orderly, RequestBusy, RequestHolds, WorkerHolds
<1>5. CASE UNCHANGED vars
  BY <1>2, <1>5 DEF vars, Orderly, RequestBusy, RequestHolds, WorkerHolds
<1> QED
  BY <1>2, <1>3, <1>4, <1>5, OrderlyRequestSteps, OrderlyWorkerSteps DEF Next

\* What the two theorems that follow rest on, for two attempts or more: with
\* a single one the first failure would wait for a retry that never comes.
LEMMA InitOrder == Init => ReadsAreOld /\ SoleInv /\ AttendedInv /\ OrderlyInv
  BY DEF Init, NoRow, Unsent, Idle, ReadsAreOld, SoleInv, Sole, AttendedInv,
         Attended, OrderlyInv, Orderly, RequestBusy, RequestHolds, WorkerHolds

\* Only a fault leaves a row RECEIVED or PROCESSING with nobody to move it,
\* and only a redelivery leaves one waiting for a retry that never comes.
THEOREM NoneStranded ==
  ASSUME MaxAttempts > 1
  PROVE  Spec => []NothingStranded
<1>1. TypeInv /\ AttendedInv /\ OrderlyInv => NothingStranded
  <2> SUFFICES ASSUME TypeInv, AttendedInv, OrderlyInv
               PROVE  NothingStranded
    OBVIOUS
  <2>1. faults > 0 \/ faults = 0
    BY CountsAssumption DEF TypeInv, TypeOK
  <2> QED
    BY <2>1 DEF AttendedInv, Attended, OrderlyInv, Orderly, NothingStranded,
                Holders
<1> QED
  BY <1>1, InitTypeInv, InitOrder, NextTypeInv, ReadsAreOldSteps, SoleSteps,
     AttendedSteps, OrderlySteps, PTL DEF Spec

----------------------------------------------------------------------------
(* Route, passes and script implement RetryQueue.                          *)

\* A handler that looks its event up does so after a failed insert, and a row
\* never goes away.
Known == \A d \in Deliveries :
           request[d].pc = "lookup" => row[request[d].event].status # "ABSENT"

LEMMA RowsStay ==
  ASSUME TypeInv, [Next]_vars, NEW e \in Events, row[e].status # "ABSENT"
  PROVE  row'[e].status # "ABSENT"
<1>0. row \in [Events -> Row]
  BY DEF TypeInv, TypeOK
<1>1. ASSUME NEW d \in Deliveries, Create(d) \/ Mark(d)
      PROVE  row'[e].status # "ABSENT"
  <2>1. CASE Create(d)
    BY <1>0, <2>1 DEF Create, Row
  <2>2. CASE Mark(d)
    BY <1>0, <2>2 DEF Mark, Row
  <2> QED
    BY <1>1, <2>1, <2>2
<1>2. ASSUME NEW d \in Deliveries, Succeed(d) \/ Fail(d)
      PROVE  row'[e].status # "ABSENT"
  <2>1. CASE Succeed(d)
    BY <1>0, <2>1 DEF Succeed, Row
  <2>2. CASE Fail(d)
    BY <1>0, <2>2 DEF Fail, Row
  <2> QED
    BY <1>2, <2>1, <2>2
<1>3. ASSUME NEW i \in Workers, Claim(i) \/ RetrySucceed(i)
      PROVE  row'[e].status # "ABSENT"
  <2>1. CASE Claim(i)
    BY <1>0, <2>1 DEF Claim, Row
  <2>2. CASE RetrySucceed(i)
    BY <1>0, <2>2 DEF RetrySucceed, Row
  <2> QED
    BY <1>3, <2>1, <2>2
<1>4. ASSUME NEW i \in Workers, ScriptClaim(i) \/ RetryFail(i)
      PROVE  row'[e].status # "ABSENT"
  <2>1. CASE ScriptClaim(i)
    BY <1>0, <2>1 DEF ScriptClaim, Row
  <2>2. CASE RetryFail(i)
    BY <1>0, <2>2 DEF RetryFail, Row
  <2> QED
    BY <1>4, <2>1, <2>2
<1>5. ASSUME NEW f \in Events, RetryTimeComes(f) \/ LockTimesOut(f)
      PROVE  row'[e].status # "ABSENT"
  BY <1>0, <1>5 DEF RetryTimeComes, LockTimesOut, Row
<1> QED
  BY <1>1, <1>2, <1>3, <1>4, <1>5, RowWriters

LEMMA KnownSteps == TypeInv /\ Known /\ [Next]_vars => Known'
<1> SUFFICES ASSUME TypeInv, Known, [Next]_vars, NEW d \in Deliveries,
                    request'[d].pc = "lookup"
             PROVE  row'[request'[d].event].status # "ABSENT"
  BY DEF Known
<1>0. /\ request \in [Deliveries -> Request] /\ request[d] \in Request
      /\ row \in [Events -> Row]
  BY DEF TypeInv, TypeOK
<1>1. PICK e \in Events \cup {None} : e = request[d].event
  BY <1>0 DEF Request
<1>2. CASE request'[d] = request[d]
  <2>1. e \in Events /\ row[e].status # "ABSENT"
    BY <1>1, <1>2 DEF Known, TypeInv, RequestEngaged
  <2>2. row'[e].status # "ABSENT"
    BY <2>1, RowsStay
  <2> QED
    BY <1>1, <1>2, <2>2
<1>3. CASE Create(d)
  BY <1>0, <1>3 DEF Create, Request
<1>4. ASSUME NEW c \in Deliveries,
             \/ Reject(c)
             \/ \E f \in Events, i \in Instances : Deliver(c, f, i)
             \/ RequestStep(c) /\ ~Create(c)
             \/ RequestCallFails(c)
      PROVE  request'[d] = request[d]
  <2>1. CASE Reject(c)
    BY <1>0, <2>1 DEF Reject, Request
  <2>6. ASSUME NEW f \in Events, NEW i \in Instances, Deliver(c, f, i)
        PROVE  request'[d] = request[d]
    BY <1>0, <2>6 DEF Deliver, Request
  <2>2. CASE Lookup(c) \/ Mark(c)
    BY <1>0, <2>2 DEF Lookup, Mark, Request
  <2>3. CASE Dispatched(c)
    BY <1>0, <2>3 DEF Dispatched, Request
  <2>4. CASE Succeed(c) \/ Fail(c)
    BY <1>0, <2>4 DEF Succeed, Fail, Request
  <2>5. CASE RequestCallFails(c)
    BY <1>0, <2>5 DEF RequestCallFails, Request
  <2> QED
    BY <1>4, <2>1, <2>2, <2>3, <2>4, <2>5, <2>6 DEF RequestStep
<1>5. ASSUME NEW c \in Deliveries, c # d, Create(c)
      PROVE  request'[d] = request[d]
  BY <1>0, <1>5 DEF Create
<1>6. ASSUME NEW i \in Workers, Crash(i)
      PROVE  request'[d] = request[d]
  BY <1>0, <1>6 DEF Crash, Request
<1>7. CASE UNCHANGED request
  BY <1>2, <1>7
<1> QED
  BY <1>2, <1>3, <1>4, <1>5, <1>6, <1>7, RequestWriters

\* The queue as the table shows it.
Stages == [e \in Events |-> StageOf(row[e].status)]
Tries == [e \in Events |-> row[e].attempts]
Reopened == {e \in Events : readmitted[e]}

\* A step that writes a status, or that begins a try, moves that event's
\* entries only.
LEMMA QueueMoves ==
  ASSUME NEW e \in Events, NEW s, UNCHANGED readmitted,
         \A f \in Events :
           /\ row'[f].status = IF f = e THEN s ELSE row[f].status
           /\ row'[f].attempts = row[f].attempts
  PROVE  Queue!Move(e, StageOf(row[e].status), StageOf(s))
<1>1. \A f \in Events :
        StageOf(row'[f].status) =
          IF f = e THEN StageOf(s) ELSE StageOf(row[f].status)
  OBVIOUS
<1>2. Stages' = [Stages EXCEPT ![e] = StageOf(s)]
  BY <1>1 DEF Stages
<1>3. UNCHANGED <<Tries, Reopened>>
  BY DEF Tries, Reopened
<1>4. Stages[e] = StageOf(row[e].status)
  BY DEF Stages
<1> QED
  BY <1>2, <1>3, <1>4 DEF Queue!Move, Stages, Tries, Reopened

LEMMA QueueBegins ==
  ASSUME NEW e \in Events, UNCHANGED readmitted,
         \A f \in Events :
           /\ row'[f].status = IF f = e THEN "PROCESSING" ELSE row[f].status
           /\ row'[f].attempts =
                IF f = e THEN row[f].attempts + 1 ELSE row[f].attempts
  PROVE  Queue!Begin(e)
<1>1. StageOf("PROCESSING") = "busy"
  BY DEF StageOf
<1>2. \A f \in Events :
        StageOf(row'[f].status) =
          IF f = e THEN "busy" ELSE StageOf(row[f].status)
  BY <1>1
<1>3. Stages' = [Stages EXCEPT ![e] = "busy"]
  BY <1>2 DEF Stages
<1>4. Tries' = [Tries EXCEPT ![e] = @ + 1]
  BY DEF Tries
<1>5. UNCHANGED Reopened
  BY DEF Reopened
<1> QED
  BY <1>3, <1>4, <1>5 DEF Queue!Begin, Stages, Tries, Reopened

LEMMA QueueStays ==
  ASSUME UNCHANGED readmitted,
         \A f \in Events :
           /\ row'[f].status = row[f].status
           /\ row'[f].attempts = row[f].attempts
  PROVE  UNCHANGED <<Stages, Tries, Reopened>>
<1>1. \A f \in Events : StageOf(row'[f].status) = StageOf(row[f].status)
  OBVIOUS
<1> QED
  BY <1>1 DEF Stages, Tries, Reopened

\* What a state knows of the rows it will move.
QueueInv ==
  /\ TypeInv /\ ReadsAreOld /\ GivenUpOnlyAtLimit
  /\ SoleInv /\ OrderlyInv /\ Known

\* The write of a result ends the only try there is, or, of an event that was
\* readmitted, one of several.
LEMMA QueueResults ==
  ASSUME QueueInv, QueueInv', NEW e \in Events,
         NEW s \in {"PROCESSED", "RETRY_PENDING", "FAILED"},
         UNCHANGED readmitted,
         \A f \in Events :
           /\ row'[f].status = IF f = e THEN s ELSE row[f].status
           /\ row'[f].attempts = row[f].attempts,
         ~readmitted[e] => row[e].status = "PROCESSING"
  PROVE  Queue!Next
<1>1. Queue!Move(e, StageOf(row[e].status), StageOf(s))
  BY QueueMoves
<1>2. /\ StageOf("PROCESSED") = "done" /\ StageOf("RETRY_PENDING") = "waiting"
      /\ StageOf("FAILED") = "failed" /\ StageOf("PROCESSING") = "busy"
  BY DEF StageOf
<1>3. s = "FAILED" => row[e].attempts >= MaxAttempts
  BY DEF QueueInv, GivenUpOnlyAtLimit
<1>4. s = "RETRY_PENDING" /\ ~readmitted[e] => row[e].attempts < MaxAttempts
  BY DEF QueueInv, OrderlyInv, Orderly
<1>5. CASE readmitted[e]
  BY <1>1, <1>2, <1>3, <1>5 DEF Queue!Next, Queue!Overlap
<1>6. CASE ~readmitted[e]
  BY <1>1, <1>2, <1>3, <1>4, <1>6
     DEF Queue!Next, Queue!Finish, Queue!Postpone, Queue!GiveUp
<1> QED
  BY <1>5, <1>6

\* A try begins on a row nobody is busy with, below the limit, or, of an event
\* that was readmitted, beside others.
LEMMA QueueTries ==
  ASSUME NEW e \in Events, UNCHANGED readmitted,
         \A f \in Events :
           /\ row'[f].status = IF f = e THEN "PROCESSING" ELSE row[f].status
           /\ row'[f].attempts =
                IF f = e THEN row[f].attempts + 1 ELSE row[f].attempts,
         ~readmitted[e] => /\ row[e].status \in {"RECEIVED", "RETRY_PENDING"}
                           /\ row[e].attempts < MaxAttempts
  PROVE  Queue!Next
<1>1. Queue!Begin(e)
  BY QueueBegins
<1>2. StageOf("RECEIVED") = "new" /\ StageOf("RETRY_PENDING") = "waiting"
  BY DEF StageOf
<1>3. CASE readmitted[e]
  BY <1>1, <1>3 DEF Queue!Next, Queue!Overlap
<1>4. CASE ~readmitted[e]
  BY <1>1, <1>2, <1>4 DEF Queue!Next, Queue!Try
<1> QED
  BY <1>3, <1>4

LEMMA NextQueue ==
  ASSUME QueueInv, QueueInv', [Next]_vars
  PROVE  Queue!Next \/ UNCHANGED <<Stages, Tries, Reopened>>
<1>0. /\ row \in [Events -> Row] /\ request \in [Deliveries -> Request]
      /\ readmitted \in [Events -> BOOLEAN] /\ MaxAttempts \in Nat \ {0}
      /\ \A e \in Events : row[e].attempts \in Nat
      /\ \A e \in Events : ~readmitted[e] => Sole(e) /\ Orderly(e)
  BY CountsAssumption DEF QueueInv, TypeInv, TypeOK, SoleInv, OrderlyInv, Row
<1>1. ASSUME NEW d \in Deliveries, Create(d)
      PROVE  Queue!Next \/ UNCHANGED <<Stages, Tries, Reopened>>
  <2>0. PICK e \in Events : e = request[d].event
    BY <1>1 DEF Create, QueueInv, TypeInv, RequestEngaged
  <2>1. CASE row[e].status = "ABSENT"
    <3>1. /\ UNCHANGED readmitted
          /\ \A f \in Events :
               /\ row'[f].status = IF f = e THEN "RECEIVED" ELSE row[f].status
               /\ row'[f].attempts = row[f].attempts
      BY <1>0, <1>1, <2>0, <2>1 DEF Create, Row
    <3>2. Queue!Move(e, StageOf(row[e].status), StageOf("RECEIVED"))
      BY <3>1, QueueMoves
    <3>3. StageOf("ABSENT") = "none" /\ StageOf("RECEIVED") = "new"
      BY DEF StageOf
    <3> QED
      BY <2>1, <3>2, <3>3 DEF Queue!Next, Queue!Arrive
  <2>2. CASE row[e].status # "ABSENT"
    BY <1>1, <2>0, <2>2, QueueStays DEF Create
  <2> QED
    BY <2>1, <2>2
<1>2. ASSUME NEW d \in Deliveries, Lookup(d)
      PROVE  Queue!Next \/ UNCHANGED <<Stages, Tries, Reopened>>
  <2>0. PICK e \in Events : e = request[d].event
    BY <1>2 DEF Lookup, QueueInv, TypeInv, RequestEngaged
  <2>1. CASE row[e].status \in {"PROCESSED", "PROCESSING"}
    BY <1>2, <2>0, <2>1, QueueStays DEF Lookup
  <2>2. CASE row[e].status \notin {"PROCESSED", "PROCESSING"}
    <3>1. row[e].status \in {"RECEIVED", "RETRY_PENDING", "FAILED"}
      BY <1>0, <1>2, <2>0, <2>2 DEF Lookup, QueueInv, Known, Row, Statuses
    <3>2. StageOf(row[e].status) \in {"new", "waiting", "failed"}
      BY <3>1 DEF StageOf
    <3>3. UNCHANGED row /\ readmitted' = [readmitted EXCEPT ![e] = TRUE]
      BY <1>2, <2>0, <2>2 DEF Lookup
    <3>4. Reopened' = Reopened \cup {e} /\ UNCHANGED <<Stages, Tries>>
      BY <1>0, <3>3 DEF Reopened, Stages, Tries
    <3> QED
      BY <3>2, <3>4 DEF Queue!Next, Queue!Reopen, Stages, Tries, Reopened
  <2> QED
    BY <2>1, <2>2
<1>3. ASSUME NEW d \in Deliveries, Mark(d)
      PROVE  Queue!Next
  <2>0. PICK e \in Events : e = request[d].event
    BY <1>3 DEF Mark, QueueInv, TypeInv, RequestEngaged
  <2>1. /\ UNCHANGED readmitted
        /\ \A f \in Events :
             /\ row'[f].status = IF f = e THEN "PROCESSING" ELSE row[f].status
             /\ row'[f].attempts =
                  IF f = e THEN row[f].attempts + 1 ELSE row[f].attempts
    BY <1>0, <1>3, <2>0 DEF Mark, Row
  <2>2. RequestBusy(d, e) /\ request[d].pc = "mark"
    BY <1>3, <2>0 DEF Mark, RequestBusy
  <2>3. ~readmitted[e] =>
          row[e].status = "RECEIVED" /\ row[e].attempts < MaxAttempts
    BY <1>0, <2>2 DEF Sole, Orderly
  <2> QED
    BY <2>1, <2>3, QueueTries
<1>4. ASSUME NEW d \in Deliveries, Succeed(d) \/ Fail(d)
      PROVE  Queue!Next
  <2>0. PICK e \in Events : e = request[d].event
    BY <1>4 DEF Succeed, Fail, QueueInv, TypeInv, RequestEngaged
  <2>1. UNCHANGED readmitted
    BY <1>4 DEF Succeed, Fail
  <2>2. PICK s \in {"PROCESSED", "RETRY_PENDING", "FAILED"} :
          \A f \in Events :
            /\ row'[f].status = IF f = e THEN s ELSE row[f].status
            /\ row'[f].attempts = row[f].attempts
    <3>1. CASE Succeed(d)
      BY <1>0, <2>0, <3>1 DEF Succeed, Row
    <3>2. CASE Fail(d)
      BY <1>0, <2>0, <3>2 DEF Fail, Row
    <3> QED
      BY <1>4, <3>1, <3>2
  <2>3. RequestBusy(d, e) /\ request[d].pc # "mark"
    BY <1>4, <2>0 DEF Succeed, Fail, RequestBusy, RequestHolds
  <2>4. ~readmitted[e] => row[e].status = "PROCESSING"
    BY <1>0, <2>3 DEF Sole
  <2> QED
    BY <2>1, <2>2, <2>4, QueueResults
<1>5. ASSUME NEW i \in Workers, Claim(i)
      PROVE  Queue!Next \/ UNCHANGED <<Stages, Tries, Reopened>>
  <2>0. PICK e \in Events : e = worker[i].event
    BY <1>5 DEF Claim, QueueInv, TypeInv, WorkerEngaged
  <2>1. CASE UNCHANGED row
    BY <1>5, <2>1, QueueStays DEF Claim
  <2>2. CASE row' # row
    <3>1. /\ UNCHANGED readmitted
          /\ row[e].status = "RETRY_PENDING"
          /\ \A f \in Events :
               /\ row'[f].status =
                    IF f = e THEN "PROCESSING" ELSE row[f].status
               /\ row'[f].attempts =
                    IF f = e THEN row[f].attempts + 1 ELSE row[f].attempts
      BY <1>0, <1>5, <2>0, <2>2 DEF Claim, Row
    <3>2. ~readmitted[e] => row[e].attempts < MaxAttempts
      BY <1>0, <3>1 DEF Orderly
    <3> QED
      BY <3>1, <3>2, QueueTries
  <2> QED
    BY <2>1, <2>2
<1>6. ASSUME NEW i \in Workers, ScriptClaim(i)
      PROVE  Queue!Next \/ UNCHANGED <<Stages, Tries, Reopened>>
  <2>1. CASE UNCHANGED row
    BY <1>6, <2>1, QueueStays DEF ScriptClaim
  <2>2. CASE row' # row
    <3>0. worker[i].batch \subseteq Events
      BY DEF QueueInv, TypeInv, TypeOK, Worker
    <3>1. PICK e \in worker[i].batch :
            /\ row[e].status = "RETRY_PENDING"
            /\ row' = [row EXCEPT ![e].status = "PROCESSING",
                                  ![e].attempts = @ + 1,
                                  ![e].lockedAt = "held"]
      BY <1>6, <2>2 DEF ScriptClaim
    <3>2. /\ e \in Events /\ UNCHANGED readmitted
          /\ \A f \in Events :
               /\ row'[f].status =
                    IF f = e THEN "PROCESSING" ELSE row[f].status
               /\ row'[f].attempts =
                    IF f = e THEN row[f].attempts + 1 ELSE row[f].attempts
      BY <1>0, <1>6, <3>0, <3>1 DEF ScriptClaim, Row
    <3>3. ~readmitted[e] => row[e].attempts < MaxAttempts
      BY <1>0, <3>1, <3>2 DEF Orderly
    <3> QED
      BY <3>1, <3>2, <3>3, QueueTries
  <2> QED
    BY <2>1, <2>2
<1>7. ASSUME NEW i \in Workers, RetrySucceed(i) \/ RetryFail(i)
      PROVE  Queue!Next
  <2>0. PICK e \in Events : e = worker[i].event
    BY <1>7 DEF RetrySucceed, RetryFail, QueueInv, TypeInv, WorkerEngaged
  <2>1. UNCHANGED readmitted
    BY <1>7 DEF RetrySucceed, RetryFail
  <2>2. PICK s \in {"PROCESSED", "RETRY_PENDING", "FAILED"} :
          \A f \in Events :
            /\ row'[f].status = IF f = e THEN s ELSE row[f].status
            /\ row'[f].attempts = row[f].attempts
    <3>1. CASE RetrySucceed(i)
      <4>1. \A f \in Events :
              /\ row'[f].status = IF f = e THEN "PROCESSED" ELSE row[f].status
              /\ row'[f].attempts = row[f].attempts
        BY <1>0, <2>0, <3>1 DEF RetrySucceed, Row
      <4> QED
        BY <4>1
    <3>2. CASE RetryFail(i)
      <4>1. PICK s \in {"RETRY_PENDING", "FAILED"} :
              s = IF worker[i].current < MaxAttempts THEN "RETRY_PENDING"
                                                     ELSE "FAILED"
        OBVIOUS
      <4>2. \A f \in Events :
              /\ row'[f].status = IF f = e THEN s ELSE row[f].status
              /\ row'[f].attempts = row[f].attempts
        <5>1. row'[e].status = s
          BY <1>0, <2>0, <3>2, <4>1 DEF RetryFail, Row
        <5>2. row'[e].attempts = row[e].attempts
          BY <1>0, <2>0, <3>2 DEF RetryFail, Row
        <5>3. \A f \in Events : f # e => row'[f] = row[f]
          BY <1>0, <2>0, <3>2 DEF RetryFail
        <5> QED
          BY <5>1, <5>2, <5>3
      <4> QED
        BY <4>2
    <3> QED
      BY <1>7, <3>1, <3>2
  <2>3. WorkerHolds(i, e)
    BY <1>7, <2>0 DEF RetrySucceed, RetryFail, WorkerHolds
  <2>4. ~readmitted[e] => row[e].status = "PROCESSING"
    BY <1>0, <2>3 DEF Sole
  <2> QED
    BY <2>1, <2>2, <2>4, QueueResults
<1>8. ASSUME NEW e \in Events, RetryTimeComes(e) \/ LockTimesOut(e)
      PROVE  UNCHANGED <<Stages, Tries, Reopened>>
  <2>1. /\ UNCHANGED readmitted
        /\ \A f \in Events :
             /\ row'[f].status = row[f].status
             /\ row'[f].attempts = row[f].attempts
    BY <1>0, <1>8 DEF RetryTimeComes, LockTimesOut, Row
  <2> QED
    BY <2>1, QueueStays
<1>9. CASE UNCHANGED row /\ UNCHANGED readmitted
  BY <1>9, QueueStays
<1> QED
  BY <1>1, <1>2, <1>3, <1>4, <1>5, <1>6, <1>7, <1>8, <1>9, RowWriters,
     ReadmittedWriters

LEMMA InitQueue == Init => Queue!Init /\ QueueInv
<1> SUFFICES ASSUME Init PROVE Queue!Init /\ QueueInv
  OBVIOUS
<1>1. StageOf("ABSENT") = "none"
  BY DEF StageOf
<1>2. Queue!Init
  BY <1>1 DEF Init, NoRow, Queue!Init
<1>3. Known /\ GivenUpOnlyAtLimit
  BY DEF Init, NoRow, Unsent, Known, GivenUpOnlyAtLimit
<1> QED
  BY <1>2, <1>3, InitTypeInv, InitOrder DEF QueueInv

LEMMA QueueInvSteps ==
  ASSUME MaxAttempts > 1
  PROVE  QueueInv /\ [Next]_vars => QueueInv'
  BY NextTypeInv, ReadsAreOldSteps, GivenUpSteps, SoleSteps, OrderlySteps,
     KnownSteps DEF QueueInv

\* For any events, deliveries and processes: whatever overlaps, is stale or
\* crashes, an event that came once is tried by one process at a time, below
\* the limit, waits only while it has a try left, is given up only at the
\* limit and is done for good.
THEOREM ImplementsQueue ==
  ASSUME MaxAttempts > 1
  PROVE  Spec => KeepsQueue
<1>1. QueueInv /\ QueueInv' /\ [Next]_vars =>
        [Queue!Next]_<<Stages, Tries, Reopened>>
  BY NextQueue
<1> QED
  BY <1>1, InitQueue, QueueInvSteps, PTL
     DEF Spec, KeepsQueue, Queue!Spec, Queue!queue, Stages, Tries, Reopened
============================================================================
