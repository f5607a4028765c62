--------------------------- MODULE WebhookEvents ---------------------------
(***************************************************************************)
(* The life of the rows of the WebhookEvent table: Razorpay deliveries     *)
(* handled by POST /webhooks/razorpay (apps/api/src/routes/                *)
(* webhook.routes.ts) and the retry pass that every API instance runs on a *)
(* timer (apps/api/src/workers/webhook-retry.worker.ts), beside the older  *)
(* standalone retry script (apps/api/src/events/webhook-retry.service.ts). *)
(* Every step is one awaited database call, or the end of the event's      *)
(* dispatch to its handler; between two steps of a process the others may  *)
(* run, the process may crash, and the database may reject a call.         *)
(***************************************************************************)
EXTENDS Naturals, FiniteSets

CONSTANTS
  Events,        \* razorpay event ids
  Deliveries,    \* HTTP requests Razorpay makes, each used once
  Instances,     \* API processes on the shared database
  Scripts,       \* standalone retry processes on the same database
  MaxAttempts,   \* MAX_ATTEMPTS (5) of the route and of the worker
  BatchSize,     \* take: 10 of the retry query
  MaxFaults,     \* bound on the crashes and rejected calls of a behaviour
  None           \* no event, no host

ASSUME CountsAssumption ==
  /\ MaxAttempts \in Nat \ {0}
  /\ BatchSize \in Nat \ {0}
  /\ MaxFaults \in Nat
  /\ IsFiniteSet(Events)
ASSUME NamesAssumption ==
  /\ Deliveries \cap (Instances \cup Scripts) = {}
  /\ Instances \cap Scripts = {}
  /\ None \notin Events \cup Instances

VARIABLES
  row,         \* the WebhookEvent table; status "ABSENT" before the insert
  request,     \* the handler of each delivery
  worker,      \* the retry pass of each instance and script
  faults,      \* crashes and rejected calls so far
  claims,      \* history: claims of the event by the instances' passes
  readmitted   \* history: a further delivery passed the duplicate check

Workers == Instances \cup Scripts

vars == <<row, request, worker, faults, claims, readmitted>>

Statuses == {"ABSENT", "RECEIVED", "PROCESSING", "PROCESSED",
             "RETRY_PENDING", "FAILED"}

Row == [status     : Statuses,
        processed  : BOOLEAN,
        attempts   : Nat,                       \* processingAttempts
        retryAt    : {"null", "later", "due"},  \* nextRetryAt against now
        lockedAt   : {"null", "held", "expired"},
        receivedAt : Nat]                       \* order of the inserts

\* A handler awaits the call its pc names: the insert, the lookup after a
\* unique violation, the move to PROCESSING, the dispatch, and the write of
\* the result ("succeed" inside the try, "fail" in its catch).
RequestPc == {"unsent", "create", "lookup", "mark", "dispatch",
              "succeed", "fail", "answered", "lost"}

Request == [pc       : RequestPc,
            host     : Instances \cup {None},
            event    : Events \cup {None},
            snapshot : Nat,    \* webhookEvent.processingAttempts as read
            answer   : {"none", "rejected", "duplicate", "ok", "error"}]

WorkerPc == {"idle", "claim", "dispatch", "succeed", "reread", "fail"}

Worker == [pc      : WorkerPc,
           batch   : SUBSET Events,   \* events not yet visited by the pass
           event   : Events \cup {None},
           current : Nat]             \* attempts re-read in the catch block

\* One type invariant: every row, handler and worker has its declared shape.
TypeOK ==
  /\ row \in [Events -> Row]
  /\ request \in [Deliveries -> Request]
  /\ worker \in [Workers -> Worker]
  /\ faults \in 0..MaxFaults
  /\ claims \in [Events -> Nat]
  /\ readmitted \in [Events -> BOOLEAN]

NoRow == [status |-> "ABSENT", processed |-> FALSE, attempts |-> 0,
          retryAt |-> "null", lockedAt |-> "null", receivedAt |-> 0]
Unsent == [pc |-> "unsent", host |-> None, event |-> None,
           snapshot |-> 0, answer |-> "none"]
Idle == [pc |-> "idle", batch |-> {}, event |-> None, current |-> 0]

Init ==
  /\ row = [e \in Events |-> NoRow]
  /\ request = [d \in Deliveries |-> Unsent]
  /\ worker = [i \in Workers |-> Idle]
  /\ faults = 0
  /\ claims = [e \in Events |-> 0]
  /\ readmitted = [e \in Events |-> FALSE]

----------------------------------------------------------------------------
(* The route handler.                                                      *)

\* Checks on secret, signature, event id, JSON and type answer 4xx or 500
\* before the database is touched.
Reject(d) ==
  /\ request[d].pc = "unsent"
  /\ request' = [request EXCEPT ![d].pc = "answered",
                                ![d].answer = "rejected"]
  /\ UNCHANGED <<row, worker, faults, claims, readmitted>>

Deliver(d, e, i) ==
  /\ request[d].pc = "unsent"
  /\ request' = [request EXCEPT ![d].pc = "create", ![d].event = e,
                                ![d].host = i]
  /\ UNCHANGED <<row, worker, faults, claims, readmitted>>

Stored == {e \in Events : row[e].status # "ABSENT"}

\* The insert; the unique index on eventId turns a second one into P2002.
Create(d) ==
  LET e == request[d].event IN
  /\ request[d].pc = "create"
  /\ \/ /\ row[e].status = "ABSENT"
        /\ row' = [row EXCEPT ![e].status = "RECEIVED",
                              ![e].receivedAt = Cardinality(Stored) + 1]
        /\ request' = [request EXCEPT ![d].pc = "mark"]
     \/ /\ row[e].status # "ABSENT"
        /\ request' = [request EXCEPT ![d].pc = "lookup"]
        /\ UNCHANGED row
  /\ UNCHANGED <<worker, faults, claims, readmitted>>

\* Only PROCESSED and PROCESSING rows count as duplicates; any other row is
\* taken over, with the attempts read here.
Lookup(d) ==
  LET e == request[d].event IN
  /\ request[d].pc = "lookup"
  /\ \/ /\ row[e].status \in {"PROCESSED", "PROCESSING"}
        /\ request' = [request EXCEPT ![d].pc = "answered",
                                      ![d].answer = "duplicate"]
        /\ UNCHANGED readmitted
     \/ /\ row[e].status \notin {"PROCESSED", "PROCESSING"}
        /\ request' = [request EXCEPT ![d].pc = "mark",
                                      ![d].snapshot = row[e].attempts]
        /\ readmitted' = [readmitted EXCEPT ![e] = TRUE]
  /\ UNCHANGED <<row, worker, faults, claims>>

\* Variant for a mutation: the increment has the wrong sign.
MarkDecrement(d) ==
  LET e == request[d].event IN
  /\ request[d].pc = "mark"
  /\ row' = [row EXCEPT ![e].status = "PROCESSING",
                        ![e].attempts = @ - 1]
  /\ request' = [request EXCEPT ![d].pc = "dispatch"]
  /\ UNCHANGED <<worker, faults, claims, readmitted>>

\* The update is by id alone: it does not ask what the row's status is now,
\* and leaves processed, nextRetryAt and lockedAt as they are.
Mark(d) ==
  LET e == request[d].event IN
  /\ request[d].pc = "mark"
  /\ row' = [row EXCEPT ![e].status = "PROCESSING",
                        ![e].attempts = @ + 1]
  /\ request' = [request EXCEPT ![d].pc = "dispatch"]
  /\ UNCHANGED <<worker, faults, claims, readmitted>>

\* dispatchWebhookEvent returns, or throws at any point of the handler.
Dispatched(d) ==
  /\ request[d].pc = "dispatch"
  /\ \E next \in {"succeed", "fail"} :
       request' = [request EXCEPT ![d].pc = next]
  /\ UNCHANGED <<row, worker, faults, claims, readmitted>>

Succeed(d) ==
  LET e == request[d].event IN
  /\ request[d].pc = "succeed"
  /\ row' = [row EXCEPT ![e].status = "PROCESSED", ![e].processed = TRUE]
  /\ request' = [request EXCEPT ![d].pc = "answered", ![d].answer = "ok"]
  /\ UNCHANGED <<worker, faults, claims, readmitted>>

\* const attempts = webhookEvent.processingAttempts: the count read before
\* this handler's own increment decides whether there is another retry.
Fail(d) ==
  LET e == request[d].event
      shouldRetry == request[d].snapshot < MaxAttempts IN
  /\ request[d].pc = "fail"
  /\ row' = [row EXCEPT
       ![e].status = IF shouldRetry THEN "RETRY_PENDING" ELSE "FAILED",
       ![e].processed = FALSE,
       ![e].retryAt = IF shouldRetry THEN "later" ELSE "null"]
  /\ request' = [request EXCEPT ![d].pc = "answered", ![d].answer = "error"]
  /\ UNCHANGED <<worker, faults, claims, readmitted>>

\* A database call of the handler rejects: inside the inner try its catch
\* runs, anywhere else the outer catch answers 500 and the row stays as is.
RequestCallFails(d) ==
  /\ faults < MaxFaults
  /\ faults' = faults + 1
  /\ \/ /\ request[d].pc = "succeed"
        /\ request' = [request EXCEPT ![d].pc = "fail"]
     \/ /\ request[d].pc \in {"create", "lookup", "mark", "fail"}
        /\ request' = [request EXCEPT ![d].pc = "answered",
                                      ![d].answer = "error"]
  /\ UNCHANGED <<row, worker, claims, readmitted>>

----------------------------------------------------------------------------
(* The retry pass; the scheduler's running flag keeps a process to one pass*)
(* at a time, so the next poll waits for an empty batch.                   *)

Due(e) ==
  /\ row[e].status = "RETRY_PENDING"
  /\ row[e].attempts < MaxAttempts
  /\ row[e].retryAt \in {"null", "due"} \/ row[e].lockedAt = "expired"

Oldest(S) ==
  {e \in S : Cardinality({f \in S : row[f].receivedAt < row[e].receivedAt})
               < BatchSize}

Poll(i) ==
  LET due == {e \in Events : Due(e)} IN
  /\ worker[i].pc = "idle"
  /\ worker[i].batch = {}
  /\ due # {}
  /\ worker' = [worker EXCEPT ![i].batch = Oldest(due)]
  /\ UNCHANGED <<row, request, faults, claims, readmitted>>

\* Visit the oldest event left; skip it unless it is still retryable.
Visit(i) ==
  /\ worker[i].pc = "idle"
  /\ \E e \in worker[i].batch :
       /\ \A f \in worker[i].batch : row[e].receivedAt <= row[f].receivedAt
       /\ \/ /\ row[e].status = "RETRY_PENDING"
             /\ row[e].attempts < MaxAttempts
             /\ worker' = [worker EXCEPT ![i].batch = @ \ {e},
                             ![i].pc = "claim", ![i].event = e]
          \/ /\ \/ row[e].status # "RETRY_PENDING"
                \/ row[e].attempts >= MaxAttempts
             /\ worker' = [worker EXCEPT ![i].batch = @ \ {e}]
  /\ UNCHANGED <<row, request, faults, claims, readmitted>>

\* Variants for mutations: a claim by id alone, and one that does not count.
ClaimById(i) ==
  LET e == worker[i].event IN
  /\ worker[i].pc = "claim"
  /\ row' = [row EXCEPT ![e].status = "PROCESSING", ![e].attempts = @ + 1,
                        ![e].lockedAt = "held"]
  /\ claims' = [claims EXCEPT ![e] = @ + 1]
  /\ worker' = [worker EXCEPT ![i].pc = "dispatch"]
  /\ UNCHANGED <<request, faults, readmitted>>

ClaimUncounted(i) ==
  LET e == worker[i].event IN
  /\ worker[i].pc = "claim"
  /\ row[e].status = "RETRY_PENDING"
  /\ row' = [row EXCEPT ![e].status = "PROCESSING", ![e].lockedAt = "held"]
  /\ claims' = [claims EXCEPT ![e] = @ + 1]
  /\ worker' = [worker EXCEPT ![i].pc = "dispatch"]
  /\ UNCHANGED <<request, faults, readmitted>>

\* updateMany: one row is claimed, or none when it is no longer retryable.
Claim(i) ==
  LET e == worker[i].event IN
  /\ worker[i].pc = "claim"
  /\ \/ /\ row[e].status = "RETRY_PENDING"
        /\ row[e].attempts < MaxAttempts
        /\ row' = [row EXCEPT ![e].status = "PROCESSING",
                              ![e].attempts = @ + 1,
                              ![e].lockedAt = "held"]
        /\ claims' = [claims EXCEPT ![e] = @ + 1]
        /\ worker' = [worker EXCEPT ![i].pc = "dispatch"]
     \/ /\ \/ row[e].status # "RETRY_PENDING"
           \/ row[e].attempts >= MaxAttempts
        /\ worker' = [worker EXCEPT ![i].pc = "idle", ![i].event = None]
        /\ UNCHANGED <<row, claims>>
  /\ UNCHANGED <<request, faults, readmitted>>

\* The script polls by its own conditions, earliest nextRetryAt first (the
\* times are not kept, so any BatchSize of the due rows may come first) ...
ScriptPoll(i) ==
  LET due == {e \in Events : /\ row[e].status = "RETRY_PENDING"
                             /\ row[e].attempts < MaxAttempts
                             /\ row[e].retryAt = "due"
                             /\ row[e].lockedAt \in {"null", "expired"}} IN
  /\ worker[i].pc = "idle"
  /\ worker[i].batch = {}
  /\ \E S \in SUBSET due :
       /\ S # {}
       /\ Cardinality(S) <= BatchSize
       /\ S = due \/ Cardinality(S) = BatchSize
       /\ worker' = [worker EXCEPT ![i].batch = S]
  /\ UNCHANGED <<row, request, faults, claims, readmitted>>

\* Variant for a mutation: the claim asks for a free lock only.
ScriptClaimByLock(i) ==
  /\ worker[i].pc = "idle"
  /\ \E e \in worker[i].batch :
       /\ row[e].lockedAt \in {"null", "expired"}
       /\ row' = [row EXCEPT ![e].status = "PROCESSING",
                             ![e].attempts = @ + 1, ![e].lockedAt = "held"]
       /\ worker' = [worker EXCEPT ![i].batch = @ \ {e},
                       ![i].pc = "dispatch", ![i].event = e]
  /\ UNCHANGED <<request, faults, claims, readmitted>>

\* ... and claims a row of its batch without another look at its attempts.
ScriptClaim(i) ==
  /\ worker[i].pc = "idle"
  /\ \E e \in worker[i].batch :
       \/ /\ row[e].status = "RETRY_PENDING"
          /\ row[e].lockedAt \in {"null", "expired"}
          /\ row' = [row EXCEPT ![e].status = "PROCESSING",
                                ![e].attempts = @ + 1,
                                ![e].lockedAt = "held"]
          /\ worker' = [worker EXCEPT ![i].batch = @ \ {e},
                          ![i].pc = "dispatch", ![i].event = e]
       \/ /\ \/ row[e].status # "RETRY_PENDING"
             \/ row[e].lockedAt = "held"
          /\ worker' = [worker EXCEPT ![i].batch = @ \ {e}]
          /\ UNCHANGED row
  /\ UNCHANGED <<request, faults, claims, readmitted>>

RetryDispatched(i) ==
  /\ worker[i].pc = "dispatch"
  /\ \E next \in {"succeed", "reread"} :
       worker' = [worker EXCEPT ![i].pc = next]
  /\ UNCHANGED <<row, request, faults, claims, readmitted>>

RetrySucceed(i) ==
  LET e == worker[i].event IN
  /\ worker[i].pc = "succeed"
  /\ row' = [row EXCEPT ![e].status = "PROCESSED", ![e].processed = TRUE,
                        ![e].lockedAt = "null", ![e].retryAt = "null"]
  /\ worker' = [worker EXCEPT ![i].pc = "idle", ![i].event = None]
  /\ UNCHANGED <<request, faults, claims, readmitted>>

\* The failure path first reads the count again, then writes by id.
Reread(i) ==
  /\ worker[i].pc = "reread"
  /\ worker' = [worker EXCEPT ![i].pc = "fail",
                  ![i].current = row[worker[i].event].attempts]
  /\ UNCHANGED <<row, request, faults, claims, readmitted>>

\* Variants for mutations: the limit is off by one, below and above.
RetryFailEarly(i) ==
  LET e == worker[i].event
      shouldRetry == worker[i].current + 1 < MaxAttempts IN
  /\ worker[i].pc = "fail"
  /\ row' = [row EXCEPT
       ![e].status = IF shouldRetry THEN "RETRY_PENDING" ELSE "FAILED",
       ![e].retryAt = IF shouldRetry THEN "later" ELSE "null",
       ![e].lockedAt = "null"]
  /\ worker' = [worker EXCEPT ![i].pc = "idle", ![i].event = None,
                              ![i].current = 0]
  /\ UNCHANGED <<request, faults, claims, readmitted>>

RetryFailLate(i) ==
  LET e == worker[i].event
      shouldRetry == worker[i].current <= MaxAttempts IN
  /\ worker[i].pc = "fail"
  /\ row' = [row EXCEPT
       ![e].status = IF shouldRetry THEN "RETRY_PENDING" ELSE "FAILED",
       ![e].retryAt = IF shouldRetry THEN "later" ELSE "null",
       ![e].lockedAt = "null"]
  /\ worker' = [worker EXCEPT ![i].pc = "idle", ![i].event = None,
                              ![i].current = 0]
  /\ UNCHANGED <<request, faults, claims, readmitted>>

\* Variant for a mutation: the lock is not released with the failure.
RetryFailLocked(i) ==
  LET e == worker[i].event
      shouldRetry == worker[i].current < MaxAttempts IN
  /\ worker[i].pc = "fail"
  /\ row' = [row EXCEPT
       ![e].status = IF shouldRetry THEN "RETRY_PENDING" ELSE "FAILED",
       ![e].processed = FALSE,
       ![e].retryAt = IF shouldRetry THEN "later" ELSE "null"]
  /\ worker' = [worker EXCEPT ![i].pc = "idle", ![i].event = None,
                              ![i].current = 0]
  /\ UNCHANGED <<request, faults, claims, readmitted>>

RetryFail(i) ==
  LET e == worker[i].event
      shouldRetry == worker[i].current < MaxAttempts IN
  /\ worker[i].pc = "fail"
  /\ row' = [row EXCEPT
       ![e].status = IF shouldRetry THEN "RETRY_PENDING" ELSE "FAILED",
       ![e].processed = FALSE,
       ![e].retryAt = IF shouldRetry THEN "later" ELSE "null",
       ![e].lockedAt = "null"]
  /\ worker' = [worker EXCEPT ![i].pc = "idle", ![i].event = None,
                              ![i].current = 0]
  /\ UNCHANGED <<request, faults, claims, readmitted>>

\* A rejected call in the try block runs the catch; any other one leaves
\* processWebhookRetries, and the scheduler drops the rest of the batch.
WorkerCallFails(i) ==
  /\ faults < MaxFaults
  /\ faults' = faults + 1
  /\ \/ /\ worker[i].pc = "succeed"
        /\ worker' = [worker EXCEPT ![i].pc = "reread"]
     \/ /\ \/ worker[i].pc \in {"claim", "reread", "fail"}
           \/ worker[i].pc = "idle" /\ worker[i].batch # {}
        /\ worker' = [worker EXCEPT ![i] = Idle]
  /\ UNCHANGED <<row, request, claims, readmitted>>

----------------------------------------------------------------------------
(* Time, and the loss of a process.                                        *)

RetryTimeComes(e) ==
  /\ row[e].retryAt = "later"
  /\ row' = [row EXCEPT ![e].retryAt = "due"]
  /\ UNCHANGED <<request, worker, faults, claims, readmitted>>

LockTimesOut(e) ==
  /\ row[e].lockedAt = "held"
  /\ row' = [row EXCEPT ![e].lockedAt = "expired"]
  /\ UNCHANGED <<request, worker, faults, claims, readmitted>>

\* The instance dies with its pass and its requests and is started again;
\* nothing in the code looks for what it left behind.
Crash(i) ==
  /\ faults < MaxFaults
  /\ faults' = faults + 1
  /\ worker' = [worker EXCEPT ![i] = Idle]
  /\ request' = [d \in Deliveries |->
       IF request[d].host = i /\ request[d].pc # "answered"
         THEN [request[d] EXCEPT !.pc = "lost"]
         ELSE request[d]]
  /\ UNCHANGED <<row, claims, readmitted>>

RequestStep(d) ==
  \/ Create(d) \/ Lookup(d) \/ Mark(d) \/ Dispatched(d)
  \/ Succeed(d) \/ Fail(d)

WorkerStep(i) ==
  \/ i \in Instances /\ (Poll(i) \/ Visit(i) \/ Claim(i))
  \/ i \in Scripts /\ (ScriptPoll(i) \/ ScriptClaim(i))
  \/ RetryDispatched(i) \/ RetrySucceed(i) \/ Reread(i) \/ RetryFail(i)

Next ==
  \/ \E d \in Deliveries :
       \/ Reject(d)
       \/ \E e \in Events, i \in Instances : Deliver(d, e, i)
       \/ RequestStep(d)
       \/ RequestCallFails(d)
  \/ \E i \in Workers : WorkerStep(i) \/ WorkerCallFails(i) \/ Crash(i)
  \/ \E e \in Events : RetryTimeComes(e) \/ LockTimesOut(e)

Spec == Init /\ [][Next]_vars

\* Started handlers run on, the timer polls every 10 s, and time passes.
\* Deliveries, rejections and faults are never forced to happen.
Fairness ==
  /\ \A d \in Deliveries : WF_vars(RequestStep(d))
  /\ \A i \in Workers : WF_vars(WorkerStep(i))
  /\ \A e \in Events : WF_vars(RetryTimeComes(e)) /\ WF_vars(LockTimesOut(e))

FairSpec == Spec /\ Fairness

----------------------------------------------------------------------------
(* Properties.                                                             *)

RequestHolds(d, e) ==
  request[d].event = e /\ request[d].pc \in {"dispatch", "succeed", "fail"}
WorkerHolds(i, e) ==
  /\ worker[i].event = e
  /\ worker[i].pc \in {"dispatch", "succeed", "reread", "fail"}

\* The processes between the move of e to PROCESSING and the write of its
\* result.
Holders(e) == {d \in Deliveries : RequestHolds(d, e)}
                \cup {i \in Workers : WorkerHolds(i, e)}

\* As long as no further delivery of an event passed the duplicate check,
\* one process at most dispatches it or is about to write its result,
\* whatever the retry workers of all instances do and whoever crashes.
SingleHolder ==
  \A e \in Events : ~readmitted[e] => \A p, q \in Holders(e) : p = q

\* Retrying is bounded: redeliveries or not, the retry workers of the API
\* instances claim an event at most MAX_ATTEMPTS times over its whole life.
ClaimsBounded == \A e \in Events : claims[e] <= MaxAttempts

\* No event is given up early: a row is FAILED only after at least
\* MAX_ATTEMPTS dispatches, also when counts read before an await are used.
GivenUpOnlyAtLimit ==
  \A e \in Events : row[e].status = "FAILED" => row[e].attempts >= MaxAttempts

\* A processed event stays processed: without a readmitted delivery no late
\* failure, retry or stale batch entry moves a PROCESSED row back.
ProcessedIsFinal ==
  [][\A e \in Events :
       row[e].status = "PROCESSED" /\ ~readmitted'[e]
         => row'[e].status = "PROCESSED"]_vars

\* Nothing is stranded but by a fault: a RECEIVED row has a delivery about to
\* move it, a PROCESSING one a process that will write its result; and unless
\* a redelivery took it over, a row that waits for its retry is one the retry
\* query will select: attempts left, a time that comes, no lock.
NothingStranded ==
  \A e \in Events :
    /\ row[e].status = "RECEIVED" => faults > 0 \/ \E d \in Deliveries :
         request[d].pc = "mark" /\ request[d].event = e
    /\ row[e].status = "PROCESSING" => faults > 0 \/ Holders(e) # {}
    /\ row[e].status = "RETRY_PENDING" /\ ~readmitted[e] =>
         /\ row[e].attempts < MaxAttempts
         /\ row[e].retryAt \in {"later", "due"}
         /\ row[e].lockedAt = "null"

\* The promise of RetryQueue, read off the table.
StageOf(status) ==
  CASE status = "ABSENT" -> "none"
    [] status = "RECEIVED" -> "new"
    [] status = "PROCESSING" -> "busy"
    [] status = "RETRY_PENDING" -> "waiting"
    [] status = "PROCESSED" -> "done"
    [] status = "FAILED" -> "failed"

Queue == INSTANCE RetryQueue WITH
  Limit <- MaxAttempts,
  stage <- [e \in Events |-> StageOf(row[e].status)],
  tries <- [e \in Events |-> row[e].attempts],
  reopened <- {e \in Events : readmitted[e]}

\* Route, passes and script implement RetryQueue: updates by id, old counts and
\* stale batches never show in the life of an event that came once, and of one
\* that came again they show as overlapping tries only.
KeepsQueue == Queue!Spec

\* A row waiting for its retry has attempts left, as the test of the last
\* retry expects (a failure at the limit makes the row FAILED).
PendingBelowLimit ==
  \A e \in Events :
    row[e].status = "RETRY_PENDING" => row[e].attempts < MaxAttempts

\* A stored event is eventually PROCESSED or FAILED, unless a redelivery took
\* it over on the way.  A fault can leave it RECEIVED or PROCESSING for good,
\* but never waiting for its retry.
Settles ==
  \A e \in Events :
    row[e].status # "ABSENT" ~>
      \/ row[e].status \in {"PROCESSED", "FAILED"}
      \/ readmitted[e]
      \/ faults > 0 /\ row[e].status \in {"RECEIVED", "PROCESSING"}

\* The lock of an event has a time limit so that a crashed worker cannot keep
\* the event: a row in PROCESSING with a timed-out lock is taken up again.
ExpiredLockReleases ==
  \A e \in Events :
    row[e].status = "PROCESSING" /\ row[e].lockedAt = "expired"
      ~> row[e].status # "PROCESSING"
============================================================================
