--------------------------- MODULE VoiceWebhooks ---------------------------
(***************************************************************************)
(* The intake of voice webhooks: POST /webhooks/voice and /webhooks/sarvam *)
(* (routes/webhook.routes.ts), the rows of VoiceWebhookEvent that make an  *)
(* event idempotent (events/voice-webhook-idempotency.service.ts), and     *)
(* what an event does to its VoiceCall: status, transcript and outcome     *)
(* (events/voice-webhook.service.ts, recovery/voice-call.service.ts,       *)
(* recovery/voice-outcome.service.ts).  A step is one awaited call.  What  *)
(* an outcome does to cases and promises is the subject of PaymentRecovery.*)
(***************************************************************************)
EXTENDS Naturals, FiniteSets

CONSTANTS
  Calls,       \* providerCallId of the calls placed
  Messages,    \* what the providers may send
  Deliveries,  \* HTTP requests the providers make, each used once
  Reported,    \* statuses the voice provider reports for a call just placed
  MaxFaults,   \* bound on the rejected calls and crashes of a behaviour
  None         \* no event id, no status, no outcome, no message

Final == {"COMPLETED", "FAILED"}
CallStatuses == {"QUEUED", "RINGING", "IN_PROGRESS"} \cup Final

\* STATUS_ORDER: both final states are last.
Order(status) ==
  CASE status = "QUEUED" -> 1
    [] status = "RINGING" -> 2
    [] status = "IN_PROGRESS" -> 3
    [] OTHER -> 4

\* A status the enum does not know stands for all such; a blank transcript
\* is one of spaces only; owned: the metadata name the case of the call.
MessageType(m) ==
  /\ m.route \in {"voice", "sarvam"}
  /\ m.call \in Calls
  /\ m.route = "voice" => m.eventId # None
  /\ m.status \in CallStatuses \cup {"UNKNOWN", None}
  /\ m.transcript \in {"none", "blank", "speech"}
  /\ m.failure \in BOOLEAN
  /\ m.owned \in BOOLEAN

\* normalizeSarvamStatus drops an unknown status, the voice route casts it.
StatusOf(m) ==
  IF m.route = "sarvam" /\ m.status = "UNKNOWN" THEN None ELSE m.status

\* The id of the event; without one, call and status stand in for it.
EventIdOf(m) ==
  IF m.eventId # None THEN m.eventId ELSE <<m.call, StatusOf(m)>>

EventIds == {EventIdOf(m) : m \in Messages}

\* PAYMENT_COMPLETED and CALL_FAILED differ from NO_RESPONSE in name only.
Outcomes == {"PROMISE_TO_PAY", "DECLINED", "NO_RESPONSE"}

\* The extractor may also find a promise without a date.
Extracts == Outcomes \cup {"UNDATED"}
OutcomeOf(x) == IF x = "UNDATED" THEN "PROMISE_TO_PAY" ELSE x

ASSUME MessagesAssumption ==
  /\ MaxFaults \in Nat
  /\ Reported \subseteq CallStatuses
  /\ None \notin Messages
  /\ None \notin CallStatuses \cup {"UNKNOWN"} \cup Extracts
  /\ \A m \in Messages : MessageType(m)
  /\ \A m, n \in Messages : EventIdOf(m) = EventIdOf(n) => m.call = n.call

VARIABLES
  event,    \* status of the VoiceWebhookEvent rows
  call,     \* VoiceCall rows
  request,  \* the handler of each delivery
  applied,  \* history: outcomes committed for an event
  faults

vars == <<event, call, request, applied, faults>>

Call == [stored     : BOOLEAN,
         status     : CallStatuses \cup {None},
         transcript : BOOLEAN,
         outcome    : Outcomes \cup {None}]

\* Before the row is claimed, and while the event is processed.
Before == {"match", "find", "create", "claim"}
Processing == {"lookup", "status", "move", "failure", "transcript", "extract",
               "outcome", "commit"}
Pc == {"unsent"} \cup Before \cup Processing
        \cup {"finish", "fail", "over"}

Request == [pc        : Pc,
            message   : Messages \cup {None},
            extract   : Extracts \cup {None},
            overtaken : BOOLEAN]  \* history: another wrote what it has read

\* One type invariant: every row and every handler has its declared shape.
TypeOK ==
  /\ event \in [EventIds -> {"ABSENT", "PROCESSING", "PROCESSED", "FAILED"}]
  /\ call \in [Calls -> Call]
  /\ request \in [Deliveries -> Request]
  /\ applied \in [EventIds -> Nat]
  /\ faults \in 0..MaxFaults

Unsent == [pc |-> "unsent", message |-> None, extract |-> None,
           overtaken |-> FALSE]
Over == [Unsent EXCEPT !.pc = "over"]
NoCall == [stored |-> FALSE, status |-> None, transcript |-> FALSE,
           outcome |-> None]

Init ==
  /\ event = [i \in EventIds |-> "ABSENT"]
  /\ call = [c \in Calls |-> NoCall]
  /\ request = [d \in Deliveries |-> Unsent]
  /\ applied = [i \in EventIds |-> 0]
  /\ faults = 0

Msg(d) == request[d].message
Id(d) == EventIdOf(Msg(d))
Of(d) == call[Msg(d).call]

\* The handler goes on to pc; what it has read is of no further use.
At(d, pc) == [request[d] EXCEPT !.pc = pc, !.extract = None, !.overtaken = FALSE]
Goto(d, pc) == request' = [request EXCEPT ![d] = At(d, pc)]

\* The handler answers; what it says (a duplicate, an error, a call nobody
\* knows) has no bearing on the rows.
Return(d) == request' = [request EXCEPT ![d] = Over]

\* It goes on after a write to its call: any other handler that is about to
\* make the same write has read a row that is no longer there.
GotoOvertaking(d, pc, about) ==
  request' = [e \in Deliveries |->
    IF e = d THEN At(d, pc)
    ELSE IF request[e].pc = about /\ Msg(e).call = Msg(d).call
      THEN [request[e] EXCEPT !.overtaken = TRUE]
    ELSE request[e]]

----------------------------------------------------------------------------
(* The call, and the routes.                                               *)

\* initiateVoiceRecovery stores a call after the provider has placed it, so
\* the provider's first webhooks may be here before.  A provider that reports
\* no status has queued the call.
StoreCall(c) ==
  /\ ~call[c].stored
  /\ \E s \in Reported \cup {"QUEUED"} :
       call' = [call EXCEPT ![c].stored = TRUE, ![c].status = s]
  /\ UNCHANGED <<event, request, applied, faults>>

\* A missing secret, id or call, a bad signature, type or JSON text.
Reject(d) ==
  /\ request[d].pc = "unsent"
  /\ Return(d)
  /\ UNCHANGED <<event, call, applied, faults>>

Receive(d, m) ==
  /\ request[d].pc = "unsent"
  /\ request' = [request EXCEPT ![d].message = m,
       ![d].pc = IF m.route = "sarvam" THEN "match" ELSE "find"]
  /\ UNCHANGED <<event, call, applied, faults>>

\* The Sarvam route asks for the call, and for the case it belongs to.
Match(d) ==
  /\ request[d].pc = "match"
  /\ \/ Of(d).stored /\ Msg(d).owned /\ Goto(d, "find")
     \/ Of(d).stored /\ ~Msg(d).owned /\ Return(d)
     \/ ~Of(d).stored /\ Return(d)
  /\ UNCHANGED <<event, call, applied, faults>>

----------------------------------------------------------------------------
(* handleVoiceWebhook.                                                     *)

Find(d) ==
  /\ request[d].pc = "find"
  /\ \/ event[Id(d)] \in {"PROCESSED", "PROCESSING"} /\ Return(d)
     \/ event[Id(d)] = "ABSENT" /\ Goto(d, "create")
     \/ event[Id(d)] = "FAILED" /\ Goto(d, "claim")
  /\ UNCHANGED <<event, call, applied, faults>>

\* The insert; the unique index on eventId turns a second one into P2002.
Create(d) ==
  /\ request[d].pc = "create"
  /\ \/ /\ event[Id(d)] = "ABSENT"
        /\ event' = [event EXCEPT ![Id(d)] = "PROCESSING"]
        /\ Goto(d, "lookup")
     \/ /\ event[Id(d)] # "ABSENT"
        /\ Return(d)
        /\ UNCHANGED event
  /\ UNCHANGED <<call, applied, faults>>

\* Variant for a mutation: the row is taken by id alone.
ClaimById(d) ==
  /\ request[d].pc = "claim"
  /\ event' = [event EXCEPT ![Id(d)] = "PROCESSING"]
  /\ Goto(d, "lookup")
  /\ UNCHANGED <<call, applied, faults>>

\* updateMany where the status is still FAILED: one row or none.
Claim(d) ==
  /\ request[d].pc = "claim"
  /\ \/ /\ event[Id(d)] = "FAILED"
        /\ event' = [event EXCEPT ![Id(d)] = "PROCESSING"]
        /\ Goto(d, "lookup")
     \/ /\ event[Id(d)] # "FAILED"
        /\ Return(d)
        /\ UNCHANGED event
  /\ UNCHANGED <<call, applied, faults>>

Finish(d) ==
  /\ request[d].pc = "finish"
  /\ event' = [event EXCEPT ![Id(d)] = "PROCESSED"]
  /\ Return(d)
  /\ UNCHANGED <<call, applied, faults>>

\* Variant for a mutation: the row keeps its status when processing throws.
FailUnmarked(d) ==
  /\ request[d].pc = "fail"
  /\ Return(d)
  /\ UNCHANGED <<event, call, applied, faults>>

\* The catch block; the error goes on to the route, which answers 500.
Fail(d) ==
  /\ request[d].pc = "fail"
  /\ event' = [event EXCEPT ![Id(d)] = "FAILED"]
  /\ Return(d)
  /\ UNCHANGED <<call, applied, faults>>

----------------------------------------------------------------------------
(* processVoiceWebhook.                                                    *)

\* What follows the status update.
AfterStatus(m) ==
  CASE m.failure -> "failure"
    [] ~m.failure /\ m.transcript # "none" -> "transcript"
    [] OTHER -> "finish"

Lookup(d) ==
  /\ request[d].pc = "lookup"
  /\ \/ ~Of(d).stored /\ Goto(d, "fail")
     \/ /\ Of(d).stored
        /\ Goto(d, IF StatusOf(Msg(d)) # None THEN "status"
                                              ELSE AfterStatus(Msg(d)))
  /\ UNCHANGED <<event, call, applied, faults>>

\* Variant for a mutation: a final call is not left alone.
MovesForward(from, to) == to = "UNKNOWN" \/ Order(from) <= Order(to)

\* updateVoiceCallStatus leaves a final call alone, and goes forward only; a
\* status without an order passes the comparison.
Moves(from, to) ==
  from \notin Final /\ (to = "UNKNOWN" \/ Order(from) <= Order(to))

\* It reads the call again ...
ReadStatus(d) ==
  /\ request[d].pc = "status"
  /\ Goto(d, IF Moves(Of(d).status, StatusOf(Msg(d))) THEN "move"
                                                     ELSE AfterStatus(Msg(d)))
  /\ UNCHANGED <<event, call, applied, faults>>

\* Variant for a mutation: a status nobody knows is written like any other.
MoveCast(d) ==
  /\ request[d].pc = "move"
  /\ call' = [call EXCEPT ![Msg(d).call].status = StatusOf(Msg(d))]
  /\ GotoOvertaking(d, AfterStatus(Msg(d)), "move")
  /\ UNCHANGED <<event, applied, faults>>

\* ... and writes its status by id; the database knows no other status.
Move(d) ==
  /\ request[d].pc = "move"
  /\ \/ /\ StatusOf(Msg(d)) = "UNKNOWN"
        /\ Goto(d, "fail")
        /\ UNCHANGED call
     \/ /\ StatusOf(Msg(d)) # "UNKNOWN"
        /\ call' = [call EXCEPT ![Msg(d).call].status = StatusOf(Msg(d))]
        /\ GotoOvertaking(d, AfterStatus(Msg(d)), "move")
  /\ UNCHANGED <<event, applied, faults>>

\* A failure reason makes the call FAILED, whatever its status, and is the
\* end of the event: a transcript that came with it is not looked at.
StoreFailure(d) ==
  /\ request[d].pc = "failure"
  /\ call' = [call EXCEPT ![Msg(d).call].status = "FAILED"]
  /\ GotoOvertaking(d, "finish", "move")
  /\ UNCHANGED <<event, applied, faults>>

StoreTranscript(d) ==
  /\ request[d].pc = "transcript"
  /\ call' = [call EXCEPT ![Msg(d).call].transcript = TRUE]
  /\ Goto(d, "extract")
  /\ UNCHANGED <<event, applied, faults>>

\* A blank transcript is NO_RESPONSE; the model may say anything of another
\* one, something else each time, or nothing that can be parsed.
Extract(d) ==
  /\ request[d].pc = "extract"
  /\ \/ \E x \in IF Msg(d).transcript = "blank" THEN {"NO_RESPONSE"}
                                                ELSE Extracts :
          request' = [request EXCEPT ![d].pc = "outcome", ![d].extract = x]
     \/ Msg(d).transcript = "speech" /\ Goto(d, "fail")
  /\ UNCHANGED <<event, call, applied, faults>>

----------------------------------------------------------------------------
(* processVoiceRecoveryOutcome.                                            *)

\* Variant for a mutation: the outcome the call has is not looked at.
ReadOutcomeUnchecked(d) ==
  /\ request[d].pc = "outcome"
  /\ request' = [request EXCEPT ![d].pc = "commit"]
  /\ UNCHANGED <<event, call, applied, faults>>

\* An outcome the call has already is not written again; another one throws.
ReadOutcome(d) ==
  /\ request[d].pc = "outcome"
  /\ \/ /\ Of(d).outcome = None
        /\ request' = [request EXCEPT ![d].pc = "commit"]
     \/ /\ Of(d).outcome # None
        /\ Goto(d, IF Of(d).outcome = OutcomeOf(request[d].extract)
                     THEN "finish" ELSE "fail")
  /\ UNCHANGED <<event, call, applied, faults>>

\* Variant for a mutation: a refused transaction is swallowed.
CommitSwallowed(d) ==
  /\ request[d].pc = "commit"
  /\ Goto(d, "finish")
  /\ UNCHANGED <<event, call, applied, faults>>

\* The transaction commits by the ids it has, or is refused: a promise needs
\* a date, and the case must not become a second active one of its payment.
Commit(d) ==
  LET x == request[d].extract IN
  /\ request[d].pc = "commit"
  /\ \/ /\ x # "UNDATED"
        /\ call' = [call EXCEPT ![Msg(d).call].outcome = x]
        /\ applied' = [applied EXCEPT ![Id(d)] = @ + 1]
        /\ GotoOvertaking(d, "finish", "commit")
     \/ Goto(d, "fail") /\ UNCHANGED <<call, applied>>
  /\ UNCHANGED <<event, faults>>

----------------------------------------------------------------------------
(* Failures of calls and processes.                                        *)

\* A call that rejects: in the try block the catch runs, anywhere else the
\* route answers 500 and the row stays as it is.
CallFails(d) ==
  /\ faults < MaxFaults
  /\ faults' = faults + 1
  /\ \/ request[d].pc \in Processing \cup {"finish"} /\ Goto(d, "fail")
     \/ request[d].pc \in Before \cup {"fail"} /\ Return(d)
  /\ UNCHANGED <<event, call, applied>>

Running == {d \in Deliveries :
              request[d].pc \in Before \cup Processing \cup {"finish", "fail"}}

\* A process is lost with the handlers it runs.
Crash ==
  /\ faults < MaxFaults
  /\ faults' = faults + 1
  /\ \E S \in SUBSET Running :
       /\ S # {}
       /\ request' = [d \in Deliveries |->
            IF d \in S THEN Over ELSE request[d]]
  /\ UNCHANGED <<event, call, applied>>

----------------------------------------------------------------------------
Step(d) ==
  \/ Match(d) \/ Find(d) \/ Create(d) \/ Claim(d) \/ Lookup(d)
  \/ ReadStatus(d) \/ Move(d) \/ StoreFailure(d) \/ StoreTranscript(d)
  \/ Extract(d) \/ ReadOutcome(d) \/ Commit(d) \/ Finish(d) \/ Fail(d)

Next ==
  \/ \E c \in Calls : StoreCall(c)
  \/ \E d \in Deliveries :
       \/ Reject(d) \/ Step(d) \/ CallFails(d)
       \/ \E m \in Messages : Receive(d, m)
  \/ Crash

Spec == Init /\ [][Next]_vars

\* A started handler runs on; that anything is sent, stored or lost is not
\* assumed.
Fairness == \A d \in Deliveries : WF_vars(Step(d))

FairSpec == Spec /\ Fairness
----------------------------------------------------------------------------
(* Properties.                                                             *)

Holds(d) == request[d].pc \in Processing \cup {"finish", "fail"}

\* One delivery at most works on an event, however many are under way and
\* however often the event has failed and been claimed again; and an event in
\* PROCESSING, which turns its redeliveries away, has one, but for a fault.
ExclusiveProcessing ==
  /\ \A d, e \in Deliveries : Holds(d) /\ Holds(e) /\ Id(d) = Id(e) => d = e
  /\ \A i \in EventIds :
       event[i] = "PROCESSING" =>
         faults > 0 \/ \E d \in Deliveries : Holds(d) /\ Id(d) = i

\* The outcome of an event is applied once at most, also when the update of
\* its row is rejected after the outcome was committed and it runs again.
AppliedOnce == \A i \in EventIds : applied[i] <= 1

Speaks(i) == \A m \in Messages :
  EventIdOf(m) = i => m.transcript # "none" /\ ~m.failure

\* An event that brings a transcript is PROCESSED only when its call has it
\* and an outcome, whichever of its deliveries crashed, threw or was turned away.
ProcessedIsDone ==
  \A m \in Messages :
    LET i == EventIdOf(m) IN
    event[i] = "PROCESSED" /\ Speaks(i) =>
      call[m.call].transcript /\ call[m.call].outcome # None

StepsBack(from, to) ==
  \/ Order(to) < Order(from)
  \/ from = "FAILED" /\ to = "COMPLETED"

\* The status of a call steps back, or its failure is hidden, only through a
\* handler that was overtaken between its read and its write.
OnlyOvertakenStepsBack ==
  [][\A c \in Calls :
       call[c].stored /\ StepsBack(call[c].status, call'[c].status) =>
         \E d \in Deliveries :
           request[d].pc = "move" /\ request[d].overtaken
             /\ request'[d] # request[d]]_vars

\* An outcome is replaced only by a handler that was overtaken after it had
\* found the call without one: one event after the other never does it.
OnlyOvertakenReplaces ==
  [][\A c \in Calls :
       call[c].outcome # None /\ call'[c].outcome # call[c].outcome =>
         \E d \in Deliveries :
           request[d].pc = "commit" /\ request[d].overtaken
             /\ request'[d] # request[d]]_vars

\* An event that is taken up is PROCESSED or FAILED in the end; only a fault
\* can leave it PROCESSING, where every redelivery counts as a duplicate.
EventSettles ==
  \A i \in EventIds :
    event[i] = "PROCESSING" ~>
      event[i] \in {"PROCESSED", "FAILED"} \/ faults > 0

\* A VoiceCall can only have one final outcome.
OneFinalOutcome ==
  [][\A c \in Calls :
       call[c].outcome # None => call'[c].outcome = call[c].outcome]_vars

Stage(i) ==
  CASE event[i] = "ABSENT" -> "new"
    [] event[i] = "PROCESSING" -> "busy"
    [] event[i] = "PROCESSED" -> "done"
    [] event[i] = "FAILED" -> "failed"

\* The intake implements Inbox: an event's outcome is committed while it is
\* PROCESSING and once, and PROCESSED is the end of it.
TheInbox == INSTANCE Inbox WITH
  Items <- EventIds,
  state <- [i \in EventIds |-> Stage(i)],
  effects <- applied

KeepsInbox == TheInbox!Spec
============================================================================
