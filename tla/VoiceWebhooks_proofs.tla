----------------------- MODULE VoiceWebhooks_proofs -----------------------
(***************************************************************************)
(* Proofs about VoiceWebhooks, for any calls, messages and deliveries and  *)
(* any number of faults.                                                   *)
(***************************************************************************)
EXTENDS VoiceWebhooks, TLAPS

----------------------------------------------------------------------------
(* Types.                                                                  *)

\* A handler under way has a message, and one past the extraction what it
\* has extracted.
Engaged ==
  \A d \in Deliveries :
    /\ request[d].pc \notin {"unsent", "over"} => Msg(d) \in Messages
    /\ request[d].pc \in {"outcome", "commit"} => request[d].extract \in Extracts

TypeInv == TypeOK /\ Engaged

RequestTyped == request \in [Deliveries -> Request] /\ Engaged

\* What the callers of the three ways to move a handler need to know of them.
LEMMA GotoTyped ==
  ASSUME TypeInv, NEW d \in Deliveries, Msg(d) \in Messages,
         NEW pc \in Pc \ {"outcome", "commit"}, Goto(d, pc)
  PROVE  RequestTyped'
  BY DEF TypeInv, TypeOK, Goto, At, Engaged, RequestTyped, Request, Msg

LEMMA OvertakingTyped ==
  ASSUME TypeInv, NEW d \in Deliveries, Msg(d) \in Messages,
         NEW pc \in Pc \ {"outcome", "commit"}, NEW about \in Pc,
         GotoOvertaking(d, pc, about)
  PROVE  RequestTyped'
<1>1. At(d, pc) \in Request /\ At(d, pc).pc = pc /\ At(d, pc).message = Msg(d)
  BY DEF At, TypeInv, TypeOK, Request, Msg
<1>2. ASSUME NEW e \in Deliveries
      PROVE  /\ [request[e] EXCEPT !.overtaken = TRUE] \in Request
             /\ [request[e] EXCEPT !.overtaken = TRUE].pc = request[e].pc
             /\ [request[e] EXCEPT !.overtaken = TRUE].message
                  = request[e].message
             /\ [request[e] EXCEPT !.overtaken = TRUE].extract
                  = request[e].extract
  BY DEF TypeInv, TypeOK, Request
<1>3. request \in [Deliveries -> Request]
  BY DEF TypeInv, TypeOK
<1>4. ASSUME NEW e \in Deliveries
      PROVE  /\ request'[e] \in Request
             /\ request'[e].pc = IF e = d THEN pc ELSE request[e].pc
             /\ request'[e].message = request[e].message
             /\ e # d => request'[e].extract = request[e].extract
  BY <1>1, <1>2, <1>3 DEF GotoOvertaking, Msg
<1>5. request' \in [Deliveries -> Request]
  BY <1>4 DEF GotoOvertaking
<1> QED
  BY <1>4, <1>5 DEF TypeInv, Engaged, RequestTyped, Msg

LEMMA OverTyped == Over \in Request /\ Over.pc = "over"
  BY DEF Over, Unsent, Request, Pc

LEMMA ReturnTyped ==
  ASSUME TypeInv, NEW d \in Deliveries, Return(d)
  PROVE  RequestTyped'
  BY OverTyped DEF TypeInv, TypeOK, Return, Engaged, RequestTyped, Msg

LEMMA AfterStatusTyped ==
  ASSUME NEW m PROVE AfterStatus(m) \in {"failure", "transcript", "finish"}
  BY DEF AfterStatus

\* Every step of a handler keeps the handlers typed.
LEMMA StepTypedRequest ==
  ASSUME TypeInv, NEW d \in Deliveries, Step(d)
  PROVE  RequestTyped'
<1>0. Msg(d) \in Messages
  BY DEF TypeInv, Engaged, Step, Match, Find, Create, Claim, Lookup,
         ReadStatus, Move, StoreFailure, StoreTranscript, Extract, ReadOutcome,
         Commit, Finish, Fail
<1>1. CASE Match(d)
  BY <1>0, <1>1, GotoTyped, ReturnTyped DEF Match, Pc, Before
<1>2. CASE Find(d)
  BY <1>0, <1>2, GotoTyped, ReturnTyped DEF Find, Pc, Before
<1>3. CASE Create(d)
  BY <1>0, <1>3, GotoTyped, ReturnTyped DEF Create, Pc, Processing
<1>4. CASE Claim(d)
  BY <1>0, <1>4, GotoTyped, ReturnTyped DEF Claim, Pc, Processing
<1>5. CASE Lookup(d)
  BY <1>0, <1>5, GotoTyped, AfterStatusTyped DEF Lookup, Pc, Processing
<1>6. CASE ReadStatus(d)
  BY <1>0, <1>6, GotoTyped, AfterStatusTyped DEF ReadStatus, Pc, Processing
<1>7. CASE Move(d)
  BY <1>0, <1>7, GotoTyped, OvertakingTyped, AfterStatusTyped
     DEF Move, Pc, Processing
<1>8. CASE StoreFailure(d)
  BY <1>0, <1>8, OvertakingTyped DEF StoreFailure, Pc, Processing
<1>9. CASE StoreTranscript(d)
  BY <1>0, <1>9, GotoTyped DEF StoreTranscript, Pc, Processing
<1>10. CASE Extract(d)
  <2>1. CASE Goto(d, "fail")
    BY <1>0, <2>1, GotoTyped DEF Pc
  <2>2. ASSUME NEW x \in Extracts,
               request' = [request EXCEPT ![d].pc = "outcome",
                                          ![d].extract = x]
        PROVE  RequestTyped'
    <3>1. [[request[d] EXCEPT !.pc = "outcome"] EXCEPT !.extract = x]
            \in Request
      BY DEF TypeInv, TypeOK, Request, Pc, Processing
    <3> QED
      BY <1>0, <2>2, <3>1 DEF TypeInv, TypeOK, Engaged, RequestTyped, Msg, Request
  <2> QED
    BY <1>10, <2>1, <2>2 DEF Extract, Extracts, Outcomes
<1>11. CASE ReadOutcome(d)
  <2>1. CASE request' = [request EXCEPT ![d].pc = "commit"]
    BY <1>0, <1>11, <2>1 DEF TypeInv, TypeOK, Engaged, RequestTyped, Request,
                             Msg, Pc, Processing, ReadOutcome
  <2> QED
    BY <1>0, <1>11, <2>1, GotoTyped DEF ReadOutcome, Pc
<1>12. CASE Commit(d)
  BY <1>0, <1>12, GotoTyped, OvertakingTyped DEF Commit, Pc, Processing
<1>13. CASE Finish(d)
  BY <1>13, ReturnTyped DEF Finish
<1>14. CASE Fail(d)
  BY <1>14, ReturnTyped DEF Fail
<1> QED
  BY <1>1, <1>2, <1>3, <1>4, <1>5, <1>6, <1>7, <1>8, <1>9, <1>10, <1>11,
     <1>12, <1>13, <1>14 DEF Step

LEMMA NextTypedRequest ==
  TypeInv /\ [Next]_vars => RequestTyped'
<1> SUFFICES ASSUME TypeInv, [Next]_vars PROVE RequestTyped'
  OBVIOUS
<1>1. ASSUME NEW c \in Calls, StoreCall(c) PROVE RequestTyped'
  BY <1>1 DEF StoreCall, TypeInv, TypeOK, Engaged, RequestTyped, Msg
<1>2. ASSUME NEW d \in Deliveries, Reject(d) PROVE RequestTyped'
  BY <1>2, ReturnTyped DEF Reject
<1>3. ASSUME NEW d \in Deliveries, NEW m \in Messages, Receive(d, m)
      PROVE  RequestTyped'
  BY <1>3 DEF Receive, TypeInv, TypeOK, Engaged, RequestTyped, Request, Msg,
              Pc, Before
<1>4. ASSUME NEW d \in Deliveries, CallFails(d) PROVE RequestTyped'
  <2>1. request[d].pc \notin {"unsent", "over"}
    BY <1>4 DEF CallFails, Before, Processing
  <2>2. Msg(d) \in Messages
    BY <2>1 DEF TypeInv, Engaged
  <2> QED
    BY <1>4, <2>2, GotoTyped, ReturnTyped DEF CallFails, Pc
<1>5. CASE Crash
  <2>2. PICK S \in SUBSET Running :
          request' = [d \in Deliveries |-> IF d \in S THEN Over ELSE request[d]]
    BY <1>5 DEF Crash
  <2> QED
    BY <2>2, OverTyped DEF TypeInv, TypeOK, Engaged, RequestTyped, Msg
<1>6. CASE UNCHANGED vars
  BY <1>6 DEF vars, TypeInv, TypeOK, Engaged, RequestTyped, Msg
<1> QED
  BY <1>1, <1>2, <1>3, <1>4, <1>5, <1>6, StepTypedRequest DEF Next

\* The tables: rows keep their shape, whoever writes them.
LEMMA NextTypedRows ==
  TypeInv /\ [Next]_vars =>
    /\ event' \in [EventIds -> {"ABSENT", "PROCESSING", "PROCESSED", "FAILED"}]
    /\ applied' \in [EventIds -> Nat]
    /\ faults' \in 0..MaxFaults
<1> SUFFICES ASSUME TypeInv, [Next]_vars
    PROVE  /\ event' \in [EventIds ->
                           {"ABSENT", "PROCESSING", "PROCESSED", "FAILED"}]
           /\ applied' \in [EventIds -> Nat]
           /\ faults' \in 0..MaxFaults
  OBVIOUS
<1>0. /\ event \in [EventIds -> {"ABSENT", "PROCESSING", "PROCESSED", "FAILED"}]
      /\ applied \in [EventIds -> Nat]
      /\ faults \in 0..MaxFaults /\ MaxFaults \in Nat
  BY MessagesAssumption DEF TypeInv, TypeOK
<1>1. ASSUME NEW d \in Deliveries, Create(d) \/ Claim(d) \/ Finish(d) \/ Fail(d)
      PROVE  /\ event' \in [EventIds ->
                             {"ABSENT", "PROCESSING", "PROCESSED", "FAILED"}]
             /\ UNCHANGED <<applied, faults>>
  BY <1>0, <1>1 DEF Create, Claim, Finish, Fail
<1>2. ASSUME NEW d \in Deliveries, Commit(d)
      PROVE  applied' \in [EventIds -> Nat] /\ UNCHANGED <<event, faults>>
  BY <1>0, <1>2 DEF Commit
<1>3. ASSUME NEW d \in Deliveries, CallFails(d)
      PROVE  faults' \in 0..MaxFaults /\ UNCHANGED <<event, applied>>
  BY <1>0, <1>3 DEF CallFails
<1>4. ASSUME Crash
      PROVE  faults' \in 0..MaxFaults /\ UNCHANGED <<event, applied>>
  BY <1>0, <1>4 DEF Crash
<1>5. ASSUME \/ \E c \in Calls : StoreCall(c)
             \/ \E d \in Deliveries :
                  \/ Reject(d) \/ \E m \in Messages : Receive(d, m)
                  \/ Match(d) \/ Find(d) \/ Lookup(d) \/ ReadStatus(d)
                  \/ Move(d) \/ StoreFailure(d) \/ StoreTranscript(d)
                  \/ Extract(d) \/ ReadOutcome(d)
             \/ UNCHANGED vars
      PROVE  UNCHANGED <<event, applied, faults>>
  BY <1>5 DEF StoreCall, Reject, Receive, Match, Find, Lookup, ReadStatus, Move,
              StoreFailure, StoreTranscript, Extract, ReadOutcome, vars
<1> QED
  BY <1>0, <1>1, <1>2, <1>3, <1>4, <1>5 DEF Next, Step

\* Who writes the calls, and what.
LEMMA CallWriters ==
  [Next]_vars =>
    \/ UNCHANGED call
    \/ \E c \in Calls : StoreCall(c)
    \/ \E d \in Deliveries :
         Move(d) \/ StoreFailure(d) \/ StoreTranscript(d) \/ Commit(d)
  BY DEF Next, Step, vars, Reject, Receive, Match, Find, Create, Claim, Lookup,
         ReadStatus, Extract, ReadOutcome, Finish, Fail, CallFails, Crash

LEMMA NextTypedCall ==
  TypeInv /\ [Next]_vars => call' \in [Calls -> Call]
<1> SUFFICES ASSUME TypeInv, [Next]_vars PROVE call' \in [Calls -> Call]
  OBVIOUS
<1>0. call \in [Calls -> Call]
  BY DEF TypeInv, TypeOK
<1>1. ASSUME NEW c \in Calls, StoreCall(c) PROVE call' \in [Calls -> Call]
  <2>1. Reported \cup {"QUEUED"} \subseteq CallStatuses
    BY MessagesAssumption DEF CallStatuses
  <2>2. PICK s \in CallStatuses :
          call' = [call EXCEPT ![c].stored = TRUE, ![c].status = s]
    BY <1>1, <2>1 DEF StoreCall
  <2>3. [[call[c] EXCEPT !.stored = TRUE] EXCEPT !.status = s] \in Call
    BY <1>0 DEF Call
  <2> QED
    BY <1>0, <2>2, <2>3
<1>2. ASSUME NEW d \in Deliveries, Move(d) PROVE call' \in [Calls -> Call]
  <2>1. Msg(d) \in Messages
    BY <1>2 DEF Move, TypeInv, Engaged
  <2>2. StatusOf(Msg(d)) \in CallStatuses \cup {"UNKNOWN", None}
    BY <2>1, MessagesAssumption DEF StatusOf, MessageType
  <2> QED
    BY <1>0, <1>2, <2>2 DEF Move, Call
<1>3. ASSUME NEW d \in Deliveries, StoreFailure(d) \/ StoreTranscript(d)
      PROVE  call' \in [Calls -> Call]
  <2>1. CASE StoreFailure(d)
    BY <1>0, <2>1 DEF StoreFailure, Call, CallStatuses, Final
  <2>2. ASSUME NEW c \in Calls
        PROVE  [call[c] EXCEPT !.transcript = TRUE] \in Call
    BY <1>0 DEF Call
  <2>3. CASE StoreTranscript(d)
    BY <1>0, <2>2, <2>3 DEF StoreTranscript
  <2> QED
    BY <1>3, <2>1, <2>3
<1>4. ASSUME NEW d \in Deliveries, Commit(d) PROVE call' \in [Calls -> Call]
  <2>1. request[d].extract \in Extracts
    BY <1>4 DEF Commit, TypeInv, Engaged
  <2> QED
    BY <1>0, <1>4, <2>1 DEF Commit, Call, Extracts
<1> QED
  BY <1>0, <1>1, <1>2, <1>3, <1>4, CallWriters

LEMMA InitTypeInv == Init => TypeInv
  BY MessagesAssumption
     DEF Init, TypeInv, TypeOK, Engaged, Unsent, NoCall, Call, Request, Pc

LEMMA NextTypeInv == TypeInv /\ [Next]_vars => TypeInv'
  BY NextTypedRequest, NextTypedRows, NextTypedCall
     DEF TypeInv, TypeOK, RequestTyped

\* Every row and every handler keeps its declared shape.
THEOREM TypeCorrect == Spec => []TypeOK
<1>1. TypeInv => TypeOK
  BY DEF TypeInv
<1> QED
  BY <1>1, InitTypeInv, NextTypeInv, PTL DEF Spec

----------------------------------------------------------------------------
(* How the steps move handlers and events.                                 *)

\* A step that leaves the events alone, and brings no handler to hold one.
Quiet ==
  /\ UNCHANGED event
  /\ \A e \in Deliveries :
       Holds(e)' => Holds(e) /\ request'[e].message = request[e].message

\* A handler takes up its event ...
Enters(d) ==
  /\ event[Id(d)] \in {"ABSENT", "FAILED"}
  /\ event' = [event EXCEPT ![Id(d)] = "PROCESSING"]
  /\ request'[d].message = request[d].message
  /\ Msg(d) \in Messages
  /\ Holds(d)'
  /\ \A e \in Deliveries : e # d => request'[e] = request[e]

\* ... and writes the result and returns.
Leaves(d) ==
  /\ Holds(d)
  /\ \E s \in {"PROCESSED", "FAILED"} : event' = [event EXCEPT ![Id(d)] = s]
  /\ request'[d] = Over
  /\ \A e \in Deliveries : e # d => request'[e] = request[e]

LEMMA GotoFrame ==
  ASSUME TypeInv, NEW d \in Deliveries, NEW pc, Goto(d, pc)
  PROVE  /\ request'[d].pc = pc
         /\ request'[d].message = request[d].message
         /\ \A e \in Deliveries : e # d => request'[e] = request[e]
  BY DEF TypeInv, TypeOK, Goto, At, Request

LEMMA OvertakingFrame ==
  ASSUME TypeInv, NEW d \in Deliveries, NEW pc, NEW about,
         GotoOvertaking(d, pc, about)
  PROVE  /\ request'[d].pc = pc
         /\ request'[d].message = request[d].message
         /\ \A e \in Deliveries : e # d =>
              /\ request'[e].pc = request[e].pc
              /\ request'[e].message = request[e].message
              /\ request'[e].extract = request[e].extract
              /\ ~request'[e].overtaken =>
                   /\ ~request[e].overtaken
                   /\ ~(request[e].pc = about /\ Msg(e).call = Msg(d).call)
<1>1. At(d, pc).pc = pc /\ At(d, pc).message = request[d].message
  BY DEF At, TypeInv, TypeOK, Request
<1>2. ASSUME NEW e \in Deliveries
      PROVE  /\ [request[e] EXCEPT !.overtaken = TRUE].overtaken
             /\ [request[e] EXCEPT !.overtaken = TRUE].pc = request[e].pc
             /\ [request[e] EXCEPT !.overtaken = TRUE].message
                  = request[e].message
             /\ [request[e] EXCEPT !.overtaken = TRUE].extract
                  = request[e].extract
  BY DEF TypeInv, TypeOK, Request
<1> QED
  BY <1>1, <1>2 DEF GotoOvertaking

LEMMA ReturnFrame ==
  ASSUME TypeInv, NEW d \in Deliveries, Return(d)
  PROVE  /\ request'[d] = Over
         /\ \A e \in Deliveries : e # d => request'[e] = request[e]
  BY DEF TypeInv, TypeOK, Return

\* The steps of a handler that holds its event already.
LEMMA HolderIsQuiet ==
  ASSUME TypeInv, NEW d \in Deliveries, Holds(d), UNCHANGED event,
         \A e \in Deliveries :
           /\ request'[e].message = request[e].message
           /\ e # d => request'[e].pc = request[e].pc
  PROVE  Quiet
  BY DEF Quiet, Holds

LEMMA ReturnIsQuiet ==
  ASSUME TypeInv, NEW d \in Deliveries, Return(d), UNCHANGED event
  PROVE  Quiet
  BY ReturnFrame, OverTyped
     DEF Quiet, Holds, Processing

LEMMA StepKinds ==
  ASSUME TypeInv, NEW d \in Deliveries, Step(d)
  PROVE  Quiet \/ Enters(d) \/ Leaves(d)
<1>0. Msg(d) \in Messages
  BY DEF TypeInv, Engaged, Step, Match, Find, Create, Claim, Lookup,
         ReadStatus, Move, StoreFailure, StoreTranscript, Extract, ReadOutcome,
         Commit, Finish, Fail
<1>1. ASSUME NEW pc \in {"find", "create", "claim"}, Goto(d, pc),
             UNCHANGED event
      PROVE  Quiet
  BY <1>1, GotoFrame DEF Quiet, Holds, Processing
<1>2. CASE Match(d) \/ Find(d)
  BY <1>1, <1>2, ReturnIsQuiet DEF Match, Find
<1>3. CASE Create(d)
  BY <1>0, <1>3, GotoFrame, ReturnIsQuiet
     DEF Create, Enters, Holds, Processing
<1>4. CASE Claim(d)
  BY <1>0, <1>4, GotoFrame, ReturnIsQuiet
     DEF Claim, Enters, Holds, Processing
<1>5. CASE \/ Lookup(d) \/ ReadStatus(d) \/ Move(d) \/ StoreFailure(d)
           \/ StoreTranscript(d) \/ Commit(d)
  <2>1. Holds(d) /\ UNCHANGED event
    BY <1>5 DEF Holds, Processing, Lookup, ReadStatus, Move, StoreFailure,
                StoreTranscript, Commit
  <2>2. (\E pc : Goto(d, pc)) \/ \E pc, about : GotoOvertaking(d, pc, about)
    BY <1>5 DEF Lookup, ReadStatus, Move, StoreFailure, StoreTranscript, Commit
  <2> QED
    BY <2>1, <2>2, GotoFrame, OvertakingFrame, HolderIsQuiet
<1>6. CASE Extract(d) \/ ReadOutcome(d)
  <2>1. Holds(d) /\ UNCHANGED event
    BY <1>6 DEF Holds, Processing, Extract, ReadOutcome
  <2>2. \/ \E pc : Goto(d, pc)
        \/ \E x : request' = [request EXCEPT ![d].pc = "outcome",
                                             ![d].extract = x]
        \/ request' = [request EXCEPT ![d].pc = "commit"]
    BY <1>6 DEF Extract, ReadOutcome
  <2>3. ASSUME \/ \E x : request' = [request EXCEPT ![d].pc = "outcome",
                                                   ![d].extract = x]
               \/ request' = [request EXCEPT ![d].pc = "commit"]
        PROVE  \A e \in Deliveries :
                 /\ request'[e].message = request[e].message
                 /\ e # d => request'[e].pc = request[e].pc
    BY <2>3 DEF TypeInv, TypeOK, Request
  <2> QED
    BY <2>1, <2>2, <2>3, GotoFrame, HolderIsQuiet
<1>7. CASE Finish(d)
  BY <1>7, ReturnFrame DEF Finish, Leaves, Holds
<1>8. CASE Fail(d)
  BY <1>8, ReturnFrame DEF Fail, Leaves, Holds
<1> QED
  BY <1>2, <1>3, <1>4, <1>5, <1>6, <1>7, <1>8 DEF Step

LEMMA NextKinds ==
  TypeInv /\ [Next]_vars =>
    Quiet \/ \E d \in Deliveries : Enters(d) \/ Leaves(d)
<1> SUFFICES ASSUME TypeInv, [Next]_vars
             PROVE  Quiet \/ \E d \in Deliveries : Enters(d) \/ Leaves(d)
  OBVIOUS
<1>1. ASSUME NEW c \in Calls, StoreCall(c) PROVE Quiet
  BY <1>1 DEF StoreCall, Quiet, Holds
<1>2. ASSUME NEW d \in Deliveries, Reject(d) PROVE Quiet
  BY <1>2, ReturnIsQuiet DEF Reject
<1>3. ASSUME NEW d \in Deliveries, NEW m \in Messages, Receive(d, m)
      PROVE  Quiet
  BY <1>3 DEF Receive, Quiet, Holds, Processing, TypeInv, TypeOK, Request
<1>4. ASSUME NEW d \in Deliveries, CallFails(d) PROVE Quiet
  <2>1. CASE request[d].pc \in Processing \cup {"finish"} /\ Goto(d, "fail")
    BY <1>4, <2>1, GotoFrame, HolderIsQuiet DEF CallFails, Holds
  <2>2. CASE Return(d)
    BY <1>4, <2>2, ReturnIsQuiet DEF CallFails
  <2> QED
    BY <1>4, <2>1, <2>2 DEF CallFails
<1>5. CASE Crash
  BY <1>5, OverTyped DEF Crash, Quiet, Holds, Processing, TypeInv, TypeOK
<1>6. CASE UNCHANGED vars
  BY <1>6 DEF vars, Quiet, Holds
<1> QED
  BY <1>1, <1>2, <1>3, <1>4, <1>5, <1>6, StepKinds DEF Next

\* A step of d leaves the other handlers where they are.
LEMMA OthersStay ==
  ASSUME TypeInv, NEW d \in Deliveries, Step(d) \/ CallFails(d) \/ Reject(d)
  PROVE  \A e \in Deliveries : e # d =>
           /\ request'[e].pc = request[e].pc
           /\ request'[e].message = request[e].message
           /\ ~request'[e].overtaken => ~request[e].overtaken
<1>1. \/ \E pc : Goto(d, pc)
      \/ \E pc, about : GotoOvertaking(d, pc, about)
      \/ Return(d)
      \/ \E x : request' = [request EXCEPT ![d].pc = "outcome",
                                           ![d].extract = x]
      \/ request' = [request EXCEPT ![d].pc = "commit"]
  BY DEF Step, CallFails, Reject, Match, Find, Create, Claim, Lookup,
         ReadStatus, Move, StoreFailure, StoreTranscript, Extract, ReadOutcome,
         Commit, Finish, Fail
<1>2. ASSUME \/ \E x : request' = [request EXCEPT ![d].pc = "outcome",
                                                 ![d].extract = x]
             \/ request' = [request EXCEPT ![d].pc = "commit"]
      PROVE  \A e \in Deliveries : e # d => request'[e] = request[e]
  BY <1>2 DEF TypeInv, TypeOK
<1> QED
  BY <1>1, <1>2, GotoFrame, OvertakingFrame, ReturnFrame

----------------------------------------------------------------------------
(* One delivery works on an event.                                         *)

\* The row of an event that is held says so.
HeldIsProcessing ==
  \A d \in Deliveries : Holds(d) => event[Id(d)] = "PROCESSING"

\* One handler holds it.
HeldAlone ==
  \A d, e \in Deliveries : Holds(d) /\ Holds(e) /\ Id(d) = Id(e) => d = e

HoldInv == HeldIsProcessing /\ HeldAlone

LEMMA InitHoldInv == Init => HoldInv
  BY DEF Init, HoldInv, HeldIsProcessing, HeldAlone, Holds, Unsent,
         Processing

LEMMA IdTyped ==
  ASSUME NEW m \in Messages PROVE EventIdOf(m) \in EventIds
  BY DEF EventIds

LEMMA NextHoldInv ==
  TypeInv /\ HoldInv /\ [Next]_vars => HoldInv'
<1> SUFFICES ASSUME TypeInv, HoldInv, [Next]_vars PROVE HoldInv'
  OBVIOUS
<1>0. /\ DOMAIN event = EventIds
      /\ \A d \in Deliveries : Holds(d) => Id(d) \in EventIds
  BY IdTyped DEF TypeInv, TypeOK, Engaged, Holds, Id, Processing, Msg
<1>1. CASE Quiet
  BY <1>1 DEF Quiet, HoldInv, HeldIsProcessing, HeldAlone, Id, Msg
<1>2. ASSUME NEW d \in Deliveries, Enters(d) PROVE HoldInv'
  <2>1. Id(d) \in EventIds /\ Id(d)' = Id(d)
    BY <1>2, IdTyped DEF Enters, Id, Msg
  <2>2. ASSUME NEW e \in Deliveries, e # d
        PROVE  /\ Holds(e)' <=> Holds(e)
               /\ Id(e)' = Id(e)
               /\ Holds(e) => Id(e) # Id(d)
    BY <1>2, <2>2 DEF Enters, Holds, Id, Msg, HoldInv, HeldIsProcessing
  <2> QED
    BY <1>0, <1>2, <2>1, <2>2
       DEF Enters, HoldInv, HeldIsProcessing, HeldAlone
<1>3. ASSUME NEW d \in Deliveries, Leaves(d) PROVE HoldInv'
  <2>1. Holds(d) /\ ~Holds(d)'
    BY <1>3, OverTyped DEF Leaves, Holds, Processing
  <2>2. ASSUME NEW e \in Deliveries, e # d
        PROVE  /\ Holds(e)' <=> Holds(e)
               /\ Id(e)' = Id(e)
               /\ Holds(e) => Id(e) # Id(d)
    BY <1>3, <2>1, <2>2 DEF Leaves, Holds, Id, Msg, HoldInv, HeldAlone
  <2> QED
    BY <1>0, <1>3, <2>1, <2>2
       DEF Leaves, HoldInv, HeldIsProcessing, HeldAlone
<1> QED
  BY <1>1, <1>2, <1>3, NextKinds

\* A handler that works on its event lets go of it only by writing its result.
LEMMA HolderStays ==
  ASSUME TypeInv, NEW d \in Deliveries, Step(d), Holds(d)
  PROVE  \/ Leaves(d)
         \/ Holds(d)' /\ request'[d].message = request[d].message
<1>0. request \in [Deliveries -> Request]
  BY DEF TypeInv, TypeOK
<1>1. ASSUME NEW pc \in Processing \cup {"finish", "fail"},
             Goto(d, pc) \/ \E about : GotoOvertaking(d, pc, about)
      PROVE  Holds(d)' /\ request'[d].message = request[d].message
  BY <1>1, GotoFrame, OvertakingFrame DEF Holds
<1>2. AfterStatus(Msg(d)) \in Processing \cup {"finish", "fail"}
  BY DEF AfterStatus, Processing
<1>3. ~(Match(d) \/ Find(d) \/ Create(d) \/ Claim(d))
  BY DEF Holds, Processing, Match, Find, Create, Claim
<1>4. CASE Lookup(d)
  <2>1. PICK pc \in Processing \cup {"finish", "fail"} : Goto(d, pc)
    BY <1>2, <1>4 DEF Lookup, Processing
  <2> QED
    BY <1>1, <2>1
<1>5. CASE ReadStatus(d)
  <2>1. PICK pc \in Processing \cup {"finish", "fail"} : Goto(d, pc)
    BY <1>2, <1>5 DEF ReadStatus, Processing
  <2> QED
    BY <1>1, <2>1
<1>6. CASE Move(d)
  BY <1>1, <1>2, <1>6 DEF Move, Processing
<1>7. CASE StoreFailure(d) \/ StoreTranscript(d) \/ Commit(d)
  BY <1>1, <1>7 DEF StoreFailure, StoreTranscript, Commit, Processing
<1>8. CASE Extract(d)
  <2>1. CASE Goto(d, "fail")
    BY <1>1, <2>1
  <2>2. CASE \E x : request' = [request EXCEPT ![d].pc = "outcome",
                                               ![d].extract = x]
    BY <1>0, <2>2 DEF Holds, Processing, Request
  <2> QED
    BY <1>8, <2>1, <2>2 DEF Extract
<1>9. CASE ReadOutcome(d)
  <2>1. CASE \E pc \in {"finish", "fail"} : Goto(d, pc)
    BY <1>1, <2>1
  <2>2. CASE request' = [request EXCEPT ![d].pc = "commit"]
    BY <1>0, <2>2 DEF Holds, Processing, Request
  <2> QED
    BY <1>9, <2>1, <2>2 DEF ReadOutcome
<1>10. CASE Finish(d) \/ Fail(d)
  BY <1>10, ReturnFrame DEF Finish, Fail, Leaves, Holds
<1> QED
  BY <1>3, <1>4, <1>5, <1>6, <1>7, <1>8, <1>9, <1>10 DEF Step

\* An event in PROCESSING is in some handler's hands as long as nothing fails.
CarriedInv ==
  faults = 0 =>
    \A i \in EventIds :
      event[i] = "PROCESSING" =>
        \E d \in Deliveries : Holds(d) /\ Id(d) = i

LEMMA InitCarriedInv == Init => CarriedInv
  BY DEF Init, CarriedInv

\* Without a fault every handler goes on.
LEMMA NoFaultSteps ==
  ASSUME TypeInv, [Next]_vars, faults' = 0
  PROVE  /\ faults = 0
         /\ \A d \in Deliveries : Holds(d) =>
              \/ Leaves(d)
              \/ Holds(d)' /\ request'[d].message = request[d].message
<1>0. faults \in Nat /\ faults + 1 # 0
  BY MessagesAssumption DEF TypeInv, TypeOK
<1>1. ~Crash /\ \A d \in Deliveries : ~CallFails(d)
  BY <1>0 DEF Crash, CallFails
<1>2. faults = 0
  BY <1>1 DEF Next, vars, StoreCall, Reject, Receive, Step, Match, Find, Create,
         Claim, Lookup, ReadStatus, Move, StoreFailure, StoreTranscript,
         Extract, ReadOutcome, Commit, Finish, Fail
<1>3. ASSUME NEW d \in Deliveries, Holds(d)
      PROVE  \/ Leaves(d)
             \/ Holds(d)' /\ request'[d].message = request[d].message
  <2>1. ASSUME NEW e \in Deliveries, e # d, Step(e) \/ Reject(e)
        PROVE  Holds(d)' /\ request'[d].message = request[d].message
    BY <1>3, <2>1, OthersStay DEF Holds
  <2>2. ~Reject(d) /\ \A e \in Deliveries, m \in Messages :
                        Receive(e, m) => e # d
    BY <1>3 DEF Reject, Receive, Holds, Processing
  <2>3. ASSUME NEW e \in Deliveries, NEW m \in Messages, e # d, Receive(e, m)
        PROVE  Holds(d)' /\ request'[d].message = request[d].message
    BY <1>3, <2>3 DEF Receive, Holds, TypeInv, TypeOK
  <2>4. CASE UNCHANGED request
    BY <1>3, <2>4 DEF Holds
  <2> QED
    BY <1>1, <1>3, <2>1, <2>2, <2>3, <2>4, HolderStays
       DEF Next, vars, StoreCall
<1> QED
  BY <1>2, <1>3

LEMMA NextCarriedInv ==
  TypeInv /\ HoldInv /\ CarriedInv /\ [Next]_vars => CarriedInv'
<1> SUFFICES ASSUME TypeInv, HoldInv, CarriedInv, [Next]_vars, faults' = 0,
                    NEW i \in EventIds, event'[i] = "PROCESSING"
             PROVE  \E d \in Deliveries : Holds(d)' /\ Id(d)' = i
  BY DEF CarriedInv
<1>0. event \in [EventIds -> {"ABSENT", "PROCESSING", "PROCESSED", "FAILED"}]
  BY DEF TypeInv, TypeOK
\* A holder of i goes on, unless the step writes the result of i.
<1>1. ASSUME event[i] = "PROCESSING",
             \A d \in Deliveries : Leaves(d) => Id(d) # i
      PROVE  \E d \in Deliveries : Holds(d)' /\ Id(d)' = i
  <2>1. PICK d \in Deliveries : Holds(d) /\ Id(d) = i
    BY <1>1, NoFaultSteps DEF CarriedInv
  <2>2. Holds(d)' /\ request'[d].message = request[d].message
    BY <1>1, <2>1, NoFaultSteps
  <2> QED
    BY <2>1, <2>2 DEF Id, Msg
<1>2. ASSUME NEW d \in Deliveries, Leaves(d) PROVE Id(d) # i
  <2>1. PICK s \in {"PROCESSED", "FAILED"} : event' = [event EXCEPT ![Id(d)] = s]
    BY <1>2 DEF Leaves
  <2> QED
    BY <1>0, <2>1
<1>3. CASE Quiet
  BY <1>1, <1>2, <1>3 DEF Quiet
<1>4. ASSUME NEW d \in Deliveries, Enters(d)
      PROVE  \E e \in Deliveries : Holds(e)' /\ Id(e)' = i
  <2>1. CASE Id(d) = i
    BY <1>4, <2>1 DEF Enters, Id, Msg
  <2>2. CASE Id(d) # i
    BY <1>0, <1>1, <1>2, <1>4, <2>2 DEF Enters
  <2> QED
    BY <2>1, <2>2
<1>5. ASSUME NEW d \in Deliveries, Leaves(d)
      PROVE  \E e \in Deliveries : Holds(e)' /\ Id(e)' = i
  BY <1>0, <1>1, <1>2, <1>5 DEF Leaves
<1> QED
  BY <1>3, <1>4, <1>5, NextKinds

\* However deliveries interleave, fail and are repeated, one of them at most
\* works on an event, and only a fault leaves one PROCESSING with none.
THEOREM OneAtATime == Spec => []ExclusiveProcessing
<1>1. TypeInv /\ HoldInv /\ CarriedInv => ExclusiveProcessing
  <2> SUFFICES ASSUME TypeInv, HoldInv, CarriedInv PROVE ExclusiveProcessing
    OBVIOUS
  <2>1. faults > 0 \/ faults = 0
    BY MessagesAssumption DEF TypeInv, TypeOK
  <2> QED
    BY <2>1 DEF HoldInv, HeldAlone, CarriedInv, ExclusiveProcessing
<1> QED
  BY <1>1, InitTypeInv, NextTypeInv, InitHoldInv, NextHoldInv, InitCarriedInv,
     NextCarriedInv, PTL DEF Spec

----------------------------------------------------------------------------
(* What a handler may rely on between its steps.                           *)

\* A call stays stored, keeps a transcript and keeps having an outcome.
LEMMA CallGrows ==
  ASSUME TypeInv, [Next]_vars, NEW c \in Calls
  PROVE  /\ call[c].stored => call'[c].stored
         /\ call[c].transcript => call'[c].transcript
         /\ call[c].outcome # None => call'[c].outcome # None
<1>0. call \in [Calls -> Call]
  BY DEF TypeInv, TypeOK
<1>1. ASSUME NEW b \in Calls, StoreCall(b)
      PROVE  /\ call'[c].stored \/ ~call[c].stored
             /\ call'[c].transcript = call[c].transcript
             /\ call'[c].outcome = call[c].outcome
  BY <1>0, <1>1 DEF StoreCall, Call
<1>2. ASSUME NEW d \in Deliveries, Move(d) \/ StoreFailure(d)
      PROVE  /\ call'[c].stored = call[c].stored
             /\ call'[c].transcript = call[c].transcript
             /\ call'[c].outcome = call[c].outcome
  BY <1>0, <1>2 DEF Move, StoreFailure, Call
<1>3. ASSUME NEW d \in Deliveries, StoreTranscript(d)
      PROVE  /\ call'[c].stored = call[c].stored
             /\ call[c].transcript => call'[c].transcript
             /\ call'[c].outcome = call[c].outcome
  BY <1>0, <1>3 DEF StoreTranscript, Call
<1>4. ASSUME NEW d \in Deliveries, Commit(d)
      PROVE  /\ call'[c].stored = call[c].stored
             /\ call'[c].transcript = call[c].transcript
             /\ call[c].outcome # None => call'[c].outcome # None
  <2>1. request[d].extract # None
    BY <1>4, MessagesAssumption DEF Commit, TypeInv, Engaged
  <2> QED
    BY <1>0, <1>4, <2>1 DEF Commit, Call
<1> QED
  BY <1>1, <1>2, <1>3, <1>4, CallWriters

\* What holds of a handler at each place of processVoiceWebhook.
Local(d) ==
  /\ request[d].pc \in Processing \ {"lookup"} => Of(d).stored
  /\ request[d].pc = "failure" => Msg(d).failure
  /\ request[d].pc \in {"extract", "outcome", "commit"} => Of(d).transcript
  /\ request[d].pc = "finish" /\ Speaks(Id(d)) =>
       Of(d).transcript /\ Of(d).outcome # None

LocalInv == \A d \in Deliveries : Local(d)

LEMMA InitLocalInv == Init => LocalInv
  BY DEF Init, LocalInv, Local, Unsent, Processing

LEMMA LocalStays ==
  ASSUME TypeInv, [Next]_vars, NEW e \in Deliveries, Local(e),
         request'[e].pc = request[e].pc, request'[e].message = request[e].message
  PROVE  Local(e)'
<1>1. CASE request[e].pc \in {"unsent", "over"}
  BY <1>1 DEF Local, Processing
<1>2. CASE request[e].pc \notin {"unsent", "over"}
  <2>1. Msg(e) \in Messages /\ Msg(e).call \in Calls
    BY <1>2, MessagesAssumption DEF TypeInv, Engaged, MessageType
  <2>2. /\ Of(e).stored => Of(e)'.stored
        /\ Of(e).transcript => Of(e)'.transcript
        /\ Of(e).outcome # None => Of(e)'.outcome # None
    BY <2>1, CallGrows DEF Of, Msg
  <2>3. Id(e)' = Id(e) /\ Msg(e)' = Msg(e)
    BY DEF Id, Msg
  <2> QED
    BY <2>2, <2>3 DEF Local, Speaks
<1> QED
  BY <1>1, <1>2

LEMMA AfterStatusLocal ==
  ASSUME NEW m \in Messages
  PROVE  /\ AfterStatus(m) = "failure" => m.failure
         /\ AfterStatus(m) = "finish" => ~Speaks(EventIdOf(m))
<1>1. m.failure \in BOOLEAN
  BY MessagesAssumption DEF MessageType
<1> QED
  BY <1>1 DEF AfterStatus, Speaks

\* Where the steps of d may leave it.
LEMMA StepLocal ==
  ASSUME TypeInv, LocalInv, [Next]_vars, NEW d \in Deliveries, Step(d)
  PROVE  Local(d)'
<1>0. Msg(d) \in Messages /\ Local(d)
  BY DEF TypeInv, Engaged, Step, Match, Find, Create, Claim, Lookup,
         ReadStatus, Move, StoreFailure, StoreTranscript, Extract, ReadOutcome,
         Commit, Finish, Fail, LocalInv
<1>1. /\ Msg(d).call \in Calls
      /\ call \in [Calls -> Call]
  BY <1>0, MessagesAssumption DEF MessageType, TypeInv, TypeOK
<1>2. /\ Of(d).stored => call'[Msg(d).call].stored
      /\ Of(d).transcript => call'[Msg(d).call].transcript
      /\ Of(d).outcome # None => call'[Msg(d).call].outcome # None
  BY <1>1, CallGrows DEF Of
<1>3. ASSUME NEW pc \in {"find", "create", "claim", "lookup", "fail", "over"},
             request'[d].pc = pc
      PROVE  Local(d)'
  BY <1>3 DEF Local, Processing
<1>4. ASSUME Return(d) PROVE Local(d)'
  BY <1>4, <1>3, ReturnFrame, OverTyped
<1>5. ASSUME Goto(d, AfterStatus(Msg(d)))
               \/ GotoOvertaking(d, AfterStatus(Msg(d)), "move"),
             Of(d).stored
      PROVE  Local(d)'
  <2>1. /\ request'[d].pc = AfterStatus(Msg(d))
        /\ request'[d].message = Msg(d)
    BY <1>5, GotoFrame, OvertakingFrame DEF Msg
  <2> QED
    BY <1>0, <1>2, <1>5, <2>1, AfterStatusTyped, AfterStatusLocal
       DEF Local, Of, Id, Msg, Speaks
<1>6. CASE Match(d) \/ Find(d) \/ Create(d) \/ Claim(d) \/ Finish(d) \/ Fail(d)
  BY <1>3, <1>4, <1>6, GotoFrame DEF Match, Find, Create, Claim, Finish, Fail
<1>7. CASE Lookup(d)
  <2>1. ASSUME Goto(d, "status"), Of(d).stored PROVE Local(d)'
    BY <2>1, <1>2, GotoFrame DEF Local, Of, Msg
  <2> QED
    BY <1>3, <1>5, <1>7, <2>1, GotoFrame DEF Lookup
<1>8. CASE ReadStatus(d)
  <2>0. Of(d).stored
    BY <1>0, <1>8 DEF ReadStatus, Local, Processing
  <2>1. ASSUME Goto(d, "move") PROVE Local(d)'
    BY <2>0, <2>1, <1>2, GotoFrame DEF Local, Of, Msg
  <2> QED
    BY <1>5, <1>8, <2>0, <2>1 DEF ReadStatus
<1>9. CASE Move(d)
  <2>0. Of(d).stored
    BY <1>0, <1>9 DEF Move, Local, Processing
  <2> QED
    BY <1>3, <1>5, <1>9, <2>0, GotoFrame DEF Move
<1>10. CASE StoreFailure(d)
  <2>1. Msg(d).failure /\ ~Speaks(Id(d))
    BY <1>0, <1>10 DEF StoreFailure, Local, Speaks, Id
  <2>2. request'[d].pc = "finish" /\ request'[d].message = Msg(d)
    BY <1>10, OvertakingFrame DEF StoreFailure, Msg
  <2> QED
    BY <2>1, <2>2 DEF Local, Id, Msg, Speaks, Processing
<1>11. CASE StoreTranscript(d)
  <2>1. call'[Msg(d).call].transcript /\ Of(d).stored
    BY <1>0, <1>1, <1>11 DEF StoreTranscript, Call, Local, Processing
  <2>2. request'[d].pc = "extract" /\ request'[d].message = Msg(d)
    BY <1>11, GotoFrame DEF StoreTranscript, Msg
  <2> QED
    BY <1>2, <2>1, <2>2 DEF Local, Of, Msg
<1>12. CASE Extract(d) \/ ReadOutcome(d)
  <2>0. Of(d).stored /\ Of(d).transcript
    BY <1>0, <1>12 DEF Extract, ReadOutcome, Local, Processing
  <2>1. \/ request'[d].pc \in {"outcome", "commit"} /\ request'[d].message = Msg(d)
        \/ Goto(d, "fail")
        \/ Goto(d, "finish") /\ Of(d).outcome # None
    BY <1>12 DEF Extract, ReadOutcome, TypeInv, TypeOK, Request, Msg
  <2>2. ASSUME request'[d].pc \in {"outcome", "commit"},
               request'[d].message = Msg(d)
        PROVE  Local(d)'
    BY <1>2, <2>0, <2>2 DEF Local, Of, Msg
  <2>3. ASSUME Goto(d, "finish"), Of(d).outcome # None PROVE Local(d)'
    BY <1>2, <2>0, <2>3, GotoFrame DEF Local, Of, Msg, Processing
  <2> QED
    BY <1>3, <2>1, <2>2, <2>3, GotoFrame
<1>13. CASE Commit(d)
  <2>1. Of(d).transcript /\ request[d].extract # None
    BY <1>0, <1>13, MessagesAssumption DEF Commit, Local, TypeInv, Engaged
  <2>2. CASE GotoOvertaking(d, "finish", "commit")
    <3>1. request'[d].pc = "finish" /\ request'[d].message = Msg(d)
      BY <2>2, OvertakingFrame DEF Msg
    <3>2. call'[Msg(d).call].outcome # None
      <4>1. CASE Goto(d, "fail")
        BY <3>1, <4>1, GotoFrame
      <4>2. CASE call' = [call EXCEPT ![Msg(d).call].outcome =
                                        request[d].extract]
        BY <1>1, <2>1, <4>2 DEF Call
      <4> QED
        BY <1>13, <4>1, <4>2 DEF Commit
    <3> QED
      BY <1>2, <2>1, <3>1, <3>2 DEF Local, Of, Msg, Processing
  <2> QED
    BY <1>3, <1>13, <2>2, GotoFrame DEF Commit
<1> QED
  BY <1>6, <1>7, <1>8, <1>9, <1>10, <1>11, <1>12, <1>13 DEF Step

LEMMA NextLocalInv ==
  TypeInv /\ LocalInv /\ [Next]_vars => LocalInv'
<1> SUFFICES ASSUME TypeInv, LocalInv, [Next]_vars, NEW e \in Deliveries
             PROVE  Local(e)'
  BY DEF LocalInv
<1>0. Local(e)
  BY DEF LocalInv
<1>1. ASSUME request'[e].pc \in {"unsent", "over", "match", "find", "fail"}
      PROVE  Local(e)'
  BY <1>1 DEF Local, Processing
<1>2. ASSUME NEW d \in Deliveries, Step(d) PROVE Local(e)'
  BY <1>0, <1>2, StepLocal, OthersStay, LocalStays
<1>3. ASSUME NEW d \in Deliveries, CallFails(d) \/ Reject(d) PROVE Local(e)'
  <2>1. request'[d].pc \in {"over", "fail"}
    BY <1>3, GotoFrame, ReturnFrame, OverTyped DEF CallFails, Reject
  <2> QED
    BY <1>0, <1>1, <1>3, <2>1, OthersStay, LocalStays
<1>4. ASSUME NEW d \in Deliveries, NEW m \in Messages, Receive(d, m)
      PROVE  Local(e)'
  <2>1. CASE e = d
    BY <1>1, <1>4, <2>1 DEF Receive, TypeInv, TypeOK, Request
  <2>2. CASE e # d
    BY <1>0, <1>4, <2>2, LocalStays DEF Receive, TypeInv, TypeOK
  <2> QED
    BY <2>1, <2>2
<1>5. CASE Crash
  <2>1. request'[e] = Over \/ request'[e] = request[e]
    BY <1>5 DEF Crash, TypeInv, TypeOK
  <2> QED
    BY <1>0, <1>1, <2>1, OverTyped, LocalStays
<1>6. CASE (\E c \in Calls : StoreCall(c)) \/ UNCHANGED vars
  BY <1>0, <1>6, LocalStays DEF StoreCall, vars
<1> QED
  BY <1>2, <1>3, <1>4, <1>5, <1>6 DEF Next

----------------------------------------------------------------------------
(* A processed event has had its effect.                                   *)

\* Only Finish makes an event PROCESSED, and its handler is at "finish".
LEMMA ProcessedBy ==
  ASSUME TypeInv, [Next]_vars, NEW i \in EventIds, event'[i] = "PROCESSED"
  PROVE  \/ event[i] = "PROCESSED"
         \/ \E d \in Deliveries : request[d].pc = "finish" /\ Id(d) = i
                                   /\ Msg(d) \in Messages
<1>0. event \in [EventIds -> {"ABSENT", "PROCESSING", "PROCESSED", "FAILED"}]
  BY DEF TypeInv, TypeOK
<1>1. ASSUME NEW d \in Deliveries, Create(d) \/ Claim(d) \/ Fail(d)
      PROVE  event[i] = "PROCESSED"
  BY <1>0, <1>1 DEF Create, Claim, Fail
<1>2. ASSUME NEW d \in Deliveries, Finish(d), event[i] # "PROCESSED"
      PROVE  request[d].pc = "finish" /\ Id(d) = i /\ Msg(d) \in Messages
  BY <1>0, <1>2 DEF Finish, TypeInv, Engaged
<1>3. \/ UNCHANGED event
      \/ \E d \in Deliveries : Create(d) \/ Claim(d) \/ Fail(d) \/ Finish(d)
  BY DEF Next, Step, vars, StoreCall, Reject, Receive, Match, Find, Lookup,
         ReadStatus, Move, StoreFailure, StoreTranscript, Extract, ReadOutcome,
         Commit, CallFails, Crash
<1> QED
  BY <1>1, <1>2, <1>3

LEMMA InitProcessedIsDone == Init => ProcessedIsDone
  BY DEF Init, ProcessedIsDone, EventIds

LEMMA NextProcessedIsDone ==
  TypeInv /\ LocalInv /\ ProcessedIsDone /\ [Next]_vars => ProcessedIsDone'
<1> SUFFICES ASSUME TypeInv, LocalInv, ProcessedIsDone, [Next]_vars,
                    NEW m \in Messages,
                    event'[EventIdOf(m)] = "PROCESSED", Speaks(EventIdOf(m))
             PROVE  /\ call'[m.call].transcript
                    /\ call'[m.call].outcome # None
  BY DEF ProcessedIsDone, Speaks
<1>1. EventIdOf(m) \in EventIds /\ m.call \in Calls
  BY IdTyped, MessagesAssumption DEF MessageType
<1>2. call[m.call].transcript /\ call[m.call].outcome # None
  <2>1. CASE event[EventIdOf(m)] = "PROCESSED"
    BY <2>1 DEF ProcessedIsDone
  <2>2. ASSUME NEW d \in Deliveries, request[d].pc = "finish",
               Id(d) = EventIdOf(m), Msg(d) \in Messages
        PROVE  call[m.call].transcript /\ call[m.call].outcome # None
    <3>1. Msg(d).call = m.call
      BY <2>2, MessagesAssumption DEF Id
    <3> QED
      BY <2>2, <3>1 DEF LocalInv, Local, Of
  <2> QED
    BY <1>1, <2>1, <2>2, ProcessedBy
<1> QED
  BY <1>1, <1>2, CallGrows

\* An event that brings a transcript is PROCESSED only when its call has the
\* transcript and an outcome.
THEOREM DoneWhenProcessed == Spec => []ProcessedIsDone
BY InitTypeInv, NextTypeInv, InitLocalInv, NextLocalInv, InitProcessedIsDone,
   NextProcessedIsDone, PTL DEF Spec

----------------------------------------------------------------------------
(* The outcome of an event is applied once.                                *)

\* An applied outcome shows in the call, so that no handler that looked for
\* it there is about to apply it again.
AppliedInv ==
  /\ \A i \in EventIds : applied[i] \in {0, 1}
  /\ \A m \in Messages :
       applied[EventIdOf(m)] = 1 => call[m.call].outcome # None
  /\ \A d \in Deliveries :
       request[d].pc = "commit" => applied[Id(d)] = 0

LEMMA InitAppliedInv == Init => AppliedInv
  BY DEF Init, AppliedInv, EventIds, Unsent

\* Handlers come to "commit" by ReadOutcome alone.
LEMMA CommitBy ==
  ASSUME TypeInv, [Next]_vars, NEW e \in Deliveries, request'[e].pc = "commit"
  PROVE  /\ request'[e].message = request[e].message
         /\ \/ /\ request[e].pc = "commit"
               /\ ~request'[e].overtaken => ~request[e].overtaken
            \/ ReadOutcome(e) /\ Of(e).outcome = None
<1>1. ASSUME NEW d \in Deliveries, Step(d), e # d
      PROVE  /\ request'[e].message = request[e].message
             /\ request[e].pc = "commit"
             /\ ~request'[e].overtaken => ~request[e].overtaken
  BY <1>1, OthersStay
<1>2. ASSUME Step(e)
      PROVE  /\ request'[e].message = request[e].message
             /\ ReadOutcome(e) /\ Of(e).outcome = None
  <2>1. ASSUME \/ Return(e)
               \/ \E pc \in Pc \ {"commit"} :
                    Goto(e, pc) \/ \E about : GotoOvertaking(e, pc, about)
        PROVE  FALSE
    BY <2>1, ReturnFrame, GotoFrame, OvertakingFrame, OverTyped
  <2>2. AfterStatus(Msg(e)) \in Pc \ {"commit"}
    BY AfterStatusTyped DEF Pc, Processing
  <2>3. CASE Extract(e)
    BY <2>1, <2>3 DEF Extract, TypeInv, TypeOK, Request, Pc
  <2>4. CASE ReadOutcome(e)
    BY <2>1, <2>4 DEF ReadOutcome, TypeInv, TypeOK, Request, Pc
  <2> QED
    BY <1>2, <2>1, <2>2, <2>3, <2>4
       DEF Step, Match, Find, Create, Claim, Lookup, ReadStatus, Move,
           StoreFailure, StoreTranscript, Commit, Finish, Fail, Pc, Before,
           Processing
<1>3. ASSUME NEW d \in Deliveries, CallFails(d) \/ Reject(d)
      PROVE  /\ request'[e].message = request[e].message
             /\ request[e].pc = "commit"
             /\ ~request'[e].overtaken => ~request[e].overtaken
  <2>1. request'[d].pc \in {"over", "fail"}
    BY <1>3, GotoFrame, ReturnFrame, OverTyped DEF CallFails, Reject
  <2> QED
    BY <1>3, <2>1, OthersStay
<1>4. ASSUME NEW d \in Deliveries, NEW m \in Messages, Receive(d, m)
      PROVE  request'[e] = request[e]
  BY <1>4 DEF Receive, TypeInv, TypeOK, Request
<1>5. CASE Crash
  <2>1. request'[e] = Over \/ request'[e] = request[e]
    BY <1>5 DEF Crash, TypeInv, TypeOK
  <2> QED
    BY <2>1, OverTyped
<1>6. CASE (\E c \in Calls : StoreCall(c)) \/ UNCHANGED vars
  BY <1>6 DEF StoreCall, vars
<1> QED
  BY <1>1, <1>2, <1>3, <1>4, <1>5, <1>6 DEF Next

LEMMA AppliedWriters ==
  [Next]_vars =>
    \/ UNCHANGED applied
    \/ \E d \in Deliveries :
         /\ request[d].pc = "commit"
         /\ applied' = [applied EXCEPT ![Id(d)] = @ + 1]
         /\ call' = [call EXCEPT ![Msg(d).call].outcome = request[d].extract]
         /\ GotoOvertaking(d, "finish", "commit")
         /\ UNCHANGED event
  BY DEF Next, Step, vars, StoreCall, Reject, Receive, Match, Find, Create,
         Claim, Lookup, ReadStatus, Move, StoreFailure, StoreTranscript,
         Extract, ReadOutcome, Commit, Finish, Fail, CallFails, Crash

LEMMA NextAppliedInv ==
  TypeInv /\ HoldInv /\ AppliedInv /\ [Next]_vars => AppliedInv'
<1> SUFFICES ASSUME TypeInv, HoldInv, AppliedInv, [Next]_vars PROVE AppliedInv'
  OBVIOUS
<1>0. /\ applied \in [EventIds -> Nat]
      /\ call \in [Calls -> Call]
      /\ \A m \in Messages : m.call \in Calls /\ EventIdOf(m) \in EventIds
  BY MessagesAssumption, IdTyped DEF TypeInv, TypeOK, MessageType
<1>1. CASE UNCHANGED applied
  <2>1. ASSUME NEW m \in Messages, applied'[EventIdOf(m)] = 1
        PROVE  call'[m.call].outcome # None
    BY <1>0, <1>1, <2>1, CallGrows DEF AppliedInv
  <2>2. ASSUME NEW e \in Deliveries, request'[e].pc = "commit"
        PROVE  applied'[Id(e)'] = 0
    <3>1. Id(e)' = Id(e)
      BY <2>2, CommitBy DEF Id, Msg
    <3>2. CASE request[e].pc = "commit"
      BY <1>1, <3>1, <3>2 DEF AppliedInv
    <3>3. CASE ReadOutcome(e) /\ Of(e).outcome = None
      <4>1. Msg(e) \in Messages
        BY <3>3 DEF ReadOutcome, TypeInv, Engaged
      <4> QED
        BY <1>0, <1>1, <3>1, <3>3, <4>1 DEF AppliedInv, Id, Of
    <3>4. request[e].pc = "commit" \/ (ReadOutcome(e) /\ Of(e).outcome = None)
      BY <2>2, CommitBy
    <3> QED
      BY <3>2, <3>3, <3>4
  <2> QED
    BY <1>1, <2>1, <2>2 DEF AppliedInv
<1>2. ASSUME NEW d \in Deliveries,
             request[d].pc = "commit",
             applied' = [applied EXCEPT ![Id(d)] = @ + 1],
             call' = [call EXCEPT ![Msg(d).call].outcome = request[d].extract],
             GotoOvertaking(d, "finish", "commit")
      PROVE  AppliedInv'
  <2>0. /\ Msg(d) \in Messages
        /\ request[d].extract # None
        /\ applied[Id(d)] = 0
        /\ Id(d) \in EventIds
        /\ applied'[Id(d)] = 1
    BY <1>0, <1>2, MessagesAssumption DEF TypeInv, Engaged, AppliedInv, Id
  <2>1. ASSUME NEW i \in EventIds PROVE applied'[i] \in {0, 1}
    BY <1>0, <1>2, <2>0 DEF AppliedInv
  <2>2. ASSUME NEW m \in Messages, applied'[EventIdOf(m)] = 1
        PROVE  call'[m.call].outcome # None
    <3>1. CASE EventIdOf(m) = Id(d)
      <4>1. m.call = Msg(d).call
        BY <2>0, <3>1, MessagesAssumption DEF Id
      <4> QED
        BY <1>0, <1>2, <2>0, <4>1 DEF Call
    <3>2. CASE EventIdOf(m) # Id(d)
      BY <1>0, <1>2, <2>2, <3>2, CallGrows DEF AppliedInv
    <3> QED
      BY <3>1, <3>2
  <2>3. ASSUME NEW e \in Deliveries, request'[e].pc = "commit"
        PROVE  applied'[Id(e)'] = 0
    <3>1. e # d
      BY <1>2, <2>3, OvertakingFrame
    <3>2. request[e].pc = "commit" /\ Id(e)' = Id(e)
      BY <1>2, <2>3, <3>1, OvertakingFrame DEF Id, Msg
    <3>3. Id(e) # Id(d)
      BY <1>2, <3>1, <3>2
         DEF HoldInv, HeldAlone, Holds, Processing
    <3>4. Id(e) \in EventIds
      BY <1>0, <3>2 DEF TypeInv, Engaged, Id
    <3> QED
      BY <1>0, <1>2, <3>2, <3>3, <3>4 DEF AppliedInv
  <2> QED
    BY <2>1, <2>2, <2>3 DEF AppliedInv
<1> QED
  BY <1>1, <1>2, AppliedWriters

\* No redelivery, rejected update or crash applies an event's outcome twice.
THEOREM AtMostOnce == Spec => []AppliedOnce
<1>1. AppliedInv => AppliedOnce
  BY DEF AppliedInv, AppliedOnce
<1> QED
  BY <1>1, InitTypeInv, NextTypeInv, InitHoldInv, NextHoldInv, InitAppliedInv,
     NextAppliedInv, PTL DEF Spec
----------------------------------------------------------------------------
(* Statuses and outcomes are overwritten by overtaken handlers alone.      *)

\* What a handler has read still holds when it writes, unless another one
\* wrote the same in between.
Fresh(d) ==
  ~request[d].overtaken =>
    /\ request[d].pc = "commit" => Of(d).outcome = None
    /\ request[d].pc = "move" => Moves(Of(d).status, StatusOf(Msg(d)))

FreshInv == \A d \in Deliveries : Fresh(d)

LEMMA InitFreshInv == Init => FreshInv
  BY DEF Init, FreshInv, Fresh, Unsent

\* Handlers come to "move" by ReadStatus alone.
LEMMA MoveBy ==
  ASSUME TypeInv, [Next]_vars, NEW e \in Deliveries, request'[e].pc = "move"
  PROVE  /\ request'[e].message = request[e].message
         /\ \/ /\ request[e].pc = "move"
               /\ ~request'[e].overtaken => ~request[e].overtaken
            \/ /\ ReadStatus(e)
               /\ Moves(Of(e).status, StatusOf(Msg(e)))
<1>1. ASSUME NEW d \in Deliveries, Step(d), e # d
      PROVE  /\ request'[e].message = request[e].message
             /\ request[e].pc = "move"
             /\ ~request'[e].overtaken => ~request[e].overtaken
  BY <1>1, OthersStay
<1>2. ASSUME Step(e)
      PROVE  /\ request'[e].message = request[e].message
             /\ ReadStatus(e)
             /\ Moves(Of(e).status, StatusOf(Msg(e)))
  <2>1. ASSUME \/ Return(e)
               \/ \E pc \in Pc \ {"move"} :
                    Goto(e, pc) \/ \E about : GotoOvertaking(e, pc, about)
        PROVE  FALSE
    BY <2>1, ReturnFrame, GotoFrame, OvertakingFrame, OverTyped
  <2>2. AfterStatus(Msg(e)) \in Pc \ {"move"}
    BY AfterStatusTyped DEF Pc, Processing
  <2>3. CASE Extract(e) \/ ReadOutcome(e)
    BY <2>1, <2>3 DEF Extract, ReadOutcome, TypeInv, TypeOK, Request, Pc
  <2>4. CASE ReadStatus(e)
    BY <2>1, <2>2, <2>4, GotoFrame DEF ReadStatus
  <2> QED
    BY <1>2, <2>1, <2>2, <2>3, <2>4
       DEF Step, Match, Find, Create, Claim, Lookup, Move,
           StoreFailure, StoreTranscript, Commit, Finish, Fail, Pc, Before,
           Processing
<1>3. ASSUME NEW d \in Deliveries, CallFails(d) \/ Reject(d)
      PROVE  /\ request'[e].message = request[e].message
             /\ request[e].pc = "move"
             /\ ~request'[e].overtaken => ~request[e].overtaken
  <2>1. request'[d].pc \in {"over", "fail"}
    BY <1>3, GotoFrame, ReturnFrame, OverTyped DEF CallFails, Reject
  <2> QED
    BY <1>3, <2>1, OthersStay
<1>4. ASSUME NEW d \in Deliveries, NEW m \in Messages, Receive(d, m)
      PROVE  request'[e] = request[e]
  BY <1>4 DEF Receive, TypeInv, TypeOK, Request
<1>5. CASE Crash
  <2>1. request'[e] = Over \/ request'[e] = request[e]
    BY <1>5 DEF Crash, TypeInv, TypeOK
  <2> QED
    BY <2>1, OverTyped
<1>6. CASE (\E c \in Calls : StoreCall(c)) \/ UNCHANGED vars
  BY <1>6 DEF StoreCall, vars
<1> QED
  BY <1>1, <1>2, <1>3, <1>4, <1>5, <1>6 DEF Next

\* An outcome is written by a commit, which overtakes the others of the call.
LEMMA OutcomeWriters ==
  ASSUME TypeInv, [Next]_vars, NEW c \in Calls,
         call'[c].outcome # call[c].outcome
  PROVE  \E d \in Deliveries :
           /\ request[d].pc = "commit"
           /\ c = Msg(d).call
           /\ GotoOvertaking(d, "finish", "commit")
<1>0. call \in [Calls -> Call]
  BY DEF TypeInv, TypeOK
<1>1. ASSUME NEW b \in Calls, StoreCall(b) PROVE FALSE
  BY <1>0, <1>1 DEF StoreCall, Call
<1>2. ASSUME NEW d \in Deliveries,
             Move(d) \/ StoreFailure(d) \/ StoreTranscript(d)
      PROVE  FALSE
  BY <1>0, <1>2 DEF Move, StoreFailure, StoreTranscript, Call
<1>3. ASSUME NEW d \in Deliveries, Commit(d)
      PROVE  /\ request[d].pc = "commit"
             /\ c = Msg(d).call
             /\ GotoOvertaking(d, "finish", "commit")
  BY <1>0, <1>3 DEF Commit, Call
<1> QED
  BY <1>1, <1>2, <1>3, CallWriters

\* A status is written when the call is stored, by a move and for a failure.
LEMMA StatusWriters ==
  ASSUME TypeInv, [Next]_vars, NEW c \in Calls,
         call[c].stored, call'[c].status # call[c].status
  PROVE  \E d \in Deliveries :
           /\ c = Msg(d).call
           /\ \E pc \in Pc \ {"move"} : GotoOvertaking(d, pc, "move")
           /\ \/ /\ request[d].pc = "move"
                 /\ StatusOf(Msg(d)) # "UNKNOWN"
                 /\ call'[c].status = StatusOf(Msg(d))
              \/ call'[c].status = "FAILED"
<1>0. call \in [Calls -> Call]
  BY DEF TypeInv, TypeOK
<1>1. ASSUME NEW b \in Calls, StoreCall(b) PROVE FALSE
  BY <1>0, <1>1 DEF StoreCall, Call
<1>2. ASSUME NEW d \in Deliveries, StoreTranscript(d) \/ Commit(d) PROVE FALSE
  BY <1>0, <1>2 DEF StoreTranscript, Commit, Call
<1>3. ASSUME NEW d \in Deliveries, Move(d)
      PROVE  /\ c = Msg(d).call
             /\ \E pc \in Pc \ {"move"} : GotoOvertaking(d, pc, "move")
             /\ request[d].pc = "move"
             /\ StatusOf(Msg(d)) # "UNKNOWN"
             /\ call'[c].status = StatusOf(Msg(d))
  <2>1. AfterStatus(Msg(d)) \in Pc \ {"move"}
    BY AfterStatusTyped DEF Pc, Processing
  <2> QED
    BY <1>0, <1>3, <2>1 DEF Move, Call
<1>4. ASSUME NEW d \in Deliveries, StoreFailure(d)
      PROVE  /\ c = Msg(d).call
             /\ \E pc \in Pc \ {"move"} : GotoOvertaking(d, pc, "move")
             /\ call'[c].status = "FAILED"
  BY <1>0, <1>4 DEF StoreFailure, Call, Pc
<1> QED
  BY <1>1, <1>2, <1>3, <1>4, CallWriters

LEMMA NextFreshInv ==
  TypeInv /\ LocalInv /\ FreshInv /\ [Next]_vars => FreshInv'
<1> SUFFICES ASSUME TypeInv, LocalInv, FreshInv, [Next]_vars,
                    NEW e \in Deliveries, ~request'[e].overtaken
             PROVE  /\ request'[e].pc = "commit" => Of(e)'.outcome = None
                    /\ request'[e].pc = "move" =>
                         Moves(Of(e)'.status, StatusOf(Msg(e)'))
  BY DEF FreshInv, Fresh, Moves, StatusOf
<1>1. ASSUME request'[e].pc = "commit" PROVE Of(e)'.outcome = None
  <2>1. Msg(e)' = Msg(e)
    BY <1>1, CommitBy DEF Msg
  <2>2. CASE ReadOutcome(e) /\ Of(e).outcome = None
    BY <2>1, <2>2 DEF ReadOutcome, Of
  <2>3. CASE request[e].pc = "commit" /\ ~request[e].overtaken
    <3>1. Msg(e).call \in Calls /\ call[Msg(e).call].outcome = None
      BY <2>3, MessagesAssumption
         DEF TypeInv, Engaged, MessageType, FreshInv, Fresh, Of
    <3>2. ASSUME call'[Msg(e).call].outcome # None PROVE FALSE
      <4>1. PICK d \in Deliveries :
              /\ request[d].pc = "commit"
              /\ Msg(e).call = Msg(d).call
              /\ GotoOvertaking(d, "finish", "commit")
        BY <3>1, <3>2, OutcomeWriters
      <4> QED
        BY <1>1, <2>3, <4>1, OvertakingFrame
    <3> QED
      BY <2>1, <3>2 DEF Of
  <2>4. \/ request[e].pc = "commit" /\ ~request[e].overtaken
        \/ ReadOutcome(e) /\ Of(e).outcome = None
    BY <1>1, CommitBy
  <2> QED
    BY <2>2, <2>3, <2>4
<1>2. ASSUME request'[e].pc = "move"
      PROVE  Moves(Of(e)'.status, StatusOf(Msg(e)'))
  <2>1. Msg(e)' = Msg(e)
    BY <1>2, MoveBy DEF Msg
  <2>2. CASE ReadStatus(e) /\ Moves(Of(e).status, StatusOf(Msg(e)))
    BY <2>1, <2>2 DEF ReadStatus, Of
  <2>3. CASE request[e].pc = "move" /\ ~request[e].overtaken
    <3>1. /\ Msg(e).call \in Calls
          /\ Moves(call[Msg(e).call].status, StatusOf(Msg(e)))
          /\ call[Msg(e).call].stored
      BY <2>3, MessagesAssumption
         DEF TypeInv, Engaged, MessageType, FreshInv, Fresh, Of, LocalInv,
             Local, Processing
    <3>2. ASSUME call'[Msg(e).call].status # call[Msg(e).call].status
          PROVE  FALSE
      <4>1. PICK d \in Deliveries :
              /\ Msg(e).call = Msg(d).call
              /\ \E pc \in Pc \ {"move"} : GotoOvertaking(d, pc, "move")
        BY <3>1, <3>2, StatusWriters
      <4> QED
        BY <1>2, <2>3, <4>1, OvertakingFrame
    <3> QED
      BY <2>1, <3>1, <3>2 DEF Of
  <2>4. \/ request[e].pc = "move" /\ ~request[e].overtaken
        \/ ReadStatus(e) /\ Moves(Of(e).status, StatusOf(Msg(e)))
    BY <1>2, MoveBy
  <2> QED
    BY <2>2, <2>3, <2>4
<1> QED
  BY <1>1, <1>2

\* One event after the other never replaces an outcome: the handler that does
\* has read, before another one's commit, that there was none.
THEOREM ReplacedWhenOvertaken == Spec => OnlyOvertakenReplaces
<1>1. ASSUME TypeInv, FreshInv, [Next]_vars, NEW c \in Calls,
             call[c].outcome # None, call'[c].outcome # call[c].outcome
      PROVE  \E d \in Deliveries :
               request[d].pc = "commit" /\ request[d].overtaken
                 /\ request'[d] # request[d]
  <2>1. PICK d \in Deliveries :
          /\ request[d].pc = "commit"
          /\ c = Msg(d).call
          /\ GotoOvertaking(d, "finish", "commit")
    BY <1>1, OutcomeWriters
  <2>2. request[d].overtaken
    BY <1>1, <2>1 DEF FreshInv, Fresh, Of
  <2>3. request'[d] # request[d]
    BY <1>1, <2>1, OvertakingFrame
  <2> QED
    BY <2>1, <2>2, <2>3
<1>2. TypeInv /\ FreshInv /\ [Next]_vars =>
        [\A c \in Calls :
           call[c].outcome # None /\ call'[c].outcome # call[c].outcome =>
             \E d \in Deliveries :
               request[d].pc = "commit" /\ request[d].overtaken
                 /\ request'[d] # request[d]]_vars
  BY <1>1
<1> QED
  BY <1>2, InitTypeInv, NextTypeInv, InitLocalInv, NextLocalInv, InitFreshInv,
     NextFreshInv, PTL DEF Spec, OnlyOvertakenReplaces

\* Nor does one event after the other move the status of a call back.
THEOREM StepsBackWhenOvertaken == Spec => OnlyOvertakenStepsBack
<1>1. ASSUME TypeInv, FreshInv, [Next]_vars, NEW c \in Calls,
             call[c].stored, StepsBack(call[c].status, call'[c].status)
      PROVE  \E d \in Deliveries :
               request[d].pc = "move" /\ request[d].overtaken
                 /\ request'[d] # request[d]
  <2>0. (\A s : Order(s) \in 1..4) /\ Order("FAILED") = 4
    BY DEF Order
  <2>1. call'[c].status # call[c].status
    BY <1>1, <2>0 DEF StepsBack
  <2>2. PICK d \in Deliveries :
          /\ c = Msg(d).call
          /\ \E pc \in Pc \ {"move"} : GotoOvertaking(d, pc, "move")
          /\ \/ /\ request[d].pc = "move"
                /\ StatusOf(Msg(d)) # "UNKNOWN"
                /\ call'[c].status = StatusOf(Msg(d))
             \/ call'[c].status = "FAILED"
    BY <1>1, <2>1, StatusWriters
  <2>3. call'[c].status # "FAILED"
    BY <1>1, <2>0 DEF StepsBack
  <2>4. request[d].overtaken
    BY <1>1, <2>0, <2>2, <2>3
       DEF FreshInv, Fresh, Of, Moves, StepsBack, Final
  <2>5. request'[d] # request[d]
    BY <1>1, <2>2, <2>3, OvertakingFrame
  <2> QED
    BY <2>2, <2>3, <2>4, <2>5
<1>2. TypeInv /\ FreshInv /\ [Next]_vars =>
        [\A c \in Calls :
           call[c].stored /\ StepsBack(call[c].status, call'[c].status) =>
             \E d \in Deliveries :
               request[d].pc = "move" /\ request[d].overtaken
                 /\ request'[d] # request[d]]_vars
  BY <1>1
<1> QED
  BY <1>2, InitTypeInv, NextTypeInv, InitLocalInv, NextLocalInv, InitFreshInv,
     NextFreshInv, PTL DEF Spec, OnlyOvertakenStepsBack

----------------------------------------------------------------------------
(* The intake implements Inbox.                                            *)

Stages == [i \in EventIds |-> Stage(i)]

\* An event whose row becomes s moves to the stage of s.
LEMMA BecomeOf ==
  ASSUME TypeInv, NEW i \in EventIds,
         NEW s \in {"PROCESSING", "PROCESSED", "FAILED"},
         event' = [event EXCEPT ![i] = s], UNCHANGED applied
  PROVE  /\ s = "PROCESSING" => TheInbox!Become(i, "busy")
         /\ s = "PROCESSED" => TheInbox!Become(i, "done")
         /\ s = "FAILED" => TheInbox!Become(i, "failed")
<1>0. event \in [EventIds -> {"ABSENT", "PROCESSING", "PROCESSED", "FAILED"}]
  BY DEF TypeInv, TypeOK
<1>1. event'[i] = s /\ \A j \in EventIds : j # i => event'[j] = event[j]
  BY <1>0
<1>2. \A j \in EventIds : j # i => Stage(j)' = Stage(j)
  BY <1>1 DEF Stage
<1>3. /\ s = "PROCESSING" => Stage(i)' = "busy"
      /\ s = "PROCESSED" => Stage(i)' = "done"
      /\ s = "FAILED" => Stage(i)' = "failed"
  BY <1>1 DEF Stage
<1>4. ASSUME NEW to, Stage(i)' = to PROVE TheInbox!Become(i, to)
  BY <1>2, <1>4 DEF TheInbox!Become
<1> QED
  BY <1>3, <1>4

LEMMA NextInbox ==
  TypeInv /\ HoldInv /\ AppliedInv /\ [Next]_vars =>
    TheInbox!Next \/ UNCHANGED <<Stages, applied>>
<1> SUFFICES ASSUME TypeInv, HoldInv, AppliedInv, [Next]_vars
             PROVE  TheInbox!Next \/ UNCHANGED <<Stages, applied>>
  OBVIOUS
<1>0. /\ event \in [EventIds -> {"ABSENT", "PROCESSING", "PROCESSED", "FAILED"}]
      /\ applied \in [EventIds -> Nat]
  BY DEF TypeInv, TypeOK
<1>1. ASSUME UNCHANGED event, UNCHANGED applied
      PROVE  UNCHANGED <<Stages, applied>>
  BY <1>1 DEF Stages, Stage
<1>2. ASSUME NEW d \in Deliveries, request[d].pc = "commit",
             applied' = [applied EXCEPT ![Id(d)] = @ + 1], UNCHANGED event
      PROVE  TheInbox!Next
  <2>1. /\ Holds(d)
        /\ Id(d) \in EventIds
    BY <1>2, IdTyped DEF Holds, Processing, TypeInv, Engaged, Id
  <2>2. event[Id(d)] = "PROCESSING" /\ applied[Id(d)] = 0
    BY <1>2, <2>1 DEF HoldInv, HeldIsProcessing, AppliedInv
  <2>3. applied' = [applied EXCEPT ![Id(d)] = 1]
    BY <1>0, <1>2, <2>1, <2>2
  <2>4. TheInbox!Affect(Id(d))
    BY <1>2, <2>1, <2>2, <2>3 DEF TheInbox!Affect, Stage
  <2> QED
    BY <2>1, <2>4 DEF TheInbox!Next
<1>3. ASSUME NEW d \in Deliveries, Enters(d), UNCHANGED applied
      PROVE  TheInbox!Next
  <2>1. Id(d) \in EventIds /\ Stage(Id(d)) \in {"new", "failed"}
    BY <1>3, IdTyped DEF Enters, Id, Stage
  <2>2. TheInbox!Become(Id(d), "busy")
    BY <1>3, <2>1, BecomeOf DEF Enters
  <2> QED
    BY <2>1, <2>2 DEF TheInbox!Next, TheInbox!TakeUp
<1>4. ASSUME NEW d \in Deliveries, Leaves(d), UNCHANGED applied
      PROVE  TheInbox!Next
  <2>1. Id(d) \in EventIds
    BY <1>4, IdTyped DEF Leaves, Holds, Processing, TypeInv, Engaged, Id
  <2>2. Stage(Id(d)) = "busy"
    BY <1>4 DEF Leaves, HoldInv, HeldIsProcessing, Stage
  <2>3. TheInbox!Become(Id(d), "done") \/ TheInbox!Become(Id(d), "failed")
    BY <1>4, <2>1, BecomeOf DEF Leaves
  <2> QED
    BY <2>1, <2>2, <2>3
       DEF TheInbox!Next, TheInbox!Conclude, TheInbox!Miscarry
<1>5. ASSUME NEW d \in Deliveries, Enters(d) \/ Leaves(d)
      PROVE  event' # event
  <2>1. Id(d) \in EventIds
    BY <1>5, IdTyped DEF Enters, Leaves, Holds, Processing, TypeInv, Engaged, Id
  <2>2. Leaves(d) => event[Id(d)] = "PROCESSING"
    BY DEF Leaves, HoldInv, HeldIsProcessing
  <2> QED
    BY <1>0, <1>5, <2>1, <2>2 DEF Enters, Leaves
<1> QED
  BY <1>1, <1>2, <1>3, <1>4, <1>5, NextKinds, AppliedWriters DEF Quiet

LEMMA InitInbox == Init => TheInbox!Init
  BY DEF Init, TheInbox!Init, Stage

\* For any calls, messages and number of deliveries and faults, an event is
\* taken up by one at a time, has its effect at most once and while it is
\* worked on, and stays done.
THEOREM ImplementsInbox == Spec => KeepsInbox
<1>1. TypeInv /\ HoldInv /\ AppliedInv /\ [Next]_vars =>
        [TheInbox!Next]_<<Stages, applied>>
  BY NextInbox
<1> QED
  BY <1>1, InitTypeInv, NextTypeInv, InitHoldInv, NextHoldInv, InitAppliedInv,
     NextAppliedInv, InitInbox, PTL
     DEF Spec, KeepsInbox, TheInbox!Spec, Stages
============================================================================
