-------------------------- MODULE MCVoiceWebhooks --------------------------
(***************************************************************************)
(* VoiceWebhooks for TLC: one call, and the messages that tell the paths   *)
(* of the code apart.                                                      *)
(***************************************************************************)
EXTENDS VoiceWebhooks

CONSTANTS c1, e1, e2

Sarvam(status, transcript, owned) ==
  [route |-> "sarvam", call |-> c1, eventId |-> None, status |-> status,
   transcript |-> transcript, failure |-> FALSE, owned |-> owned]

Voice(eventId, status, transcript, failure) ==
  [route |-> "voice", call |-> c1, eventId |-> eventId, status |-> status,
   transcript |-> transcript, failure |-> failure, owned |-> TRUE]

TheCalls == {c1}

\* The end of a call with its transcript, for this call's case or another,
\* under the id made of call and status; a blank transcript with a status
\* nobody knows; and a failure that still reports progress.
TheMessages ==
  {Sarvam("COMPLETED", "speech", TRUE),
   Sarvam("COMPLETED", "speech", FALSE),
   Voice(e1, "UNKNOWN", "blank", FALSE),
   Voice(e2, "IN_PROGRESS", "speech", TRUE)}

\* Two transcripts of one call, under two event ids.
TwoTranscripts ==
  {Sarvam("COMPLETED", "speech", TRUE), Voice(e1, None, "blank", FALSE)}
============================================================================
