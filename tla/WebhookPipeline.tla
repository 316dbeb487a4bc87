-------------------------- MODULE WebhookPipeline --------------------------
(***************************************************************************)
(* How an outcome travels from the PSP to the orchestrator: the HTTP       *)
(* handler internal/api/webhook.go stores the callback, answers 200 and    *)
(* publishes it to JetStream; one worker (internal/webhook/processor.go)   *)
(* takes messages one at a time and hands them to HandleWebhookEvent. When *)
(* publishing fails the HTTP handler does the work itself.                 *)
(*                                                                         *)
(* The orchestrator's actions are those of module Orchestrator; only the   *)
(* environment action Deliver is refined, into Take and PublishFails, which *)
(* start a handler on what a callback request carried.                     *)
(***************************************************************************)
EXTENDS Orchestrator

CONSTANTS
  Calls,         \* callback requests the PSP makes; a call that handles its
                 \* event itself is the handler of the same name
  worker,        \* the handler that serves the stream
  NatsReliable,  \* does every publication reach the stream?
  MaxFaults      \* bound on handler failures (errors and crashes)

ASSUME PipelineConstants ==
  /\ Handlers = Calls \cup {worker}
  /\ worker \notin Calls
  /\ None \notin Calls
  /\ NatsReliable \in BOOLEAN
  /\ MaxFaults \in Nat

VARIABLES
  call,    \* the callback requests: what they carry and how far they are
  events,  \* webhook_events: the dedup keys stored
  stream,  \* JetStream: the messages not yet acknowledged, and those that are
  cur,     \* the message the worker holds
  heard,   \* merchant endpoint: the events posted, with the intent's status then
  faults   \* handler failures so far

pipe == <<call, events, stream, cur, heard, faults>>
pvars == <<vars, pipe>>

CallSteps == {"idle", "record", "publish", "handle", "done"}

PipelineTypeOK ==
  /\ call \in [Calls -> [pc : CallSteps, req : Requests \cup {None},
                         evt : Verdicts \cup {"none"}, recorded : BOOLEAN]]
  /\ events \subseteq Requests \X Verdicts
  /\ stream \in [Calls -> {"none", "stored", "acked"}]
  /\ cur \in Calls \cup {None}
  /\ heard \in [Requests -> SUBSET (Verdicts \X PIStatuses)]
  /\ faults \in 0..MaxFaults

PipelineInit ==
  /\ Init
  /\ call = [c \in Calls |-> [pc |-> "idle", req |-> None, evt |-> "none",
                              recorded |-> FALSE]]
  /\ events = {}
  /\ stream = [c \in Calls |-> "none"]
  /\ cur = None
  /\ heard = [r \in Requests |-> {}]
  /\ faults = 0

-----------------------------------------------------------------------------
(* The HTTP handler                                                        *)

(* Variant: the outcome is taken from the request, not from the PSP.       *)
CallbackUnverified(c, r, v) ==
  /\ call[c].pc = "idle"
  /\ r \in asked
  /\ call' = [call EXCEPT ![c].pc = "record", ![c].req = r, ![c].evt = v]
  /\ UNCHANGED <<vars, events, stream, cur, heard, faults>>

(* The PSP posts an outcome; it may post the same one again. An event that *)
(* no handler understands is answered, stored and published like any other; *)
(* a body that cannot be parsed is answered with 200 as well, and dropped. *)
Callback(c, r, v) ==
  /\ call[c].pc = "idle"
  /\ v \in verdicts[r]
  /\ \E step \in {"record", "done"} :
       call' = [call EXCEPT ![c].pc = step, ![c].req = r, ![c].evt = v]
  /\ UNCHANGED <<vars, events, stream, cur, heard, faults>>

(* Variant: a dedup key without the kind of event.                         *)
RecordByReference(c) ==
  /\ call[c].pc = "record"
  /\ events' = events \cup {call[c].req}
  /\ call' = [call EXCEPT ![c].pc = "publish", ![c].recorded = call[c].req \notin events]
  /\ UNCHANGED <<vars, stream, cur, heard, faults>>

(* whRepo.Create: the row is refused when its dedup key is there already,  *)
(* or fails for another reason; that is logged and no different, and the   *)
(* answer is 200 either way.                                               *)
Record(c) ==
  /\ call[c].pc = "record"
  /\ LET key == <<call[c].req, call[c].evt>>
     IN  \E stored \in {FALSE, key \notin events} :
           /\ events' = IF stored THEN events \cup {key} ELSE events
           /\ call' = [call EXCEPT ![c].pc = "publish", ![c].recorded = stored]
  /\ UNCHANGED <<vars, stream, cur, heard, faults>>

Publish(c) ==
  /\ call[c].pc = "publish"
  /\ stream' = [stream EXCEPT ![c] = "stored"]
  /\ call' = [call EXCEPT ![c].pc = "done"]
  /\ UNCHANGED <<vars, events, cur, heard, faults>>

(* The publication fails, or only its confirmation is lost: the call goes  *)
(* on to handle the event itself.                                          *)
PublishFails(c) ==
  /\ call[c].pc = "publish"
  /\ ~NatsReliable
  /\ \/ stream' = [stream EXCEPT ![c] = "stored"]
     \/ UNCHANGED stream
  /\ call' = [call EXCEPT ![c].pc = "handle"]
  /\ Start(c, call[c].req, call[c].evt)
  /\ UNCHANGED <<events, cur, heard, faults>>

(* The API process dies; what it had not published is gone.                *)
CallDies(c) ==
  /\ call[c].pc \in {"record", "publish"}
  /\ call' = [call EXCEPT ![c].pc = "done"]
  /\ UNCHANGED <<vars, events, stream, cur, heard, faults>>

(* dispatcher.Dispatch: the merchant's endpoint gets the event as it came. *)
Dispatch(r, v) == heard' = [heard EXCEPT ![r] = @ \cup {<<v, pi[r]>>}]

(* The call's handler returns. A handled event is dispatched, unless its   *)
(* merchant cannot be looked up or the delivery row would refer to an event *)
(* row that was refused. An event whose handling failed is only logged.    *)
Conclude(c) ==
  /\ call[c].pc = "handle"
  /\ \/ pc[c] = "ack" /\ call[c].recorded /\ Dispatch(call[c].req, call[c].evt)
     \/ UNCHANGED heard
  /\ Finish(c)
  /\ call' = [call EXCEPT ![c].pc = "done"]
  /\ UNCHANGED <<events, stream, cur, faults>>

-----------------------------------------------------------------------------
(* The worker                                                              *)

(* NextMsg: any message not acknowledged, for the server redelivers what   *)
(* was refused or not answered in time behind newer messages.              *)
Take(c) ==
  /\ stream[c] = "stored"
  /\ Start(worker, call[c].req, call[c].evt)
  /\ cur' = c
  /\ UNCHANGED <<call, events, stream, heard, faults>>

(* Variant: the message is acknowledged whatever became of it.             *)
ReleaseAlwaysAcks ==
  /\ cur # None
  /\ Finish(worker)
  /\ Dispatch(call[cur].req, call[cur].evt)
  /\ stream' = [stream EXCEPT ![cur] = "acked"]
  /\ cur' = None
  /\ UNCHANGED <<call, events, faults>>

(* Variant: a handled message is not acknowledged.                         *)
ReleaseNeverAcks ==
  /\ cur # None
  /\ Finish(worker)
  /\ IF pc[worker] = "ack" THEN Dispatch(call[cur].req, call[cur].evt) ELSE UNCHANGED heard
  /\ cur' = None
  /\ UNCHANGED <<call, events, stream, faults>>

(* HandleWebhookEvent returned: after an error the message is refused and  *)
(* stays in the stream; otherwise the event is dispatched, unless looking  *)
(* up its merchant fails, and the message acknowledged. If the worker dies *)
(* in between it is not.                                                   *)
Release ==
  /\ cur # None
  /\ Finish(worker)
  /\ IF pc[worker] = "ack"
       THEN /\ Dispatch(call[cur].req, call[cur].evt) \/ UNCHANGED heard
            /\ \/ UNCHANGED faults /\ stream' = [stream EXCEPT ![cur] = "acked"]
               \/ faults < MaxFaults /\ faults' = faults + 1 /\ UNCHANGED stream
       ELSE UNCHANGED <<heard, stream, faults>>
  /\ cur' = None
  /\ UNCHANGED <<call, events>>

HandlerFaults(h) ==
  /\ faults < MaxFaults
  /\ HandlerFails(h)
  /\ faults' = faults + 1
  /\ UNCHANGED <<call, events, stream, cur, heard>>

-----------------------------------------------------------------------------
Orchestrate ==
  /\ \/ \E r \in Requests : Create(r) \/ CreateFails(r) \/ Query(r) \/ QueryFails(r)
     \/ \E r \in Requests, v \in Verdicts : Announce(r, v)
     \/ \E k \in Keys : ForgetKey(k)
  /\ UNCHANGED pipe

Work(h) == Handle(h) /\ UNCHANGED pipe

PipelineNext ==
  \/ Orchestrate
  \/ \E h \in Handlers : Work(h) \/ HandlerFaults(h)
  \/ \E c \in Calls, r \in Requests, v \in Verdicts : Callback(c, r, v)
  \/ \E c \in Calls : Record(c) \/ Publish(c) \/ PublishFails(c) \/ CallDies(c)
                        \/ Conclude(c) \/ Take(c)
  \/ Release

PipelineSpec == PipelineInit /\ [][PipelineNext]_pvars

(* The worker's loop keeps running and returns from every call, and the    *)
(* server keeps redelivering each message that was not acknowledged. The   *)
(* HTTP server's own goroutines may die, so nothing is assumed of them.    *)
Fairness ==
  /\ WF_pvars(Work(worker))
  /\ WF_pvars(Release)
  /\ \A c \in Calls : SF_pvars(Take(c))

FairPipeline == PipelineSpec /\ Fairness

-----------------------------------------------------------------------------
(* Properties                                                              *)

(* The pipeline only ever uses the orchestrator as module Orchestrator     *)
(* describes it, so whatever holds of every behaviour there holds here.    *)
UsesOrchestrator == Spec

(* An acknowledged message is dealt with: its payment has been settled,    *)
(* or its creation broke off and left nothing to settle. A crash between   *)
(* any two steps of the worker does not lose the event.                    *)
AckedIsSettled ==
  \A c \in Calls : stream[c] = "acked" =>
    \/ pi[call[c].req] \in Verdicts
    \/ cpc[call[c].req] = "error"

(* An acknowledged success is in the ledger, every line of it.             *)
AckedIsBooked ==
  \A c \in Calls : stream[c] = "acked" /\ pi[call[c].req] = "succeeded" =>
    \A l \in Lines : rows[call[c].req][l] > 0

(* As long as no handler failed, that holds of the program.                *)
AckedIsBookedUnlessFaulty == faults = 0 => AckedIsBooked

(* A success in the stream whose payment waits for it ends with the payment *)
(* succeeded, although handlers fail on the way.                           *)
ConfirmedIsSettled ==
  \A r \in Requests :
    (/\ pi[r] = "requires_action"
     /\ \E c \in Calls : stream[c] = "stored" /\ call[c].req = r
                                             /\ call[c].evt = "succeeded")
      ~> pi[r] = "succeeded"

(* A message that the connector understood and whose attempt is in the     *)
(* database does not circulate for ever, although one that can never be    *)
(* handled, like that of a failed card payment, circulates beside it.      *)
Known(c) ==
  /\ stream[c] = "stored"
  /\ att[call[c].req] # "none"
  /\ ParseWebhook(call[c].req, call[c].evt) # "unknown"

KnownIsAcked == \A c \in Calls : Known(c) ~> stream[c] = "acked"

(* What the documentation says of Paystack's charge.failed: the payment    *)
(* becomes failed. The connector does not know that event.                 *)
FailureIsApplied ==
  \A c \in Calls, r \in Requests :
    (stream[c] = "stored" /\ call[c].req = r /\ call[c].evt = "failed" /\ att[r] # "none")
      ~> pi[r] \in Verdicts

(* The merchant's endpoint is told only of outcomes that were applied.     *)
OnlyAppliedIsDispatched ==
  \A r \in Requests : \A e \in heard[r] : e[1] = e[2]

=============================================================================
