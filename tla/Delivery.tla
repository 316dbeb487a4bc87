------------------------------- MODULE Delivery -------------------------------
(***************************************************************************)
(* What becomes of an event once it was handled: the outbound dispatcher,  *)
(* internal/webhook/dispatcher.go, posts it to each of the merchant's      *)
(* active endpoints and keeps a row of webhook_deliveries per try. A user  *)
(* of the portal may have a failed delivery tried again; nothing else does. *)
(*                                                                         *)
(* The agents are the worker and the goroutines of the API: any of them    *)
(* may dispatch (the worker takes an event again after a crash, the API    *)
(* handles one itself when it cannot publish) or serve a retry. The event  *)
(* of a row stands for its request_body, which a retry copies: the worker  *)
(* leaves webhook_event_id empty, which changes nothing else.              *)
(***************************************************************************)
EXTENDS Naturals, Sequences

CONSTANTS
  Agents,       \* the worker and the API's requests
  Events,       \* webhook_events
  Endpoints,    \* webhook_endpoints of the merchant ...
  Active,       \* ... and those with status "active"
  MaxAttempts,  \* maxRetries: what each row carries as max_attempts
  MaxRows,      \* bound on the rows
  MaxFaults,    \* bound on failed statements and crashes
  None

ASSUME DeliveryConstants ==
  /\ Active \subseteq Endpoints
  /\ MaxAttempts \in Nat
  /\ MaxRows \in Nat
  /\ MaxFaults \in Nat
  /\ None \notin Events

VARIABLES
  rows,        \* webhook_deliveries, in the order of insertion
  received,    \* the rows whose request an endpoint answered with 2xx
  pc,          \* where each agent is
  job,         \* what it works on
  dispatched,  \* the events of which some Dispatch has returned
  faults       \* faults so far

dvars == <<rows, received, pc, job, dispatched, faults>>

Ids == 1..MaxRows

DeliveryRow == [evt : Events, ep : Endpoints, attempt : Nat \ {0},
                status : {"pending", "delivered", "failed"}]

Job == [evt : Events \cup {None},  \* the event ...
        todo : SUBSET Endpoints,   \* ... the endpoints still to be posted to ...
        attempt : Nat,             \* ... the number of this try
        row : Ids \cup {0},        \* the row at hand
        outcome : {"none", "delivered", "failed"}]

NoJob == [evt |-> None, todo |-> {}, attempt |-> 0, row |-> 0, outcome |-> "none"]

DeliveryTypeOK ==
  /\ rows \in Seq(DeliveryRow) /\ Len(rows) <= MaxRows
  /\ received \subseteq DOMAIN rows
  /\ pc \in [Agents -> {"idle", "check", "next", "send", "mark"}]
  /\ job \in [Agents -> Job]
  /\ dispatched \subseteq Events
  /\ faults \in 0..MaxFaults

DeliveryInit ==
  /\ rows = <<>>
  /\ received = {}
  /\ pc = [a \in Agents |-> "idle"]
  /\ job = [a \in Agents |-> NoJob]
  /\ dispatched = {}
  /\ faults = 0

-----------------------------------------------------------------------------
Fault ==
  /\ faults < MaxFaults
  /\ faults' = faults + 1

Goto(a, step) == pc' = [pc EXCEPT ![a] = step]

(* Variant: tries are counted from zero.                                   *)
DispatchFromZero(a, e) ==
  /\ pc[a] = "idle"
  /\ Goto(a, "next")
  /\ job' = [job EXCEPT ![a] = [NoJob EXCEPT !.evt = e, !.todo = Active]]
  /\ UNCHANGED <<rows, received, dispatched, faults>>

(* Dispatch lists the merchant's endpoints.                                *)
Dispatch(a, e) ==
  /\ pc[a] = "idle"
  /\ Goto(a, "next")
  /\ job' = [job EXCEPT ![a] = [NoJob EXCEPT !.evt = e, !.todo = Active, !.attempt = 1]]
  /\ UNCHANGED <<rows, received, dispatched, faults>>

(* Variant: only what was delivered is exempt from retries.                *)
MayRetryUnfinished(i) == rows[i].status # "delivered"

MayRetry(i) == rows[i].status = "failed"

(* The portal reads the delivery ...                                       *)
AskRetry(a, i) ==
  /\ pc[a] = "idle"
  /\ i \in DOMAIN rows
  /\ MayRetry(i)
  /\ Goto(a, "check")
  /\ job' = [job EXCEPT ![a].row = i]
  /\ UNCHANGED <<rows, received, dispatched, faults>>

(* Variant: the failed row itself is used again.                           *)
RetryInPlace(a) ==
  /\ pc[a] = "check"
  /\ rows' = [rows EXCEPT ![job[a].row].status = "pending", ![job[a].row].attempt = @ + 1]
  /\ job' = [job EXCEPT ![a].attempt = rows[job[a].row].attempt + 1]
  /\ Goto(a, "send")
  /\ UNCHANGED <<received, dispatched, faults>>

(* ... and Retry reads it again, to try its endpoint once more.            *)
Retry(a) ==
  /\ pc[a] = "check"
  /\ LET d == rows[job[a].row]
     IN  IF MayRetry(job[a].row)
           THEN /\ job' = [job EXCEPT ![a] = [NoJob EXCEPT !.evt = d.evt, !.todo = {d.ep},
                                                           !.attempt = d.attempt + 1]]
                /\ Goto(a, "next")
           ELSE /\ job' = [job EXCEPT ![a] = NoJob]
                /\ Goto(a, "idle")
  /\ UNCHANGED <<rows, received, dispatched, faults>>

(* deliver: a row for this try ...                                         *)
Insert(a, ep) ==
  /\ pc[a] = "next"
  /\ ep \in job[a].todo
  /\ Len(rows) < MaxRows
  /\ rows' = Append(rows, [evt |-> job[a].evt, ep |-> ep, attempt |-> job[a].attempt,
                           status |-> "pending"])
  /\ job' = [job EXCEPT ![a].todo = @ \ {ep}, ![a].row = Len(rows) + 1]
  /\ Goto(a, "send")
  /\ UNCHANGED <<received, dispatched, faults>>

(* ... without which this endpoint is passed over.                         *)
InsertFails(a, ep) ==
  /\ pc[a] = "next"
  /\ ep \in job[a].todo
  /\ Fault
  /\ job' = [job EXCEPT ![a].todo = @ \ {ep}]
  /\ UNCHANGED <<rows, received, pc, dispatched>>

Conclude(a, outcome) ==
  /\ job' = [job EXCEPT ![a].outcome = outcome]
  /\ Goto(a, "mark")

(* sendAndRecord: the endpoint answers with 2xx ...                        *)
Accepted(a) ==
  /\ pc[a] = "send"
  /\ received' = received \cup {job[a].row}
  /\ Conclude(a, "delivered")
  /\ UNCHANGED <<rows, dispatched, faults>>

(* ... or does, and the answer does not arrive within ten seconds ...      *)
AnswerLost(a) ==
  /\ pc[a] = "send"
  /\ received' = received \cup {job[a].row}
  /\ Conclude(a, "failed")
  /\ UNCHANGED <<rows, dispatched, faults>>

(* Variant: any answer will do.                                            *)
RefusedUnchecked(a) ==
  /\ pc[a] = "send"
  /\ Conclude(a, "delivered")
  /\ UNCHANGED <<rows, received, dispatched, faults>>

(* ... or does not, or cannot be reached.                                  *)
Refused(a) ==
  /\ pc[a] = "send"
  /\ Conclude(a, "failed")
  /\ UNCHANGED <<rows, received, dispatched, faults>>

(* Variant: the first endpoint that fails ends the dispatch.               *)
MarkOrStop(a) ==
  /\ pc[a] = "mark"
  /\ rows' = [rows EXCEPT ![job[a].row].status = job[a].outcome]
  /\ job' = [job EXCEPT ![a].row = 0, ![a].outcome = "none",
                        ![a].todo = IF job[a].outcome = "failed" THEN {} ELSE @]
  /\ Goto(a, "next")
  /\ UNCHANGED <<received, dispatched, faults>>

(* Variant: only success is recorded.                                      *)
MarkSuccess(a) ==
  /\ pc[a] = "mark"
  /\ rows' = IF job[a].outcome = "delivered"
               THEN [rows EXCEPT ![job[a].row].status = "delivered"]
               ELSE rows
  /\ job' = [job EXCEPT ![a].row = 0, ![a].outcome = "none"]
  /\ Goto(a, "next")
  /\ UNCHANGED <<received, dispatched, faults>>

(* UpdateStatus, without a condition.                                      *)
Mark(a) ==
  /\ pc[a] = "mark"
  /\ rows' = [rows EXCEPT ![job[a].row].status = job[a].outcome]
  /\ job' = [job EXCEPT ![a].row = 0, ![a].outcome = "none"]
  /\ Goto(a, "next")
  /\ UNCHANGED <<received, dispatched, faults>>

(* It fails, as it must once the user who asked for the retry has gone and *)
(* the request's context with him: this is logged.                         *)
MarkFails(a) ==
  /\ pc[a] = "mark"
  /\ Fault
  /\ job' = [job EXCEPT ![a].row = 0, ![a].outcome = "none"]
  /\ Goto(a, "next")
  /\ UNCHANGED <<rows, received, dispatched>>

(* No endpoint is left.                                                    *)
End(a) ==
  /\ pc[a] = "next"
  /\ job[a].todo = {}
  /\ dispatched' = IF job[a].attempt = 1 THEN dispatched \cup {job[a].evt} ELSE dispatched
  /\ job' = [job EXCEPT ![a] = NoJob]
  /\ Goto(a, "idle")
  /\ UNCHANGED <<rows, received, faults>>

(* The process dies, or the endpoints or the delivery cannot be read.      *)
Dies(a) ==
  /\ pc[a] # "idle"
  /\ Fault
  /\ job' = [job EXCEPT ![a] = NoJob]
  /\ Goto(a, "idle")
  /\ UNCHANGED <<rows, received, dispatched>>

-----------------------------------------------------------------------------
Post(a) ==
  \/ Retry(a)
  \/ \E ep \in Endpoints : Insert(a, ep)
  \/ Accepted(a) \/ AnswerLost(a) \/ Refused(a)
  \/ Mark(a)
  \/ End(a)

Break(a) ==
  \/ \E ep \in Endpoints : InsertFails(a, ep)
  \/ MarkFails(a)
  \/ Dies(a)

DeliveryNext ==
  \E a \in Agents :
    \/ \E e \in Events : Dispatch(a, e)
    \/ \E i \in Ids : AskRetry(a, i)
    \/ Post(a)
    \/ Break(a)

DeliverySpec == DeliveryInit /\ [][DeliveryNext]_dvars

(* A goroutine that posts goes on unless it dies.                          *)
FairDelivery == DeliverySpec /\ \A a \in Agents : WF_dvars(Post(a))

-----------------------------------------------------------------------------
(* Properties                                                              *)

(* A delivery that is recorded as delivered or failed stays so, although   *)
(* UpdateStatus has no condition and retries of it overlap.                *)
OutcomeIsFinal ==
  [][\A i \in DOMAIN rows : rows[i].status # "pending" => rows'[i] = rows[i]]_dvars

(* A delivery is recorded as delivered only if its endpoint accepted it.   *)
DeliveredWasReceived ==
  \A i \in DOMAIN rows : rows[i].status = "delivered" => i \in received

Precedes(j, i) ==
  /\ rows[j].evt = rows[i].evt
  /\ rows[j].ep = rows[i].ep
  /\ rows[j].attempt + 1 = rows[i].attempt
  /\ rows[j].status = "failed"

(* The tries of an event on an endpoint form chains: behind each try but a *)
(* first there is an earlier one, a number lower, that has failed.         *)
TriesAreChained ==
  \A i \in DOMAIN rows : rows[i].attempt > 1 => \E j \in 1..(i - 1) : Precedes(j, i)

Sends(a, i) == pc[a] \in {"send", "mark"} /\ job[a].row = i

(* A row has at most one sender, and as long as nothing has failed a       *)
(* pending one has a sender: what is neither delivered nor failed is still *)
(* being tried.                                                            *)
PendingIsBeingSent ==
  /\ \A a, b \in Agents, i \in DOMAIN rows : Sends(a, i) /\ Sends(b, i) => a = b
  /\ faults = 0 =>
       \A i \in DOMAIN rows : rows[i].status = "pending" => \E a \in Agents : Sends(a, i)

(* As long as nothing has failed, a dispatch that returns has tried every  *)
(* active endpoint and has recorded how that went, even if some of the     *)
(* endpoints refused or did not answer.                                    *)
EveryEndpointTried ==
  faults = 0 =>
    \A e \in dispatched, ep \in Active :
      \E i \in DOMAIN rows :
        /\ rows[i].evt = e /\ rows[i].ep = ep
        /\ rows[i].attempt = 1 /\ rows[i].status # "pending"

(* Whatever the agents do at the same time and wherever they break off,    *)
(* the rows are the log of deliveries that a merchant may rely on: each is *)
(* inserted pending, chained to a failed one or first on an active         *)
(* endpoint, concluded once as what it was, and never touched again.       *)
Log == INSTANCE DeliveryLog WITH log <- rows
ImplementsLog == Log!Spec

(* What the documentation promises: a delivery that failed is tried again  *)
(* until the maximum is reached (or the model's bound is). The code stores *)
(* when that should happen, and has nothing that does it.                  *)
FailedIsRetried ==
  \A i \in Ids :
    (i \in DOMAIN rows /\ rows[i].status = "failed" /\ rows[i].attempt < MaxAttempts)
      ~> (\/ Len(rows) = MaxRows
          \/ i \in DOMAIN rows /\ \E j \in DOMAIN rows : Precedes(i, j))

=============================================================================
