---------------------------- MODULE Orchestrator ----------------------------
(***************************************************************************)
(* The payment orchestrator of internal/orchestrator: CreatePaymentIntent, *)
(* HandleWebhookEvent and the delayed status query, running concurrently   *)
(* over one database, one Redis and one PSP.                               *)
(*                                                                         *)
(* No lock and no transaction spans two statements of this code, so every  *)
(* SQL statement, Redis command and PSP call is one step of the model; the *)
(* local variables a call carries from one statement to the next (the      *)
(* status it read, the event it handles, the ledger line it is at) are     *)
(* part of the state.                                                      *)
(***************************************************************************)
EXTENDS Naturals, FiniteSets, PaymentStates

CONSTANTS
  Requests,       \* calls of CreatePaymentIntent; r also names the payment
                  \* intent, the attempt and the delayed query r creates
  Handlers,       \* executions of HandleWebhookEvent that can overlap
  Keys,           \* client idempotency keys (of one merchant)
  KeyOf,          \* the key a request carries, or None
  MpesaRequests,  \* the requests that are routed to "mpesa"
  Retriable,      \* the card requests whose payer may try again after a failure
  EarlyVerdicts,  \* may the PSP decide before CreatePaymentIntent returns?
  NumLines,       \* ledger entries of one collection: 4, or 2 without a fee
  None

ASSUME OrchestratorConstants ==
  /\ Handlers \cap Requests = {}
  /\ None \notin Requests \cup Keys
  /\ KeyOf \in [Requests -> Keys \cup {None}]
  /\ MpesaRequests \subseteq Requests
  /\ Retriable \subseteq Requests \ MpesaRequests
  /\ EarlyVerdicts \in BOOLEAN
  /\ NumLines \in {2, 4}

VARIABLES
  pi,        \* payment_intents.status, "none" before the row exists
  att,       \* attempts.status, "none" before the row exists
  rows,      \* ledger_entries: how often each line of a collection exists
  idem,      \* Redis: the payment intent stored under a key
  asked,     \* PSP: the collections it was asked for
  verdicts,  \* PSP: the outcomes it has announced for a collection
  told,      \* NATS: the outcomes published as notifications
  cpc,       \* where each CreatePaymentIntent call is
  reply,     \* the payment intent a call returned to its client
  pc,        \* where each handler and each delayed query is
  job        \* their local variables

db == <<pi, att, rows>>
psp == <<asked, verdicts>>
create == <<cpc, reply>>
run == <<pc, job>>
vars == <<pi, att, rows, idem, asked, verdicts, told, cpc, reply, pc, job>>

Lines == 1..NumLines
Agents == Handlers \cup Requests

AttemptStatuses == {"requires_action", "succeeded", "failed"}

CreateSteps == {"start", "insert", "store", "collect", "fail", "save", "status"}
CreateEnds == {"returned", "error", "conflict"}

HandlerSteps == {"lookup", "read", "attempt", "status", "post", "publish"}
QuerySteps == {"armed", "ask", "attempt", "status", "post", "publish"}

Jobs == [req : Requests \cup {None}, evt : Verdicts \cup {"none"},
         seen : PIStatuses \cup {"none"}, line : Lines]
NoJob == [req |-> None, evt |-> "none", seen |-> "none", line |-> 1]

TypeOK ==
  /\ pi \in [Requests -> PIStatuses \cup {"none"}]
  /\ att \in [Requests -> AttemptStatuses \cup {"none"}]
  /\ rows \in [Requests -> [Lines -> Nat]]
  /\ idem \in [Keys -> Requests \cup {None}]
  /\ asked \subseteq Requests
  /\ verdicts \in [Requests -> SUBSET Verdicts]
  /\ told \in [Requests -> SUBSET Verdicts]
  /\ cpc \in [Requests -> CreateSteps \cup CreateEnds]
  /\ reply \in [Requests -> Requests \cup {None}]
  /\ pc \in [Agents -> HandlerSteps \cup QuerySteps \cup {"idle", "ack", "nak"}]
  /\ job \in [Agents -> Jobs]

Init ==
  /\ pi = [r \in Requests |-> "none"]
  /\ att = [r \in Requests |-> "none"]
  /\ rows = [r \in Requests |-> [l \in Lines |-> 0]]
  /\ idem = [k \in Keys |-> None]
  /\ asked = {}
  /\ verdicts = [r \in Requests |-> {}]
  /\ told = [r \in Requests |-> {}]
  /\ cpc = [r \in Requests |-> "start"]
  /\ reply = [r \in Requests |-> None]
  /\ pc = [a \in Agents |-> "idle"]
  /\ job = [a \in Agents |-> NoJob]

-----------------------------------------------------------------------------
(* CreatePaymentIntent                                                     *)

GoTo(r, step) == cpc' = [cpc EXCEPT ![r] = step]

Return(r, id) ==
  /\ GoTo(r, "returned")
  /\ reply' = [reply EXCEPT ![r] = id]

StoredIntent(r) == IF KeyOf[r] = None THEN None ELSE idem[KeyOf[r]]

(* The key is known: the stored payment intent is read and returned.       *)
Replay(r) ==
  /\ cpc[r] = "start"
  /\ StoredIntent(r) # None
  /\ Return(r, StoredIntent(r))
  /\ UNCHANGED <<db, idem, psp, told, run>>

(* The key is new (or there is none): risk, routing and the choice of a    *)
(* connector follow, none of which touches the state kept here.            *)
Admit(r) ==
  /\ cpc[r] = "start"
  /\ StoredIntent(r) = None
  /\ GoTo(r, "insert")
  /\ UNCHANGED <<db, idem, psp, told, reply, run>>

(* Variant: no unique index, the key is only looked for in Redis.          *)
KeyTakenInRedis(r) == StoredIntent(r) # None

(* The unique index on (merchant_id, idempotency_key): a call without a    *)
(* key gets a fresh one, which never collides.                             *)
KeyTaken(r) ==
  /\ KeyOf[r] # None
  /\ \E q \in Requests : KeyOf[q] = KeyOf[r] /\ pi[q] # "none"

InsertIntent(r) ==
  /\ cpc[r] = "insert"
  /\ ~KeyTaken(r)
  /\ pi' = [pi EXCEPT ![r] = "created"]
  /\ GoTo(r, IF KeyOf[r] = None THEN "collect" ELSE "store")
  /\ UNCHANGED <<att, rows, idem, psp, told, reply, run>>

InsertConflicts(r) ==
  /\ cpc[r] = "insert"
  /\ KeyTaken(r)
  /\ GoTo(r, "conflict")
  /\ UNCHANGED <<db, idem, psp, told, reply, run>>

(* idempotency.Store; a Redis failure is logged and the call goes on.      *)
StoreKey(r) ==
  /\ cpc[r] = "store"
  /\ \/ idem' = [idem EXCEPT ![KeyOf[r]] = r]
     \/ UNCHANGED idem
  /\ GoTo(r, "collect")
  /\ UNCHANGED <<db, psp, told, reply, run>>

CollectionAccepted(r) ==
  /\ cpc[r] = "collect"
  /\ asked' = asked \cup {r}
  /\ GoTo(r, "save")
  /\ UNCHANGED <<db, idem, verdicts, told, reply, run>>

(* InitiateCollection returns an error. The PSP may still have taken the   *)
(* request: the answer can be what was lost.                               *)
CollectionRefused(r) ==
  /\ cpc[r] = "collect"
  /\ \/ asked' = asked \cup {r}
     \/ UNCHANGED asked
  /\ GoTo(r, "fail")
  /\ UNCHANGED <<db, idem, verdicts, told, reply, run>>

MarkFailed(r) ==
  /\ cpc[r] = "fail"
  /\ pi' = [pi EXCEPT ![r] = "failed"]
  /\ Return(r, r)
  /\ UNCHANGED <<att, rows, idem, psp, told, run>>

(* Variant: a connector's own word for the status is stored as it came.    *)
InitialStatusUnmapped == "pending"

(* Both connectors answer "requires_action", which the attempt and the     *)
(* intent then take over.                                                  *)
InitialStatus == "requires_action"

(* attRepo.Create: from here on a webhook finds the payment.               *)
SaveAttempt(r) ==
  /\ cpc[r] = "save"
  /\ att' = [att EXCEPT ![r] = InitialStatus]
  /\ GoTo(r, "status")
  /\ UNCHANGED <<pi, rows, idem, psp, told, reply, run>>

(* The last write is unconditional; for M-Pesa the status query is then    *)
(* scheduled.                                                              *)
MarkWaiting(r) ==
  /\ cpc[r] = "status"
  /\ pi' = [pi EXCEPT ![r] = InitialStatus]
  /\ Return(r, r)
  /\ IF r \in MpesaRequests
       THEN /\ pc' = [pc EXCEPT ![r] = "armed"]
            /\ job' = [job EXCEPT ![r] = [NoJob EXCEPT !.req = r]]
       ELSE UNCHANGED run
  /\ UNCHANGED <<att, rows, idem, psp, told>>

(* Any statement returns an error, risk or routing refuses, or the process *)
(* dies.                                                                   *)
CreateFails(r) ==
  /\ cpc[r] \in CreateSteps
  /\ GoTo(r, "error")
  /\ UNCHANGED <<db, idem, psp, told, reply, run>>

Create(r) ==
  \/ Replay(r) \/ Admit(r)
  \/ InsertIntent(r) \/ InsertConflicts(r) \/ StoreKey(r)
  \/ CollectionAccepted(r) \/ CollectionRefused(r) \/ MarkFailed(r)
  \/ SaveAttempt(r) \/ MarkWaiting(r)

-----------------------------------------------------------------------------
(* The PSP and Redis as their callers see them                             *)

(* The PSP settles a collection it was asked for. It answers once, except  *)
(* that a card may succeed with the same reference after a failed try.     *)
Announce(r, v) ==
  /\ r \in asked
  /\ EarlyVerdicts \/ cpc[r] \in CreateEnds
  /\ \/ verdicts[r] = {}
     \/ r \in Retriable /\ verdicts[r] = {"failed"} /\ v = "succeeded"
  /\ verdicts' = [verdicts EXCEPT ![r] = @ \cup {v}]
  /\ UNCHANGED <<db, idem, asked, told, create, run>>

(* The time to live of a stored key runs out, or Redis evicts it.          *)
ForgetKey(k) ==
  /\ idem[k] # None
  /\ idem' = [idem EXCEPT ![k] = None]
  /\ UNCHANGED <<db, psp, told, create, run>>

-----------------------------------------------------------------------------
(* HandleWebhookEvent                                                      *)

Step(a, step) == pc' = [pc EXCEPT ![a] = step]

(* HandleWebhookEvent is called with an outcome of a payment.              *)
Start(h, r, v) ==
  /\ pc[h] = "idle"
  /\ Step(h, "lookup")
  /\ job' = [job EXCEPT ![h] = [NoJob EXCEPT !.req = r, !.evt = v]]
  /\ UNCHANGED <<db, idem, psp, told, create>>

(* A handler starts on an announced outcome. The same outcome may reach    *)
(* any number of handlers, at any time and in any order: PSPs repeat their *)
(* callbacks and the stream redelivers.                                    *)
Deliver(h, r, v) ==
  /\ v \in verdicts[r]
  /\ Start(h, r, v)

(* What the connectors make of a callback. To M-Pesa's, every result code  *)
(* but success is a failure; Paystack's knows no event of a charge but its *)
(* success, and gives any other neither a status nor a reference.          *)
MpesaStatus(v) == IF v = "succeeded" THEN "succeeded" ELSE "failed"
PaystackStatus(v) == IF v = "succeeded" THEN "succeeded" ELSE "unknown"

ParseWebhook(r, v) == IF r \in MpesaRequests THEN MpesaStatus(v) ELSE PaystackStatus(v)

(* Without a reference there is no attempt to be found.                    *)
LookupAttempt(h) ==
  /\ pc[h] = "lookup"
  /\ IF att[job[h].req] = "none" \/ ParseWebhook(job[h].req, job[h].evt) = "unknown"
       THEN Step(h, "nak")
       ELSE Step(h, "read")
  /\ UNCHANGED <<db, idem, psp, told, create, job>>

(* Variant: the handler does not consult the state machine.                *)
ReadIntentUnguarded(h) ==
  /\ pc[h] = "read"
  /\ job' = [job EXCEPT ![h].seen = pi[job[h].req]]
  /\ Step(h, "attempt")
  /\ UNCHANGED <<db, idem, psp, told, create>>

(* The transition is judged on the status read here. The transaction id    *)
(* and the callback payload, written next, are not looked at again. An     *)
(* invalid transition is logged and the event counts as handled.           *)
ReadIntent(h) ==
  /\ pc[h] = "read"
  /\ LET s == pi[job[h].req]
     IN  /\ job' = [job EXCEPT ![h].seen = s]
         /\ Step(h, IF IsValidTransition(s, job[h].evt) THEN "attempt" ELSE "ack")
  /\ UNCHANGED <<db, idem, psp, told, create>>

WriteAttempt(a) ==
  /\ pc[a] = "attempt"
  /\ att' = [att EXCEPT ![job[a].req] = job[a].evt]
  /\ Step(a, "status")
  /\ UNCHANGED <<pi, rows, idem, psp, told, create, job>>

(* Variant: the merchant is told before the money is booked.               *)
PublishAtOnce(v) == "publish"

(* A success is booked before it is published; a failure is only published. *)
AfterStatus(v) == IF v = "succeeded" THEN "post" ELSE "publish"

(* piRepo.UpdateStatus: an unconditional write.                            *)
WriteStatus(h) ==
  /\ pc[h] = "status"
  /\ h \in Handlers
  /\ pi' = [pi EXCEPT ![job[h].req] = job[h].evt]
  /\ Step(h, AfterStatus(job[h].evt))
  /\ UNCHANGED <<att, rows, idem, psp, told, create, job>>

(* Variant: an entry that cannot be inserted is passed over.               *)
PostEntryLenient(a) ==
  /\ pc[a] = "post"
  /\ \/ rows' = [rows EXCEPT ![job[a].req][job[a].line] = @ + 1]
     \/ UNCHANGED rows
  /\ IF job[a].line = NumLines
       THEN Step(a, "publish") /\ UNCHANGED job
       ELSE job' = [job EXCEPT ![a].line = @ + 1] /\ UNCHANGED pc
  /\ UNCHANGED <<pi, att, idem, psp, told, create>>

(* ledger.PostCollection: one INSERT per entry, in order, no transaction.  *)
PostEntry(a) ==
  /\ pc[a] = "post"
  /\ rows' = [rows EXCEPT ![job[a].req][job[a].line] = @ + 1]
  /\ IF job[a].line = NumLines
       THEN Step(a, "publish") /\ UNCHANGED job
       ELSE job' = [job EXCEPT ![a].line = @ + 1] /\ UNCHANGED pc
  /\ UNCHANGED <<pi, att, idem, psp, told, create>>

(* notif.Publish: a failure is logged and the handler still succeeds.      *)
PublishNotification(a) ==
  /\ pc[a] = "publish"
  /\ \/ told' = [told EXCEPT ![job[a].req] = @ \cup {job[a].evt}]
     \/ UNCHANGED told
  /\ IF a \in Handlers
       THEN Step(a, "ack") /\ UNCHANGED job
       ELSE Step(a, "idle") /\ job' = [job EXCEPT ![a] = NoJob]
  /\ UNCHANGED <<db, idem, psp, create>>

(* A statement returns an error, or the process dies: the event comes      *)
(* back later as a new delivery.                                           *)
HandlerFails(h) ==
  /\ pc[h] \in HandlerSteps
  /\ Step(h, "nak")
  /\ UNCHANGED <<db, idem, psp, told, create, job>>

Finish(h) ==
  /\ pc[h] \in {"ack", "nak"}
  /\ Step(h, "idle")
  /\ job' = [job EXCEPT ![h] = NoJob]
  /\ UNCHANGED <<db, idem, psp, told, create>>

Handle(h) ==
  \/ LookupAttempt(h) \/ ReadIntent(h) \/ WriteAttempt(h) \/ WriteStatus(h)
  \/ PostEntry(h) \/ PublishNotification(h)

-----------------------------------------------------------------------------
(* The delayed query: scheduleDelayedQuery and applyQueryResult            *)

FireQuery(q) ==
  /\ pc[q] = "armed"
  /\ IF pi[q] \in {"requires_action", "processing"}
       THEN Step(q, "ask") /\ job' = [job EXCEPT ![q].seen = pi[q]]
       ELSE Step(q, "idle") /\ job' = [job EXCEPT ![q] = NoJob]
  /\ UNCHANGED <<db, idem, psp, told, create>>

(* Variant: a connector that takes a pending payment for a paid one.       *)
GetStatusOptimist(q) == IF "failed" \in verdicts[q] THEN {"failed"} ELSE Verdicts

(* The M-Pesa connector maps every answer but success to "failed": that of *)
(* a payment still waiting for its payer, and, as it does not look at the  *)
(* HTTP status, a JSON error about one that succeeded.                     *)
GetStatus(q) == {"failed"} \cup (verdicts[q] \cap {"succeeded"})

AskPSP(q) ==
  /\ pc[q] = "ask"
  /\ \E v \in GetStatus(q) :
       /\ IsValidTransition(job[q].seen, v)
       /\ job' = [job EXCEPT ![q].evt = v]
  /\ Step(q, "attempt")
  /\ UNCHANGED <<db, idem, psp, told, create>>

(* Variant: UpdateStatusSafe without the status in its WHERE clause.       *)
WriteStatusSafeBlind(q) ==
  /\ pc[q] = "status"
  /\ q \notin Handlers
  /\ pi' = [pi EXCEPT ![q] = job[q].evt]
  /\ Step(q, AfterStatus(job[q].evt))
  /\ UNCHANGED <<job, att, rows, idem, psp, told, create>>

(* piRepo.UpdateStatusSafe: written only over the status that was read.    *)
WriteStatusSafe(q) ==
  /\ pc[q] = "status"
  /\ q \notin Handlers
  /\ IF pi[q] = job[q].seen
       THEN /\ pi' = [pi EXCEPT ![q] = job[q].evt]
            /\ Step(q, AfterStatus(job[q].evt))
            /\ UNCHANGED job
       ELSE /\ Step(q, "idle")
            /\ job' = [job EXCEPT ![q] = NoJob]
            /\ UNCHANGED pi
  /\ UNCHANGED <<att, rows, idem, psp, told, create>>

(* The timer dies with its process, or a step returns an error.            *)
QueryFails(q) ==
  /\ pc[q] \in QuerySteps
  /\ Step(q, "idle")
  /\ job' = [job EXCEPT ![q] = NoJob]
  /\ UNCHANGED <<db, idem, psp, told, create>>

Query(q) ==
  \/ FireQuery(q) \/ AskPSP(q) \/ WriteAttempt(q) \/ WriteStatusSafe(q)
  \/ PostEntry(q) \/ PublishNotification(q)

-----------------------------------------------------------------------------
Next ==
  \/ \E r \in Requests : Create(r) \/ CreateFails(r)
  \/ \E r \in Requests, v \in Verdicts : Announce(r, v)
  \/ \E k \in Keys : ForgetKey(k)
  \/ \E h \in Handlers, r \in Requests, v \in Verdicts : Deliver(h, r, v)
  \/ \E h \in Handlers : Handle(h) \/ HandlerFails(h) \/ Finish(h)
  \/ \E q \in Requests : Query(q) \/ QueryFails(q)

Spec == Init /\ [][Next]_vars

-----------------------------------------------------------------------------
(* What the orchestrator promises, however its calls interleave and fail   *)

(* No ledger entry, no "succeeded" on the intent or its attempt and no     *)
(* success notification exists for a collection the PSP has not confirmed: *)
(* neither a stale read, nor a status query that races the callback, nor   *)
(* a half-finished creation can invent money.                              *)
MoneyNeedsVerdict ==
  \A r \in Requests :
    \/ "succeeded" \in verdicts[r]
    \/ /\ \A l \in Lines : rows[r][l] = 0
       /\ pi[r] # "succeeded"
       /\ att[r] # "succeeded"
       /\ "succeeded" \notin told[r]

(* One idempotency key never makes the PSP collect twice, although the     *)
(* check in Redis and the insertion of the intent are separate steps of    *)
(* calls that race and the stored key may be lost.                         *)
OneCollectionPerKey ==
  \A r, q \in asked : KeyOf[r] = KeyOf[q] /\ KeyOf[r] # None => r = q

(* Two calls with the same key that both get an answer get the same        *)
(* payment intent, and one that exists.                                    *)
RepliesAgree ==
  \A r \in Requests : reply[r] # None =>
    /\ pi[reply[r]] # "none"
    /\ \A q \in Requests :
         KeyOf[q] = KeyOf[r] /\ KeyOf[r] # None /\ reply[q] # None
           => reply[q] = reply[r]

(* A notification of success is published only when every ledger entry of  *)
(* the collection is in place, whichever of handler and query wrote it.    *)
NotifiedAfterBooked ==
  \A r \in Requests :
    "succeeded" \in told[r] => \A l \in Lines : rows[r][l] > 0

(* However executions overlap, repeat each other and break off between two *)
(* entries, no entry of a collection is in the ledger more often than the  *)
(* one before it: the merchant is never credited more often than the PSP's *)
(* account was debited, nor earns the platform a fee it was not charged.   *)
EntriesInOrder ==
  \A r \in Requests, l \in Lines : l > 1 => rows[r][l] <= rows[r][l - 1]

(* The entries of a collection are in the ledger at most once.             *)
BookedAtMostOnce ==
  \A r \in Requests : \A l \in Lines : rows[r][l] <= 1

(* A payment intent never regresses out of "succeeded".                    *)
SucceededIsFinal ==
  [][\A r \in Requests : pi[r] = "succeeded" => pi'[r] = "succeeded"]_pi

(* CreatePaymentIntent's own unconditional writes never hit an intent that *)
(* a handler or a query has already settled as succeeded.                  *)
CreateSparesSettled ==
  [][\A r \in Requests :
       cpc'[r] # cpc[r] /\ pi[r] = "succeeded" => pi'[r] = "succeeded"]_<<pi, cpc>>

(* A delayed query never changes the status of an intent that was settled  *)
(* while the query was waiting for the PSP.                                *)
QueryYieldsToVerdict ==
  [][\A q \in Requests :
       pc[q] = "status" /\ pc'[q] # "status" /\ pi[q] \in Verdicts
         => pi'[q] = pi[q]]_<<pi, pc>>

(* The orchestrator as a merchant sees it: with one worker, no delayed      *)
(* query, and a PSP that answers after the call that asked it returned, it *)
(* implements the payment lifecycle step by step.                          *)
Booked == {r \in Requests : \A l \in Lines : rows[r][l] > 0}
Confirmed == {r \in Requests : "succeeded" \in verdicts[r]}

Lifecycle == INSTANCE PaymentLifecycle WITH
  Payments <- Requests, status <- pi, confirmed <- Confirmed, booked <- Booked

ImplementsLifecycle == Lifecycle!Spec

(* A repeated call with a used key gets the original result back, never an *)
(* error about the key.                                                    *)
ReplayReturnsOriginal ==
  \A r \in Requests : cpc[r] # "conflict"

=============================================================================
