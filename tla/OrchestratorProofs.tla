------------------------- MODULE OrchestratorProofs -------------------------
(***************************************************************************)
(* Theorems about module Orchestrator, for every set of requests, handlers *)
(* and keys: types, keys and money first, then the interleaving of         *)
(* CreatePaymentIntent, HandleWebhookEvent and the delayed status query.   *)
(***************************************************************************)
EXTENDS Orchestrator, FiniteSetTheorems, TLAPS

(* What a handler or a query carries is consistent with where it is: while *)
(* it works it works on a request, a query on its own one; a success it    *)
(* carries was confirmed by the PSP; only a success is posted.             *)
JobsSound ==
  \A a \in Agents :
    /\ pc[a] \notin {"idle", "ack", "nak"} => job[a].req \in Requests
    /\ a \in Requests /\ pc[a] # "idle" => job[a].req = a
    /\ pc[a] \in {"lookup", "read", "attempt", "status", "post", "publish"}
         => job[a].evt \in Verdicts
    /\ pc[a] \in {"ack", "nak", "lookup", "read"} => a \in Handlers
    /\ pc[a] = "post" => job[a].evt = "succeeded"
    /\ job[a].evt = "succeeded" =>
         job[a].req \in Requests /\ "succeeded" \in verdicts[job[a].req]

Typed == TypeOK /\ JobsSound

LEMMA ConstantsSound ==
  /\ Handlers \cap Requests = {}
  /\ None \notin Requests
  /\ \A r \in Requests : KeyOf[r] # None => KeyOf[r] \in Keys
  /\ Lines \subseteq Nat
  /\ 1 \in Lines
  /\ \A l \in Lines : l # NumLines => l + 1 \in Lines
BY OrchestratorConstants DEF Lines

LEMMA TypedInit == Init => Typed
BY ConstantsSound DEF Init, Typed, TypeOK, JobsSound, NoJob, Jobs, Agents, Verdicts,
   CreateSteps, PIStatuses

LEMMA TypedCreate ==
  ASSUME Typed, NEW r \in Requests, Create(r) \/ CreateFails(r)
  PROVE  Typed'
<1> USE ConstantsSound DEF Typed, db, psp, run
<1>1. CASE Replay(r)
  BY <1>1 DEF Replay, Return, GoTo, StoredIntent, TypeOK, JobsSound, CreateEnds
<1>2. CASE Admit(r)
  BY <1>2 DEF Admit, GoTo, TypeOK, JobsSound, CreateSteps
<1>3. CASE InsertIntent(r)
  BY <1>3 DEF InsertIntent, GoTo, TypeOK, JobsSound, CreateSteps, PIStatuses
<1>4. CASE InsertConflicts(r)
  BY <1>4 DEF InsertConflicts, GoTo, TypeOK, JobsSound, CreateEnds
<1>5. CASE StoreKey(r)
  BY <1>5 DEF StoreKey, GoTo, TypeOK, JobsSound, CreateSteps
<1>6. CASE CollectionAccepted(r)
  BY <1>6 DEF CollectionAccepted, GoTo, TypeOK, JobsSound, CreateSteps
<1>7. CASE CollectionRefused(r)
  BY <1>7 DEF CollectionRefused, GoTo, TypeOK, JobsSound, CreateSteps
<1>8. CASE MarkFailed(r)
  BY <1>8 DEF MarkFailed, Return, GoTo, TypeOK, JobsSound, CreateEnds, PIStatuses
<1>9. CASE SaveAttempt(r)
  BY <1>9 DEF SaveAttempt, GoTo, InitialStatus, TypeOK, JobsSound, CreateSteps, AttemptStatuses
<1>10. CASE MarkWaiting(r)
  <2> USE <1>10 DEF MarkWaiting, Return, GoTo, InitialStatus
  <2>1. CASE r \in MpesaRequests
    <3>1. job' = [job EXCEPT ![r] = [NoJob EXCEPT !.req = r]]
      BY <2>1
    <3>2. pc' = [pc EXCEPT ![r] = "armed"]
      BY <2>1
    <3>3. [NoJob EXCEPT !.req = r] \in Jobs
      BY DEF NoJob, Jobs
    <3>4. TypeOK'
      BY <3>1, <3>2, <3>3 DEF TypeOK, CreateEnds, PIStatuses, Agents, QuerySteps
    <3>5. JobsSound'
      BY <3>1, <3>2 DEF JobsSound, TypeOK, NoJob, Agents
    <3> QED
      BY <3>4, <3>5
  <2>2. CASE r \notin MpesaRequests
    BY <2>2 DEF TypeOK, JobsSound, CreateEnds, PIStatuses
  <2> QED
    BY <2>1, <2>2
<1>11. CASE CreateFails(r)
  BY <1>11 DEF CreateFails, GoTo, TypeOK, JobsSound, CreateEnds
<1> QED
  BY <1>1, <1>2, <1>3, <1>4, <1>5, <1>6, <1>7, <1>8, <1>9, <1>10, <1>11 DEF Create

LEMMA TypedEnvironment ==
  ASSUME Typed,
         \/ \E r \in Requests, v \in Verdicts : Announce(r, v)
         \/ \E k \in Keys : ForgetKey(k)
  PROVE  Typed'
<1> USE ConstantsSound DEF Typed, db, create, run
<1>1. ASSUME NEW r \in Requests, NEW v \in Verdicts, Announce(r, v)
      PROVE  Typed'
  <2>1. verdicts' = [verdicts EXCEPT ![r] = @ \cup {v}]
    BY <1>1 DEF Announce
  <2>2. \A q \in Requests : verdicts[q] \subseteq verdicts'[q]
    BY <2>1 DEF TypeOK
  <2>3. verdicts' \in [Requests -> SUBSET Verdicts]
    BY <2>1 DEF TypeOK
  <2> QED
    BY <1>1, <2>2, <2>3 DEF Announce, TypeOK, JobsSound
<1>2. ASSUME NEW k \in Keys, ForgetKey(k)
      PROVE  Typed'
  BY <1>2 DEF ForgetKey, psp, TypeOK, JobsSound
<1> QED
  BY <1>1, <1>2

(* A handler or query that stops leaves a well-typed state.                *)
LEMMA IdleTyped ==
  ASSUME Typed, NEW a \in Agents,
         Step(a, "idle"), job' = [job EXCEPT ![a] = NoJob],
         UNCHANGED <<db, idem, psp, told, create>>
  PROVE  Typed'
<1> USE ConstantsSound DEF Typed, db, psp, create, Step, Agents
<1>1. NoJob \in Jobs
  BY DEF NoJob, Jobs
<1>2. TypeOK'
  BY <1>1 DEF TypeOK
<1>3. JobsSound'
  BY DEF TypeOK, JobsSound, NoJob
<1> QED
  BY <1>2, <1>3

LEMMA TypedDeliver ==
  ASSUME Typed, NEW h \in Handlers, NEW r \in Requests, NEW v \in Verdicts,
         Deliver(h, r, v)
  PROVE  Typed'
<1> USE ConstantsSound DEF Typed, db, psp, create, Deliver, Start, Step
<1>1. [NoJob EXCEPT !.req = r, !.evt = v] \in Jobs
  BY ConstantsSound DEF NoJob, Jobs, Verdicts
<1>2. TypeOK'
  BY <1>1 DEF TypeOK, Agents, HandlerSteps
<1>3. JobsSound'
  BY DEF TypeOK, JobsSound, Agents, NoJob
<1> QED
  BY <1>2, <1>3

LEMMA TypedRun ==
  ASSUME Typed, NEW a \in Agents,
         \/ a \in Handlers /\ (Handle(a) \/ HandlerFails(a) \/ Finish(a))
         \/ a \in Requests /\ (Query(a) \/ QueryFails(a))
  PROVE  Typed'
<1> USE ConstantsSound DEF Typed, db, psp, create, Step, Agents
<1>0. /\ NoJob \in Jobs
      /\ job[a] \in Jobs
      /\ pc[a] \in HandlerSteps \cup QuerySteps \cup {"idle", "ack", "nak"}
  BY DEF NoJob, Jobs, TypeOK
<1>1. CASE LookupAttempt(a)
  BY <1>1 DEF LookupAttempt, TypeOK, JobsSound, HandlerSteps
<1>2. CASE ReadIntent(a)
  <2>1. PICK s \in PIStatuses \cup {"none"}, p \in {"attempt", "ack"} :
          /\ job' = [job EXCEPT ![a].seen = s]
          /\ pc' = [pc EXCEPT ![a] = p]
          /\ UNCHANGED <<db, idem, psp, told, create>>
    BY <1>2 DEF ReadIntent, TypeOK, JobsSound
  <2>2. [job[a] EXCEPT !.seen = s] \in Jobs
    BY <1>0 DEF Jobs
  <2>3. TypeOK'
    BY <2>1, <2>2 DEF TypeOK, HandlerSteps
  <2>4. JobsSound'
    BY <1>0, <1>2, <2>1 DEF ReadIntent, TypeOK, JobsSound, Jobs
  <2> QED
    BY <2>3, <2>4
<1>3. CASE WriteAttempt(a)
  BY <1>3 DEF WriteAttempt, TypeOK, JobsSound, HandlerSteps, AttemptStatuses, Verdicts
<1>4. CASE WriteStatus(a)
  BY <1>4 DEF WriteStatus, AfterStatus, TypeOK, JobsSound, HandlerSteps, PIStatuses, Verdicts
<1>5. CASE PostEntry(a)
  <2>1. rows' \in [Requests -> [Lines -> Nat]]
    <3> DEFINE r == job[a].req
               l == job[a].line
    <3>1. r \in Requests /\ l \in Lines /\ rows \in [Requests -> [Lines -> Nat]]
      BY <1>0, <1>5 DEF PostEntry, TypeOK, JobsSound, Jobs
    <3>2. rows' = [rows EXCEPT ![r] = [rows[r] EXCEPT ![l] = rows[r][l] + 1]]
      BY <1>5 DEF PostEntry
    <3> HIDE DEF r, l
    <3>3. rows[r] \in [Lines -> Nat] /\ rows[r][l] + 1 \in Nat
      BY <3>1
    <3>4. [rows[r] EXCEPT ![l] = rows[r][l] + 1] \in [Lines -> Nat]
      BY <3>1, <3>3
    <3> QED
      BY <3>1, <3>2, <3>4
  <2>2. CASE job[a].line = NumLines
    <3>1. pc' = [pc EXCEPT ![a] = "publish"] /\ job' = job
      BY <1>5, <2>2 DEF PostEntry
    <3>2. UNCHANGED <<pi, att, idem, psp, told, create>>
      BY <1>5 DEF PostEntry
    <3>3. TypeOK'
      BY <2>1, <3>1, <3>2 DEF TypeOK, HandlerSteps
    <3>4. JobsSound'
      BY <1>5, <3>1, <3>2 DEF PostEntry, TypeOK, JobsSound
    <3> QED
      BY <3>3, <3>4
  <2>3. CASE job[a].line # NumLines
    <3>1. job' = [job EXCEPT ![a].line = @ + 1] /\ pc' = pc
      BY <1>5, <2>3 DEF PostEntry
    <3>2. [job[a] EXCEPT !.line = @ + 1] \in Jobs
      BY <1>0, <2>3 DEF Jobs
    <3>3. TypeOK'
      BY <1>5, <2>1, <3>1, <3>2 DEF PostEntry, TypeOK
    <3>4. JobsSound'
      BY <1>0, <1>5, <3>1 DEF PostEntry, TypeOK, JobsSound, Jobs
    <3> QED
      BY <3>3, <3>4
  <2> QED
    BY <2>2, <2>3
<1>6. CASE PublishNotification(a)
  <2>1. told' \in [Requests -> SUBSET Verdicts]
    BY <1>6 DEF PublishNotification, TypeOK, JobsSound
  <2>2. TypeOK'
    BY <1>0, <1>6, <2>1 DEF PublishNotification, TypeOK
  <2>3. JobsSound'
    BY <1>6 DEF PublishNotification, TypeOK, JobsSound, NoJob
  <2> QED
    BY <2>2, <2>3
<1>7. CASE a \in Handlers /\ HandlerFails(a)
  BY <1>7 DEF HandlerFails, TypeOK, JobsSound, HandlerSteps
<1>8. CASE a \in Handlers /\ Finish(a)
  BY <1>8, IdleTyped DEF Finish
<1>9. CASE FireQuery(a)
  <2>1. CASE pi[a] \in {"requires_action", "processing"}
    <3>1. job' = [job EXCEPT ![a].seen = pi[a]] /\ pc' = [pc EXCEPT ![a] = "ask"]
      BY <1>9, <2>1 DEF FireQuery
    <3>2. [job[a] EXCEPT !.seen = pi[a]] \in Jobs
      BY <1>0, <2>1 DEF Jobs, PIStatuses
    <3>3. TypeOK'
      BY <1>9, <3>1, <3>2 DEF FireQuery, TypeOK, QuerySteps
    <3>4. JobsSound'
      BY <1>0, <1>9, <3>1 DEF FireQuery, TypeOK, JobsSound, Jobs
    <3> QED
      BY <3>3, <3>4
  <2>2. CASE pi[a] \notin {"requires_action", "processing"}
    BY <1>9, <2>2, IdleTyped DEF FireQuery
  <2> QED
    BY <2>1, <2>2
<1>10. CASE a \in Requests /\ AskPSP(a)
  <2>1. PICK v \in GetStatus(a) : job' = [job EXCEPT ![a].evt = v]
    BY <1>10 DEF AskPSP
  <2>7. pc' = [pc EXCEPT ![a] = "attempt"] /\ UNCHANGED <<db, idem, psp, told, create>>
    BY <1>10 DEF AskPSP
  <2>2. /\ v \in Verdicts
        /\ v = "succeeded" => "succeeded" \in verdicts[a]
    BY DEF GetStatus, Verdicts
  <2>3. [job[a] EXCEPT !.evt = v] \in Jobs
    BY <1>0, <2>2 DEF Jobs
  <2>4. TypeOK'
    BY <2>1, <2>3, <2>7 DEF TypeOK, QuerySteps
  <2>5. job[a].req = a
    BY <1>10 DEF AskPSP, JobsSound
  <2>6. JobsSound'
    BY <1>0, <1>10, <2>1, <2>2, <2>5, <2>7 DEF AskPSP, TypeOK, JobsSound, Jobs
  <2> QED
    BY <2>4, <2>6
<1>11. CASE a \in Requests /\ WriteStatusSafe(a)
  <2>1. CASE pi[a] = job[a].seen
    <3>1. /\ UNCHANGED <<att, rows, idem, psp, told, create, job>>
          /\ pi' = [pi EXCEPT ![a] = job[a].evt]
          /\ pc[a] = "status"
          /\ pc' = [pc EXCEPT ![a] = AfterStatus(job[a].evt)]
      BY <1>11, <2>1 DEF WriteStatusSafe
    <3>2. /\ AfterStatus(job[a].evt) \in {"post", "publish"}
          /\ AfterStatus(job[a].evt) = "post" => job[a].evt = "succeeded"
      BY DEF AfterStatus
    <3>3. job[a].evt \in PIStatuses
      BY <3>1 DEF JobsSound, PIStatuses, Verdicts
    <3> HIDE DEF AfterStatus, PIStatuses
    <3>4. TypeOK'
      BY <3>1, <3>2, <3>3 DEF TypeOK, HandlerSteps
    <3>5. JobsSound'
      BY <3>1, <3>2 DEF TypeOK, JobsSound
    <3> QED
      BY <3>4, <3>5
  <2>2. CASE pi[a] # job[a].seen
    BY <1>11, <2>2, IdleTyped DEF WriteStatusSafe
  <2> QED
    BY <2>1, <2>2
<1>12. CASE QueryFails(a)
  BY <1>12, IdleTyped DEF QueryFails
<1> QED
  BY <1>1, <1>2, <1>3, <1>4, <1>5, <1>6, <1>7, <1>8, <1>9, <1>10, <1>11, <1>12
     DEF Handle, Query

LEMMA TypedStep == Typed /\ [Next]_vars => Typed'
<1>1. Typed /\ UNCHANGED vars => Typed'
  BY DEF Typed, TypeOK, JobsSound, vars
<1>2. Typed /\ Next => Typed'
  BY TypedCreate, TypedEnvironment, TypedDeliver, TypedRun DEF Next, Agents
<1> QED
  BY <1>1, <1>2

LEMMA AlwaysTyped == Spec => []Typed
<1> QED
  BY TypedInit, TypedStep, PTL DEF Spec

-----------------------------------------------------------------------------
(* What the agents do: handlers handle, delayed queries query.             *)
Runs(a) ==
  \/ a \in Handlers /\ (Handle(a) \/ HandlerFails(a) \/ Finish(a))
  \/ a \in Requests /\ (Query(a) \/ QueryFails(a))

LEMMA MoneyStep ==
  ASSUME Typed, MoneyNeedsVerdict, [Next]_vars
  PROVE  MoneyNeedsVerdict'
<1> USE DEF Typed, MoneyNeedsVerdict, db, psp, run, create
<1>1. CASE \E r \in Requests : Create(r) \/ CreateFails(r)
  <2> PICK r \in Requests : Create(r) \/ CreateFails(r)
    BY <1>1
  <2>1. /\ UNCHANGED <<rows, verdicts, told>>
        /\ att' = att \/ att' = [att EXCEPT ![r] = InitialStatus]
        /\ \/ pi' = pi
           \/ \E s \in {"created", "failed", InitialStatus} : pi' = [pi EXCEPT ![r] = s]
    BY DEF Create, Replay, Admit, InsertIntent, InsertConflicts, StoreKey, CollectionAccepted,
       CollectionRefused, MarkFailed, SaveAttempt, MarkWaiting, CreateFails
  <2> QED
    BY <2>1 DEF InitialStatus, TypeOK
<1>2. CASE \E r \in Requests, v \in Verdicts : Announce(r, v)
  BY <1>2 DEF Announce, TypeOK
<1>3. CASE \E k \in Keys : ForgetKey(k)
  BY <1>3 DEF ForgetKey
<1>4. CASE \E h \in Handlers, r \in Requests, v \in Verdicts : Deliver(h, r, v)
  BY <1>4 DEF Deliver, Start
<1>5. ASSUME NEW a \in Agents, Runs(a) PROVE MoneyNeedsVerdict'
  <2> DEFINE r == job[a].req
             v == job[a].evt
  <2>1. v = "succeeded" => r \in Requests /\ "succeeded" \in verdicts[r]
    BY DEF JobsSound
  <2>2. /\ verdicts' = verdicts
        /\ att' = att \/ att' = [att EXCEPT ![r] = v]
        /\ told' = told \/ told' = [told EXCEPT ![r] = @ \cup {v}]
    BY <1>5 DEF Runs, Handle, Query, LookupAttempt, ReadIntent, WriteAttempt, WriteStatus,
       PostEntry, PublishNotification, HandlerFails, Finish, FireQuery, AskPSP,
       WriteStatusSafe, QueryFails
  <2>3. pi' = pi \/ pi' = [pi EXCEPT ![r] = v]
    BY <1>5 DEF Runs, Handle, Query, LookupAttempt, ReadIntent, WriteAttempt, WriteStatus,
       PostEntry, PublishNotification, HandlerFails, Finish, FireQuery, AskPSP,
       WriteStatusSafe, QueryFails, JobsSound
  <2>4. \/ rows' = rows
        \/ /\ v = "succeeded"
           /\ \A q \in Requests : q # r => rows'[q] = rows[q]
    <3>1. CASE PostEntry(a)
      BY <3>1 DEF PostEntry, JobsSound, TypeOK
    <3>2. CASE ~PostEntry(a)
      BY <1>5, <3>2 DEF Runs, Handle, Query, LookupAttempt, ReadIntent, WriteAttempt,
         WriteStatus, PublishNotification, HandlerFails, Finish, FireQuery, AskPSP,
         WriteStatusSafe, QueryFails
    <3> QED
      BY <3>1, <3>2
  <2> HIDE DEF r, v
  <2> QED
    BY <2>1, <2>2, <2>3, <2>4 DEF TypeOK
<1>6. CASE UNCHANGED vars
  BY <1>6 DEF vars
<1> QED
  BY <1>1, <1>2, <1>3, <1>4, <1>5, <1>6 DEF Next, Runs, Agents

(* However calls, handlers, queries and failures interleave, every         *)
(* variable keeps its type.                                                *)
THEOREM TypeCorrect == Spec => []TypeOK
<1>1. Typed => TypeOK
  BY DEF Typed
<1> QED
  BY AlwaysTyped, <1>1, PTL

(* Money, and the news of it, exist only for collections the PSP confirmed *)
(* (HandleWebhookEvent, applyQueryResult and CreatePaymentIntent together). *)
THEOREM NoMoneyInvented == Spec => []MoneyNeedsVerdict
<1>1. Init => MoneyNeedsVerdict
  BY DEF Init, MoneyNeedsVerdict
<1>2. Typed /\ MoneyNeedsVerdict /\ [Next]_vars => MoneyNeedsVerdict'
  BY MoneyStep
<1> QED
  BY AlwaysTyped, <1>1, <1>2, PTL DEF Spec

-----------------------------------------------------------------------------
(***************************************************************************)
(* One idempotency key, one collection, one answer: theorems about         *)
(* CreatePaymentIntent for any number of racing calls.                     *)
(***************************************************************************)

(* Nothing is collected, announced, handled or returned for a payment      *)
(* intent that is not in the database, and no two intents there share a    *)
(* key: what the check in Redis cannot guarantee, the unique index does.   *)
IntentsSound ==
  /\ \A r \in Requests :
       /\ cpc[r] \in {"store", "collect", "fail", "save", "status"} => pi[r] # "none"
       /\ r \in asked => pi[r] # "none"
       /\ verdicts[r] # {} => r \in asked
       /\ reply[r] # None =>
            /\ pi[reply[r]] # "none"
            /\ reply[r] # r => KeyOf[r] # None /\ KeyOf[reply[r]] = KeyOf[r]
  /\ \A a \in Agents : pc[a] \notin {"idle", "ack", "nak"} => pi[job[a].req] # "none"
  /\ \A k \in Keys : idem[k] # None => pi[idem[k]] # "none" /\ KeyOf[idem[k]] = k
  /\ \A r, q \in Requests :
       KeyOf[r] = KeyOf[q] /\ KeyOf[r] # None /\ pi[r] # "none" /\ pi[q] # "none" => r = q

(* The steps of a handler or a query touch neither the calls that create   *)
(* nor Redis nor the PSP; they neither add nor remove an intent, and while *)
(* it works an agent keeps to its request.                                 *)
RunFrame ==
  /\ UNCHANGED <<idem, psp, create>>
  /\ \A r \in Requests : pi'[r] = "none" <=> pi[r] = "none"
  /\ \A b \in Agents : pc'[b] \notin {"idle", "ack", "nak"} =>
       pc[b] \notin {"idle", "ack", "nak"} /\ job'[b].req = job[b].req

LEMMA RunsKeepFrame ==
  ASSUME Typed, IntentsSound, NEW a \in Agents, Runs(a)
  PROVE  RunFrame
<1> USE DEF Typed, RunFrame, IntentsSound, db, Step
<1>0. job[a] \in Jobs /\ job \in [Agents -> Jobs] /\ DOMAIN pc = Agents
  BY DEF TypeOK
<1>1. CASE LookupAttempt(a)
  BY <1>0, <1>1 DEF LookupAttempt
<1>2. CASE ReadIntent(a)
  BY <1>0, <1>2 DEF ReadIntent, Jobs
<1>3. CASE WriteAttempt(a)
  BY <1>0, <1>3 DEF WriteAttempt
<1>4. CASE WriteStatus(a)
  BY <1>0, <1>4 DEF WriteStatus, TypeOK, JobsSound, Verdicts
<1>5. CASE PostEntry(a)
  BY <1>0, <1>5 DEF PostEntry, Jobs
<1>6. CASE PublishNotification(a)
  BY <1>0, <1>6 DEF PublishNotification, Jobs
<1>7. CASE HandlerFails(a) \/ Finish(a) \/ QueryFails(a)
  BY <1>0, <1>7 DEF HandlerFails, Finish, QueryFails
<1>8. CASE FireQuery(a)
  BY <1>0, <1>8 DEF FireQuery, Jobs
<1>9. CASE AskPSP(a)
  BY <1>0, <1>9 DEF AskPSP, Jobs
<1>10. CASE a \in Requests /\ WriteStatusSafe(a)
  <2>1. job[a].req = a /\ job[a].evt \in Verdicts /\ pi[a] # "none"
    BY <1>10 DEF WriteStatusSafe, JobsSound, Agents
  <2>2. \/ pi' = pi
        \/ pi' = [pi EXCEPT ![a] = job[a].evt]
    BY <1>10 DEF WriteStatusSafe
  <2>3. \A r \in Requests : pi'[r] = "none" <=> pi[r] = "none"
    BY <2>1, <2>2 DEF TypeOK, Verdicts
  <2> QED
    BY <1>0, <1>10, <2>3 DEF WriteStatusSafe
<1> QED
  BY <1>1, <1>2, <1>3, <1>4, <1>5, <1>6, <1>7, <1>8, <1>9, <1>10 DEF Runs, Handle, Query

LEMMA IntentsCreate ==
  ASSUME Typed, Typed', IntentsSound, NEW r \in Requests, Create(r) \/ CreateFails(r)
  PROVE  IntentsSound'
<1> USE ConstantsSound DEF IntentsSound, Typed, db, psp, run, GoTo, Return
<1>1. CASE Replay(r)
  <2>1. KeyOf[r] # None /\ KeyOf[r] \in Keys /\ idem[KeyOf[r]] \in Requests
    BY <1>1 DEF Replay, StoredIntent, TypeOK
  <2>2. reply' = [reply EXCEPT ![r] = idem[KeyOf[r]]]
    BY <1>1, <2>1 DEF Replay, StoredIntent
  <2> QED
    BY <1>1, <2>1, <2>2 DEF Replay, TypeOK
<1>2. CASE Admit(r) \/ InsertConflicts(r) \/ CreateFails(r)
  BY <1>2 DEF Admit, InsertConflicts, CreateFails, TypeOK
<1>3. CASE InsertIntent(r)
  BY <1>3 DEF InsertIntent, KeyTaken, TypeOK
<1>4. CASE StoreKey(r)
  BY <1>4 DEF StoreKey, TypeOK
<1>5. CASE CollectionAccepted(r) \/ CollectionRefused(r)
  BY <1>5 DEF CollectionAccepted, CollectionRefused, TypeOK
<1>6. CASE MarkFailed(r)
  BY <1>6 DEF MarkFailed, TypeOK
<1>7. CASE SaveAttempt(r)
  BY <1>7 DEF SaveAttempt, TypeOK
<1>8. CASE MarkWaiting(r)
  <2>1. /\ pi' = [pi EXCEPT ![r] = "requires_action"]
        /\ cpc' = [cpc EXCEPT ![r] = "returned"]
        /\ reply' = [reply EXCEPT ![r] = r]
        /\ UNCHANGED <<idem, asked, verdicts>>
    BY <1>8 DEF MarkWaiting, InitialStatus
  <2>2. \A q \in Requests : pi'[q] = "none" <=> pi[q] = "none"
    BY <1>8, <2>1 DEF MarkWaiting, TypeOK
  <2>3. \A a \in Agents : pc'[a] \notin {"idle", "ack", "nak"} =>
          \/ a = r /\ job'[a].req = r
          \/ pc[a] = pc'[a] /\ job'[a] = job[a]
    BY <1>8 DEF MarkWaiting, TypeOK, NoJob, Agents
  <2>4. pi'[r] # "none"
    BY <2>1 DEF TypeOK
  <2>5. \A a \in Agents : pc'[a] \notin {"idle", "ack", "nak"} => pi'[job'[a].req] # "none"
    BY <2>2, <2>3, <2>4 DEF JobsSound
  <2>6. \A q \in Requests : reply'[q] # None =>
            /\ pi'[reply'[q]] # "none"
            /\ reply'[q] # q => KeyOf[q] # None /\ KeyOf[reply'[q]] = KeyOf[q]
    BY <2>1, <2>2, <2>4 DEF TypeOK
  <2> QED
    BY <2>1, <2>2, <2>5, <2>6 DEF TypeOK
<1> QED
  BY <1>1, <1>2, <1>3, <1>4, <1>5, <1>6, <1>7, <1>8 DEF Create

LEMMA IntentsStep == Typed /\ Typed' /\ IntentsSound /\ [Next]_vars => IntentsSound'
<1> SUFFICES ASSUME Typed, Typed', IntentsSound, [Next]_vars
             PROVE  IntentsSound'
  OBVIOUS
<1> USE DEF db, psp, run, create
<1>1. CASE \E r \in Requests : Create(r) \/ CreateFails(r)
  BY <1>1, IntentsCreate
<1>2. ASSUME NEW r \in Requests, NEW v \in Verdicts, Announce(r, v)
      PROVE  IntentsSound'
  BY <1>2 DEF Announce, IntentsSound, Typed, TypeOK
<1>3. ASSUME NEW k \in Keys, ForgetKey(k)
      PROVE  IntentsSound'
  BY <1>3 DEF ForgetKey, IntentsSound, Typed, TypeOK
<1>4. ASSUME NEW h \in Handlers, NEW r \in Requests, NEW v \in Verdicts, Deliver(h, r, v)
      PROVE  IntentsSound'
  BY <1>4 DEF Deliver, Start, Step, IntentsSound, Typed, TypeOK, NoJob, Agents
<1>5. ASSUME NEW a \in Agents, Runs(a)
      PROVE  IntentsSound'
  <2>1. RunFrame
    BY <1>5, RunsKeepFrame
  <2>2. UNCHANGED <<idem, asked, verdicts, cpc, reply>>
    BY <2>1 DEF RunFrame
  <2>3. \A r \in Requests : pi'[r] = "none" <=> pi[r] = "none"
    BY <2>1 DEF RunFrame
  <2>4. \A b \in Agents : pc'[b] \notin {"idle", "ack", "nak"} => pi'[job'[b].req] # "none"
    BY <2>1, <2>3 DEF RunFrame, IntentsSound, Typed, JobsSound
  <2> QED
    BY <2>2, <2>3, <2>4 DEF IntentsSound, Typed, TypeOK
<1>6. CASE UNCHANGED vars
  BY <1>6 DEF vars, IntentsSound
<1> QED
  BY <1>1, <1>2, <1>3, <1>4, <1>5, <1>6 DEF Next, Runs, Agents

LEMMA AlwaysIntentsSound == Spec => []IntentsSound
<1>1. Init => IntentsSound
  BY ConstantsSound DEF Init, IntentsSound, Agents
<1> QED
  BY AlwaysTyped, IntentsStep, <1>1, PTL DEF Spec

(* CreatePaymentIntent asks the PSP at most once per idempotency key,      *)
(* however many calls race and whatever Redis forgets.                     *)
THEOREM CollectsOncePerKey == Spec => []OneCollectionPerKey
<1>1. Typed /\ IntentsSound => OneCollectionPerKey
  BY DEF Typed, TypeOK, IntentsSound, OneCollectionPerKey
<1> QED
  BY AlwaysTyped, AlwaysIntentsSound, <1>1, PTL

(* Calls of CreatePaymentIntent with one key never get different answers.  *)
THEOREM AnswersAgree == Spec => []RepliesAgree
<1>1. Typed /\ IntentsSound => RepliesAgree
  BY ConstantsSound DEF Typed, TypeOK, IntentsSound, RepliesAgree
<1> QED
  BY AlwaysTyped, AlwaysIntentsSound, <1>1, PTL

-----------------------------------------------------------------------------
(* When a payment is settled, booked and announced                         *)

(* While CreatePaymentIntent runs the intent cannot be settled as          *)
(* succeeded, because the state machine has no way there from "created" or *)
(* "failed", the only statuses it has until then.                          *)
CreationSound ==
  /\ \A r \in Requests : cpc[r] \in CreateSteps => pi[r] \in {"none", "created", "failed"}
  /\ \A a \in Agents :
       pc[a] \in {"attempt", "status"} /\ job[a].evt = "succeeded"
         => cpc[job[a].req] \in CreateEnds
  /\ \A q \in Requests :
       /\ pc[q] # "idle" => cpc[q] \in CreateEnds
       /\ pc[q] \in {"ask", "attempt", "status"}
            => job[q].seen \in {"requires_action", "processing"}

(* Only a payment that is being created or waits for its payer is settled, *)
(* and only one that waits succeeds.                                       *)
LEMMA SettlingEdges ==
  ASSUME NEW from, NEW v \in Verdicts, IsValidTransition(from, v)
  PROVE  /\ from \in {"created", "requires_action", "processing"}
         /\ v = "succeeded" => from # "created"
<1>1. PICK E \in {{"created"} \X {"requires_action", "processing", "failed", "expired"},
                 {"requires_action"} \X {"succeeded", "processing", "failed", "expired"},
                 {"processing"} \X {"succeeded", "failed", "requires_action"},
                 {"succeeded"} \X {"partially_refunded", "refunded"}} : <<from, v>> \in E
  BY DEF IsValidTransition, transitions
<1> QED
  BY <1>1 DEF Verdicts

LEMMA CreationByCreate ==
  ASSUME Typed, CreationSound, NEW r \in Requests, Create(r) \/ CreateFails(r)
  PROVE  CreationSound'
<1> USE ConstantsSound DEF CreationSound, Typed, db, psp, run, GoTo, Return, CreateSteps, CreateEnds
<1>0. ASSUME NEW x, cpc[r] \in CreateSteps, cpc' = [cpc EXCEPT ![r] = x],
             UNCHANGED <<pi, pc, job>>
      PROVE  CreationSound'
  <2>1. \A q \in Requests : q # r => cpc'[q] = cpc[q]
    BY <1>0 DEF TypeOK
  <2>2. \A q \in Requests : cpc[q] \in CreateEnds => q # r
    BY <1>0
  <2> HIDE DEF CreateSteps, CreateEnds
  <2> QED
    BY <1>0, <2>1, <2>2 DEF JobsSound
<1>1. CASE Replay(r)
  BY <1>1 DEF Replay, TypeOK
<1>2. CASE Admit(r) \/ InsertConflicts(r) \/ CreateFails(r) \/ StoreKey(r)
  BY <1>0, <1>2 DEF Admit, InsertConflicts, CreateFails, StoreKey
<1>3. CASE InsertIntent(r)
  BY <1>3 DEF InsertIntent, TypeOK
<1>4. CASE CollectionAccepted(r) \/ CollectionRefused(r) \/ SaveAttempt(r)
  BY <1>0, <1>4 DEF CollectionAccepted, CollectionRefused, SaveAttempt
<1>5. CASE MarkFailed(r)
  BY <1>5 DEF MarkFailed, TypeOK
<1>6. CASE MarkWaiting(r)
  <2>1. /\ pi' = [pi EXCEPT ![r] = "requires_action"]
        /\ cpc' = [cpc EXCEPT ![r] = "returned"]
    BY <1>6 DEF MarkWaiting, InitialStatus
  <2>2. pc[r] = "idle"
    BY <1>6 DEF MarkWaiting, TypeOK
  <2>3. \A a \in Agents : pc'[a] \notin {"idle", "armed"} =>
          pc'[a] = pc[a] /\ job'[a] = job[a]
    BY <1>6 DEF MarkWaiting, TypeOK
  <2>4. \A q \in Requests : pc'[q] # "idle" => q = r \/ pc[q] = pc'[q]
    BY <1>6 DEF MarkWaiting, TypeOK, Agents
  <2>5. \A q \in Requests : cpc[q] \in CreateEnds => cpc'[q] \in CreateEnds
    BY <2>1 DEF TypeOK
  <2>6. \A a \in Agents :
          pc'[a] \in {"attempt", "status"} /\ job'[a].evt = "succeeded"
            => cpc'[job'[a].req] \in CreateEnds
    BY <2>3, <2>5 DEF JobsSound
  <2>7. \A q \in Requests :
          /\ pc'[q] # "idle" => cpc'[q] \in CreateEnds
          /\ pc'[q] \in {"ask", "attempt", "status"}
               => job'[q].seen \in {"requires_action", "processing"}
    BY <2>1, <2>3, <2>4, <2>5 DEF TypeOK, Agents
  <2>8. \A q \in Requests : cpc'[q] \in CreateSteps => pi'[q] \in {"none", "created", "failed"}
    BY <2>1 DEF TypeOK
  <2> QED
    BY <2>6, <2>7, <2>8
<1> QED
  BY <1>1, <1>2, <1>3, <1>4, <1>5, <1>6 DEF Create

LEMMA CreationByRuns ==
  ASSUME Typed, CreationSound, NEW a \in Agents, Runs(a)
  PROVE  CreationSound'
<1> USE ConstantsSound DEF CreationSound, Typed, db, create, Step, Agents
<1>0. job[a] \in Jobs /\ cpc \in [Requests -> CreateSteps \cup CreateEnds]
  BY DEF TypeOK
<1>1. CASE LookupAttempt(a)
  BY <1>1 DEF LookupAttempt, TypeOK, JobsSound
<1>2. CASE ReadIntent(a)
  <2>1. /\ UNCHANGED <<pi, cpc>>
        /\ job' = [job EXCEPT ![a].seen = pi[job[a].req]]
        /\ \/ pc' = [pc EXCEPT ![a] = "ack"]
           \/ /\ pc' = [pc EXCEPT ![a] = "attempt"]
              /\ IsValidTransition(pi[job[a].req], job[a].evt)
    BY <1>2 DEF ReadIntent
  <2>2. a \in Handlers /\ job[a].req \in Requests
    BY <1>2 DEF ReadIntent, JobsSound
  <2>3. job'[a].evt = job[a].evt /\ job'[a].req = job[a].req
    BY <1>0, <2>1 DEF TypeOK, Jobs
  <2>4. pc'[a] = "attempt" /\ job[a].evt = "succeeded" => cpc[job[a].req] \in CreateEnds
    <3> SUFFICES ASSUME pc'[a] = "attempt", job[a].evt = "succeeded"
                 PROVE  cpc[job[a].req] \in CreateEnds
      OBVIOUS
    <3>1. IsValidTransition(pi[job[a].req], "succeeded")
      BY <2>1 DEF TypeOK
    <3>2. pi[job[a].req] \notin {"none", "created", "failed"}
      BY <3>1, SettlingEdges DEF Verdicts
    <3>3. cpc[job[a].req] \notin CreateSteps
      BY <2>2, <3>2
    <3> QED
      BY <1>0, <2>2, <3>3
  <2> QED
    BY <2>1, <2>2, <2>3, <2>4 DEF TypeOK
<1>3. CASE WriteAttempt(a)
  BY <1>3 DEF WriteAttempt, TypeOK, JobsSound
<1>4. CASE WriteStatus(a)
  <2>1. /\ UNCHANGED <<cpc, job>>
        /\ pi' = [pi EXCEPT ![job[a].req] = job[a].evt]
        /\ job[a].evt \in Verdicts
        /\ job[a].evt = "succeeded" => cpc[job[a].req] \in CreateEnds
        /\ a \in Handlers
    BY <1>4 DEF WriteStatus, JobsSound
  <2>2. CreateEnds \cap CreateSteps = {}
    BY DEF CreateEnds, CreateSteps
  <2>3. \A r \in Requests : cpc'[r] \in CreateSteps => pi'[r] \in {"none", "created", "failed"}
    BY <2>1, <2>2 DEF TypeOK, Verdicts
  <2> QED
    BY <1>4, <2>1, <2>3 DEF WriteStatus, AfterStatus, TypeOK
<1>5. CASE PostEntry(a)
  <2>1. /\ pc[a] = "post"
        /\ pc' = [pc EXCEPT ![a] = "publish"] \/ pc' = pc
        /\ job' = [job EXCEPT ![a].line = @ + 1] \/ job' = job
        /\ UNCHANGED <<pi, cpc>>
    BY <1>5 DEF PostEntry
  <2>2. \A b \in Agents : pc'[b] \in {"ask", "attempt", "status"} =>
          b # a /\ pc'[b] = pc[b] /\ job'[b] = job[b]
    BY <2>1 DEF TypeOK
  <2> QED
    BY <2>1, <2>2 DEF TypeOK
<1>20. ASSUME NEW x \in {"idle", "ack", "nak"}, a \in Requests => x = "idle",
              UNCHANGED <<pi, cpc>>, pc' = [pc EXCEPT ![a] = x],
              job' = job \/ job' = [job EXCEPT ![a] = NoJob]
       PROVE  CreationSound'
  <2>1. pc'[a] = x /\ \A b \in Agents : b # a => pc'[b] = pc[b] /\ job'[b] = job[b]
    BY <1>20 DEF TypeOK
  <2>2. \A b \in Agents : pc'[b] \notin {"idle", "ack", "nak"} => b # a
    BY <2>1
  <2>3. \A q \in Requests : pc'[q] # "idle" => q # a
    BY <1>20, <2>1
  <2> HIDE DEF CreateSteps, CreateEnds
  <2> QED
    BY <1>20, <2>1, <2>2, <2>3
<1>6. CASE PublishNotification(a)
  BY <1>6, <1>20 DEF PublishNotification
<1>7. CASE a \in Handlers /\ HandlerFails(a)
  BY <1>7, <1>20 DEF HandlerFails
<1>8. CASE (a \in Handlers /\ Finish(a)) \/ (a \in Requests /\ QueryFails(a))
  BY <1>8, <1>20 DEF Finish, QueryFails
<1>9. CASE a \in Requests /\ FireQuery(a)
  <2>1. CASE pi[a] \in {"requires_action", "processing"}
    <3>1. /\ pc' = [pc EXCEPT ![a] = "ask"]
          /\ job' = [job EXCEPT ![a].seen = pi[a]]
          /\ UNCHANGED <<pi, cpc>>
      BY <1>9, <2>1 DEF FireQuery
    <3>2. cpc[a] \in CreateEnds /\ job'[a].seen = pi[a] /\ pc'[a] = "ask"
      BY <1>0, <1>9, <3>1 DEF FireQuery, TypeOK, Jobs
    <3>3. \A b \in Agents \ {a} : pc'[b] = pc[b] /\ job'[b] = job[b]
      BY <3>1 DEF TypeOK
    <3>4. \A b \in Agents : pc'[b] \in {"attempt", "status"} =>
            pc[b] = pc'[b] /\ job'[b] = job[b]
      BY <3>2, <3>3
    <3>5. \A q \in Requests :
            /\ pc'[q] # "idle" => cpc'[q] \in CreateEnds
            /\ pc'[q] \in {"ask", "attempt", "status"}
                 => job'[q].seen \in {"requires_action", "processing"}
      BY <2>1, <3>1, <3>2, <3>3
    <3> QED
      BY <3>1, <3>4, <3>5
  <2>2. CASE pi[a] \notin {"requires_action", "processing"}
    BY <1>9, <2>2 DEF FireQuery, TypeOK
  <2> QED
    BY <2>1, <2>2
<1>10. CASE a \in Requests /\ AskPSP(a)
  <2>1. job[a].req = a /\ cpc[a] \in CreateEnds
    BY <1>10 DEF AskPSP, JobsSound
  <2>2. /\ UNCHANGED <<pi, cpc>>
        /\ \E v \in GetStatus(a) : job' = [job EXCEPT ![a].evt = v]
        /\ pc' = [pc EXCEPT ![a] = "attempt"]
        /\ job[a].seen \in {"requires_action", "processing"}
    BY <1>10 DEF AskPSP
  <2>3. job'[a].req = a /\ job'[a].seen = job[a].seen
    BY <1>0, <2>1, <2>2 DEF TypeOK, Jobs
  <2> HIDE DEF GetStatus
  <2> QED
    BY <2>1, <2>2, <2>3 DEF TypeOK
<1>11. CASE a \in Requests /\ WriteStatusSafe(a)
  <2>1. job[a].req = a /\ cpc[a] \in CreateEnds
    BY <1>11 DEF WriteStatusSafe, JobsSound
  <2>2. CreateEnds \cap CreateSteps = {}
    BY DEF CreateEnds, CreateSteps
  <2>3. cpc' = cpc /\ (pi' = pi \/ pi' = [pi EXCEPT ![a] = job[a].evt])
    BY <1>11 DEF WriteStatusSafe
  <2>4. \A r \in Requests : cpc'[r] \in CreateSteps => pi'[r] \in {"none", "created", "failed"}
    BY <2>1, <2>2, <2>3 DEF TypeOK
  <2> QED
    BY <1>11, <2>1, <2>3, <2>4 DEF WriteStatusSafe, AfterStatus, TypeOK
<1> QED
  BY <1>1, <1>2, <1>3, <1>4, <1>5, <1>6, <1>7, <1>8, <1>9, <1>10, <1>11
     DEF Runs, Handle, Query

LEMMA CreationStep == Typed /\ CreationSound /\ [Next]_vars => CreationSound'
<1> SUFFICES ASSUME Typed, CreationSound, [Next]_vars
             PROVE  CreationSound'
  OBVIOUS
<1> USE DEF db, psp, run, create
<1>1. CASE \E r \in Requests, v \in Verdicts : Announce(r, v)
  BY <1>1 DEF Announce, CreationSound
<1>2. CASE \E k \in Keys : ForgetKey(k)
  BY <1>2 DEF ForgetKey, CreationSound
<1>3. ASSUME NEW h \in Handlers, NEW r \in Requests, NEW v \in Verdicts, Deliver(h, r, v)
      PROVE  CreationSound'
  BY <1>3, ConstantsSound DEF Deliver, Start, Step, CreationSound, Typed, TypeOK, Agents
<1>4. CASE UNCHANGED vars
  BY <1>4 DEF vars, CreationSound
<1> QED
  BY <1>1, <1>2, <1>3, <1>4, CreationByCreate, CreationByRuns DEF Next, Runs, Agents

LEMMA AlwaysCreationSound == Spec => []CreationSound
<1>1. Init => CreationSound
  BY ConstantsSound DEF Init, CreationSound, Agents
<1> QED
  BY AlwaysTyped, CreationStep, <1>1, PTL DEF Spec

(* The unconditional writes that end CreatePaymentIntent never hit an      *)
(* intent that was settled as succeeded while the call was still running.  *)
THEOREM CreationIsHarmless == Spec => CreateSparesSettled
<1>1. ASSUME Typed, CreationSound, [Next]_vars
      PROVE  [\A r \in Requests :
                cpc'[r] # cpc[r] /\ pi[r] = "succeeded" => pi'[r] = "succeeded"]_<<pi, cpc>>
  <2> SUFFICES ASSUME NEW r \in Requests, cpc'[r] # cpc[r], pi[r] = "succeeded"
               PROVE  pi'[r] = "succeeded"
    OBVIOUS
  <2> USE DEF db, psp, run, create
  <2>1. PICK q \in Requests : Create(q) \/ CreateFails(q)
    BY <1>1 DEF Next, vars, Handle, Query, Announce, ForgetKey, Deliver, Start, LookupAttempt,
       ReadIntent, WriteAttempt, WriteStatus, PostEntry, PublishNotification, HandlerFails,
       Finish, FireQuery, AskPSP, WriteStatusSafe, QueryFails
  <2>2. cpc[q] \in CreateSteps /\ \A x \in Requests : x # q => cpc'[x] = cpc[x]
    BY <1>1, <2>1 DEF Create, Replay, Admit, InsertIntent, InsertConflicts, StoreKey,
       CollectionAccepted, CollectionRefused, MarkFailed, SaveAttempt, MarkWaiting, CreateFails,
       GoTo, Return, CreateSteps, Typed, TypeOK
  <2>3. pi[r] \in {"none", "created", "failed"}
    BY <1>1, <2>2 DEF CreationSound
  <2> QED
    BY <2>3
<1> QED
  BY AlwaysTyped, AlwaysCreationSound, <1>1, PTL DEF Spec, CreateSparesSettled

(* The compare-and-set of the delayed query leaves a settled payment alone. *)
THEOREM QueryIsHarmless == Spec => QueryYieldsToVerdict
<1>1. ASSUME Typed, CreationSound, [Next]_vars
      PROVE  [\A q \in Requests :
                pc[q] = "status" /\ pc'[q] # "status" /\ pi[q] \in Verdicts
                  => pi'[q] = pi[q]]_<<pi, pc>>
  <2> SUFFICES ASSUME NEW q \in Requests, pc[q] = "status", pc'[q] # "status",
                      pi[q] \in Verdicts
               PROVE  pi'[q] = pi[q]
    OBVIOUS
  <2>0. job[q].seen \notin Verdicts /\ cpc[q] \in CreateEnds /\ q \in Agents
    BY <1>1 DEF CreationSound, Verdicts, Agents
  <2>1. CASE \E r \in Requests : Create(r) \/ CreateFails(r)
    <3>1. PICK r \in Requests : Create(r) \/ CreateFails(r)
      BY <2>1
    <3>2. cpc[r] \in CreateSteps
      BY <3>1 DEF Create, Replay, Admit, InsertIntent, InsertConflicts, StoreKey,
         CollectionAccepted, CollectionRefused, MarkFailed, SaveAttempt, MarkWaiting,
         CreateFails, CreateSteps
    <3>3. r # q
      BY <2>0, <3>2 DEF CreateSteps, CreateEnds
    <3>4. pi' = pi \/ \E s : pi' = [pi EXCEPT ![r] = s]
      BY <3>1 DEF Create, Replay, Admit, InsertIntent, InsertConflicts, StoreKey,
         CollectionAccepted, CollectionRefused, MarkFailed, SaveAttempt, MarkWaiting,
         CreateFails, db
    <3> QED
      BY <1>1, <3>3, <3>4 DEF Typed, TypeOK
  <2>2. ASSUME NEW a \in Agents, Runs(a)
        PROVE  pi'[q] = pi[q]
    <3>1. a = q
      BY <1>1, <2>2, ConstantsSound DEF Runs, Handle, Query, LookupAttempt, ReadIntent,
         WriteAttempt, WriteStatus, PostEntry, PublishNotification, HandlerFails, Finish,
         FireQuery, AskPSP, WriteStatusSafe, QueryFails, Step, Typed, TypeOK, Agents
    <3>2. WriteStatusSafe(q) \/ QueryFails(q)
      BY <2>2, <3>1, ConstantsSound DEF Runs, Handle, Query, LookupAttempt, ReadIntent,
         WriteAttempt, WriteStatus, PostEntry, PublishNotification, FireQuery, AskPSP
    <3> QED
      BY <2>0, <3>2 DEF WriteStatusSafe, QueryFails, db
  <2> QED
    BY <1>1, <2>1, <2>2
       DEF Next, Runs, Agents, vars, Announce, ForgetKey, Deliver, Start, db, run
<1> QED
  BY AlwaysTyped, AlwaysCreationSound, <1>1, PTL DEF Spec, QueryYieldsToVerdict

-----------------------------------------------------------------------------
(* A call posts the lines of a collection in order from the first one.     *)
PostingSound ==
  \A a \in Agents :
    /\ pc[a] \in {"lookup", "read", "attempt", "status", "armed", "ask"} => job[a].line = 1
    /\ pc[a] = "post" =>
         \A l \in Lines : l < job[a].line => rows[job[a].req][l] > 0
    /\ pc[a] = "publish" /\ job[a].evt = "succeeded" =>
         \A l \in Lines : rows[job[a].req][l] > 0

(* A run that ends takes nothing from what the others have posted.         *)
LEMMA PostingEnds ==
  ASSUME PostingSound, NEW a \in Agents, rows' = rows, pc'[a] \in {"idle", "ack", "nak"},
         \A b \in Agents \ {a} : pc'[b] = pc[b] /\ job'[b] = job[b]
  PROVE  PostingSound'
<1> SUFFICES ASSUME NEW b \in Agents
             PROVE  /\ pc'[b] \in {"lookup", "read", "attempt", "status", "armed", "ask"}
                         => job'[b].line = 1
                    /\ pc'[b] = "post" =>
                         \A l \in Lines : l < job'[b].line => rows'[job'[b].req][l] > 0
                    /\ pc'[b] = "publish" /\ job'[b].evt = "succeeded" =>
                         \A l \in Lines : rows'[job'[b].req][l] > 0
  BY DEF PostingSound
<1>1. CASE b = a
  BY <1>1
<1>2. CASE b # a
  BY <1>2 DEF PostingSound
<1> QED
  BY <1>1, <1>2

LEMMA PostingByRuns ==
  ASSUME Typed, PostingSound, NEW a \in Agents, Runs(a)
  PROVE  PostingSound'
<1> USE ConstantsSound DEF PostingSound, Typed, db, create, Step
<1>0. job[a] \in Jobs
  BY DEF TypeOK
<1>1. CASE LookupAttempt(a)
  BY <1>1 DEF LookupAttempt, TypeOK, JobsSound
<1>2. CASE ReadIntent(a)
  BY <1>0, <1>2 DEF ReadIntent, TypeOK, Jobs
<1>3. CASE WriteAttempt(a)
  BY <1>3 DEF WriteAttempt, TypeOK
<1>4. CASE WriteStatus(a) \/ (WriteStatusSafe(a) /\ pi[a] = job[a].seen)
  <2>1. /\ UNCHANGED <<rows, job>>
        /\ pc[a] = "status"
        /\ pc' = [pc EXCEPT ![a] = AfterStatus(job[a].evt)]
    BY <1>4 DEF WriteStatus, WriteStatusSafe
  <2>2. job[a].line = 1
    BY <2>1
  <2>3. \A l \in Lines : ~(l < 1)
    BY DEF Lines
  <2>4. job[a].evt = "succeeded" => AfterStatus(job[a].evt) = "post"
    BY DEF AfterStatus
  <2>5. AfterStatus(job[a].evt) \in {"post", "publish"}
    BY DEF AfterStatus
  <2> HIDE DEF AfterStatus
  <2> QED
    BY <2>1, <2>2, <2>3, <2>4, <2>5 DEF TypeOK
<1>5. CASE PostEntry(a)
  <2> DEFINE r == job[a].req
             n == job[a].line
  <2>1. /\ r \in Requests /\ n \in Lines /\ n \in Nat /\ job[a].evt = "succeeded"
        /\ \A l \in Lines : l < n => rows[r][l] > 0
    BY <1>0, <1>5 DEF PostEntry, JobsSound, Jobs
  <2>2. rows' = [rows EXCEPT ![r] = [rows[r] EXCEPT ![n] = rows[r][n] + 1]]
    BY <1>5 DEF PostEntry
  <2> HIDE DEF r, n
  <2>3. \A q \in Requests, l \in Lines :
          rows[q][l] \in Nat /\ rows'[q][l] = rows[q][l] + (IF q = r /\ l = n THEN 1 ELSE 0)
    BY <2>1, <2>2 DEF TypeOK
  <2>4. \A q \in Requests, l \in Lines : rows[q][l] > 0 => rows'[q][l] > 0
    BY <2>3
  <2>5. \A l \in Lines : l < n + 1 => rows'[r][l] > 0
    BY <2>1, <2>3 DEF Lines
  <2>6. \A b \in Agents \ {a} : pc'[b] = pc[b] /\ job'[b] = job[b]
    BY <1>5 DEF PostEntry, TypeOK
  <2>7. \A b \in Agents : pc[b] \in {"post", "publish"} => job[b].req \in Requests
    BY DEF JobsSound
  <2>8. \/ pc'[a] = "publish" /\ job'[a] = job[a] /\ n = NumLines
        \/ pc'[a] = "post" /\ job'[a].req = r /\ job'[a].line = n + 1
    BY <1>0, <1>5 DEF PostEntry, TypeOK, Jobs, r, n
  <2>9. pc'[a] = "publish" => \A l \in Lines : rows'[job'[a].req][l] > 0
    BY <2>5, <2>8, OrchestratorConstants DEF Lines, r
  <2>10. pc'[a] = "post" =>
           \A l \in Lines : l < job'[a].line => rows'[job'[a].req][l] > 0
    BY <2>5, <2>8
  <2>11. ASSUME NEW b \in Agents \ {a}, pc'[b] \in {"post", "publish"}
         PROVE  \A l \in Lines :
                  rows[job[b].req][l] > 0 => rows'[job'[b].req][l] > 0
    BY <2>4, <2>6, <2>7, <2>11
  <2> QED
    BY <2>6, <2>8, <2>9, <2>10, <2>11
<1>20. ASSUME NEW x \in {"idle", "ack", "nak"}, rows' = rows, pc' = [pc EXCEPT ![a] = x],
              job' = job \/ job' = [job EXCEPT ![a] = NoJob]
       PROVE  PostingSound'
  <2>1. pc'[a] = x /\ \A b \in Agents \ {a} : pc'[b] = pc[b] /\ job'[b] = job[b]
    BY <1>20 DEF TypeOK
  <2> QED
    BY <1>20, <2>1, PostingEnds
<1>6. CASE PublishNotification(a)
  BY <1>6, <1>20 DEF PublishNotification
<1>7. CASE HandlerFails(a)
  BY <1>7, <1>20 DEF HandlerFails
<1>8. CASE Finish(a) \/ QueryFails(a) \/ (WriteStatusSafe(a) /\ pi[a] # job[a].seen)
  BY <1>8, <1>20 DEF Finish, QueryFails, WriteStatusSafe
<1>9. CASE FireQuery(a)
  <2>1. CASE pi[a] \in {"requires_action", "processing"}
    <3>1. /\ pc[a] = "armed" /\ rows' = rows
          /\ pc' = [pc EXCEPT ![a] = "ask"]
          /\ job' = [job EXCEPT ![a].seen = pi[a]]
      BY <1>9, <2>1 DEF FireQuery
    <3>2. job'[a].line = 1 /\ pc'[a] = "ask"
      BY <1>0, <3>1 DEF TypeOK, Jobs
    <3>3. \A b \in Agents \ {a} : pc'[b] = pc[b] /\ job'[b] = job[b]
      BY <3>1 DEF TypeOK
    <3> QED
      BY <3>1, <3>2, <3>3
  <2>2. CASE pi[a] \notin {"requires_action", "processing"}
    BY <1>9, <1>20, <2>2 DEF FireQuery
  <2> QED
    BY <2>1, <2>2
<1>10. CASE AskPSP(a)
  BY <1>0, <1>10 DEF AskPSP, TypeOK, Jobs
<1> QED
  BY <1>1, <1>2, <1>3, <1>4, <1>5, <1>6, <1>7, <1>8, <1>9, <1>10 DEF Runs, Handle, Query

LEMMA PostingStep == Typed /\ PostingSound /\ [Next]_vars => PostingSound'
<1> SUFFICES ASSUME Typed, PostingSound, [Next]_vars
             PROVE  PostingSound'
  OBVIOUS
<1> USE ConstantsSound DEF Typed, PostingSound, Step
<1>1. ASSUME NEW r \in Requests, Create(r) \/ CreateFails(r)
      PROVE  PostingSound'
  <2>1. CASE MarkWaiting(r)
    <3>1. \A a \in Agents :
            \/ pc'[a] = pc[a] /\ job'[a] = job[a]
            \/ pc'[a] = "armed" /\ job'[a].line = 1
      <4>1. CASE r \in MpesaRequests
        <5>1. pc' = [pc EXCEPT ![r] = "armed"] /\ job' = [job EXCEPT ![r] = [NoJob EXCEPT !.req = r]]
          BY <2>1, <4>1 DEF MarkWaiting
        <5>2. [NoJob EXCEPT !.req = r].line = 1
          BY DEF NoJob
        <5> QED
          BY <5>1, <5>2 DEF TypeOK, Agents
      <4>2. CASE r \notin MpesaRequests
        BY <2>1, <4>2 DEF MarkWaiting, run
      <4> QED
        BY <4>1, <4>2
    <3>2. rows' = rows
      BY <2>1 DEF MarkWaiting
    <3> QED
      BY <3>1, <3>2
  <2>2. CASE ~MarkWaiting(r)
    BY <1>1, <2>2 DEF Create, Replay, Admit, InsertIntent, InsertConflicts, StoreKey,
       CollectionAccepted, CollectionRefused, MarkFailed, SaveAttempt, CreateFails, db, run
  <2> QED
    BY <2>1, <2>2
<1>2. CASE \/ \E r \in Requests, v \in Verdicts : Announce(r, v)
           \/ \E k \in Keys : ForgetKey(k)
  BY <1>2 DEF Announce, ForgetKey, db, run
<1>3. ASSUME NEW h \in Handlers, NEW r \in Requests, NEW v \in Verdicts, Deliver(h, r, v)
      PROVE  PostingSound'
  BY <1>3 DEF Deliver, Start, TypeOK, NoJob, Agents, db
<1>4. ASSUME NEW a \in Agents, Runs(a)
      PROVE  PostingSound'
  BY <1>4, PostingByRuns
<1>5. CASE UNCHANGED vars
  BY <1>5 DEF vars
<1> QED
  BY <1>1, <1>2, <1>3, <1>4, <1>5 DEF Next, Runs, Agents

LEMMA AlwaysPostingSound == Spec => []PostingSound
<1>1. Init => PostingSound
  BY ConstantsSound DEF Init, PostingSound, NoJob
<1> QED
  BY AlwaysTyped, PostingStep, <1>1, PTL DEF Spec

LEMMA NotifiedStep ==
  Typed /\ PostingSound /\ NotifiedAfterBooked /\ [Next]_vars => NotifiedAfterBooked'
<1> SUFFICES ASSUME Typed, PostingSound, NotifiedAfterBooked, [Next]_vars
             PROVE  NotifiedAfterBooked'
  OBVIOUS
<1> USE DEF Typed, NotifiedAfterBooked
<1>1. \A r \in Requests, l \in Lines : rows[r][l] > 0 => rows'[r][l] > 0
  <2>1. CASE \E a \in Agents : PostEntry(a)
    <3> PICK a \in Agents : PostEntry(a)
      BY <2>1
    <3>1. job[a].req \in Requests /\ job[a].line \in Lines
      BY DEF PostEntry, JobsSound, TypeOK, Jobs
    <3>2. rows' = [rows EXCEPT ![job[a].req] =
                      [rows[job[a].req] EXCEPT ![job[a].line] = rows[job[a].req][job[a].line] + 1]]
      BY DEF PostEntry
    <3> QED
      BY <3>1, <3>2 DEF TypeOK
  <2>2. CASE ~\E a \in Agents : PostEntry(a)
    <3>1. rows' = rows
      BY <2>2 DEF Next, vars, db, Create, Replay, Admit, InsertIntent, InsertConflicts, StoreKey,
         CollectionAccepted, CollectionRefused, MarkFailed, SaveAttempt, MarkWaiting,
         CreateFails, Announce, ForgetKey, Deliver, Start, Handle, HandlerFails, Finish, Query,
         QueryFails, LookupAttempt, ReadIntent, WriteAttempt, WriteStatus,
         PublishNotification, FireQuery, AskPSP, WriteStatusSafe, Agents
    <3> QED
      BY <3>1
  <2> QED
    BY <2>1, <2>2
<1>2. ASSUME NEW r \in Requests, "succeeded" \in told'[r]
      PROVE  \A l \in Lines : rows[r][l] > 0
  <2>1. CASE "succeeded" \in told[r]
    BY <2>1
  <2>2. CASE "succeeded" \notin told[r]
    <3>1. PICK a \in Agents : PublishNotification(a)
      BY <1>2, <2>2 DEF Next, vars, Create, Replay, Admit, InsertIntent, InsertConflicts, StoreKey,
         CollectionAccepted, CollectionRefused, MarkFailed, SaveAttempt, MarkWaiting,
         CreateFails, Announce, ForgetKey, Deliver, Start, Handle, HandlerFails, Finish, Query,
         QueryFails, LookupAttempt, ReadIntent, WriteAttempt, WriteStatus, PostEntry,
         FireQuery, AskPSP, WriteStatusSafe, Agents
    <3>2. told' = [told EXCEPT ![job[a].req] = @ \cup {job[a].evt}]
      BY <1>2, <2>2, <3>1 DEF PublishNotification
    <3>3. job[a].req = r /\ job[a].evt = "succeeded" /\ pc[a] = "publish"
      BY <1>2, <2>2, <3>1, <3>2 DEF PublishNotification, TypeOK
    <3> QED
      BY <3>3 DEF PostingSound
  <2> QED
    BY <2>1, <2>2
<1> QED
  BY <1>1, <1>2

(* No success is announced to a merchant before every entry of the          *)
(* collection is in the ledger, whoever settles the payment.               *)
THEOREM NotifiesAfterBooking == Spec => []NotifiedAfterBooked
<1>1. Init => NotifiedAfterBooked
  BY DEF Init, NotifiedAfterBooked
<1> QED
  BY AlwaysTyped, AlwaysPostingSound, NotifiedStep, <1>1, PTL DEF Spec

-----------------------------------------------------------------------------
(***************************************************************************)
(* The promises that hold only while nothing overlaps. The section that    *)
(* matters begins when a handler or a query judges the transition and ends *)
(* with the last ledger entry; the code has no lock that would keep two of *)
(* them apart. As long as no two work on one payment at the same time, a   *)
(* collection is booked once and "succeeded" is final, however the         *)
(* payments, the calls and the failures interleave.                        *)
(***************************************************************************)

Settling(a) == pc[a] \in {"attempt", "status", "post"}

NoOverlap ==
  \A a, b \in Agents :
    Settling(a) /\ Settling(b) /\ job[a].req = job[b].req => a = b

(* What a step of a handler or a query means to the payment it works on:   *)
(* it leaves the section or stays outside, enters it, goes on in it,       *)
(* settles the payment, or posts an entry.                                 *)
StaysOut(a) == UNCHANGED <<pi, rows>> /\ ~Settling(a)'

Judges(a) ==
  /\ UNCHANGED <<pi, rows>>
  /\ pc[a] \in {"read", "ask"} /\ pc'[a] = "attempt"
  /\ job[a].req \in Requests /\ job'[a].req = job[a].req
  /\ a \in Handlers =>
       /\ job'[a].evt = job[a].evt /\ job[a].evt \in Verdicts
       /\ IsValidTransition(pi[job[a].req], job[a].evt)

GoesOn(a) ==
  UNCHANGED <<pi, rows, job>> /\ pc[a] = "attempt" /\ pc'[a] = "status"

Settles(a) ==
  /\ UNCHANGED <<rows, job>>
  /\ pc[a] = "status" /\ pc'[a] = AfterStatus(job[a].evt)
  /\ job[a].req \in Requests /\ job[a].evt \in Verdicts
  /\ pi' = [pi EXCEPT ![job[a].req] = job[a].evt]
  /\ a \in Requests =>
       pi[job[a].req] = job[a].seen /\ job[a].seen \in {"requires_action", "processing"}

Others(a) == \A b \in Agents : b # a => pc'[b] = pc[b] /\ job'[b] = job[b]

LEMMA RunKinds ==
  ASSUME Typed, CreationSound, NEW a \in Agents, Runs(a)
  PROVE  /\ Others(a)
         /\ StaysOut(a) \/ Judges(a) \/ GoesOn(a) \/ Settles(a) \/ PostEntry(a)
<1> USE DEF Typed, Step, db
<1>0. job[a] \in Jobs /\ job \in [Agents -> Jobs] /\ DOMAIN pc = Agents
  BY DEF TypeOK
<1>1. Others(a)
  BY <1>0 DEF Others, Runs, Handle, Query, LookupAttempt, ReadIntent, WriteAttempt, WriteStatus,
     PostEntry, PublishNotification, HandlerFails, Finish, FireQuery, AskPSP, WriteStatusSafe,
     QueryFails
<1>2. CASE \/ LookupAttempt(a) \/ PublishNotification(a) \/ HandlerFails(a) \/ Finish(a)
           \/ FireQuery(a) \/ QueryFails(a)
  <2>1. /\ UNCHANGED <<pi, rows>>
        /\ \E p \in {"nak", "read", "ack", "idle", "ask"} : pc' = [pc EXCEPT ![a] = p]
    BY <1>2 DEF LookupAttempt, PublishNotification, HandlerFails, Finish, FireQuery, QueryFails
  <2> QED
    BY <1>0, <1>1, <2>1 DEF StaysOut, Settling
<1>3. CASE a \in Handlers /\ ReadIntent(a)
  <2>1. /\ UNCHANGED <<pi, rows>> /\ pc[a] = "read"
        /\ job[a].req \in Requests /\ job[a].evt \in Verdicts
        /\ job' = [job EXCEPT ![a].seen = pi[job[a].req]]
        /\ pc' = [pc EXCEPT ![a] = IF IsValidTransition(pi[job[a].req], job[a].evt)
                                     THEN "attempt" ELSE "ack"]
    BY <1>3 DEF ReadIntent, JobsSound
  <2>2. job'[a].req = job[a].req /\ job'[a].evt = job[a].evt
    BY <1>0, <2>1 DEF Jobs
  <2>3. CASE IsValidTransition(pi[job[a].req], job[a].evt)
    BY <1>0, <1>1, <2>1, <2>2, <2>3 DEF Judges
  <2>4. CASE ~IsValidTransition(pi[job[a].req], job[a].evt)
    BY <1>0, <1>1, <2>1, <2>4 DEF StaysOut, Settling
  <2> QED
    BY <2>3, <2>4
<1>4. CASE a \in Requests /\ AskPSP(a)
  <2>1. /\ UNCHANGED <<pi, rows>> /\ pc[a] = "ask" /\ pc'[a] = "attempt"
        /\ \E v \in GetStatus(a) : job' = [job EXCEPT ![a].evt = v]
        /\ a \notin Handlers
    BY <1>0, <1>4, ConstantsSound DEF AskPSP
  <2>2. job'[a].req = job[a].req /\ job[a].req \in Requests
    BY <1>0, <1>4, <2>1 DEF Jobs, JobsSound
  <2> QED
    BY <1>1, <2>1, <2>2 DEF Judges
<1>5. CASE WriteAttempt(a)
  BY <1>0, <1>1, <1>5 DEF WriteAttempt, GoesOn
<1>6. CASE a \in Handlers /\ WriteStatus(a)
  BY <1>0, <1>1, <1>6, ConstantsSound DEF WriteStatus, Settles, JobsSound
<1>7. CASE a \in Requests /\ WriteStatusSafe(a)
  <2>1. /\ job[a].req = a /\ job[a].evt \in Verdicts
        /\ job[a].seen \in {"requires_action", "processing"}
    BY <1>7 DEF WriteStatusSafe, JobsSound, CreationSound
  <2>2. CASE pi[a] = job[a].seen
    BY <1>0, <1>1, <1>7, <2>1, <2>2 DEF WriteStatusSafe, Settles
  <2>3. CASE pi[a] # job[a].seen
    BY <1>0, <1>1, <1>7, <2>3 DEF WriteStatusSafe, StaysOut, Settling
  <2> QED
    BY <2>2, <2>3
<1> QED
  BY <1>1, <1>2, <1>3, <1>4, <1>5, <1>6, <1>7 DEF Runs, Handle, Query

(* A handler that is about to settle a payment finds it not succeeded, and *)
(* whoever posts a collection has its payment succeeded and exactly the    *)
(* lines before the one it is at in the ledger.                            *)
BookingSound ==
  /\ \A r \in Requests, l \in Lines :
       /\ rows[r][l] <= 1
       /\ pi[r] # "succeeded" => rows[r][l] = 0
  /\ \A h \in Handlers :
       pc[h] \in {"attempt", "status"} => pi[job[h].req] # "succeeded"
  /\ \A a \in Agents : pc[a] = "post" =>
       /\ pi[job[a].req] = "succeeded"
       /\ \A l \in Lines :
            rows[job[a].req][l] = IF l < job[a].line THEN 1 ELSE 0

SucceededStays == \A r \in Requests : pi[r] = "succeeded" => pi'[r] = "succeeded"

(* A step of anything but a handler or a query.                            *)
LEMMA BookingElsewhere ==
  ASSUME Typed, CreationSound, BookingSound,
         \/ \E r \in Requests : Create(r) \/ CreateFails(r)
         \/ \E r \in Requests, v \in Verdicts : Announce(r, v)
         \/ \E k \in Keys : ForgetKey(k)
         \/ UNCHANGED vars
  PROVE  BookingSound' /\ SucceededStays
<1> USE DEF Typed
<1>1. /\ UNCHANGED rows
      /\ \/ pi' = pi
         \/ \E r \in Requests, s \in {"created", "failed", "requires_action"} :
              cpc[r] \in CreateSteps /\ pi' = [pi EXCEPT ![r] = s]
  BY DEF Create, Replay, Admit, InsertIntent, InsertConflicts, StoreKey,
     CollectionAccepted, CollectionRefused, MarkFailed, SaveAttempt, MarkWaiting, CreateFails,
     Announce, ForgetKey, InitialStatus, CreateSteps, db, run, vars
<1>2. \A a \in Agents : Settling(a)' => pc'[a] = pc[a] /\ job'[a] = job[a]
  <2>1. \/ UNCHANGED <<pc, job>>
        \/ \E r \in Requests : /\ pc' = [pc EXCEPT ![r] = "armed"]
                               /\ job' = [job EXCEPT ![r] = [NoJob EXCEPT !.req = r]]
    BY DEF Create, Replay, Admit, InsertIntent, InsertConflicts, StoreKey,
       CollectionAccepted, CollectionRefused, MarkFailed, SaveAttempt, MarkWaiting, CreateFails,
       Announce, ForgetKey, run, vars
  <2> QED
    BY <2>1 DEF Settling, TypeOK, Agents
<1>3. \A r \in Requests : cpc[r] \in CreateSteps => pi[r] # "succeeded"
  BY DEF CreationSound
<1>4. \A r \in Requests : pi'[r] = "succeeded" <=> pi[r] = "succeeded"
  BY <1>1, <1>3 DEF TypeOK
<1>5. SucceededStays
  BY <1>4 DEF SucceededStays
<1>6. \A a \in Agents : Settling(a) => job[a].req \in Requests
  BY DEF JobsSound, Settling
<1>7. BookingSound'
  BY <1>1, <1>2, <1>4, <1>6 DEF BookingSound, Settling, Agents
<1> QED
  BY <1>5, <1>7

(* A payment is settled: nobody else is in the section of that payment.    *)
LEMMA BookingBySettling ==
  ASSUME NoOverlap, Typed, PostingSound, BookingSound, NEW a \in Agents, Others(a), Settles(a)
  PROVE  BookingSound' /\ SucceededStays
<1> USE DEF Typed
<1> DEFINE r == job[a].req
           v == job[a].evt
<1>1. /\ r \in Requests /\ v \in Verdicts /\ job[a].line = 1
      /\ UNCHANGED <<rows, job>>
      /\ pi' = [pi EXCEPT ![r] = v]
      /\ pc[a] = "status"
  BY DEF Settles, PostingSound
<1>2. pi[r] # "succeeded"
  BY DEF Settles, BookingSound, Agents
<1>3. pc'[a] = IF v = "succeeded" THEN "post" ELSE "publish"
  BY DEF Settles, AfterStatus
<1>4. \A b \in Agents : b # a /\ Settling(b) => job[b].req # r
  BY <1>1 DEF NoOverlap, Settling
<1>5. \A b \in Agents : Settling(b) => job[b].req \in Requests
  BY DEF JobsSound, Settling
<1> HIDE DEF r, v
<1>6. \A q \in Requests : q # r => pi'[q] = pi[q]
  BY <1>1 DEF TypeOK
<1>7. pi'[r] = v
  BY <1>1 DEF TypeOK
<1>8. SucceededStays
  BY <1>2, <1>6 DEF SucceededStays
<1>9. \A l \in Lines : rows[r][l] = 0 /\ ~(l < 1)
  BY <1>1, <1>2 DEF BookingSound, Lines
<1>10. \A q \in Requests, l \in Lines : pi'[q] # "succeeded" => rows'[q][l] = 0
  BY <1>1, <1>6, <1>9 DEF BookingSound
<1>11. ASSUME NEW h \in Handlers, pc'[h] \in {"attempt", "status"}
       PROVE  pi'[job'[h].req] # "succeeded"
  <2>1. h # a /\ h \in Agents
    BY <1>3, <1>11 DEF Agents
  <2>2. pc[h] \in {"attempt", "status"} /\ job'[h] = job[h]
    BY <1>11, <2>1 DEF Others
  <2> QED
    BY <1>4, <1>5, <1>6, <2>1, <2>2 DEF BookingSound, Settling
<1>12. ASSUME NEW b \in Agents, pc'[b] = "post"
       PROVE  /\ pi'[job'[b].req] = "succeeded"
              /\ \A l \in Lines :
                   rows'[job'[b].req][l] = IF l < job'[b].line THEN 1 ELSE 0
  <2>1. CASE b = a
    BY <1>1, <1>3, <1>7, <1>9, <1>12, <2>1 DEF r
  <2>2. CASE b # a
    <3>1. pc[b] = "post" /\ job'[b] = job[b]
      BY <1>12, <2>2 DEF Others
    <3>2. job[b].req # r /\ job[b].req \in Requests
      BY <1>4, <1>5, <2>2, <3>1 DEF Settling
    <3> QED
      BY <1>1, <1>6, <3>1, <3>2 DEF BookingSound
  <2> QED
    BY <2>1, <2>2
<1> QED
  BY <1>1, <1>8, <1>10, <1>11, <1>12 DEF BookingSound

(* An entry is posted: only the one who posts it counts on the others.     *)
LEMMA BookingByPosting ==
  ASSUME NoOverlap, Typed, BookingSound, NEW a \in Agents, Others(a), PostEntry(a)
  PROVE  BookingSound' /\ SucceededStays
<1> USE ConstantsSound DEF Typed, db, Step
<1> DEFINE r == job[a].req
           n == job[a].line
<1>0. job[a] \in Jobs
  BY DEF TypeOK
<1>1. /\ r \in Requests /\ n \in Lines /\ n \in Nat
      /\ pc[a] = "post" /\ pi[r] = "succeeded" /\ pi' = pi
      /\ \A l \in Lines : rows[r][l] = IF l < n THEN 1 ELSE 0
  BY <1>0 DEF PostEntry, JobsSound, Jobs, BookingSound
<1>2. rows' = [rows EXCEPT ![r] = [rows[r] EXCEPT ![n] = rows[r][n] + 1]]
  BY DEF PostEntry
<1>3. /\ pc'[a] \in {"publish", "post"}
      /\ pc'[a] = "post" => job'[a].req = r /\ job'[a].line = n + 1
  <2>1. CASE n = NumLines
    <3>1. pc' = [pc EXCEPT ![a] = "publish"]
      BY <2>1 DEF PostEntry
    <3> QED
      BY <3>1 DEF TypeOK
  <2>2. CASE n # NumLines
    <3>1. pc[a] = "post" /\ pc' = pc /\ job' = [job EXCEPT ![a] = [job[a] EXCEPT !.line = n + 1]]
      BY <2>2 DEF PostEntry
    <3>2. [job[a] EXCEPT !.line = n + 1].line = n + 1 /\ [job[a] EXCEPT !.line = n + 1].req = r
      BY <1>0 DEF Jobs
    <3> QED
      BY <3>1, <3>2 DEF TypeOK
  <2> QED
    BY <2>1, <2>2
<1>4. \A b \in Agents : b # a /\ Settling(b) => job[b].req # r
  BY <1>1 DEF NoOverlap, Settling
<1>5. \A b \in Agents : Settling(b) => job[b].req \in Requests
  BY DEF JobsSound, Settling
<1> HIDE DEF r, n
<1>6. \A q \in Requests, l \in Lines :
        rows[q][l] \in Nat /\ rows'[q][l] = rows[q][l] + (IF q = r /\ l = n THEN 1 ELSE 0)
  BY <1>1, <1>2 DEF TypeOK
<1>7. ASSUME NEW l \in Lines
      PROVE  rows'[r][l] = IF l < n + 1 THEN 1 ELSE 0
  <2>1. l \in Nat /\ rows'[r][l] = rows[r][l] + (IF l = n THEN 1 ELSE 0)
    BY <1>1, <1>6 DEF Lines
  <2>2. rows[r][l] = IF l < n THEN 1 ELSE 0
    BY <1>1
  <2> QED
    BY <1>1, <2>1, <2>2
<1>8. \A q \in Requests, l \in Lines :
        /\ rows'[q][l] <= 1
        /\ pi'[q] # "succeeded" => rows'[q][l] = 0
  BY <1>1, <1>6, <1>7 DEF BookingSound
<1>9. ASSUME NEW h \in Handlers, pc'[h] \in {"attempt", "status"}
      PROVE  pi'[job'[h].req] # "succeeded"
  <2>1. h # a /\ h \in Agents
    BY <1>3, <1>9 DEF Agents
  <2>2. pc[h] \in {"attempt", "status"} /\ job'[h] = job[h]
    BY <1>9, <2>1 DEF Others
  <2> QED
    BY <1>1, <2>2 DEF BookingSound
<1>10. ASSUME NEW b \in Agents, pc'[b] = "post"
       PROVE  /\ pi'[job'[b].req] = "succeeded"
              /\ \A l \in Lines :
                   rows'[job'[b].req][l] = IF l < job'[b].line THEN 1 ELSE 0
  <2>1. CASE b = a
    BY <1>1, <1>3, <1>7, <1>10, <2>1
  <2>2. CASE b # a
    <3>1. pc[b] = "post" /\ job'[b] = job[b]
      BY <1>10, <2>2 DEF Others
    <3>2. job[b].req # r /\ job[b].req \in Requests
      BY <1>4, <1>5, <2>2, <3>1 DEF Settling
    <3>3. \A l \in Lines : rows'[job[b].req][l] = rows[job[b].req][l]
      BY <1>6, <3>2
    <3> QED
      BY <1>1, <3>1, <3>3 DEF BookingSound
  <2> QED
    BY <2>1, <2>2
<1>11. SucceededStays
  BY <1>1 DEF SucceededStays
<1> QED
  BY <1>8, <1>9, <1>10, <1>11 DEF BookingSound

LEMMA BookingByAgent ==
  ASSUME NoOverlap, Typed, PostingSound, BookingSound, NEW a \in Agents, Others(a),
         StaysOut(a) \/ Judges(a) \/ GoesOn(a) \/ Settles(a) \/ PostEntry(a)
  PROVE  BookingSound' /\ SucceededStays
<1>1. CASE StaysOut(a) \/ Judges(a) \/ GoesOn(a)
  <2>1. UNCHANGED <<pi, rows>> /\ pc'[a] # "post"
    BY <1>1 DEF StaysOut, Judges, GoesOn, Settling
  <2>2. ASSUME a \in Handlers, pc'[a] \in {"attempt", "status"}
        PROVE  pi'[job'[a].req] # "succeeded"
    <3>1. CASE Judges(a)
      BY <2>1, <2>2, <3>1, SettlingEdges DEF Judges
    <3>2. CASE GoesOn(a)
      BY <2>2, <3>2 DEF GoesOn, BookingSound
    <3> QED
      BY <1>1, <2>2, <3>1, <3>2 DEF StaysOut, Settling
  <2> QED
    BY <2>1, <2>2 DEF Others, BookingSound, SucceededStays, Agents
<1> QED
  BY <1>1, BookingBySettling, BookingByPosting

LEMMA BookingStep ==
  ASSUME NoOverlap, Typed, CreationSound, PostingSound, BookingSound, [Next]_vars
  PROVE  BookingSound' /\ SucceededStays
<1>1. ASSUME NEW h \in Handlers, NEW r \in Requests, NEW v \in Verdicts, Deliver(h, r, v)
      PROVE  BookingSound' /\ SucceededStays
  <2>1. StaysOut(h) /\ Others(h) /\ h \in Agents
    BY <1>1 DEF Deliver, Start, Step, Typed, TypeOK, StaysOut, Others, Settling, Agents, db
  <2> QED
    BY <2>1, BookingByAgent
<1> QED
  BY <1>1, BookingElsewhere, RunKinds, BookingByAgent DEF Next, Runs, Agents

LEMMA AlwaysBookingSound == Spec /\ []NoOverlap => []BookingSound
<1>1. Init => BookingSound
  BY ConstantsSound DEF Init, BookingSound, Agents
<1>2. NoOverlap /\ Typed /\ CreationSound /\ PostingSound /\ BookingSound /\ [Next]_vars
        => BookingSound'
  BY BookingStep
<1> QED
  BY AlwaysTyped, AlwaysCreationSound, AlwaysPostingSound, <1>1, <1>2, PTL DEF Spec

(* As long as no two executions settle one payment at the same time, a     *)
(* collection is in the ledger at most once, wherever an execution fails   *)
(* and however often the event comes back: a double booking takes an       *)
(* overlap of two executions for the same payment.                         *)
THEOREM BooksOnceWithoutOverlap == Spec /\ []NoOverlap => []BookedAtMostOnce
<1>1. BookingSound => BookedAtMostOnce
  BY DEF BookingSound, BookedAtMostOnce
<1> QED
  BY AlwaysBookingSound, <1>1, PTL

(* Under the same condition "succeeded" is never overwritten, neither by a *)
(* late failure nor by a query nor by the call that created the payment.   *)
THEOREM SuccessIsFinalWithoutOverlap == Spec /\ []NoOverlap => SucceededIsFinal
<1>1. NoOverlap /\ Typed /\ CreationSound /\ PostingSound /\ BookingSound /\ [Next]_vars
        => [SucceededStays]_pi
  BY BookingStep
<1>2. [][SucceededStays]_pi => SucceededIsFinal
  BY PTL DEF SucceededIsFinal, SucceededStays
<1> QED
  BY AlwaysTyped, AlwaysCreationSound, AlwaysPostingSound, AlwaysBookingSound, <1>1, <1>2, PTL
     DEF Spec

-----------------------------------------------------------------------------
(* A deployment where nothing overlaps: one handler at a time and card     *)
(* payments only, so that there is no delayed query.                       *)

OneHandler == \A g, h \in Handlers : g = h
NoQueries == MpesaRequests = {}

QueriesIdle == \A q \in Requests : pc[q] = "idle"

LEMMA AlwaysQueriesIdle ==
  ASSUME NoQueries
  PROVE  Spec => []QueriesIdle
<1>1. Init => QueriesIdle
  BY DEF Init, QueriesIdle, Agents
<1>2. ASSUME Typed, QueriesIdle, [Next]_vars
      PROVE  QueriesIdle'
  <2>1. ASSUME NEW q \in Requests PROVE ~(Query(q) \/ QueryFails(q))
    BY <1>2, ConstantsSound DEF QueriesIdle, Query, QueryFails, QuerySteps, FireQuery, AskPSP,
       WriteAttempt, WriteStatusSafe, PostEntry, PublishNotification
  <2>2. ASSUME NEW h \in Handlers, NEW q \in Requests,
               \/ Handle(h) \/ HandlerFails(h) \/ Finish(h)
               \/ \E r \in Requests, v \in Verdicts : Deliver(h, r, v)
        PROVE  pc'[q] = pc[q]
    <3>1. h # q /\ h \in Agents /\ q \in Agents
      BY ConstantsSound DEF Agents
    <3> QED
      BY <1>2, <2>2, <3>1 DEF Typed, TypeOK, Handle, LookupAttempt, ReadIntent, WriteAttempt,
         WriteStatus, PostEntry, PublishNotification, HandlerFails, Finish, Deliver, Start, Step
  <2>3. ASSUME NEW r \in Requests, Create(r) \/ CreateFails(r)
        PROVE  pc' = pc
    BY <2>3 DEF NoQueries, Create, Replay, Admit, InsertIntent, InsertConflicts, StoreKey,
       CollectionAccepted, CollectionRefused, MarkFailed, SaveAttempt, MarkWaiting, CreateFails,
       run
  <2> QED
    BY <1>2, <2>1, <2>2, <2>3 DEF Next, QueriesIdle, Announce, ForgetKey, run, vars
<1> QED
  BY AlwaysTyped, <1>1, <1>2, PTL DEF Spec

LEMMA AloneIsApart ==
  ASSUME OneHandler, NoQueries
  PROVE  Spec => []NoOverlap
<1>1. QueriesIdle => NoOverlap
  BY DEF OneHandler, QueriesIdle, NoOverlap, Settling, Agents
<1> QED
  BY AlwaysQueriesIdle, <1>1, PTL

(* With one handler at a time and no delayed query, a collection is in the *)
(* ledger at most once.                                                    *)
THEOREM BooksAtMostOnce ==
  ASSUME OneHandler, NoQueries
  PROVE  Spec => []BookedAtMostOnce
BY AloneIsApart, BooksOnceWithoutOverlap, PTL

(* Under the same conditions "succeeded" is never overwritten.             *)
THEOREM SuccessIsFinal ==
  ASSUME OneHandler, NoQueries
  PROVE  Spec => SucceededIsFinal
BY AloneIsApart, SuccessIsFinalWithoutOverlap, PTL

-----------------------------------------------------------------------------
(***************************************************************************)
(* The promise that overlapping executions keep all the same. Behind every *)
(* entry that is missing after its predecessor there is an execution that  *)
(* broke off, or one that has yet to post it: the executions at an entry   *)
(* are counted with it.                                                    *)
(***************************************************************************)

At(r, l) == {a \in Agents : pc[a] = "post" /\ job[a].req = r /\ job[a].line = l}

OrderSound ==
  \A r \in Requests, l \in Lines :
    /\ IsFiniteSet(At(r, l))
    /\ l > 1 => rows[r][l] + Cardinality(At(r, l)) <= rows[r][l - 1]

(* Nobody but at a first entry begins to post.                             *)
NobodyComes ==
  /\ UNCHANGED rows
  /\ \A r \in Requests, l \in Lines :
       \/ At(r, l)' \subseteq At(r, l)
       \/ l = 1 /\ \E a : At(r, l)' \subseteq At(r, l) \cup {a}

LEMMA OrderWhenNobodyComes ==
  ASSUME Typed, OrderSound, NobodyComes
  PROVE  OrderSound'
<1> SUFFICES ASSUME NEW r \in Requests, NEW l \in Lines
             PROVE  /\ IsFiniteSet(At(r, l)')
                    /\ l > 1 => rows[r][l] + Cardinality(At(r, l)') <= rows[r][l - 1]
  BY DEF OrderSound, NobodyComes
<1>1. IsFiniteSet(At(r, l)) /\ Cardinality(At(r, l)) \in Nat
  BY FS_CardinalityType DEF OrderSound
<1>2. CASE At(r, l)' \subseteq At(r, l)
  <2>1. IsFiniteSet(At(r, l)') /\ Cardinality(At(r, l)') <= Cardinality(At(r, l))
    BY <1>1, <1>2, FS_Subset
  <2>2. Cardinality(At(r, l)') \in Nat
    BY <2>1, FS_CardinalityType
  <2>3. l > 1 => rows[r][l] \in Nat /\ rows[r][l - 1] \in Nat
    BY OrchestratorConstants DEF Typed, TypeOK, Lines
  <2> QED
    BY <1>1, <2>1, <2>2, <2>3 DEF OrderSound
<1>3. ASSUME l = 1, NEW a, At(r, l)' \subseteq At(r, l) \cup {a}
      PROVE  IsFiniteSet(At(r, l)')
  BY <1>1, <1>3, FS_AddElement, FS_Subset
<1> QED
  BY <1>2, <1>3 DEF NobodyComes

(* Who posts an entry moves on to the next one.                            *)
LEMMA OrderByPosting ==
  ASSUME Typed, OrderSound, NEW a \in Agents, Others(a), PostEntry(a)
  PROVE  OrderSound'
<1> DEFINE q == job[a].req
           n == job[a].line
<1>1. /\ q \in Requests /\ n \in Lines /\ n \in Nat /\ a \in At(q, n)
      /\ job[a] \in Jobs /\ Lines = 1..NumLines /\ NumLines \in Nat
  BY OrchestratorConstants DEF Typed, TypeOK, JobsSound, Jobs, PostEntry, At, Lines
<1>2. \A r \in Requests, l \in Lines :
        /\ rows[r][l] \in Nat
        /\ rows'[r][l] = IF r = q /\ l = n THEN rows[r][l] + 1 ELSE rows[r][l]
  BY <1>1 DEF PostEntry, Typed, TypeOK
<1>3. \/ pc'[a] = "publish"
      \/ pc'[a] = "post" /\ job'[a].req = q /\ job'[a].line = n + 1
  BY <1>1 DEF PostEntry, Step, Typed, TypeOK, Jobs
<1> HIDE DEF q, n
<1>4. ASSUME NEW r \in Requests, NEW l \in Lines
      PROVE  /\ IsFiniteSet(At(r, l)) /\ Cardinality(At(r, l)) \in Nat
             /\ IsFiniteSet(At(r, l)') /\ Cardinality(At(r, l)') \in Nat
             /\ Cardinality(At(r, l)') <= Cardinality(At(r, l))
                  + (IF r = q /\ l = n + 1 THEN 1 ELSE IF r = q /\ l = n THEN -1 ELSE 0)
  <2>1. IsFiniteSet(At(r, l)) /\ Cardinality(At(r, l)) \in Nat
    BY FS_CardinalityType DEF OrderSound
  <2>2. \A b : b # a => (b \in At(r, l)' <=> b \in At(r, l))
    BY DEF At, Others
  <2>3. CASE r = q /\ l = n + 1
    <3>1. At(r, l)' \subseteq At(r, l) \cup {a}
      BY <2>2
    <3>2. /\ IsFiniteSet(At(r, l) \cup {a})
          /\ Cardinality(At(r, l) \cup {a}) <= Cardinality(At(r, l)) + 1
      <4>1. /\ IsFiniteSet(At(r, l) \cup {a})
            /\ Cardinality(At(r, l) \cup {a}) =
                 IF a \in At(r, l) THEN Cardinality(At(r, l)) ELSE Cardinality(At(r, l)) + 1
        BY <2>1, FS_AddElement
      <4> QED
        BY <2>1, <4>1
    <3>3. /\ IsFiniteSet(At(r, l)')
          /\ Cardinality(At(r, l)') <= Cardinality(At(r, l) \cup {a})
      BY <3>1, <3>2, FS_Subset
    <3>4. Cardinality(At(r, l)') \in Nat /\ Cardinality(At(r, l) \cup {a}) \in Nat
      BY <3>2, <3>3, FS_CardinalityType
    <3> QED
      BY <2>1, <2>3, <3>2, <3>3, <3>4
  <2>4. CASE r = q /\ l = n
    <3>1. a \in At(r, l) /\ a \notin At(r, l)'
      BY <1>1, <1>3, <2>4 DEF At
    <3>2. At(r, l)' = At(r, l) \ {a}
      BY <2>2, <3>1
    <3>3. /\ IsFiniteSet(At(r, l)')
          /\ Cardinality(At(r, l)') = Cardinality(At(r, l)) - 1
      BY <2>1, <3>1, <3>2, FS_RemoveElement
    <3>4. Cardinality(At(r, l)') \in Nat
      BY <3>3, FS_CardinalityType
    <3> QED
      BY <1>1, <2>1, <2>4, <3>3, <3>4
  <2>5. CASE ~(r = q /\ l = n + 1) /\ ~(r = q /\ l = n)
    <3>1. a \notin At(r, l) /\ a \notin At(r, l)'
      BY <1>3, <2>5 DEF At, q, n
    <3>2. At(r, l)' = At(r, l)
      BY <2>2, <3>1
    <3> QED
      BY <2>1, <2>5, <3>2
  <2> QED
    BY <2>3, <2>4, <2>5
<1>5. ASSUME NEW r \in Requests, NEW l \in Lines, l > 1
      PROVE  rows'[r][l] + Cardinality(At(r, l)') <= rows'[r][l - 1]
  <2>1. l - 1 \in Lines /\ l \in Nat
    BY <1>1, <1>5
  <2>2. rows[r][l] + Cardinality(At(r, l)) <= rows[r][l - 1]
    BY <1>5 DEF OrderSound
  <2>3. /\ Cardinality(At(r, l)) \in Nat /\ Cardinality(At(r, l)') \in Nat
        /\ Cardinality(At(r, l)') <= Cardinality(At(r, l))
             + (IF r = q /\ l = n + 1 THEN 1 ELSE IF r = q /\ l = n THEN -1 ELSE 0)
    BY <1>4
  <2>4. /\ rows[r][l] \in Nat /\ rows[r][l - 1] \in Nat
        /\ rows'[r][l] = IF r = q /\ l = n THEN rows[r][l] + 1 ELSE rows[r][l]
        /\ rows'[r][l - 1] = IF r = q /\ l - 1 = n THEN rows[r][l - 1] + 1 ELSE rows[r][l - 1]
    BY <1>2, <2>1
  <2>5. n \in Nat /\ l \in Nat
    BY <1>1, <2>1 DEF n
  <2>6. PICK c \in Nat, d \in Nat : c = Cardinality(At(r, l)) /\ d = Cardinality(At(r, l)')
    BY <2>3
  <2>7. /\ rows[r][l] + c <= rows[r][l - 1]
        /\ d <= c + (IF r = q /\ l = n + 1 THEN 1 ELSE IF r = q /\ l = n THEN -1 ELSE 0)
    BY <2>2, <2>3, <2>6
  <2>8. CASE r = q /\ l = n
    BY <2>4, <2>5, <2>6, <2>7, <2>8
  <2>9. CASE r = q /\ l = n + 1
    BY <2>4, <2>5, <2>6, <2>7, <2>9
  <2>10. CASE ~(r = q /\ l = n) /\ ~(r = q /\ l = n + 1)
    BY <2>4, <2>5, <2>6, <2>7, <2>10
  <2> QED
    BY <2>8, <2>9, <2>10
<1> QED
  BY <1>4, <1>5 DEF OrderSound

LEMMA OrderStep ==
  ASSUME Typed, CreationSound, PostingSound, OrderSound, [Next]_vars
  PROVE  OrderSound'
<1>1. ASSUME NEW a \in Agents, Runs(a), ~PostEntry(a)
      PROVE  NobodyComes
  <2>1. Others(a) /\ (StaysOut(a) \/ Judges(a) \/ GoesOn(a) \/ Settles(a))
    BY <1>1, RunKinds
  <2>2. rows' = rows
    BY <2>1 DEF StaysOut, Judges, GoesOn, Settles
  <2>3. pc'[a] = "post" => job'[a].line = 1
    BY <2>1 DEF StaysOut, Judges, GoesOn, Settles, Settling, PostingSound
  <2>4. \A r \in Requests, l \in Lines :
          /\ At(r, l)' \subseteq At(r, l) \cup {a}
          /\ l # 1 => At(r, l)' \subseteq At(r, l)
    BY <2>1, <2>3 DEF At, Others
  <2> QED
    BY <2>2, <2>4 DEF NobodyComes
<1>2. ASSUME \/ \E r \in Requests : Create(r) \/ CreateFails(r)
             \/ \E r \in Requests, v \in Verdicts : Announce(r, v)
             \/ \E k \in Keys : ForgetKey(k)
             \/ \E h \in Handlers, r \in Requests, v \in Verdicts : Deliver(h, r, v)
             \/ UNCHANGED vars
      PROVE  NobodyComes
  <2>1. /\ rows' = rows
        /\ \/ UNCHANGED <<pc, job>>
           \/ \E b \in Agents, s \in {"armed", "lookup"} :
                pc' = [pc EXCEPT ![b] = s] /\ \E j : job' = [job EXCEPT ![b] = j]
    BY <1>2 DEF Create, Replay, Admit, InsertIntent, InsertConflicts, StoreKey,
       CollectionAccepted, CollectionRefused, MarkFailed, SaveAttempt, MarkWaiting, CreateFails,
       Announce, ForgetKey, Deliver, Start, Step, db, run, vars, Agents
  <2>2. \A r \in Requests, l \in Lines : At(r, l)' \subseteq At(r, l)
    BY <2>1 DEF At, Typed, TypeOK
  <2> QED
    BY <2>1, <2>2 DEF NobodyComes
<1>3. ASSUME NEW a \in Agents, Runs(a), PostEntry(a)
      PROVE  OrderSound'
  BY <1>3, RunKinds, OrderByPosting
<1> QED
  BY <1>1, <1>2, <1>3, OrderWhenNobodyComes DEF Next, Runs, Agents

(* Whatever overlaps, is repeated or breaks off, the entries of a          *)
(* collection are booked in order (ledger.PostCollection, called by        *)
(* HandleWebhookEvent and by the delayed query).                           *)
THEOREM BooksInOrder == Spec => []EntriesInOrder
<1>1. Init => OrderSound
  <2> SUFFICES ASSUME Init, NEW r \in Requests, NEW l \in Lines
               PROVE  /\ IsFiniteSet(At(r, l))
                      /\ l > 1 => rows[r][l] + Cardinality(At(r, l)) <= rows[r][l - 1]
    BY DEF OrderSound
  <2>1. At(r, l) = {}
    BY DEF Init, At
  <2>2. l > 1 => rows[r][l] = 0 /\ rows[r][l - 1] = 0
    BY OrchestratorConstants DEF Init, Lines
  <2> QED
    BY <2>1, <2>2, FS_EmptySet
<1>2. Typed /\ CreationSound /\ PostingSound /\ OrderSound /\ [Next]_vars => OrderSound'
  BY OrderStep
<1>3. Typed /\ OrderSound => EntriesInOrder
  <2> SUFFICES ASSUME Typed, OrderSound, NEW r \in Requests, NEW l \in Lines, l > 1
               PROVE  rows[r][l] <= rows[r][l - 1]
    BY DEF EntriesInOrder
  <2>1. IsFiniteSet(At(r, l)) /\ Cardinality(At(r, l)) \in Nat
    BY FS_CardinalityType DEF OrderSound
  <2>2. rows[r][l] + Cardinality(At(r, l)) <= rows[r][l - 1]
    BY DEF OrderSound
  <2>3. rows[r][l] \in Nat /\ rows[r][l - 1] \in Nat
    BY OrchestratorConstants DEF Typed, TypeOK, Lines
  <2> QED
    BY <2>1, <2>2, <2>3
<1> QED
  BY AlwaysTyped, AlwaysCreationSound, AlwaysPostingSound, <1>1, <1>2, <1>3, PTL DEF Spec

-----------------------------------------------------------------------------
(***************************************************************************)
(* As long as no two executions settle one payment at the same time, and   *)
(* none settles a payment whose creation is still under way, the           *)
(* orchestrator implements the payment lifecycle.                          *)
(***************************************************************************)

AfterCreation ==
  \A a \in Agents : pc[a] \in {"attempt", "status"} => cpc[job[a].req] \in CreateEnds

(* Where the payment is follows from where its creation is, and the status *)
(* a handler judged the transition on is still there when it writes.       *)
LifecycleSound ==
  /\ \A r \in Requests :
       /\ pi[r] \in {"none", "created", "requires_action", "failed", "succeeded"}
       /\ cpc[r] \in {"start", "insert"} => pi[r] = "none"
       /\ cpc[r] \in {"store", "collect", "fail", "save", "status"} => pi[r] = "created"
  /\ \A h \in Handlers :
       pc[h] \in {"attempt", "status"} =>
         \/ pi[job[h].req] = "requires_action"
         \/ pi[job[h].req] = "created" /\ job[h].evt = "failed"

MappedStep == [Lifecycle!Next]_<<pi, Confirmed, Booked>>

LEMMA LifecycleByCreate ==
  ASSUME AfterCreation, Typed, LifecycleSound, NEW r \in Requests, Create(r) \/ CreateFails(r)
  PROVE  LifecycleSound' /\ MappedStep
<1> USE DEF Typed
<1> DEFINE Goes(from, to, s) ==
             /\ cpc[r] = from /\ cpc' = [cpc EXCEPT ![r] = to]
             /\ pi' = [pi EXCEPT ![r] = s]
<1>1. UNCHANGED <<rows, verdicts>>
  BY DEF Create, Replay, Admit, InsertIntent, InsertConflicts, StoreKey,
     CollectionAccepted, CollectionRefused, MarkFailed, SaveAttempt, MarkWaiting, CreateFails,
     db, psp
<1>2. /\ Confirmed' = Confirmed /\ Booked' = Booked
  BY <1>1 DEF Confirmed, Booked
<1>3. \A h \in Handlers : pc'[h] = pc[h] /\ job'[h] = job[h]
  <2>1. \/ UNCHANGED <<pc, job>>
        \/ /\ pc' = [pc EXCEPT ![r] = "armed"]
           /\ job' = [job EXCEPT ![r] = [NoJob EXCEPT !.req = r]]
    BY DEF Create, Replay, Admit, InsertIntent, InsertConflicts, StoreKey,
       CollectionAccepted, CollectionRefused, MarkFailed, SaveAttempt, MarkWaiting, CreateFails,
       run
  <2>2. \A h \in Handlers : h # r /\ h \in Agents
    BY ConstantsSound DEF Agents
  <2> QED
    BY <2>1, <2>2 DEF TypeOK
<1>4. \A h \in Handlers : pc[h] \in {"attempt", "status"} =>
        job[h].req \in Requests /\ job[h].req # r
  <2>1. cpc[r] \in CreateSteps
    BY DEF Create, Replay, Admit, InsertIntent, InsertConflicts, StoreKey, CreateSteps,
       CollectionAccepted, CollectionRefused, MarkFailed, SaveAttempt, MarkWaiting, CreateFails
  <2> QED
    BY <2>1 DEF AfterCreation, CreateSteps, CreateEnds, JobsSound, Agents
<1>5. CASE \E to \in CreateEnds : pi' = pi /\ cpc' = [cpc EXCEPT ![r] = to]
  BY <1>1, <1>2, <1>3, <1>4, <1>5 DEF LifecycleSound, TypeOK, CreateEnds, MappedStep
<1>6. CASE \/ Goes("start", "insert", pi[r])
           \/ Goes("store", "collect", pi[r])
           \/ Goes("collect", "save", pi[r])
           \/ Goes("collect", "fail", pi[r])
           \/ Goes("save", "status", pi[r])
  <2>1. pi' = pi
    BY <1>6 DEF TypeOK
  <2> QED
    BY <1>1, <1>2, <1>3, <1>4, <1>6, <2>1 DEF LifecycleSound, TypeOK, CreateEnds, MappedStep
<1>7. CASE Goes("insert", "collect", "created") \/ Goes("insert", "store", "created")
  <2>1. Lifecycle!Open(r)
    BY <1>2, <1>7 DEF LifecycleSound, Lifecycle!Open, Lifecycle!Move
  <2>2. pi'[r] = "created" /\ cpc'[r] \in {"collect", "store"}
    BY <1>7 DEF TypeOK
  <2>3. \A q \in Requests : q # r => pi'[q] = pi[q] /\ cpc'[q] = cpc[q]
    BY <1>7 DEF TypeOK
  <2>4. \A h \in Handlers :
         pc'[h] \in {"attempt", "status"} =>
           \/ pi'[job'[h].req] = "requires_action"
           \/ pi'[job'[h].req] = "created" /\ job'[h].evt = "failed"
    BY <1>3, <1>4, <2>3 DEF LifecycleSound
  <2> HIDE DEF Goes
  <2>5. LifecycleSound'
    BY <2>2, <2>3, <2>4 DEF LifecycleSound
  <2> QED
    BY <2>1, <2>5 DEF MappedStep, Lifecycle!Next
<1>8. CASE Goes("fail", "returned", "failed")
  <2>1. Lifecycle!Fail(r)
    BY <1>2, <1>8 DEF LifecycleSound, Lifecycle!Fail, Lifecycle!Move
  <2>2. LifecycleSound'
    BY <1>1, <1>3, <1>4, <1>8 DEF LifecycleSound, TypeOK, CreateEnds
  <2> QED
    BY <2>1, <2>2 DEF MappedStep, Lifecycle!Next
<1>9. CASE Goes("status", "returned", "requires_action")
  <2>1. Lifecycle!Wait(r)
    BY <1>2, <1>9 DEF LifecycleSound, Lifecycle!Wait, Lifecycle!Move
  <2>2. LifecycleSound'
    BY <1>1, <1>3, <1>4, <1>9 DEF LifecycleSound, TypeOK, CreateEnds
  <2> QED
    BY <2>1, <2>2 DEF MappedStep, Lifecycle!Next
<1>10. pi' = pi => pi' = [pi EXCEPT ![r] = pi[r]]
  BY DEF TypeOK
<1> QED
  BY <1>5, <1>6, <1>7, <1>8, <1>9, <1>10 DEF Create, Replay, Admit, InsertIntent, InsertConflicts,
     StoreKey, CollectionAccepted, CollectionRefused, MarkFailed, SaveAttempt, MarkWaiting,
     CreateFails, GoTo, Return, InitialStatus, CreateEnds, db

LEMMA LifecycleByEnvironment ==
  ASSUME Typed, LifecycleSound,
         \/ \E r \in Requests, v \in Verdicts : Announce(r, v)
         \/ \E k \in Keys : ForgetKey(k)
         \/ UNCHANGED vars
  PROVE  LifecycleSound' /\ MappedStep
<1> USE DEF Typed
<1>1. UNCHANGED <<pi, rows, cpc, pc, job>>
  BY DEF Announce, ForgetKey, db, psp, create, run, vars
<1>2. LifecycleSound' /\ Booked' = Booked
  BY <1>1 DEF LifecycleSound, Booked
<1>3. ASSUME NEW r \in Requests, NEW v \in Verdicts, Announce(r, v)
      PROVE  MappedStep
  <2>1. Confirmed' = IF v = "succeeded" THEN Confirmed \cup {r} ELSE Confirmed
    BY <1>3 DEF Announce, Confirmed, TypeOK
  <2> QED
    BY <1>1, <1>2, <2>1 DEF MappedStep, Lifecycle!Next, Lifecycle!Confirm
<1>4. CASE (\E k \in Keys : ForgetKey(k)) \/ UNCHANGED vars
  <2>1. verdicts' = verdicts
    BY <1>4 DEF ForgetKey, psp, vars
  <2> QED
    BY <1>1, <1>2, <2>1 DEF MappedStep, Confirmed
<1> QED
  BY <1>2, <1>3, <1>4

(* A payment is settled as what the merchant may rely on: a success has    *)
(* been confirmed, and the payment was waiting.                            *)
LEMMA LifecycleBySettling ==
  ASSUME NoOverlap, AfterCreation, Typed, LifecycleSound, NEW a \in Agents,
         UNCHANGED <<cpc, verdicts>>, Others(a), Settles(a)
  PROVE  LifecycleSound' /\ MappedStep
<1> USE DEF Typed
<1> DEFINE r == job[a].req
           v == job[a].evt
<1>1. /\ r \in Requests /\ v \in Verdicts
      /\ UNCHANGED <<rows, job>> /\ pi' = [pi EXCEPT ![r] = v]
      /\ pc[a] = "status" /\ pc'[a] \in {"post", "publish"}
  BY DEF Settles, AfterStatus
<1>2. v = "succeeded" => r \in Confirmed
  BY DEF JobsSound, Confirmed
<1>3. cpc[r] \in CreateEnds
  BY <1>1 DEF AfterCreation
<1>4. pi[r] = "requires_action" \/ (pi[r] = "created" /\ v = "failed")
  <2>1. CASE a \in Handlers
    BY <1>1, <2>1 DEF LifecycleSound
  <2>2. CASE a \in Requests
    <3>1. pi[r] \in {"requires_action", "processing"}
      BY <2>2 DEF Settles
    <3> QED
      BY <1>1, <3>1 DEF LifecycleSound
  <2> QED
    BY <2>1, <2>2 DEF Agents
<1>5. \A b \in Agents : b # a /\ Settling(b) => job[b].req # r
  BY <1>1 DEF NoOverlap, Settling
<1>6. Confirmed' = Confirmed /\ Booked' = Booked
  BY <1>1 DEF Confirmed, Booked
<1> HIDE DEF r, v
<1>7. MappedStep
  BY <1>1, <1>2, <1>4, <1>6 DEF MappedStep, Lifecycle!Next, Lifecycle!Succeed, Lifecycle!Fail,
     Lifecycle!Move, Verdicts
<1>8. ASSUME NEW h \in Handlers, pc'[h] \in {"attempt", "status"}
      PROVE  \/ pi'[job'[h].req] = "requires_action"
             \/ pi'[job'[h].req] = "created" /\ job'[h].evt = "failed"
  <2>1. h # a /\ h \in Agents
    BY <1>1, <1>8 DEF Agents
  <2>2. pc[h] \in {"attempt", "status"} /\ job'[h] = job[h]
    BY <1>8, <2>1 DEF Others
  <2>3. job[h].req \in Requests /\ job[h].req # r
    BY <1>5, <2>1, <2>2 DEF JobsSound, Settling
  <2>4. pi'[job[h].req] = pi[job[h].req]
    BY <1>1, <2>3 DEF TypeOK
  <2> QED
    BY <2>2, <2>4 DEF LifecycleSound
<1>9. ASSUME NEW q \in Requests
      PROVE  /\ pi'[q] \in {"none", "created", "requires_action", "failed", "succeeded"}
             /\ cpc'[q] \in {"start", "insert"} => pi'[q] = "none"
             /\ cpc'[q] \in {"store", "collect", "fail", "save", "status"} => pi'[q] = "created"
  BY <1>1, <1>3 DEF LifecycleSound, TypeOK, Verdicts, CreateEnds
<1> QED
  BY <1>7, <1>8, <1>9 DEF LifecycleSound

(* An entry is posted: the last one books the payment, for the first time. *)
LEMMA LifecycleByPosting ==
  ASSUME Typed, BookingSound, LifecycleSound, NEW a \in Agents,
         UNCHANGED <<cpc, verdicts>>, Others(a), PostEntry(a)
  PROVE  LifecycleSound' /\ MappedStep
<1> USE DEF Typed, db, Step
<1> DEFINE r == job[a].req
           n == job[a].line
<1>0. job[a] \in Jobs
  BY DEF TypeOK
<1>1. /\ r \in Requests /\ n \in Lines /\ pi[r] = "succeeded" /\ pi' = pi
      /\ \A l \in Lines : rows[r][l] = IF l < n THEN 1 ELSE 0
  BY <1>0 DEF PostEntry, JobsSound, Jobs, BookingSound
<1>2. rows' = [rows EXCEPT ![r] = [rows[r] EXCEPT ![n] = rows[r][n] + 1]]
  BY DEF PostEntry
<1>3. pc'[a] \in {"post", "publish"}
  BY DEF PostEntry, TypeOK
<1>4. LifecycleSound'
  BY <1>1, <1>3 DEF LifecycleSound, Others, Agents
<1> HIDE DEF r, n
<1>5. r \notin Booked
  BY <1>1 DEF Booked, Lines
<1>6. \A q \in Requests : q # r => rows'[q] = rows[q]
  BY <1>2 DEF TypeOK
<1>7. Booked' = Booked \/ Booked' = Booked \cup {r}
  <2>1. \A q \in Requests \ {r} : q \in Booked' <=> q \in Booked
    BY <1>6 DEF Booked
  <2>2. Booked' \subseteq Requests /\ Booked \subseteq Requests
    BY DEF Booked
  <2> HIDE DEF Booked
  <2> QED
    BY <1>5, <2>1, <2>2
<1>8. Confirmed' = Confirmed
  BY DEF Confirmed
<1>9. MappedStep
  BY <1>1, <1>5, <1>7, <1>8 DEF MappedStep, Lifecycle!Next, Lifecycle!Book
<1> QED
  BY <1>4, <1>9

LEMMA LifecycleByAgent ==
  ASSUME NoOverlap, AfterCreation, Typed, BookingSound, LifecycleSound, NEW a \in Agents,
         UNCHANGED <<cpc, verdicts>>, Others(a),
         StaysOut(a) \/ Judges(a) \/ GoesOn(a) \/ Settles(a) \/ PostEntry(a)
  PROVE  LifecycleSound' /\ MappedStep
<1>1. CASE StaysOut(a) \/ Judges(a) \/ GoesOn(a)
  <2>1. UNCHANGED <<pi, rows>>
    BY <1>1 DEF StaysOut, Judges, GoesOn
  <2>2. Confirmed' = Confirmed /\ Booked' = Booked
    BY <2>1 DEF Confirmed, Booked
  <2>3. ASSUME a \in Handlers, pc'[a] \in {"attempt", "status"}
        PROVE  \/ pi[job'[a].req] = "requires_action"
               \/ pi[job'[a].req] = "created" /\ job'[a].evt = "failed"
    <3>1. CASE Judges(a)
      <4> DEFINE r == job[a].req
                 v == job[a].evt
      <4>1. /\ r \in Requests /\ v \in Verdicts /\ IsValidTransition(pi[r], v)
            /\ job'[a].req = r /\ job'[a].evt = v
        BY <2>3, <3>1 DEF Judges
      <4> HIDE DEF r, v
      <4>2. /\ pi[r] \in {"created", "requires_action", "processing"}
            /\ v = "succeeded" => pi[r] # "created"
        BY <4>1, SettlingEdges
      <4>3. pi[r] # "processing"
        BY <4>1 DEF LifecycleSound
      <4> QED
        BY <4>1, <4>2, <4>3 DEF Verdicts
    <3>2. CASE GoesOn(a)
      BY <2>3, <3>2 DEF GoesOn, LifecycleSound
    <3> QED
      BY <1>1, <2>3, <3>1, <3>2 DEF StaysOut, Settling
  <2>4. LifecycleSound'
    BY <2>1, <2>3 DEF Others, LifecycleSound, Agents
  <2> QED
    BY <2>1, <2>2, <2>4 DEF MappedStep
<1> QED
  BY <1>1, LifecycleBySettling, LifecycleByPosting

LEMMA LifecycleStep ==
  ASSUME NoOverlap, AfterCreation, Typed, CreationSound, IntentsSound, BookingSound,
         LifecycleSound, [Next]_vars
  PROVE  LifecycleSound' /\ MappedStep
<1>1. ASSUME NEW h \in Handlers, NEW r \in Requests, NEW v \in Verdicts, Deliver(h, r, v)
      PROVE  LifecycleSound' /\ MappedStep
  <2>1. StaysOut(h) /\ Others(h) /\ h \in Agents /\ UNCHANGED <<cpc, verdicts>>
    BY <1>1 DEF Deliver, Start, Step, Typed, TypeOK, StaysOut, Others, Settling, Agents, db,
       psp, create
  <2> QED
    BY <2>1, LifecycleByAgent
<1>2. ASSUME NEW a \in Agents, Runs(a)
      PROVE  LifecycleSound' /\ MappedStep
  <2>1. UNCHANGED <<cpc, verdicts>>
    BY <1>2, RunsKeepFrame DEF RunFrame, psp, create
  <2> QED
    BY <1>2, <2>1, RunKinds, LifecycleByAgent
<1> QED
  BY <1>1, <1>2, LifecycleByCreate, LifecycleByEnvironment DEF Next, Runs, Agents

(* Step by step the orchestrator does what a merchant may rely on: open,   *)
(* wait, fail, or - once confirmed - succeed, and book a success once.     *)
(* Handlers and delayed queries may be any number and fail anywhere.       *)
THEOREM LifecycleWithoutOverlap ==
  Spec /\ []NoOverlap /\ []AfterCreation => ImplementsLifecycle
<1>1. Init => LifecycleSound /\ Lifecycle!Init
  <2>1. ASSUME Init PROVE LifecycleSound
    BY <2>1 DEF Init, LifecycleSound, Agents
  <2>2. ASSUME Init PROVE Lifecycle!Init
    <3>1. Confirmed = {}
      BY <2>2 DEF Init, Confirmed
    <3>2. Booked = {}
      BY <2>2, ConstantsSound DEF Init, Booked
    <3> QED
      BY <2>2, <3>1, <3>2 DEF Init, Lifecycle!Init
  <2> QED
    BY <2>1, <2>2
<1>2. /\ NoOverlap /\ AfterCreation /\ Typed /\ CreationSound /\ IntentsSound /\ BookingSound
      /\ LifecycleSound /\ [Next]_vars
      => LifecycleSound' /\ MappedStep
  BY LifecycleStep
<1> QED
  BY AlwaysTyped, AlwaysCreationSound, AlwaysIntentsSound, AlwaysBookingSound, <1>1, <1>2, PTL
     DEF Spec, ImplementsLifecycle, Lifecycle!Spec, MappedStep

(* A PSP that answers only after the call that asked it has ended keeps    *)
(* every handler and every query behind the creation of its payment.       *)
LateAnswers == EarlyVerdicts = FALSE

EndsSound ==
  /\ \A r \in Requests : verdicts[r] # {} => cpc[r] \in CreateEnds
  /\ \A a \in Agents : pc[a] \notin {"idle", "ack", "nak"} => cpc[job[a].req] \in CreateEnds

LEMMA EndsStep ==
  ASSUME LateAnswers, Typed, IntentsSound, EndsSound, [Next]_vars
  PROVE  EndsSound'
<1> USE DEF Typed
<1>1. ASSUME NEW r \in Requests, Create(r) \/ CreateFails(r)
      PROVE  EndsSound'
  <2>1. verdicts' = verdicts
    BY <1>1 DEF Create, Replay, Admit, InsertIntent, InsertConflicts, StoreKey, psp,
       CollectionAccepted, CollectionRefused, MarkFailed, SaveAttempt, MarkWaiting, CreateFails
  <2>2. /\ cpc[r] \in CreateSteps /\ \A q \in Requests : q # r => cpc'[q] = cpc[q]
        /\ \A q \in Requests : cpc[q] \in CreateEnds => q # r
    BY <1>1 DEF Create, Replay, Admit, InsertIntent, InsertConflicts, StoreKey, GoTo, Return,
       CollectionAccepted, CollectionRefused, MarkFailed, SaveAttempt, MarkWaiting, CreateFails,
       CreateSteps, CreateEnds, TypeOK
  <2>3. \A a \in Agents :
          \/ pc'[a] = pc[a] /\ job'[a] = job[a]
          \/ job'[a].req = r /\ cpc'[r] = "returned"
    <3>1. CASE MarkWaiting(r) /\ r \in MpesaRequests
      <4>1. /\ pc' = [pc EXCEPT ![r] = "armed"]
            /\ job' = [job EXCEPT ![r] = [NoJob EXCEPT !.req = r]]
            /\ cpc' = [cpc EXCEPT ![r] = "returned"]
        BY <3>1 DEF MarkWaiting, Return, GoTo
      <4>2. [NoJob EXCEPT !.req = r].req = r
        BY DEF NoJob
      <4> QED
        BY <4>1, <4>2 DEF TypeOK
    <3>2. CASE ~(MarkWaiting(r) /\ r \in MpesaRequests)
      BY <1>1, <3>2 DEF Create, Replay, Admit, InsertIntent, InsertConflicts, StoreKey, MarkWaiting,
         CollectionAccepted, CollectionRefused, MarkFailed, SaveAttempt, CreateFails, run
    <3> QED
      BY <3>1, <3>2
  <2>4. ASSUME NEW a \in Agents, pc'[a] \notin {"idle", "ack", "nak"}
        PROVE  cpc'[job'[a].req] \in CreateEnds
    <3>1. CASE pc'[a] = pc[a] /\ job'[a] = job[a]
      BY <2>2, <2>4, <3>1 DEF EndsSound, JobsSound
    <3>2. CASE job'[a].req = r /\ cpc'[r] = "returned"
      BY <3>2 DEF CreateEnds
    <3> QED
      BY <2>3, <3>1, <3>2
  <2> QED
    BY <2>1, <2>2, <2>4 DEF EndsSound
<1>2. ASSUME NEW a \in Agents, Runs(a)
      PROVE  EndsSound'
  BY <1>2, RunsKeepFrame DEF RunFrame, psp, create, EndsSound
<1>3. ASSUME NEW r \in Requests, NEW v \in Verdicts, Announce(r, v)
      PROVE  EndsSound'
  BY <1>3 DEF Announce, LateAnswers, TypeOK, create, run, EndsSound
<1>4. ASSUME NEW h \in Handlers, NEW r \in Requests, NEW v \in Verdicts, Deliver(h, r, v)
      PROVE  EndsSound'
  <2>1. /\ UNCHANGED <<cpc, verdicts>> /\ cpc[r] \in CreateEnds
        /\ job'[h].req = r
        /\ \A b \in Agents \ {h} : pc'[b] = pc[b] /\ job'[b] = job[b]
    BY <1>4 DEF Deliver, Start, Step, TypeOK, NoJob, Agents, EndsSound, psp, create
  <2> QED
    BY <2>1 DEF EndsSound
<1>5. CASE (\E k \in Keys : ForgetKey(k)) \/ UNCHANGED vars
  BY <1>5 DEF ForgetKey, psp, create, run, vars, EndsSound
<1> QED
  BY <1>1, <1>2, <1>3, <1>4, <1>5 DEF Next, Runs, Agents

LEMMA LateIsAfterCreation ==
  ASSUME LateAnswers
  PROVE  Spec => []AfterCreation
<1>1. Init => EndsSound
  BY DEF Init, EndsSound, Agents
<1>2. Typed /\ IntentsSound /\ EndsSound /\ [Next]_vars => EndsSound'
  BY EndsStep
<1>3. EndsSound => AfterCreation
  BY DEF EndsSound, AfterCreation
<1> QED
  BY AlwaysTyped, AlwaysIntentsSound, <1>1, <1>2, <1>3, PTL DEF Spec

(* With one handler at a time, no delayed query and a PSP that answers     *)
(* late, the orchestrator implements the payment lifecycle.                *)
THEOREM OrchestratorImplementsLifecycle ==
  ASSUME OneHandler, NoQueries, LateAnswers
  PROVE  Spec => ImplementsLifecycle
BY AloneIsApart, LateIsAfterCreation, LifecycleWithoutOverlap, PTL

-----------------------------------------------------------------------------
(* Every status written after the first is one that the transition table   *)
(* (orchestrator/state.go) allows after the status it replaces, be it      *)
(* written by a call, a handler or a query.                                *)
StatusFollowsTable ==
  [][\A r \in Requests : pi'[r] # pi[r] =>
       \/ pi[r] = "none" /\ pi'[r] = "created"
       \/ IsValidTransition(pi[r], pi'[r])]_pi

(* That is not so in general: the orchestrator judges a transition on a    *)
(* status it has read before, and CreatePaymentIntent judges none. It is   *)
(* so whenever the lifecycle is kept.                                      *)
THEOREM TransitionsAreValid ==
  Spec /\ []NoOverlap /\ []AfterCreation => StatusFollowsTable
<1>1. ASSUME Typed, MappedStep
      PROVE  [\A r \in Requests : pi'[r] # pi[r] =>
                \/ pi[r] = "none" /\ pi'[r] = "created"
                \/ IsValidTransition(pi[r], pi'[r])]_pi
  <2> SUFFICES ASSUME NEW r \in Requests, pi'[r] # pi[r]
               PROVE  \/ pi[r] = "none" /\ pi'[r] = "created"
                      \/ IsValidTransition(pi[r], pi'[r])
    OBVIOUS
  <2>1. PICK q \in Requests :
          Lifecycle!Open(q) \/ Lifecycle!Wait(q) \/ Lifecycle!Fail(q) \/ Lifecycle!Succeed(q)
    BY <1>1 DEF MappedStep, Lifecycle!Next, Lifecycle!Confirm, Lifecycle!Book
  <2>2. \/ pi[q] = "none" /\ pi' = [pi EXCEPT ![q] = "created"]
        \/ pi[q] = "created" /\ pi' = [pi EXCEPT ![q] = "requires_action"]
        \/ pi[q] \in {"created", "requires_action"} /\ pi' = [pi EXCEPT ![q] = "failed"]
        \/ pi[q] = "requires_action" /\ pi' = [pi EXCEPT ![q] = "succeeded"]
    BY <2>1 DEF Lifecycle!Open, Lifecycle!Wait, Lifecycle!Fail, Lifecycle!Succeed, Lifecycle!Move
  <2>3. q = r
    BY <1>1, <2>2 DEF Typed, TypeOK
  <2> QED
    BY <1>1, <2>2, <2>3 DEF Typed, TypeOK, IsValidTransition, transitions
<1> QED
  BY AlwaysTyped, LifecycleWithoutOverlap, <1>1, PTL
     DEF ImplementsLifecycle, Lifecycle!Spec, MappedStep, StatusFollowsTable

=============================================================================
