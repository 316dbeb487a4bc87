--------------------------- MODULE PipelineProofs ---------------------------
(***************************************************************************)
(* Theorems about module WebhookPipeline: it uses the orchestrator as      *)
(* module Orchestrator describes it, and the worker acknowledges no        *)
(* message whose payment it has not settled.                               *)
(***************************************************************************)
EXTENDS WebhookPipeline, OrchestratorProofs

(* A payment that a handler need not look at again.                        *)
Settled(r) == pi[r] \in Verdicts \/ cpc[r] = "error"

(* Where a payment is follows from where its creation is; handlers work on *)
(* payments whose creation has ended, and leave them settled.              *)
StatusSound ==
  /\ \A r \in Requests :
       /\ pi[r] \in {"none", "created", "requires_action"} \cup Verdicts
       /\ cpc[r] \in {"start", "insert"} => pi[r] = "none"
       /\ cpc[r] \in {"store", "collect", "fail", "save", "status"} => pi[r] = "created"
       /\ cpc[r] \in {"returned", "conflict"} => pi[r] # "created"
       /\ verdicts[r] # {} => cpc[r] \in CreateEnds
  /\ \A a \in Agents :
       pc[a] \notin {"idle", "ack", "nak"} => cpc[job[a].req] \in CreateEnds
  /\ \A h \in Handlers : pc[h] \in {"post", "publish", "ack"} =>
       /\ job[h].req \in Requests
       /\ cpc[job[h].req] \in CreateEnds
       /\ Settled(job[h].req)

(* Once its creation has ended, a settled payment stays settled.           *)
SettledStays ==
  \A r \in Requests : cpc[r] \in CreateEnds =>
    /\ cpc'[r] = cpc[r]
    /\ Settled(r) => Settled(r)'

LEMMA StatusByCreate ==
  ASSUME Typed, StatusSound, NEW r \in Requests, Create(r) \/ CreateFails(r)
  PROVE  StatusSound' /\ SettledStays
<1> USE DEF Typed
<1> DEFINE Goes(from, to, s) ==
             /\ cpc[r] = from /\ cpc' = [cpc EXCEPT ![r] = to]
             /\ pi' = [pi EXCEPT ![r] = s]
<1>1. /\ UNCHANGED <<verdicts>>
      /\ cpc[r] \in CreateSteps
      /\ \A q \in Requests : q # r => cpc'[q] = cpc[q] /\ pi'[q] = pi[q]
  BY DEF Create, Replay, Admit, InsertIntent, InsertConflicts, StoreKey,
     CollectionAccepted, CollectionRefused, MarkFailed, SaveAttempt, MarkWaiting, CreateFails,
     db, psp, GoTo, Return, CreateSteps, TypeOK
<1>2. SettledStays
  BY <1>1 DEF SettledStays, Settled, CreateSteps, CreateEnds
<1>3. \/ Goes("start", "returned", pi[r]) \/ Goes("start", "insert", pi[r])
      \/ Goes("insert", "conflict", pi[r]) \/ Goes("insert", "collect", "created")
      \/ Goes("insert", "store", "created") \/ Goes("store", "collect", pi[r])
      \/ Goes("collect", "save", pi[r]) \/ Goes("collect", "fail", pi[r])
      \/ Goes("fail", "returned", "failed") \/ Goes("save", "status", pi[r])
      \/ Goes("status", "returned", "requires_action")
      \/ \E s \in CreateSteps : Goes(s, "error", pi[r])
  <2>1. pi' = pi => pi' = [pi EXCEPT ![r] = pi[r]]
    BY DEF TypeOK
  <2> QED
    BY <2>1 DEF Create, Replay, Admit, InsertIntent, InsertConflicts, StoreKey,
       CollectionAccepted, CollectionRefused, MarkFailed, SaveAttempt, MarkWaiting, CreateFails,
       GoTo, Return, InitialStatus, db
<1>4. /\ pi'[r] \in {"none", "created", "requires_action"} \cup Verdicts
      /\ cpc'[r] \in {"start", "insert"} => pi'[r] = "none"
      /\ cpc'[r] \in {"store", "collect", "fail", "save", "status"} => pi'[r] = "created"
      /\ cpc'[r] \in {"returned", "conflict"} => pi'[r] # "created"
      /\ verdicts'[r] # {} => cpc'[r] \in CreateEnds
  BY <1>1, <1>3 DEF StatusSound, TypeOK, Verdicts, CreateEnds, CreateSteps
<1>5. \A a \in Agents :
        \/ pc'[a] = pc[a] /\ job'[a] = job[a]
        \/ a = r /\ pc'[a] = "armed" /\ job'[a].req = r /\ cpc'[r] = "returned"
  <2>1. CASE MarkWaiting(r)
    <3>1. CASE r \in MpesaRequests
      <4>1. /\ pc' = [pc EXCEPT ![r] = "armed"]
            /\ job' = [job EXCEPT ![r] = [NoJob EXCEPT !.req = r]]
            /\ cpc' = [cpc EXCEPT ![r] = "returned"]
        BY <2>1, <3>1 DEF MarkWaiting, Return, GoTo
      <4>2. [NoJob EXCEPT !.req = r].req = r
        BY DEF NoJob
      <4> QED
        BY <4>1, <4>2 DEF TypeOK, Agents
    <3>2. CASE r \notin MpesaRequests
      BY <2>1, <3>2 DEF MarkWaiting, run
    <3> QED
      BY <3>1, <3>2
  <2>2. CASE ~MarkWaiting(r)
    BY <2>2 DEF Create, Replay, Admit, InsertIntent, InsertConflicts, StoreKey,
       CollectionAccepted, CollectionRefused, MarkFailed, SaveAttempt, CreateFails, run
  <2> QED
    BY <2>1, <2>2
<1>6. \A q \in Requests : cpc[q] \in CreateEnds => q # r
  BY <1>1 DEF CreateSteps, CreateEnds
<1>7. \A q \in Requests : cpc[q] \in CreateEnds => cpc'[q] = cpc[q] /\ pi'[q] = pi[q]
  BY <1>1, <1>6
<1>8. ASSUME NEW a \in Agents, pc'[a] \notin {"idle", "ack", "nak"}
      PROVE  cpc'[job'[a].req] \in CreateEnds
  <2>1. CASE pc'[a] = pc[a] /\ job'[a] = job[a]
    BY <1>7, <1>8, <2>1 DEF StatusSound, JobsSound
  <2>2. CASE pc'[a] = "armed" /\ job'[a].req = r /\ cpc'[r] = "returned"
    BY <2>2 DEF CreateEnds
  <2> QED
    BY <1>5, <2>1, <2>2
<1>9. ASSUME NEW h \in Handlers, pc'[h] \in {"post", "publish", "ack"}
      PROVE  /\ job'[h].req \in Requests
             /\ cpc'[job'[h].req] \in CreateEnds
             /\ pi'[job'[h].req] \in Verdicts \/ cpc'[job'[h].req] = "error"
  <2>1. pc'[h] = pc[h] /\ job'[h] = job[h]
    BY <1>5, <1>9 DEF Agents
  <2> QED
    BY <1>7, <1>9, <2>1 DEF StatusSound, Settled
<1> QED
  BY <1>1, <1>2, <1>4, <1>8, <1>9 DEF StatusSound, Settled

LEMMA StatusByRuns ==
  ASSUME Typed, IntentsSound, StatusSound, NEW a \in Agents, Runs(a)
  PROVE  StatusSound' /\ SettledStays
<1> USE DEF Typed
<1>0. /\ RunFrame
      /\ UNCHANGED <<cpc, verdicts>>
      /\ job[a] \in Jobs
  BY RunsKeepFrame DEF RunFrame, psp, create, TypeOK
<1>1. pi' = pi \/ /\ job[a].req \in Requests /\ job[a].evt \in Verdicts
                  /\ pi' = [pi EXCEPT ![job[a].req] = job[a].evt]
                  /\ cpc[job[a].req] \in CreateEnds
  <2>1. CASE WriteStatus(a)
    BY <2>1 DEF WriteStatus, StatusSound, JobsSound
  <2>2. CASE a \in Requests /\ WriteStatusSafe(a)
    BY <2>2 DEF WriteStatusSafe, StatusSound, JobsSound
  <2>3. CASE ~WriteStatus(a) /\ ~WriteStatusSafe(a)
    BY <2>3 DEF Runs, Handle, Query, LookupAttempt, ReadIntent, WriteAttempt, PostEntry,
       PublishNotification, HandlerFails, Finish, FireQuery, AskPSP, QueryFails, db
  <2> QED
    BY <2>1, <2>2, <2>3 DEF WriteStatusSafe, Agents
<1>2. \A r \in Requests :
        /\ pi'[r] \in {"none", "created", "requires_action"} \cup Verdicts
        /\ cpc[r] \notin CreateEnds => pi'[r] = pi[r]
        /\ pi[r] # "created" => pi'[r] # "created"
        /\ Settled(r) => Settled(r)'
  BY <1>0, <1>1 DEF StatusSound, Settled, TypeOK, Verdicts
<1>3. \A r \in Requests :
        /\ cpc'[r] \in {"start", "insert"} => pi'[r] = "none"
        /\ cpc'[r] \in {"store", "collect", "fail", "save", "status"} => pi'[r] = "created"
        /\ cpc'[r] \in {"returned", "conflict"} => pi'[r] # "created"
        /\ verdicts'[r] # {} => cpc'[r] \in CreateEnds
  BY <1>0, <1>2 DEF StatusSound, CreateEnds
<1>4. \A b \in Agents :
        pc'[b] \notin {"idle", "ack", "nak"} => cpc'[job'[b].req] \in CreateEnds
  BY <1>0 DEF StatusSound, RunFrame
<1>5. ASSUME NEW h \in Handlers, pc'[h] \in {"post", "publish", "ack"}
      PROVE  /\ job'[h].req \in Requests
             /\ cpc'[job'[h].req] \in CreateEnds
             /\ pi'[job'[h].req] \in Verdicts \/ cpc'[job'[h].req] = "error"
  <2>1. CASE pc[h] \in {"post", "publish", "ack"} /\ job'[h].req = job[h].req
    BY <1>0, <1>2, <2>1 DEF StatusSound, Settled
  <2>2. CASE a = h /\ WriteStatus(a)
    <3>1. /\ job' = job /\ job[h].req \in Requests /\ job[h].evt \in Verdicts
          /\ pi' = [pi EXCEPT ![job[h].req] = job[h].evt]
          /\ cpc[job[h].req] \in CreateEnds
      BY <2>2 DEF WriteStatus, JobsSound, StatusSound
    <3> QED
      BY <1>0, <3>1 DEF TypeOK
  <2>3. CASE a = h /\ ReadIntent(a)
    <3> DEFINE r == job[h].req
               v == job[h].evt
    <3>1. /\ r \in Requests /\ v \in Verdicts /\ cpc[r] \in CreateEnds /\ pi[r] # "none"
      BY <2>3 DEF ReadIntent, JobsSound, StatusSound, IntentsSound
    <3>2. /\ pi' = pi /\ job'[h].req = r
          /\ pc'[h] = IF IsValidTransition(pi[r], v) THEN "attempt" ELSE "ack"
      BY <1>0, <2>3 DEF ReadIntent, TypeOK, Jobs, Step, db
    <3>3. ~IsValidTransition(pi[r], v)
      BY <1>5, <3>2
    <3> HIDE DEF r, v
    <3>4. CASE pi[r] = "requires_action"
      BY <3>1, <3>3, <3>4 DEF IsValidTransition, transitions, Verdicts
    <3>5. CASE pi[r] = "created"
      BY <1>0, <3>1, <3>2, <3>5 DEF StatusSound, CreateEnds
    <3>6. CASE pi[r] \in Verdicts
      BY <1>0, <3>1, <3>2, <3>6
    <3> QED
      BY <3>1, <3>4, <3>5, <3>6 DEF StatusSound
  <2>4. \/ pc[h] \in {"post", "publish", "ack"} /\ job'[h].req = job[h].req
        \/ a = h /\ WriteStatus(a)
        \/ a = h /\ ReadIntent(a)
    <3>1. CASE a # h
      BY <1>0, <1>5, <3>1 DEF Runs, Handle, Query, LookupAttempt, ReadIntent, WriteAttempt,
         WriteStatus, PostEntry, PublishNotification, HandlerFails, Finish, FireQuery, AskPSP,
         WriteStatusSafe, QueryFails, Step, TypeOK, Agents
    <3>2. CASE a = h
      <4>1. a \notin Requests
        BY <3>2, ConstantsSound
      <4> QED
        BY <1>0, <1>5, <3>2, <4>1 DEF Runs, Handle, LookupAttempt, WriteAttempt, PostEntry,
         PublishNotification, HandlerFails, Finish, Step, TypeOK, Jobs, Agents
    <3> QED
      BY <3>1, <3>2
  <2> QED
    BY <2>1, <2>2, <2>3, <2>4
<1>6. SettledStays
  BY <1>0, <1>2 DEF SettledStays
<1> QED
  BY <1>2, <1>3, <1>4, <1>5, <1>6 DEF StatusSound, Settled

LEMMA StatusStep ==
  ASSUME LateAnswers, Typed, IntentsSound, StatusSound, [Next]_vars
  PROVE  StatusSound' /\ SettledStays
<1> USE DEF Typed
<1>1. ASSUME NEW r \in Requests, NEW v \in Verdicts, Announce(r, v)
      PROVE  StatusSound' /\ SettledStays
  <2>1. /\ UNCHANGED <<pi, cpc, pc, job>>
        /\ cpc[r] \in CreateEnds
        /\ \A q \in Requests \ {r} : verdicts'[q] = verdicts[q]
    BY <1>1 DEF Announce, LateAnswers, TypeOK, db, create, run
  <2> QED
    BY <2>1 DEF StatusSound, SettledStays, Settled
<1>2. CASE (\E k \in Keys : ForgetKey(k)) \/ UNCHANGED vars
  <2>1. UNCHANGED <<pi, cpc, verdicts, pc, job>>
    BY <1>2 DEF ForgetKey, db, psp, create, run, vars
  <2> QED
    BY <2>1 DEF StatusSound, SettledStays, Settled
<1>3. ASSUME NEW h \in Handlers, NEW r \in Requests, NEW v \in Verdicts, Deliver(h, r, v)
      PROVE  StatusSound' /\ SettledStays
  <2>1. /\ UNCHANGED <<pi, cpc, verdicts>> /\ cpc[r] \in CreateEnds
        /\ pc'[h] = "lookup" /\ job'[h].req = r
        /\ \A b \in Agents \ {h} : pc'[b] = pc[b] /\ job'[b] = job[b]
    BY <1>3 DEF Deliver, Start, Step, TypeOK, NoJob, Agents, StatusSound, db, psp, create
  <2> QED
    BY <2>1 DEF StatusSound, SettledStays, Settled, Agents
<1> QED
  BY <1>1, <1>2, <1>3, StatusByCreate, StatusByRuns DEF Next, Runs, Agents

LEMMA AlwaysStatusSound ==
  ASSUME LateAnswers
  PROVE  Spec => []StatusSound
<1>1. Init => StatusSound
  BY ConstantsSound DEF Init, StatusSound, Agents
<1>2. Typed /\ IntentsSound /\ StatusSound /\ [Next]_vars => StatusSound'
  BY StatusStep
<1> QED
  BY AlwaysTyped, AlwaysIntentsSound, <1>1, <1>2, PTL DEF Spec

-----------------------------------------------------------------------------
CallTypes == [pc : CallSteps, req : Requests \cup {None},
              evt : Verdicts \cup {"none"}, recorded : BOOLEAN]

(* A callback request that is under way carries an outcome; only one that  *)
(* was published has a message, and the worker holds one of these.         *)
CallsSound ==
  /\ call \in [Calls -> CallTypes]
  /\ stream \in [Calls -> {"none", "stored", "acked"}]
  /\ cur \in Calls \cup {None}
  /\ \A c \in Calls :
       /\ call[c].pc # "idle" => call[c].req \in Requests /\ call[c].evt \in Verdicts
       /\ stream[c] # "none" => call[c].pc \in {"handle", "done"}
  /\ cur # None => stream[cur] # "none"

(* The request a call carries never changes once it has a message.         *)
CallsStay ==
  \A c \in Calls : stream[c] # "none" => call'[c].req = call[c].req

LEMMA CallsStep ==
  ASSUME CallsSound, [PipelineNext]_pvars
  PROVE  CallsSound' /\ CallsStay
<1> USE PipelineConstants DEF CallsSound, CallsStay
<1>1. CASE Orchestrate
  BY <1>1 DEF Orchestrate, pipe
<1>2. ASSUME NEW h \in Handlers, Work(h) \/ HandlerFaults(h)
      PROVE  CallsSound' /\ CallsStay
  BY <1>2 DEF Work, HandlerFaults, pipe
<1>3. ASSUME NEW c \in Calls, NEW r \in Requests, NEW v \in Verdicts, Callback(c, r, v)
      PROVE  CallsSound' /\ CallsStay
  <2>1. /\ call[c].pc = "idle" /\ UNCHANGED <<vars, stream, cur>>
        /\ v \in verdicts[r]
    BY <1>3 DEF Callback
  <2>3. PICK s \in {"record", "done"} :
          call' = [call EXCEPT ![c] = [[[@ EXCEPT !.pc = s] EXCEPT !.req = r] EXCEPT !.evt = v]]
    BY <1>3 DEF Callback
  <2>2. /\ [[[call[c] EXCEPT !.pc = s] EXCEPT !.req = r] EXCEPT !.evt = v] \in CallTypes
        /\ call'[c].req = r /\ call'[c].evt = v
    BY <2>1, <2>3 DEF CallTypes, CallSteps
  <2> QED
    BY <2>1, <2>2, <2>3
<1>4. ASSUME NEW c \in Calls, Record(c)
      PROVE  CallsSound' /\ CallsStay
  <2>1. UNCHANGED <<vars, stream, cur>> /\ call[c].pc = "record"
    BY <1>4 DEF Record
  <2>2. PICK b \in BOOLEAN :
          call' = [call EXCEPT ![c] = [[@ EXCEPT !.pc = "publish"] EXCEPT !.recorded = b]]
    BY <1>4 DEF Record
  <2>3. /\ [[call[c] EXCEPT !.pc = "publish"] EXCEPT !.recorded = b] \in CallTypes
        /\ call'[c].req = call[c].req /\ call'[c].evt = call[c].evt
    BY <2>1, <2>2 DEF CallTypes, CallSteps
  <2> QED
    BY <2>1, <2>2, <2>3
<1>5. ASSUME NEW c \in Calls, Publish(c) \/ CallDies(c)
      PROVE  CallsSound' /\ CallsStay
  <2>1. /\ UNCHANGED <<vars, cur>> /\ call[c].pc \in {"record", "publish"}
        /\ call' = [call EXCEPT ![c].pc = "done"]
        /\ stream' = [stream EXCEPT ![c] = "stored"] \/ UNCHANGED stream
    BY <1>5 DEF Publish, CallDies
  <2>2. /\ [call[c] EXCEPT !.pc = "done"] \in CallTypes
        /\ call'[c].pc = "done" /\ call'[c].req = call[c].req /\ call'[c].evt = call[c].evt
    BY <2>1 DEF CallTypes, CallSteps
  <2> QED
    BY <2>1, <2>2
<1>6. ASSUME NEW c \in Calls, PublishFails(c)
      PROVE  CallsSound' /\ CallsStay
  <2>1. /\ UNCHANGED cur /\ call[c].pc = "publish"
        /\ call' = [call EXCEPT ![c].pc = "handle"]
        /\ stream' = [stream EXCEPT ![c] = "stored"] \/ UNCHANGED stream
    BY <1>6 DEF PublishFails
  <2>2. /\ [call[c] EXCEPT !.pc = "handle"] \in CallTypes
        /\ call'[c].pc = "handle" /\ call'[c].req = call[c].req /\ call'[c].evt = call[c].evt
    BY <2>1 DEF CallTypes, CallSteps
  <2> QED
    BY <2>1, <2>2
<1>7. ASSUME NEW c \in Calls, Conclude(c)
      PROVE  CallsSound' /\ CallsStay
  <2>1. /\ UNCHANGED <<cur, stream>> /\ call[c].pc = "handle"
        /\ call' = [call EXCEPT ![c].pc = "done"]
    BY <1>7 DEF Conclude
  <2>2. /\ [call[c] EXCEPT !.pc = "done"] \in CallTypes
        /\ call'[c].pc = "done" /\ call'[c].req = call[c].req /\ call'[c].evt = call[c].evt
    BY <2>1 DEF CallTypes, CallSteps
  <2> QED
    BY <2>1, <2>2
<1>8. ASSUME NEW c \in Calls, Take(c)
      PROVE  CallsSound' /\ CallsStay
  BY <1>8 DEF Take
<1>9. CASE Release
  <2>1. /\ UNCHANGED call /\ cur' = None /\ cur # None
        /\ UNCHANGED stream \/ stream' = [stream EXCEPT ![cur] = "acked"]
    BY <1>9 DEF Release
  <2> QED
    BY <2>1
<1>10. CASE UNCHANGED pvars
  BY <1>10 DEF pvars, pipe
<1> QED
  BY <1>1, <1>2, <1>3, <1>4, <1>5, <1>6, <1>7, <1>8, <1>9, <1>10 DEF PipelineNext

(* What a callback request carries was announced by the PSP.               *)
OutcomesSound ==
  \A c \in Calls : call[c].pc # "idle" => call[c].evt \in verdicts[call[c].req]

LEMMA PipelineIsNext ==
  ASSUME CallsSound, OutcomesSound, [PipelineNext]_pvars
  PROVE  [Next]_vars
<1> USE PipelineConstants DEF CallsSound, OutcomesSound
<1>1. CASE Orchestrate
  BY <1>1 DEF Orchestrate, Next
<1>2. ASSUME NEW h \in Handlers, Work(h) \/ HandlerFaults(h)
      PROVE  Next
  BY <1>2 DEF Work, HandlerFaults, Next
<1>3. ASSUME NEW c \in Calls,
             \/ \E r \in Requests, v \in Verdicts : Callback(c, r, v)
             \/ Record(c) \/ Publish(c) \/ CallDies(c)
      PROVE  UNCHANGED vars
  BY <1>3 DEF Callback, Record, Publish, CallDies
<1>4. ASSUME NEW c \in Calls, PublishFails(c) \/ Take(c)
      PROVE  Next
  <2>1. \E h \in Handlers : Start(h, call[c].req, call[c].evt)
    BY <1>4 DEF PublishFails, Take
  <2>2. /\ call[c].req \in Requests /\ call[c].evt \in Verdicts
        /\ call[c].evt \in verdicts[call[c].req]
    BY <1>4 DEF PublishFails, Take
  <2>3. \E h \in Handlers : Deliver(h, call[c].req, call[c].evt)
    BY <2>1, <2>2 DEF Deliver
  <2> QED
    BY <2>2, <2>3 DEF Next
<1>5. ASSUME NEW c \in Calls, Conclude(c)
      PROVE  Next
  BY <1>5 DEF Conclude, Next
<1>6. CASE Release
  BY <1>6 DEF Release, Next
<1>7. CASE UNCHANGED pvars
  BY <1>7 DEF pvars
<1> QED
  BY <1>1, <1>2, <1>3, <1>4, <1>5, <1>6, <1>7 DEF PipelineNext

LEMMA VerdictsGrow ==
  ASSUME Typed, [Next]_vars
  PROVE  \A r \in Requests : verdicts[r] \subseteq verdicts'[r]
<1>1. ASSUME NEW r \in Requests, NEW v \in Verdicts, Announce(r, v)
      PROVE  \A q \in Requests : verdicts[q] \subseteq verdicts'[q]
  BY <1>1 DEF Announce, Typed, TypeOK
<1>2. CASE ~\E r \in Requests, v \in Verdicts : Announce(r, v)
  <2>1. verdicts' = verdicts
    BY <1>2 DEF Next, vars, psp, Create, Replay, Admit, InsertIntent, InsertConflicts, StoreKey,
       CollectionAccepted, CollectionRefused, MarkFailed, SaveAttempt, MarkWaiting,
       CreateFails, ForgetKey, Deliver, Start, Handle, HandlerFails, Finish, Query, QueryFails,
       LookupAttempt, ReadIntent, WriteAttempt, WriteStatus, PostEntry, PublishNotification,
       FireQuery, AskPSP, WriteStatusSafe
  <2> QED
    BY <2>1
<1> QED
  BY <1>1, <1>2

LEMMA OutcomesStep ==
  ASSUME Typed, CallsSound, OutcomesSound, [PipelineNext]_pvars
  PROVE  OutcomesSound'
<1> USE PipelineConstants
<1>1. \A r \in Requests : verdicts[r] \subseteq verdicts'[r]
  BY PipelineIsNext, VerdictsGrow
<1>2. ASSUME NEW c \in Calls, call[c].pc # "idle"
      PROVE  call'[c].evt = call[c].evt /\ call'[c].req = call[c].req
  <2>1. \/ call' = call
        \/ \E d \in Calls, r \in Requests, v \in Verdicts : Callback(d, r, v)
        \/ \E d \in Calls : Record(d)
        \/ \E d \in Calls, s \in {"done", "handle"} : call' = [call EXCEPT ![d].pc = s]
    BY DEF PipelineNext, pvars, pipe, Orchestrate, Work, HandlerFaults, Publish, PublishFails,
       CallDies, Conclude, Take, Release
  <2>2. CASE \E d \in Calls, r \in Requests, v \in Verdicts : Callback(d, r, v)
    BY <1>2, <2>2 DEF Callback, CallsSound, CallTypes
  <2>3. CASE \E d \in Calls : Record(d)
    BY <1>2, <2>3 DEF Record, CallsSound, CallTypes
  <2>4. CASE \E d \in Calls, s \in {"done", "handle"} : call' = [call EXCEPT ![d].pc = s]
    BY <1>2, <2>4 DEF CallsSound, CallTypes
  <2> QED
    BY <2>1, <2>2, <2>3, <2>4
<1>3. ASSUME NEW c \in Calls, call[c].pc = "idle", call'[c].pc # "idle"
      PROVE  call'[c].evt \in verdicts'[call'[c].req]
  <2>1. ASSUME NEW d \in Calls, Record(d)
        PROVE  FALSE
    <3>1. \E b \in BOOLEAN :
            call' = [call EXCEPT ![d] = [[@ EXCEPT !.pc = "publish"] EXCEPT !.recorded = b]]
      BY <2>1 DEF Record
    <3>2. call[d].pc = "record"
      BY <2>1 DEF Record
    <3>3. d # c
      BY <1>3, <3>2
    <3>4. call'[c] = call[c]
      BY <3>1, <3>3 DEF CallsSound
    <3> QED
      BY <1>3, <3>4
  <2>2. \/ call' = call
        \/ \E d \in Calls, r \in Requests, v \in Verdicts : Callback(d, r, v)
        \/ \E d \in Calls : Record(d)
        \/ \E d \in Calls, s \in {"done", "handle"} :
             call[d].pc # "idle" /\ call' = [call EXCEPT ![d].pc = s]
    BY DEF PipelineNext, pvars, pipe, Orchestrate, Work, HandlerFaults, Publish, PublishFails,
       CallDies, Conclude, Take, Release
  <2>3. ASSUME NEW d \in Calls, NEW s, call[d].pc # "idle", call' = [call EXCEPT ![d].pc = s]
        PROVE  FALSE
    <3>1. d # c
      BY <1>3, <2>3
    <3>2. call'[c] = call[c]
      BY <2>3, <3>1 DEF CallsSound
    <3> QED
      BY <1>3, <3>2
  <2>4. call' # call
    BY <1>3
  <2>5. ~ \E d \in Calls : Record(d)
    BY <2>1
  <2>6. ~ \E d \in Calls, s \in {"done", "handle"} :
            call[d].pc # "idle" /\ call' = [call EXCEPT ![d].pc = s]
    BY <2>3
  <2>7. \E d \in Calls, r \in Requests, v \in Verdicts : Callback(d, r, v)
    BY <2>2, <2>4, <2>5, <2>6, Zenon
  <2>8. PICK d \in Calls, r \in Requests, v \in Verdicts : Callback(d, r, v)
    BY <2>7, Zenon
  <2>9. PICK s \in {"record", "done"} :
          call' = [call EXCEPT ![d] = [[[@ EXCEPT !.pc = s] EXCEPT !.req = r] EXCEPT !.evt = v]]
    BY <2>8 DEF Callback
  <2>10. d = c
    <3>1. SUFFICES ASSUME d # c PROVE FALSE
      OBVIOUS
    <3>2. call'[c] = call[c]
      BY <2>9, <3>1 DEF CallsSound
    <3> QED
      BY <1>3, <3>2
  <2>11. call'[c].req = r /\ call'[c].evt = v
    BY <2>9, <2>10 DEF CallsSound, CallTypes
  <2>12. v \in verdicts[r]
    BY <2>8 DEF Callback
  <2> QED
    BY <1>1, <2>11, <2>12
<1> QED
  BY <1>1, <1>2, <1>3 DEF OutcomesSound, CallsSound

LEMMA AlwaysCallsSound == PipelineSpec => [](Typed /\ CallsSound /\ OutcomesSound)
<1>1. PipelineInit => Typed /\ CallsSound /\ OutcomesSound
  BY PipelineConstants, TypedInit
     DEF PipelineInit, CallsSound, CallTypes, CallSteps, OutcomesSound
<1>2. Typed /\ CallsSound /\ OutcomesSound /\ [PipelineNext]_pvars
        => (Typed /\ CallsSound /\ OutcomesSound)'
  BY CallsStep, PipelineIsNext, OutcomesStep, TypedStep
<1> QED
  BY <1>1, <1>2, PTL DEF PipelineSpec

(* Whatever the HTTP handlers and the worker do to the orchestrator is a   *)
(* behaviour of module Orchestrator, so its theorems hold of the pipeline. *)
THEOREM PipelineUsesOrchestrator == PipelineSpec => UsesOrchestrator
<1>1. PipelineInit => Init
  BY DEF PipelineInit
<1>2. CallsSound /\ OutcomesSound /\ [PipelineNext]_pvars => [Next]_vars
  BY PipelineIsNext
<1> QED
  BY AlwaysCallsSound, <1>1, <1>2, PTL DEF PipelineSpec, UsesOrchestrator, Spec

-----------------------------------------------------------------------------
(* The worker works on the message it holds, and a message is acknowledged *)
(* only for a settled payment.                                             *)
AckSound ==
  /\ cur # None => pc[worker] # "idle" /\ job[worker].req = call[cur].req
  /\ \A c \in Calls : stream[c] = "acked" =>
       /\ call[c].req \in Requests
       /\ cpc[call[c].req] \in CreateEnds
       /\ Settled(call[c].req)

(* The worker is where it was, or went on with the same request.           *)
LEMMA WorkerKeeps ==
  ASSUME Typed, CallsSound, [PipelineNext]_pvars, cur' # None
  PROVE  \/ /\ cur' = cur
            /\ pc[worker] # "idle" => pc'[worker] # "idle" /\ job'[worker].req = job[worker].req
         \/ \E c \in Calls :
              /\ cur' = c /\ pc'[worker] # "idle" /\ call'[c].req = call[c].req
              /\ job'[worker].req = call[c].req
<1> USE PipelineConstants, ConstantsSound DEF Typed, Agents
<1>0. worker \in Handlers /\ worker \notin Requests /\ job[worker] \in Jobs
  BY DEF TypeOK
<1>1. CASE Orchestrate
  <2>1. cur' = cur
    BY <1>1 DEF Orchestrate, pipe
  <2>2. pc'[worker] = pc[worker] /\ job'[worker] = job[worker]
    <3>1. CASE \E r \in Requests : Create(r) \/ CreateFails(r)
      BY <1>0, <3>1 DEF Create, Replay, Admit, InsertIntent, InsertConflicts, StoreKey,
         CollectionAccepted, CollectionRefused, MarkFailed, SaveAttempt, MarkWaiting,
         CreateFails, run, TypeOK
    <3>2. CASE \E q \in Requests : Query(q) \/ QueryFails(q)
      BY <1>0, <3>2 DEF Query, QueryFails, FireQuery, AskPSP, WriteAttempt, WriteStatusSafe,
         PostEntry, PublishNotification, Step, TypeOK
    <3>3. CASE \/ \E r \in Requests, v \in Verdicts : Announce(r, v)
               \/ \E k \in Keys : ForgetKey(k)
      BY <3>3 DEF Announce, ForgetKey, run
    <3> QED
      BY <1>1, <3>1, <3>2, <3>3 DEF Orchestrate
  <2> QED
    BY <2>1, <2>2
<1>2. ASSUME NEW h \in Handlers, Work(h) \/ HandlerFaults(h)
      PROVE  cur' = cur /\ (pc[worker] # "idle" =>
               pc'[worker] # "idle" /\ job'[worker].req = job[worker].req)
  <2>1. cur' = cur /\ (Handle(h) \/ HandlerFails(h))
    BY <1>2 DEF Work, HandlerFaults, pipe
  <2>2. CASE h # worker
    BY <1>0, <2>1, <2>2 DEF Handle, HandlerFails, LookupAttempt, ReadIntent, WriteAttempt,
       WriteStatus, PostEntry, PublishNotification, Step, TypeOK
  <2>3. CASE h = worker
    BY <1>0, <2>1, <2>3 DEF Handle, HandlerFails, LookupAttempt, ReadIntent, WriteAttempt,
       WriteStatus, PostEntry, PublishNotification, Step, AfterStatus, TypeOK, Jobs
  <2> QED
    BY <2>1, <2>2, <2>3
<1>3. ASSUME NEW c \in Calls,
             \/ \E r \in Requests, v \in Verdicts : Callback(c, r, v)
             \/ Record(c) \/ Publish(c) \/ CallDies(c) \/ PublishFails(c) \/ Conclude(c)
      PROVE  cur' = cur /\ pc'[worker] = pc[worker] /\ job'[worker] = job[worker]
  <2>1. c # worker /\ c \in Handlers
    OBVIOUS
  <2> QED
    BY <1>0, <1>3, <2>1 DEF Callback, Record, Publish, CallDies, PublishFails, Conclude, Deliver, Start,
       Finish, Step, vars, TypeOK
<1>4. ASSUME NEW c \in Calls, Take(c)
      PROVE  /\ cur' = c /\ pc'[worker] # "idle" /\ call'[c].req = call[c].req
             /\ job'[worker].req = call[c].req
  BY <1>0, <1>4 DEF Take, Deliver, Start, Step, NoJob, TypeOK
<1>5. ~Release
  BY DEF Release
<1>6. CASE UNCHANGED pvars
  BY <1>6 DEF pvars, pipe, vars
<1> QED
  BY <1>1, <1>2, <1>3, <1>4, <1>5, <1>6 DEF PipelineNext

LEMMA AckStep ==
  ASSUME LateAnswers, Typed, IntentsSound, StatusSound, CallsSound, OutcomesSound, AckSound,
         [PipelineNext]_pvars
  PROVE  AckSound'
<1> USE PipelineConstants
<1>1. SettledStays /\ CallsStay
  BY CallsStep, PipelineIsNext, StatusStep
<1>2. cur' # None => pc'[worker] # "idle" /\ job'[worker].req = call'[cur'].req
  BY WorkerKeeps, <1>1 DEF AckSound, CallsSound, CallsStay
<1>3. ASSUME NEW c \in Calls, stream[c] = "acked"
      PROVE  /\ call'[c].req \in Requests
             /\ cpc'[call'[c].req] \in CreateEnds
             /\ pi'[call'[c].req] \in Verdicts \/ cpc'[call'[c].req] = "error"
  BY <1>1, <1>3 DEF AckSound, SettledStays, CallsStay, Settled
<1>4. ASSUME NEW c \in Calls, stream[c] # "acked", stream'[c] = "acked"
      PROVE  /\ call'[c].req \in Requests
             /\ cpc'[call'[c].req] \in CreateEnds
             /\ pi'[call'[c].req] \in Verdicts \/ cpc'[call'[c].req] = "error"
  <2>1. Release
    BY <1>4 DEF PipelineNext, pvars, pipe, Orchestrate, Work, HandlerFaults, Callback, Record,
       Publish, PublishFails, CallDies, Conclude, Take, CallsSound
  <2>2. c = cur /\ pc[worker] = "ack" /\ UNCHANGED <<pi, cpc, call>>
    BY <1>4, <2>1 DEF Release, Finish, CallsSound, db, create
  <2>3. /\ call[c].req = job[worker].req
        /\ job[worker].req \in Requests
        /\ cpc[job[worker].req] \in CreateEnds
        /\ Settled(job[worker].req)
    BY <2>1, <2>2 DEF AckSound, StatusSound, Release
  <2> QED
    BY <2>2, <2>3 DEF Settled
<1> QED
  BY <1>2, <1>3, <1>4 DEF AckSound, Settled

(* If the PSP answers only after the call that asked it has ended, the     *)
(* worker acknowledges a message only when its payment is settled, or was  *)
(* never completed: no crash, redelivery or concurrent handler loses an    *)
(* outcome.                                                                *)
THEOREM AcknowledgesSettled ==
  ASSUME LateAnswers
  PROVE  PipelineSpec => []AckedIsSettled
<1>1. PipelineInit => AckSound
  BY PipelineConstants DEF PipelineInit, AckSound
<1>2. /\ Typed /\ IntentsSound /\ StatusSound /\ CallsSound /\ OutcomesSound /\ AckSound
      /\ [PipelineNext]_pvars
      => AckSound'
  BY AckStep
<1>3. AckSound => AckedIsSettled
  BY DEF AckSound, AckedIsSettled, Settled
<1>4. PipelineSpec => Spec
  BY PipelineUsesOrchestrator DEF UsesOrchestrator
<1> QED
  BY AlwaysTyped, AlwaysIntentsSound, AlwaysStatusSound, AlwaysCallsSound,
     <1>1, <1>2, <1>3, <1>4, PTL DEF PipelineSpec

-----------------------------------------------------------------------------
(* What the pipeline keeps besides the calls and the stream.               *)
BooksTyped ==
  /\ events \subseteq Requests \X Verdicts
  /\ heard \in [Requests -> SUBSET (Verdicts \X PIStatuses)]
  /\ faults \in 0..MaxFaults

(* The merchant is told of an outcome together with a status.              *)
LEMMA DispatchTyped ==
  ASSUME Typed, IntentsSound, CallsSound, OutcomesSound, BooksTyped, NEW c \in Calls, call[c].pc # "idle",
         Dispatch(call[c].req, call[c].evt)
  PROVE  heard' \in [Requests -> SUBSET (Verdicts \X PIStatuses)]
<1>1. call[c].req \in Requests /\ call[c].evt \in Verdicts
  BY DEF CallsSound
<1>2. pi[call[c].req] # "none"
  BY <1>1 DEF OutcomesSound, IntentsSound
<1>3. pi[call[c].req] \in PIStatuses
  BY <1>1, <1>2 DEF Typed, TypeOK
<1>4. heard[call[c].req] \cup {<<call[c].evt, pi[call[c].req]>>}
        \in SUBSET (Verdicts \X PIStatuses)
  BY <1>1, <1>3 DEF BooksTyped
<1> QED
  BY <1>1, <1>4 DEF Dispatch, BooksTyped

LEMMA BooksStep ==
  ASSUME Typed, IntentsSound, CallsSound, OutcomesSound, BooksTyped, [PipelineNext]_pvars
  PROVE  BooksTyped'
<1> USE PipelineConstants
<1>1. ASSUME NEW c \in Calls, Record(c)
      PROVE  BooksTyped'
  <2>1. <<call[c].req, call[c].evt>> \in Requests \X Verdicts
    BY <1>1 DEF Record, CallsSound
  <2> QED
    BY <1>1, <2>1 DEF Record, BooksTyped
<1>2. ASSUME NEW c \in Calls, Conclude(c)
      PROVE  BooksTyped'
  <2>1. call[c].pc # "idle" /\ UNCHANGED <<events, faults>>
    BY <1>2 DEF Conclude
  <2>2. Dispatch(call[c].req, call[c].evt) \/ UNCHANGED heard
    BY <1>2 DEF Conclude
  <2> QED
    BY <2>1, <2>2, DispatchTyped DEF BooksTyped
<1>3. CASE Release
  <2>1. cur \in Calls /\ call[cur].pc # "idle"
    BY <1>3 DEF Release, CallsSound
  <2>2. Dispatch(call[cur].req, call[cur].evt) \/ UNCHANGED heard
    BY <1>3 DEF Release
  <2>3. heard' \in [Requests -> SUBSET (Verdicts \X PIStatuses)]
    BY <2>1, <2>2, DispatchTyped DEF BooksTyped
  <2>4. UNCHANGED events /\ (UNCHANGED faults \/ (faults < MaxFaults /\ faults' = faults + 1))
    BY <1>3 DEF Release
  <2> QED
    BY <2>3, <2>4 DEF BooksTyped
<1>4. CASE \E h \in Handlers : HandlerFaults(h)
  BY <1>4 DEF HandlerFaults, BooksTyped
<1>5. CASE UNCHANGED <<events, heard, faults>>
  BY <1>5 DEF BooksTyped
<1> QED
  BY <1>1, <1>2, <1>3, <1>4, <1>5
     DEF PipelineNext, Orchestrate, pipe, Work, Callback, Publish, PublishFails, CallDies,
         Take, pvars

LEMMA AlwaysBooksTyped == PipelineSpec => []BooksTyped
<1>1. PipelineInit => BooksTyped
  BY PipelineConstants DEF PipelineInit, BooksTyped
<1>2. /\ Typed /\ IntentsSound /\ CallsSound /\ OutcomesSound /\ BooksTyped
      /\ [PipelineNext]_pvars
      => BooksTyped'
  BY BooksStep
<1>3. PipelineSpec => Spec
  BY PipelineUsesOrchestrator DEF UsesOrchestrator
<1> QED
  BY AlwaysIntentsSound, AlwaysCallsSound, <1>1, <1>2, <1>3, PTL DEF PipelineSpec

(* Type correctness of the pipeline: its calls, the stream and what the    *)
(* merchant was told.                                                      *)
THEOREM PipelineTypeCorrect == PipelineSpec => []PipelineTypeOK
<1>1. CallsSound /\ BooksTyped => PipelineTypeOK
  BY DEF CallsSound, CallTypes, BooksTyped, PipelineTypeOK
<1> QED
  BY AlwaysCallsSound, AlwaysBooksTyped, <1>1, PTL

-----------------------------------------------------------------------------
(* A payment waits for its payer only after its creation has returned.     *)
WaitingSound ==
  \A r \in Requests : pi[r] = "requires_action" => cpc[r] = "returned"

LEMMA WaitingStep ==
  ASSUME Typed, IntentsSound, StatusSound, WaitingSound, [Next]_vars
  PROVE  WaitingSound'
<1> USE DEF Typed
<1>1. ASSUME NEW r \in Requests, Create(r) \/ CreateFails(r)
      PROVE  WaitingSound'
  <2>1. /\ pi[r] # "requires_action"
        /\ \A q \in Requests : q # r => cpc'[q] = cpc[q] /\ pi'[q] = pi[q]
    BY <1>1 DEF StatusSound, Create, Replay, Admit, InsertIntent, InsertConflicts, StoreKey,
       CollectionAccepted, CollectionRefused, MarkFailed, SaveAttempt, MarkWaiting, CreateFails,
       db, GoTo, Return, CreateSteps, TypeOK
  <2>2. pi'[r] = "requires_action" => cpc'[r] = "returned"
    <3>1. CASE MarkWaiting(r)
      BY <3>1 DEF MarkWaiting, GoTo, Return, TypeOK
    <3>2. CASE ~MarkWaiting(r)
      BY <1>1, <2>1, <3>2 DEF Create, Replay, Admit, InsertIntent, InsertConflicts, StoreKey,
         CollectionAccepted, CollectionRefused, MarkFailed, SaveAttempt, CreateFails, db, TypeOK
    <3> QED
      BY <3>1, <3>2
  <2> QED
    BY <2>1, <2>2 DEF WaitingSound
<1>2. ASSUME NEW a \in Agents, Runs(a)
      PROVE  WaitingSound'
  <2>1. cpc' = cpc
    BY <1>2, RunsKeepFrame DEF RunFrame, create
  <2>2. \/ pi' = pi
        \/ \E r \in Requests, v \in Verdicts : pi' = [pi EXCEPT ![r] = v]
    <3>1. CASE WriteStatus(a)
      <4>1. job[a].req \in Requests /\ job[a].evt \in Verdicts
        BY <3>1 DEF WriteStatus, JobsSound
      <4> QED
        BY <3>1, <4>1 DEF WriteStatus
    <3>2. CASE a \in Requests /\ WriteStatusSafe(a)
      <4>1. job[a].evt \in Verdicts
        BY <3>2 DEF WriteStatusSafe, JobsSound
      <4> QED
        BY <3>2, <4>1 DEF WriteStatusSafe
    <3>3. CASE ~WriteStatus(a) /\ ~WriteStatusSafe(a)
      BY <1>2, <3>3 DEF Runs, Handle, Query, LookupAttempt, ReadIntent, WriteAttempt, PostEntry,
         PublishNotification, HandlerFails, Finish, FireQuery, AskPSP, QueryFails, db
    <3> QED
      BY <3>1, <3>2, <3>3 DEF WriteStatusSafe, Agents
  <2> QED
    BY <2>1, <2>2 DEF WaitingSound, Verdicts, TypeOK
<1>3. CASE \/ \E r \in Requests, v \in Verdicts : Announce(r, v)
           \/ \E k \in Keys : ForgetKey(k)
           \/ \E h \in Handlers, r \in Requests, v \in Verdicts : Deliver(h, r, v)
           \/ UNCHANGED vars
  BY <1>3 DEF WaitingSound, Announce, ForgetKey, Deliver, Start, db, create, vars
<1> QED
  BY <1>1, <1>2, <1>3 DEF Next, Runs, Agents

(* With a reliable stream and no delayed query only the worker handles     *)
(* events.                                                                 *)
OnlyWorker ==
  /\ \A a \in Agents : a # worker => pc[a] = "idle"
  /\ \A c \in Calls : call[c].pc # "handle"

(* A success it is settling or booking is not acknowledged yet, and until  *)
(* something fails the only settled success that may lack entries is the   *)
(* one it is booking.                                                      *)
BookingSucceeded ==
  pc[worker] \in {"attempt", "status", "post"} /\ job[worker].evt = "succeeded"

BookedOrPosting ==
  \A r \in Requests : pi[r] = "succeeded" =>
    \/ \A l \in Lines : rows[r][l] > 0
    \/ pc[worker] = "post" /\ job[worker].req = r

WorkerSound ==
  /\ BookingSucceeded =>
       \A c \in Calls : stream[c] = "acked" => call[c].req # job[worker].req
  /\ faults = 0 => BookedOrPosting

(* A step that is neither the worker's nor a handler's.                    *)
Elsewhere ==
  /\ UNCHANGED <<rows, pc, job, faults>>
  /\ \A c \in Calls : stream'[c] = "acked" => stream[c] = "acked"
  /\ \A c \in Calls : call'[c].pc # "handle"
  /\ \A r \in Requests : pi'[r] = "succeeded" => pi[r] = "succeeded"

LEMMA WorkerAlone ==
  ASSUME NatsReliable, NoQueries, Typed, CallsSound, OnlyWorker, [PipelineNext]_pvars
  PROVE  \/ Elsewhere
         \/ \E c \in Calls : Take(c)
         \/ Work(worker) \/ HandlerFaults(worker) \/ Release
<1> USE PipelineConstants DEF Typed, Elsewhere
<1>1. CASE Orchestrate
  <2>1. ASSUME NEW r \in Requests
        PROVE  ~Query(r) /\ ~QueryFails(r)
    <3>1. pc[r] = "idle"
      BY ConstantsSound DEF OnlyWorker, Agents
    <3> QED
      BY <3>1 DEF Query, FireQuery, AskPSP, WriteAttempt, WriteStatusSafe, PostEntry,
         PublishNotification, QueryFails, QuerySteps
  <2>2. /\ UNCHANGED <<rows, pc, job>>
        /\ \/ pi' = pi
           \/ \E r \in Requests, s \in {"created", "failed", "requires_action"} :
                pi' = [pi EXCEPT ![r] = s]
    BY <1>1, <2>1 DEF Orchestrate, NoQueries, Create, Replay, Admit, InsertIntent,
       InsertConflicts, StoreKey, CollectionAccepted, CollectionRefused, MarkFailed, SaveAttempt,
       MarkWaiting, CreateFails, Announce, ForgetKey, InitialStatus, db, run
  <2>3. UNCHANGED <<faults, stream, call>>
    BY <1>1 DEF Orchestrate, pipe
  <2> QED
    BY <2>2, <2>3 DEF TypeOK, OnlyWorker
<1>2. ASSUME NEW h \in Handlers, Work(h) \/ HandlerFaults(h)
      PROVE  h = worker
  <2>1. pc[h] # "idle"
    BY <1>2 DEF Work, HandlerFaults, Handle, LookupAttempt, ReadIntent, WriteAttempt,
       WriteStatus, PostEntry, PublishNotification, HandlerFails, HandlerSteps
  <2> QED
    BY <2>1 DEF OnlyWorker, Agents
<1>3. ASSUME NEW c \in Calls, NEW r \in Requests, NEW v \in Verdicts, Callback(c, r, v)
      PROVE  Elsewhere
  <2>1. /\ UNCHANGED <<vars, stream, faults>>
        /\ \E s \in {"record", "done"} :
             call' = [call EXCEPT ![c] = [[[@ EXCEPT !.pc = s] EXCEPT !.req = r] EXCEPT !.evt = v]]
    BY <1>3 DEF Callback
  <2>2. call'[c].pc \in {"record", "done"} /\ \A d \in Calls : d # c => call'[d] = call[d]
    BY <2>1 DEF CallsSound, CallTypes
  <2> QED
    BY <2>1, <2>2 DEF OnlyWorker, vars
<1>4. ASSUME NEW c \in Calls, Record(c) \/ Publish(c) \/ CallDies(c)
      PROVE  Elsewhere
  <2>1. /\ UNCHANGED <<vars, faults>>
        /\ UNCHANGED stream \/ stream' = [stream EXCEPT ![c] = "stored"]
    BY <1>4 DEF Record, Publish, CallDies
  <2>2. call'[c].pc \in {"publish", "done"} /\ \A d \in Calls : d # c => call'[d] = call[d]
    <3>1. CASE Record(c)
      <4>1. \E b \in BOOLEAN :
              call' = [call EXCEPT ![c] = [[@ EXCEPT !.pc = "publish"] EXCEPT !.recorded = b]]
        BY <3>1 DEF Record
      <4> QED
        BY <4>1 DEF CallsSound, CallTypes
    <3>2. CASE Publish(c) \/ CallDies(c)
      BY <3>2 DEF Publish, CallDies, CallsSound, CallTypes
    <3> QED
      BY <1>4, <3>1, <3>2
  <2> QED
    BY <2>1, <2>2 DEF OnlyWorker, CallsSound, vars
<1>5. ASSUME NEW c \in Calls
      PROVE  ~PublishFails(c) /\ ~Conclude(c)
  BY DEF PublishFails, Conclude, OnlyWorker
<1>6. CASE UNCHANGED pvars
  BY <1>6 DEF pvars, pipe, vars, OnlyWorker
<1> QED
  BY <1>1, <1>2, <1>3, <1>4, <1>5, <1>6 DEF PipelineNext

LEMMA OnlyWorkerStep ==
  ASSUME NatsReliable, NoQueries, Typed, CallsSound, OnlyWorker, [PipelineNext]_pvars
  PROVE  OnlyWorker'
<1> USE PipelineConstants DEF Typed, Step
<1>1. CASE Elsewhere
  BY <1>1 DEF Elsewhere, OnlyWorker
<1>2. CASE (\E c \in Calls : Take(c)) \/ Work(worker) \/ HandlerFaults(worker) \/ Release
  <2>1. worker \in Agents /\ worker \in Handlers
    BY DEF Agents
  <2>2. /\ UNCHANGED call
        /\ \A a \in Agents : a # worker => pc'[a] = pc[a]
    BY <1>2, <2>1 DEF Take, Start, HandlerFaults, HandlerFails, Release, Finish, Work, pipe,
       Handle, LookupAttempt, ReadIntent, WriteAttempt, WriteStatus, PostEntry,
       PublishNotification, TypeOK
  <2> QED
    BY <2>2 DEF OnlyWorker
<1> QED
  BY <1>1, <1>2, WorkerAlone

LEMMA WorkerElsewhere ==
  ASSUME CallsStay, WorkerSound, Elsewhere
  PROVE  WorkerSound'
<1>1. BookingSucceeded' =>
        \A c \in Calls : stream'[c] = "acked" => call'[c].req # job'[worker].req
  BY DEF WorkerSound, Elsewhere, CallsStay, BookingSucceeded
<1>2. faults' = 0 => BookedOrPosting'
  BY DEF WorkerSound, Elsewhere, BookedOrPosting
<1> QED
  BY <1>1, <1>2 DEF WorkerSound, Elsewhere

LEMMA WorkerWorks ==
  ASSUME Typed, StatusSound, WaitingSound, PostingSound, AckSound, CallsSound, WorkerSound,
         Work(worker)
  PROVE  WorkerSound'
<1> USE PipelineConstants DEF Typed, Step
<1>1. worker \in Agents /\ worker \in Handlers /\ job[worker] \in Jobs
  BY DEF Agents, TypeOK
<1>2. /\ UNCHANGED <<stream, call, faults, cpc>>
      /\ \A a \in Agents : a # worker => pc'[a] = pc[a]
  BY <1>1 DEF Work, pipe, Handle, LookupAttempt, ReadIntent, WriteAttempt, WriteStatus,
     PostEntry, PublishNotification, create, TypeOK
<1>3. /\ job'[worker].req = job[worker].req
      /\ job'[worker].evt = job[worker].evt
  BY <1>1 DEF Work, Handle, LookupAttempt, ReadIntent, WriteAttempt, WriteStatus,
     PostEntry, PublishNotification, TypeOK, Jobs
<1>4. ASSUME BookingSucceeded', NEW c \in Calls, stream[c] = "acked"
      PROVE  call[c].req # job[worker].req
  <2>1. CASE BookingSucceeded
    BY <1>4, <2>1 DEF WorkerSound
  <2>2. CASE ~BookingSucceeded
    <3> DEFINE r == job[worker].req
    <3>1. ReadIntent(worker) /\ job[worker].evt = "succeeded"
      BY <1>1, <1>3, <1>4, <2>2 DEF BookingSucceeded, Work, Handle, LookupAttempt, ReadIntent,
         WriteAttempt, WriteStatus, PostEntry, PublishNotification, TypeOK, AfterStatus
    <3>2. /\ r \in Requests
          /\ IsValidTransition(pi[r], "succeeded")
      BY <1>1, <1>4, <3>1 DEF ReadIntent, JobsSound, BookingSucceeded, TypeOK
    <3>3. pi[r] = "requires_action"
      BY <3>2 DEF IsValidTransition, transitions, StatusSound, Verdicts
    <3>4. ~Settled(r)
      BY <3>2, <3>3 DEF Settled, Verdicts, WaitingSound
    <3> QED
      BY <1>4, <3>4 DEF AckSound
  <2> QED
    BY <2>1, <2>2
<1>5. ASSUME faults = 0
      PROVE  BookedOrPosting'
  <2>1. CASE WriteStatus(worker)
    <3>1. /\ job[worker].req \in Requests
          /\ rows' = rows /\ pi' = [pi EXCEPT ![job[worker].req] = job[worker].evt]
          /\ pc[worker] = "status"
          /\ pc' = [pc EXCEPT ![worker] = AfterStatus(job[worker].evt)]
      BY <1>1, <2>1 DEF WriteStatus, JobsSound
    <3>2. job[worker].evt = "succeeded" => pc'[worker] = "post"
      BY <1>1, <3>1 DEF AfterStatus, TypeOK
    <3> QED
      BY <1>3, <1>5, <3>1, <3>2 DEF WorkerSound, BookedOrPosting, TypeOK
  <2>2. CASE PostEntry(worker)
    <3> DEFINE r == job[worker].req
               n == job[worker].line
    <3>1. /\ r \in Requests /\ n \in Lines /\ pi' = pi /\ pc[worker] = "post"
          /\ rows' = [rows EXCEPT ![r][n] = @ + 1]
          /\ \A l \in Lines : l < n => rows[r][l] > 0
      BY <1>1, <2>2 DEF PostEntry, JobsSound, PostingSound, Jobs
    <3>2. \A q \in Requests, l \in Lines : rows[q][l] > 0 => rows'[q][l] > 0
      BY <3>1 DEF TypeOK
    <3>3. CASE n = NumLines
      <4>1. rows'[r][n] > 0
        BY <3>1 DEF TypeOK
      <4>2. \A l \in Lines : l < n \/ l = n
        BY <3>3, OrchestratorConstants DEF Lines
      <4>3. \A l \in Lines : rows'[r][l] > 0
        BY <3>1, <3>2, <4>1, <4>2
      <4> QED
        BY <1>5, <3>1, <3>2, <4>3 DEF WorkerSound, BookedOrPosting
    <3>4. CASE n # NumLines
      <4>1. pc' = pc
        BY <2>2, <3>4 DEF PostEntry
      <4> QED
        BY <1>3, <1>5, <3>1, <3>2, <4>1 DEF WorkerSound, BookedOrPosting
    <3> QED
      BY <3>3, <3>4
  <2>3. CASE ~WriteStatus(worker) /\ ~PostEntry(worker)
    <3>1. UNCHANGED <<pi, rows>> /\ pc[worker] # "post"
      BY <1>1, <2>3 DEF Work, Handle, LookupAttempt, ReadIntent, WriteAttempt,
         PublishNotification, db
    <3> QED
      BY <1>5, <3>1 DEF WorkerSound, BookedOrPosting
  <2> QED
    BY <2>1, <2>2, <2>3
<1> QED
  BY <1>2, <1>3, <1>4, <1>5 DEF WorkerSound

LEMMA WorkerStarts ==
  ASSUME Typed, BooksTyped, WorkerSound,
         (\E c \in Calls : Take(c)) \/ HandlerFaults(worker) \/ Release
  PROVE  WorkerSound'
<1> USE PipelineConstants DEF Typed, Step
<1>1. /\ UNCHANGED <<call, pi, rows>>
      /\ pc'[worker] \in {"lookup", "nak", "idle"}
      /\ \A a \in Agents : a # worker => pc'[a] = pc[a]
  BY DEF Take, HandlerFaults, Release, Start, HandlerFails, Finish, db, TypeOK, Agents
<1>2. faults' = 0 => faults = 0 /\ pc[worker] # "post"
  <2>1. CASE \E c \in Calls : Take(c)
    BY <2>1 DEF Take, Start
  <2>2. CASE HandlerFaults(worker)
    BY <2>2 DEF HandlerFaults, BooksTyped
  <2>3. CASE Release
    <3>1. pc[worker] \in {"ack", "nak"}
      BY <2>3 DEF Release, Finish
    <3>2. faults' = faults \/ faults' = faults + 1
      BY <2>3 DEF Release
    <3> QED
      BY <3>1, <3>2 DEF BooksTyped
  <2> QED
    BY <2>1, <2>2, <2>3
<1>3. ~BookingSucceeded'
  BY <1>1 DEF BookingSucceeded
<1>4. faults' = 0 => BookedOrPosting'
  BY <1>1, <1>2 DEF WorkerSound, BookedOrPosting
<1> QED
  BY <1>1, <1>3, <1>4 DEF WorkerSound

(* With a reliable stream, no delayed query and a PSP that answers late, a *)
(* success that is acknowledged while nothing has failed is in the ledger, *)
(* every line of it: the state machine, which ignores a repeated success,  *)
(* never ignores one whose entries are still to be written.                *)
THEOREM AcknowledgesBooked ==
  ASSUME LateAnswers, NoQueries, NatsReliable
  PROVE  PipelineSpec => []AckedIsBookedUnlessFaulty
<1> USE PipelineConstants
<1> DEFINE Sound == AckSound /\ WaitingSound /\ OnlyWorker /\ WorkerSound
           Context == /\ Typed /\ IntentsSound /\ StatusSound /\ PostingSound
                     /\ CallsSound /\ OutcomesSound /\ BooksTyped
<1>1. PipelineInit => Sound
  BY DEF PipelineInit, Init, AckSound, WaitingSound, OnlyWorker, WorkerSound, BookingSucceeded,
     BookedOrPosting, Agents
<1>2. Context /\ Sound /\ [PipelineNext]_pvars => Sound'
  <2> SUFFICES ASSUME Context, Sound, [PipelineNext]_pvars
               PROVE  Sound'
    OBVIOUS
  <2>1. AckSound' /\ CallsStay
    BY AckStep, CallsStep
  <2>2. WaitingSound'
    BY PipelineIsNext, WaitingStep
  <2>3. OnlyWorker'
    BY OnlyWorkerStep
  <2>4. WorkerSound'
    BY <2>1, WorkerAlone, WorkerElsewhere, WorkerWorks, WorkerStarts
  <2> QED
    BY <2>1, <2>2, <2>3, <2>4
<1>3. Context /\ Sound => AckedIsBookedUnlessFaulty
  BY DEF Typed, JobsSound, Agents, AckSound, WorkerSound, BookingSucceeded, BookedOrPosting,
     AckedIsBookedUnlessFaulty, AckedIsBooked
<1>4. PipelineSpec => Spec
  BY PipelineUsesOrchestrator DEF UsesOrchestrator
<1> QED
  BY AlwaysTyped, AlwaysIntentsSound, AlwaysStatusSound, AlwaysPostingSound, AlwaysCallsSound,
     AlwaysBooksTyped, <1>1, <1>2, <1>3, <1>4, PTL DEF PipelineSpec

-----------------------------------------------------------------------------
(***************************************************************************)
(* With a reliable stream and no delayed query, the worker is the only one *)
(* that settles payments: the pipeline keeps executions apart, which the   *)
(* orchestrator itself does not, and so gets the orchestrator's promises   *)
(* whatever is redelivered, repeated or interrupted.                       *)
(***************************************************************************)

LEMMA PipelineKeepsApart ==
  ASSUME NoQueries, NatsReliable
  PROVE  PipelineSpec => []NoOverlap
<1>1. PipelineInit => OnlyWorker
  BY PipelineConstants DEF PipelineInit, Init, OnlyWorker, Agents
<1>2. Typed /\ CallsSound /\ OnlyWorker /\ [PipelineNext]_pvars => OnlyWorker'
  BY OnlyWorkerStep
<1>3. OnlyWorker => NoOverlap
  BY DEF OnlyWorker, NoOverlap, Settling
<1>4. PipelineSpec => Spec
  BY PipelineUsesOrchestrator DEF UsesOrchestrator
<1> QED
  BY AlwaysTyped, AlwaysCallsSound, <1>1, <1>2, <1>3, <1>4, PTL DEF PipelineSpec

(* The pipeline books a collection at most once.                           *)
THEOREM PipelineBooksAtMostOnce ==
  ASSUME NoQueries, NatsReliable
  PROVE  PipelineSpec => []BookedAtMostOnce
<1>1. PipelineSpec => Spec
  BY PipelineUsesOrchestrator DEF UsesOrchestrator
<1> QED
  BY <1>1, PipelineKeepsApart, BooksOnceWithoutOverlap, PTL

(* The pipeline never overwrites a success.                                *)
THEOREM PipelineSuccessIsFinal ==
  ASSUME NoQueries, NatsReliable
  PROVE  PipelineSpec => SucceededIsFinal
<1>1. PipelineSpec => Spec
  BY PipelineUsesOrchestrator DEF UsesOrchestrator
<1> QED
  BY <1>1, PipelineKeepsApart, SuccessIsFinalWithoutOverlap, PTL

(* With a PSP that answers late the pipeline implements the lifecycle that *)
(* a merchant may rely on, whatever the webhook path does to the callbacks. *)
THEOREM PipelineImplementsLifecycle ==
  ASSUME NoQueries, NatsReliable, LateAnswers
  PROVE  PipelineSpec => ImplementsLifecycle
<1>1. PipelineSpec => Spec
  BY PipelineUsesOrchestrator DEF UsesOrchestrator
<1> QED
  BY <1>1, PipelineKeepsApart, LateIsAfterCreation, LifecycleWithoutOverlap, PTL

=============================================================================
