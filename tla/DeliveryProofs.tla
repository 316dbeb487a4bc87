---------------------------- MODULE DeliveryProofs ----------------------------
(***************************************************************************)
(* Theorems about module Delivery, for any number of agents, events,       *)
(* endpoints, rows and faults.                                             *)
(***************************************************************************)
EXTENDS Delivery, SequenceTheorems, TLAPS

(* The row j is the failed delivery that agent a tries again.              *)
Follows(j, a) ==
  /\ rows[j].evt = job[a].evt
  /\ rows[j].attempt + 1 = job[a].attempt
  /\ rows[j].status = "failed"
  /\ job[a].todo \subseteq {rows[j].ep}

Posting == {"next", "send", "mark"}

(* What an agent works on is consistent with where it is: the row it sends *)
(* is there and pending, the outcome it is about to record is what the     *)
(* endpoint did, and behind a repeated try there is the failed one.        *)
AgentSound(a) ==
  /\ pc[a] = "check" => job[a].row \in DOMAIN rows
  /\ pc[a] \in Posting => job[a].evt \in Events /\ job[a].attempt \in Nat \ {0}
  /\ pc[a] \in {"send", "mark"} =>
       job[a].row \in DOMAIN rows /\ rows[job[a].row].status = "pending"
  /\ pc[a] = "mark" =>
       /\ job[a].outcome \in {"delivered", "failed"}
       /\ job[a].outcome = "delivered" => job[a].row \in received
  /\ pc[a] \in Posting /\ job[a].attempt > 1 => \E j \in DOMAIN rows : Follows(j, a)

OneSender ==
  \A a, b \in Agents, i \in DOMAIN rows : Sends(a, i) /\ Sends(b, i) => a = b

DeliverySound ==
  /\ DeliveryTypeOK
  /\ \A a \in Agents : AgentSound(a)
  /\ OneSender
  /\ DeliveredWasReceived
  /\ TriesAreChained

-----------------------------------------------------------------------------
(* What a step may do to the rows: add one, or record an outcome.          *)
Grows(row) ==
  /\ rows' \in Seq(DeliveryRow)
  /\ Len(rows') = Len(rows) + 1
  /\ \A i \in DOMAIN rows : rows'[i] = rows[i]
  /\ rows'[Len(rows) + 1] = row

Records(r, outcome) ==
  /\ rows' \in Seq(DeliveryRow)
  /\ Len(rows') = Len(rows)
  /\ \A i \in DOMAIN rows :
       rows'[i] = IF i = r THEN [rows[i] EXCEPT !.status = outcome] ELSE rows[i]

LEMMA InsertGrows ==
  ASSUME DeliveryTypeOK, NEW a \in Agents, AgentSound(a), NEW ep \in Endpoints, Insert(a, ep)
  PROVE  Grows([evt |-> job[a].evt, ep |-> ep, attempt |-> job[a].attempt,
                status |-> "pending"])
  <1> DEFINE row == [evt |-> job[a].evt, ep |-> ep, attempt |-> job[a].attempt,
                     status |-> "pending"]
  <1>1. rows \in Seq(DeliveryRow)  BY DEF DeliveryTypeOK
  <1>2. row \in DeliveryRow  BY DEF Insert, AgentSound, Posting, DeliveryRow
  <1>3. rows' = Append(rows, row)  BY DEF Insert
  <1> HIDE DEF row
  <1>4. /\ rows' \in Seq(DeliveryRow)
        /\ Len(rows') = Len(rows) + 1
        /\ \A i \in 1..Len(rows) : rows'[i] = rows[i]
        /\ rows'[Len(rows) + 1] = row
    BY <1>1, <1>2, <1>3, AppendProperties
  <1>5. DOMAIN rows = 1..Len(rows)  BY <1>1, LenProperties
  <1>6. Grows(row)  BY <1>4, <1>5 DEF Grows
  <1>7. QED  BY <1>6 DEF row

LEMMA MarkRecords ==
  ASSUME DeliveryTypeOK, NEW a \in Agents, AgentSound(a), Mark(a)
  PROVE  Records(job[a].row, job[a].outcome)
  <1> DEFINE r == job[a].row
             row == [rows[r] EXCEPT !.status = job[a].outcome]
  <1>1. rows \in Seq(DeliveryRow)  BY DEF DeliveryTypeOK
  <1>2. DOMAIN rows = 1..Len(rows)  BY <1>1, LenProperties
  <1>3. r \in 1..Len(rows) /\ job[a].outcome \in {"delivered", "failed"}
    BY <1>2 DEF Mark, AgentSound
  <1>4. rows[r] \in DeliveryRow  BY <1>1, <1>3, ElementOfSeq
  <1>5. row \in DeliveryRow  BY <1>3, <1>4 DEF DeliveryRow
  <1>6. rows' = [rows EXCEPT ![r] = row]  BY DEF Mark
  <1> HIDE DEF r, row
  <1>7. /\ rows' \in Seq(DeliveryRow)
        /\ Len(rows') = Len(rows)
        /\ \A i \in 1..Len(rows) : rows'[i] = IF i = r THEN row ELSE rows[i]
    BY <1>1, <1>3, <1>5, <1>6, ExceptSeq
  <1>8. QED  BY <1>2, <1>7 DEF Records, r, row

(* Every other step leaves the rows alone.                                 *)
LEMMA RowsChange ==
  ASSUME DeliverySound, NEW a \in Agents,
         \/ \E e \in Events : Dispatch(a, e)
         \/ \E i \in Ids : AskRetry(a, i)
         \/ Post(a)
         \/ Break(a)
  PROVE  \/ \E ep \in Endpoints :
              /\ Insert(a, ep)
              /\ Grows([evt |-> job[a].evt, ep |-> ep, attempt |-> job[a].attempt,
                        status |-> "pending"])
         \/ Mark(a) /\ Records(job[a].row, job[a].outcome)
         \/ rows' = rows /\ ~ Mark(a) /\ ~ \E ep \in Endpoints : Insert(a, ep)
  <1>1. CASE \E ep \in Endpoints : Insert(a, ep)
    BY <1>1, InsertGrows DEF DeliverySound
  <1>2. CASE Mark(a)  BY <1>2, MarkRecords DEF DeliverySound
  <1>3. CASE ~ Mark(a) /\ ~ \E ep \in Endpoints : Insert(a, ep)
    BY <1>3 DEF Dispatch, AskRetry, Post, Break, Retry, Accepted, AnswerLost, Refused,
                End, InsertFails, MarkFails, Dies
  <1>4. QED  BY <1>1, <1>2, <1>3

(* What is written in the rows stays, but for pending statuses.            *)
RowsStay ==
  \A i \in DOMAIN rows :
    /\ i \in DOMAIN rows'
    /\ rows'[i].evt = rows[i].evt /\ rows'[i].ep = rows[i].ep
    /\ rows'[i].attempt = rows[i].attempt
    /\ rows[i].status # "pending" => rows'[i] = rows[i]

LEMMA StepKeepsRows ==
  ASSUME DeliverySound, [DeliveryNext]_dvars
  PROVE  RowsStay
  <1>1. rows \in Seq(DeliveryRow) /\ DOMAIN rows = 1..Len(rows) /\ Len(rows) \in Nat
    BY LenProperties DEF DeliverySound, DeliveryTypeOK
  <1>2. \A i \in DOMAIN rows : rows[i] \in DeliveryRow  BY <1>1, ElementOfSeq
  <1>3. CASE UNCHANGED dvars  BY <1>3 DEF dvars, RowsStay
  <1>4. CASE DeliveryNext
    <2>1. PICK a \in Agents :
            \/ \E e \in Events : Dispatch(a, e)
            \/ \E i \in Ids : AskRetry(a, i)
            \/ Post(a)
            \/ Break(a)
      BY <1>4 DEF DeliveryNext
    <2>2. CASE \E ep \in Endpoints :
                 Grows([evt |-> job[a].evt, ep |-> ep, attempt |-> job[a].attempt,
                        status |-> "pending"])
      <3>1. rows' \in Seq(DeliveryRow) /\ Len(rows') = Len(rows) + 1
            /\ \A i \in DOMAIN rows : rows'[i] = rows[i]
        BY <2>2 DEF Grows
      <3>2. DOMAIN rows' = 1..Len(rows')  BY <3>1, LenProperties
      <3>3. QED  BY <1>1, <3>1, <3>2 DEF RowsStay
    <2>3. CASE Mark(a) /\ Records(job[a].row, job[a].outcome)
      <3>1. rows' \in Seq(DeliveryRow) /\ Len(rows') = Len(rows)  BY <2>3 DEF Records
      <3>2. DOMAIN rows' = 1..Len(rows')  BY <3>1, LenProperties
      <3>3. rows[job[a].row].status = "pending"  BY <2>3 DEF DeliverySound, AgentSound, Mark
      <3>4. SUFFICES ASSUME NEW i \in DOMAIN rows
                     PROVE  /\ rows'[i].evt = rows[i].evt /\ rows'[i].ep = rows[i].ep
                            /\ rows'[i].attempt = rows[i].attempt
                            /\ rows[i].status # "pending" => rows'[i] = rows[i]
        BY <1>1, <3>1, <3>2 DEF RowsStay
      <3>5. rows'[i] = IF i = job[a].row THEN [rows[i] EXCEPT !.status = job[a].outcome]
                                         ELSE rows[i]
        BY <2>3 DEF Records
      <3>6. QED  BY <1>2, <3>3, <3>5 DEF DeliveryRow
    <2>4. CASE rows' = rows  BY <2>4 DEF RowsStay
    <2>5. QED  BY <2>1, <2>2, <2>3, <2>4, RowsChange
  <1>5. QED  BY <1>3, <1>4

-----------------------------------------------------------------------------
(* One step of one agent.                                                  *)
StepOf(a) ==
  \/ \E e \in Events : Dispatch(a, e)
  \/ \E i \in Ids : AskRetry(a, i)
  \/ Post(a)
  \/ Break(a)

LEMMA RowsAreSequence ==
  ASSUME DeliveryTypeOK
  PROVE  /\ rows \in Seq(DeliveryRow) /\ Len(rows) \in Nat
         /\ DOMAIN rows = 1..Len(rows)
         /\ \A i \in DOMAIN rows : rows[i] \in DeliveryRow
  <1>1. rows \in Seq(DeliveryRow) /\ DOMAIN rows = 1..Len(rows) /\ Len(rows) \in Nat
    BY LenProperties DEF DeliveryTypeOK
  <1>2. QED  BY <1>1, ElementOfSeq

LEMMA TypedDelivery ==
  ASSUME DeliveryConstants, DeliverySound, NEW a \in Agents, StepOf(a)
  PROVE  DeliveryTypeOK'
  <1>1. DeliveryTypeOK /\ AgentSound(a)  BY DEF DeliverySound
  <1>2. /\ rows' \in Seq(DeliveryRow) /\ Len(rows') <= MaxRows
        /\ DOMAIN rows \subseteq DOMAIN rows'
    <2>1. RowsStay  BY StepKeepsRows DEF StepOf, DeliveryNext
    <2>2. DOMAIN rows \subseteq DOMAIN rows'  BY <2>1 DEF RowsStay
    <2>3. CASE \E ep \in Endpoints :
                 /\ Insert(a, ep)
                 /\ Grows([evt |-> job[a].evt, ep |-> ep, attempt |-> job[a].attempt,
                           status |-> "pending"])
      BY <1>1, <2>2, <2>3, RowsAreSequence DEF Grows, Insert, DeliveryConstants
    <2>4. CASE Mark(a) /\ Records(job[a].row, job[a].outcome)
      BY <1>1, <2>2, <2>4 DEF Records, DeliveryTypeOK
    <2>5. CASE rows' = rows  BY <1>1, <2>2, <2>5 DEF DeliveryTypeOK
    <2>6. QED  BY <2>3, <2>4, <2>5, RowsChange DEF StepOf
  <1>3. received' \subseteq DOMAIN rows'
    <2>1. received' \subseteq received \cup {job[a].row} /\ (pc[a] = "send" \/ received' = received)
      BY DEF StepOf, Dispatch, AskRetry, Post, Break, Retry, Insert, Accepted, AnswerLost,
             Refused, Mark, End, InsertFails, MarkFails, Dies
    <2>2. QED  BY <1>1, <1>2, <2>1 DEF AgentSound, DeliveryTypeOK
  <1>4. /\ pc' \in [Agents -> {"idle", "check", "next", "send", "mark"}]
        /\ faults' \in 0..MaxFaults
    <2>1. faults' = faults \/ Fault
      BY DEF StepOf, Dispatch, AskRetry, Post, Break, Retry, Insert, Accepted, AnswerLost,
         Refused, Mark, End, InsertFails, MarkFails, Dies
    <2>2. faults' \in 0..MaxFaults
      BY <1>1, <2>1 DEF DeliveryTypeOK, DeliveryConstants, Fault
    <2>3. \/ pc' = pc
          \/ \E step \in {"idle", "check", "next", "send", "mark"} : Goto(a, step)
      BY DEF StepOf, Dispatch, AskRetry, Post, Break, Retry, Insert, Accepted, AnswerLost,
         Refused, Mark, End, InsertFails, MarkFails, Dies, Conclude
    <2>4. QED  BY <1>1, <2>2, <2>3 DEF Goto, DeliveryTypeOK
  <1>5. dispatched' \subseteq Events
    BY <1>1 DEF StepOf, Dispatch, AskRetry, Post, Break, Retry, Insert, Accepted, AnswerLost,
       Refused, Mark, End, InsertFails, MarkFails, Dies, DeliveryTypeOK, AgentSound, Posting
  <1>6. job' \in [Agents -> Job]
    <2>1. job \in [Agents -> Job] /\ NoJob \in Job
      BY <1>1 DEF DeliveryTypeOK, NoJob, Job
    <2>2. job[a] \in Job  BY <2>1
    <2>3. ASSUME NEW x \in Job, job' = [job EXCEPT ![a] = x]
          PROVE  job' \in [Agents -> Job]
      BY <2>1, <2>3
    <2>4. CASE \E e \in Events : Dispatch(a, e)
      <3>1. PICK e \in Events : Dispatch(a, e)  BY <2>4
      <3>2. [NoJob EXCEPT !.evt = e, !.todo = Active, !.attempt = 1] \in Job
        BY DEF NoJob, Job, DeliveryConstants
      <3>3. QED  BY <2>3, <3>1, <3>2 DEF Dispatch
    <2>5. CASE \E i \in Ids : AskRetry(a, i)
      <3>1. PICK i \in Ids : AskRetry(a, i)  BY <2>5
      <3>2. [job[a] EXCEPT !.row = i] \in Job  BY <2>2 DEF Job
      <3>3. QED  BY <2>1, <2>3, <3>1, <3>2 DEF AskRetry
    <2>6. CASE Retry(a)
      <3>1. rows[job[a].row] \in DeliveryRow
        BY <1>1, <2>6, RowsAreSequence DEF Retry, AgentSound
      <3>2. ASSUME NEW d \in DeliveryRow
            PROVE  [NoJob EXCEPT !.evt = d.evt, !.todo = {d.ep}, !.attempt = d.attempt + 1]
                     \in Job
        <4>1. d.evt \in Events /\ {d.ep} \in SUBSET Endpoints /\ d.attempt + 1 \in Nat
          BY DEF DeliveryRow
        <4>2. QED  BY <4>1 DEF NoJob, Job
      <3>3. QED  BY <2>1, <2>3, <2>6, <3>1, <3>2 DEF Retry
    <2>7. CASE \E ep \in Endpoints : Insert(a, ep)
      <3>1. PICK ep \in Endpoints : Insert(a, ep)  BY <2>7
      <3>2. Len(rows) + 1 \in Ids
        BY <1>1, <3>1, RowsAreSequence DEF Insert, Ids, DeliveryConstants
      <3>3. [job[a] EXCEPT !.todo = @ \ {ep}, !.row = Len(rows) + 1] \in Job
        BY <2>2, <3>2 DEF Job
      <3>4. QED  BY <2>1, <2>3, <3>1, <3>3 DEF Insert
    <2>8. CASE \E ep \in Endpoints : InsertFails(a, ep)
      <3>1. PICK ep \in Endpoints : InsertFails(a, ep)  BY <2>8
      <3>2. [job[a] EXCEPT !.todo = @ \ {ep}] \in Job  BY <2>2 DEF Job
      <3>3. QED  BY <2>1, <2>3, <3>1, <3>2 DEF InsertFails
    <2>9. CASE Accepted(a) \/ AnswerLost(a) \/ Refused(a)
      <3>1. \A o \in {"delivered", "failed"} : [job[a] EXCEPT !.outcome = o] \in Job
        BY <2>2 DEF Job
      <3>2. PICK o \in {"delivered", "failed"} : job' = [job EXCEPT ![a].outcome = o]
        BY <2>9 DEF Accepted, AnswerLost, Refused, Conclude
      <3>3. QED  BY <2>1, <2>3, <3>1, <3>2
    <2>10. CASE Mark(a) \/ MarkFails(a)
      <3>1. [job[a] EXCEPT !.row = 0, !.outcome = "none"] \in Job  BY <2>2 DEF Job
      <3>2. QED  BY <2>1, <2>3, <2>10, <3>1 DEF Mark, MarkFails
    <2>11. CASE End(a) \/ Dies(a)
      BY <2>1, <2>3, <2>11 DEF End, Dies
    <2>12. QED
      BY <2>4, <2>5, <2>6, <2>7, <2>8, <2>9, <2>10, <2>11 DEF StepOf, Post, Break
  <1>7. QED  BY <1>2, <1>3, <1>4, <1>5, <1>6 DEF DeliveryTypeOK

(* An agent that does not step keeps what it stands on: its row is changed *)
(* by its one sender only.                                                 *)
LEMMA OthersStaySound ==
  ASSUME DeliverySound, NEW a \in Agents, StepOf(a), NEW b \in Agents, b # a
  PROVE  AgentSound(b)' /\ pc'[b] = pc[b] /\ job'[b] = job[b]
  <1>1. DeliveryTypeOK /\ AgentSound(b) /\ OneSender  BY DEF DeliverySound
  <1>2. pc'[b] = pc[b] /\ job'[b] = job[b] /\ received \subseteq received'
    BY <1>1 DEF StepOf, Dispatch, AskRetry, Post, Break, Retry, Insert, Accepted, AnswerLost,
       Refused, Mark, End, InsertFails, MarkFails, Dies, Goto, Conclude, DeliveryTypeOK
  <1>3. RowsStay  BY StepKeepsRows DEF StepOf, DeliveryNext
  <1>4. \A j \in DOMAIN rows : Follows(j, b) => j \in DOMAIN rows' /\ Follows(j, b)'
    BY <1>2, <1>3 DEF RowsStay, Follows
  <1>5. pc[b] \in {"send", "mark"} => rows'[job[b].row].status = "pending"
    <2>1. SUFFICES ASSUME pc[b] \in {"send", "mark"}
                   PROVE  rows'[job[b].row].status = "pending"
      OBVIOUS
    <2>2. job[b].row \in DOMAIN rows /\ rows[job[b].row].status = "pending"
      BY <1>1, <2>1 DEF AgentSound
    <2>3. CASE \E ep \in Endpoints :
                 Grows([evt |-> job[a].evt, ep |-> ep, attempt |-> job[a].attempt,
                        status |-> "pending"])
      BY <2>2, <2>3 DEF Grows
    <2>4. CASE Mark(a) /\ Records(job[a].row, job[a].outcome)
      <3>1. job[a].row # job[b].row
        BY <1>1, <2>1, <2>2, <2>4 DEF OneSender, Sends, Mark
      <3>2. QED  BY <2>2, <2>4, <3>1 DEF Records
    <2>5. CASE rows' = rows  BY <2>2, <2>5
    <2>6. QED  BY <2>3, <2>4, <2>5, RowsChange DEF StepOf
  <1>6. QED
    BY <1>1, <1>2, <1>3, <1>4, <1>5 DEF AgentSound, RowsStay, Posting

(* The agent that steps stays sound as well.                               *)
LEMMA StepperStaysSound ==
  ASSUME DeliverySound, NEW a \in Agents, StepOf(a)
  PROVE  AgentSound(a)'
  <1>1. DeliveryTypeOK /\ AgentSound(a)  BY DEF DeliverySound
  <1>2. a \in DOMAIN pc /\ a \in DOMAIN job  BY <1>1 DEF DeliveryTypeOK
  <1>3. RowsStay  BY StepKeepsRows DEF StepOf, DeliveryNext
  <1>4. job[a] \in Job  BY <1>1 DEF DeliveryTypeOK
  <1>5. CASE \E e \in Events : Dispatch(a, e)
    <2>1. PICK e \in Events : Dispatch(a, e)  BY <1>5
    <2>2. /\ pc'[a] = "next"
          /\ job'[a] = [NoJob EXCEPT !.evt = e, !.todo = Active, !.attempt = 1]
      BY <1>2, <2>1 DEF Dispatch, Goto
    <2>3. job'[a].evt = e /\ job'[a].attempt = 1  BY <2>2 DEF NoJob
    <2>4. QED  BY <2>2, <2>3 DEF AgentSound, Posting
  <1>6. CASE \E i \in Ids : AskRetry(a, i)
    BY <1>2, <1>4, <1>6 DEF AskRetry, Goto, AgentSound, Posting, Job
  <1>7. CASE Retry(a)
    <2>1. job[a].row \in DOMAIN rows /\ rows' = rows
      BY <1>1, <1>7 DEF Retry, AgentSound
    <2> PICK j \in DOMAIN rows : j = job[a].row  BY <2>1
    <2> PICK d \in DeliveryRow : d = rows[j]  BY <1>1, RowsAreSequence
    <2>2. CASE MayRetry(j)
      <3>1. /\ pc'[a] = "next" /\ d.status = "failed"
            /\ job'[a] = [NoJob EXCEPT !.evt = d.evt, !.todo = {d.ep}, !.attempt = d.attempt + 1]
        BY <1>2, <1>7, <2>2 DEF Retry, Goto, MayRetry
      <3>2. /\ job'[a].evt = d.evt /\ job'[a].todo = {d.ep}
            /\ job'[a].attempt = d.attempt + 1
        BY <3>1 DEF NoJob
      <3>3. Follows(j, a)'  BY <2>1, <3>1, <3>2 DEF Follows
      <3>4. d.evt \in Events /\ d.attempt + 1 \in Nat \ {0}
        BY <2>1 DEF DeliveryRow
      <3>5. QED  BY <2>1, <3>1, <3>2, <3>3, <3>4 DEF AgentSound, Posting
    <2>3. CASE ~ MayRetry(j)
      BY <1>2, <1>7, <2>3 DEF Retry, Goto, AgentSound, Posting
    <2>4. QED  BY <2>2, <2>3
  <1>8. CASE \E ep \in Endpoints : Insert(a, ep)
    <2>1. PICK ep \in Endpoints : Insert(a, ep)  BY <1>8
    <2>2. Grows([evt |-> job[a].evt, ep |-> ep, attempt |-> job[a].attempt,
                 status |-> "pending"])
      BY <1>1, <2>1, InsertGrows
    <2>3. /\ pc[a] = "next" /\ pc'[a] = "send" /\ job'[a].row = Len(rows) + 1
          /\ job'[a].evt = job[a].evt /\ job'[a].attempt = job[a].attempt
          /\ job'[a].todo = job[a].todo \ {ep}
      BY <1>2, <1>4, <2>1 DEF Insert, Goto, Job
    <2>4. Len(rows) + 1 \in DOMAIN rows' /\ rows'[Len(rows) + 1].status = "pending"
      <3>1. rows' \in Seq(DeliveryRow) /\ Len(rows') = Len(rows) + 1
            /\ rows'[Len(rows) + 1].status = "pending"
        BY <2>2 DEF Grows
      <3>2. DOMAIN rows' = 1..Len(rows')  BY <3>1, LenProperties
      <3>3. QED  BY <1>1, <3>1, <3>2, RowsAreSequence
    <2>5. \A j \in DOMAIN rows : Follows(j, a) => j \in DOMAIN rows' /\ Follows(j, a)'
      BY <1>3, <2>3 DEF RowsStay, Follows
    <2>6. QED  BY <1>1, <2>3, <2>4, <2>5 DEF AgentSound, Posting
  <1>9. CASE \E ep \in Endpoints : InsertFails(a, ep)
    <2>1. PICK ep \in Endpoints : InsertFails(a, ep)  BY <1>9
    <2>2. /\ pc'[a] = "next" /\ rows' = rows
          /\ job'[a].evt = job[a].evt /\ job'[a].attempt = job[a].attempt
          /\ job'[a].todo \subseteq job[a].todo
      BY <1>2, <1>4, <2>1 DEF InsertFails, Job
    <2>3. pc[a] = "next"  BY <2>1 DEF InsertFails
    <2>4. \A j \in DOMAIN rows : Follows(j, a) => Follows(j, a)'  BY <2>2 DEF Follows
    <2>5. QED  BY <1>1, <2>2, <2>3, <2>4 DEF AgentSound, Posting
  <1>10. CASE Accepted(a) \/ AnswerLost(a) \/ Refused(a)
    <2>1. /\ pc[a] = "send" /\ pc'[a] = "mark" /\ rows' = rows
          /\ job'[a].evt = job[a].evt /\ job'[a].attempt = job[a].attempt
          /\ job'[a].todo = job[a].todo /\ job'[a].row = job[a].row
          /\ job'[a].outcome \in {"delivered", "failed"}
          /\ job'[a].outcome = "delivered" => job[a].row \in received'
      BY <1>2, <1>4, <1>10 DEF Accepted, AnswerLost, Refused, Conclude, Goto, Job
    <2>2. \A j \in DOMAIN rows : Follows(j, a) => Follows(j, a)'  BY <2>1 DEF Follows
    <2>3. QED  BY <1>1, <2>1, <2>2 DEF AgentSound, Posting
  <1>11. CASE Mark(a) \/ MarkFails(a)
    <2>1. /\ pc[a] = "mark" /\ pc'[a] = "next"
          /\ job'[a].evt = job[a].evt /\ job'[a].attempt = job[a].attempt
          /\ job'[a].todo = job[a].todo
      BY <1>2, <1>4, <1>11 DEF Mark, MarkFails, Goto, Job
    <2>2. \A j \in DOMAIN rows : Follows(j, a) => j \in DOMAIN rows' /\ Follows(j, a)'
      BY <1>3, <2>1 DEF RowsStay, Follows
    <2>3. QED  BY <1>1, <2>1, <2>2 DEF AgentSound, Posting
  <1>12. CASE End(a) \/ Dies(a)
    BY <1>2, <1>12 DEF End, Dies, Goto, AgentSound, Posting
  <1>13. QED
    BY <1>5, <1>6, <1>7, <1>8, <1>9, <1>10, <1>11, <1>12 DEF StepOf, Post, Break

(* A new row is nobody else's.                                             *)
LEMMA OneSenderStays ==
  ASSUME DeliverySound, NEW a \in Agents, StepOf(a)
  PROVE  OneSender'
  <1>1. DeliveryTypeOK /\ OneSender  BY DEF DeliverySound
  <1>2. SUFFICES ASSUME NEW b \in Agents, b # a, NEW i \in DOMAIN rows',
                        Sends(a, i)', Sends(b, i)'
                 PROVE  FALSE
    <2>1. ASSUME NEW b \in Agents, NEW c \in Agents, NEW i \in DOMAIN rows',
                 Sends(b, i)', Sends(c, i)', b # c
          PROVE  FALSE
      <3>1. CASE b = a  BY <2>1, <3>1, <1>2
      <3>2. CASE c = a  BY <2>1, <3>2, <1>2
      <3>3. CASE b # a /\ c # a
        <4>1. Sends(b, i) /\ Sends(c, i)
          BY <2>1, <3>3, OthersStaySound DEF Sends
        <4>2. i \in DOMAIN rows
          <5>1. AgentSound(b)  BY DEF DeliverySound
          <5>2. QED  BY <4>1, <5>1 DEF AgentSound, Sends
        <4>3. QED  BY <1>1, <2>1, <4>1, <4>2 DEF OneSender
      <3>4. QED  BY <3>1, <3>2, <3>3
    <2>2. QED  BY <2>1 DEF OneSender
  <1>3. Sends(b, i)  BY <1>2, OthersStaySound DEF Sends
  <1>4. i \in DOMAIN rows
    <2>1. AgentSound(b)  BY DEF DeliverySound
    <2>2. QED  BY <1>3, <2>1 DEF AgentSound, Sends
  <1>5. CASE \E ep \in Endpoints : Insert(a, ep)
    <2>1. i = Len(rows) + 1
      BY <1>1, <1>2, <1>5 DEF Insert, Goto, Sends, DeliveryTypeOK, Job
    <2>2. QED  BY <1>1, <1>4, <2>1, RowsAreSequence
  <1>6. CASE ~ \E ep \in Endpoints : Insert(a, ep)
    <2>1. Sends(a, i)
      <3>1. CASE Accepted(a) \/ AnswerLost(a) \/ Refused(a)
        <4>1. pc[a] = "send" /\ \E o \in {"delivered", "failed"} : Conclude(a, o)
          BY <3>1 DEF Accepted, AnswerLost, Refused
        <4>2. job'[a].row = job[a].row
          BY <1>1, <4>1 DEF Conclude, DeliveryTypeOK, Job
        <4>3. QED  BY <1>2, <4>1, <4>2 DEF Sends
      <3>2. CASE ~(Accepted(a) \/ AnswerLost(a) \/ Refused(a))
        <4>0. pc \in [Agents -> {"idle", "check", "next", "send", "mark"}]
          BY <1>1 DEF DeliveryTypeOK
        <4>1. pc'[a] \in {"idle", "check", "next"}
          <5>1. CASE Retry(a) \/ Mark(a) \/ End(a) \/ MarkFails(a) \/ Dies(a)
            BY <4>0, <5>1 DEF Retry, Mark, End, MarkFails, Dies, Goto
          <5>2. CASE \E e \in Events : Dispatch(a, e)
            BY <4>0, <5>2 DEF Dispatch, Goto
          <5>3. CASE \E k \in Ids : AskRetry(a, k)
            BY <4>0, <5>3 DEF AskRetry, Goto
          <5>4. CASE \E ep \in Endpoints : InsertFails(a, ep)
            BY <5>4 DEF InsertFails
          <5>5. QED  BY <1>6, <3>2, <5>1, <5>2, <5>3, <5>4 DEF StepOf, Post, Break
        <4>2. pc'[a] \notin {"send", "mark"}
          BY <4>1
        <4>3. QED  BY <1>2, <4>2 DEF Sends
      <3>3. QED  BY <3>1, <3>2
    <2>2. QED  BY <1>1, <1>2, <1>3, <1>4, <2>1 DEF OneSender
  <1>7. QED  BY <1>5, <1>6

(* Only a row that an endpoint accepted is recorded as delivered.          *)
LEMMA DeliveredStaysReceived ==
  ASSUME DeliverySound, NEW a \in Agents, StepOf(a)
  PROVE  DeliveredWasReceived'
  <1>1. DeliveryTypeOK /\ AgentSound(a) /\ DeliveredWasReceived  BY DEF DeliverySound
  <1>2. received \subseteq received'
    BY DEF StepOf, Dispatch, AskRetry, Post, Break, Retry, Insert, Accepted, AnswerLost,
       Refused, Mark, End, InsertFails, MarkFails, Dies
  <1>3. SUFFICES ASSUME NEW i \in DOMAIN rows', rows'[i].status = "delivered"
                 PROVE  i \in received'
    BY DEF DeliveredWasReceived
  <1>4. CASE \E ep \in Endpoints :
               Grows([evt |-> job[a].evt, ep |-> ep, attempt |-> job[a].attempt,
                      status |-> "pending"])
    <2>1. /\ rows' \in Seq(DeliveryRow) /\ Len(rows') = Len(rows) + 1
          /\ \A k \in DOMAIN rows : rows'[k] = rows[k]
          /\ rows'[Len(rows) + 1].status = "pending"
      BY <1>4 DEF Grows
    <2>2. DOMAIN rows' = 1..Len(rows')  BY <2>1, LenProperties
    <2>3. i \in DOMAIN rows  BY <1>1, <1>3, <2>1, <2>2, RowsAreSequence
    <2>4. QED  BY <1>1, <1>2, <1>3, <2>1, <2>3 DEF DeliveredWasReceived
  <1>5. CASE Mark(a) /\ Records(job[a].row, job[a].outcome)
    <2>1. /\ rows' \in Seq(DeliveryRow) /\ Len(rows') = Len(rows)
          /\ \A k \in DOMAIN rows :
               rows'[k] = IF k = job[a].row THEN [rows[k] EXCEPT !.status = job[a].outcome]
                                            ELSE rows[k]
      BY <1>5 DEF Records
    <2>2. DOMAIN rows' = 1..Len(rows')  BY <2>1, LenProperties
    <2>3. i \in DOMAIN rows /\ rows[i] \in DeliveryRow
      BY <1>1, <1>3, <2>1, <2>2, RowsAreSequence
    <2>4. CASE i = job[a].row
      <3>1. rows'[i] = [rows[i] EXCEPT !.status = job[a].outcome]  BY <2>1, <2>3, <2>4
      <3>2. rows'[i].status = job[a].outcome  BY <2>3, <3>1 DEF DeliveryRow
      <3>3. QED  BY <1>1, <1>2, <1>3, <1>5, <2>4, <3>2 DEF AgentSound, Mark
    <2>5. CASE i # job[a].row
      BY <1>1, <1>2, <1>3, <2>1, <2>3, <2>5 DEF DeliveredWasReceived
    <2>6. QED  BY <2>4, <2>5
  <1>6. CASE rows' = rows  BY <1>1, <1>2, <1>3, <1>6 DEF DeliveredWasReceived
  <1>7. QED  BY <1>4, <1>5, <1>6, RowsChange DEF StepOf

(* A new row is chained to the failed one its agent follows.               *)
LEMMA ChainsGrow ==
  ASSUME DeliverySound, NEW a \in Agents, StepOf(a)
  PROVE  TriesAreChained'
  <1>1. DeliveryTypeOK /\ AgentSound(a) /\ TriesAreChained  BY DEF DeliverySound
  <1>2. RowsStay  BY StepKeepsRows DEF StepOf, DeliveryNext
  <1>3. /\ DOMAIN rows = 1..Len(rows) /\ Len(rows) \in Nat
        /\ \A i \in DOMAIN rows : rows[i] \in DeliveryRow
    BY <1>1, RowsAreSequence
  <1>4. ASSUME NEW i \in DOMAIN rows, rows'[i].attempt > 1
        PROVE  \E j \in 1..(i - 1) : Precedes(j, i)'
    <2>1. rows[i].attempt > 1  BY <1>2, <1>4 DEF RowsStay
    <2>2. PICK j \in 1..(i - 1) : Precedes(j, i)  BY <1>1, <2>1 DEF TriesAreChained
    <2>3. j \in DOMAIN rows  BY <1>3
    <2>4. QED  BY <1>2, <2>2, <2>3 DEF Precedes, RowsStay
  <1>5. CASE \E ep \in Endpoints :
               /\ Insert(a, ep)
               /\ Grows([evt |-> job[a].evt, ep |-> ep, attempt |-> job[a].attempt,
                         status |-> "pending"])
    <2>1. PICK ep \in Endpoints :
            /\ Insert(a, ep)
            /\ Grows([evt |-> job[a].evt, ep |-> ep, attempt |-> job[a].attempt,
                      status |-> "pending"])
      BY <1>5
    <2> DEFINE n == Len(rows) + 1
    <2>2. /\ rows' \in Seq(DeliveryRow) /\ Len(rows') = n
          /\ rows'[n].evt = job[a].evt /\ rows'[n].ep = ep
          /\ rows'[n].attempt = job[a].attempt
      BY <2>1 DEF Grows
    <2>3. DOMAIN rows' = 1..Len(rows')  BY <2>2, LenProperties
    <2>4. ASSUME NEW i \in DOMAIN rows', rows'[i].attempt > 1
          PROVE  \E j \in 1..(i - 1) : Precedes(j, i)'
      <3>1. CASE i \in DOMAIN rows  BY <1>4, <2>4, <3>1
      <3>2. CASE i \notin DOMAIN rows
        <4>1. i = Len(rows) + 1  BY <1>3, <2>2, <2>3, <3>2
        <4>2. pc[a] = "next" /\ ep \in job[a].todo  BY <2>1 DEF Insert
        <4>3. PICK j \in DOMAIN rows : Follows(j, a)
          BY <1>1, <2>2, <2>4, <4>1, <4>2 DEF AgentSound, Posting
        <4>4. rows[j].ep = ep  BY <4>2, <4>3 DEF Follows
        <4>5. /\ rows'[j].evt = rows[j].evt /\ rows'[j].ep = rows[j].ep
              /\ rows'[j].attempt = rows[j].attempt /\ rows'[j].status = "failed"
          BY <1>2, <4>3 DEF RowsStay, Follows
        <4>6. Precedes(j, i)'  BY <2>2, <4>1, <4>3, <4>4, <4>5 DEF Precedes, Follows
        <4>7. j \in 1..(i - 1)  BY <1>3, <4>1
        <4>8. QED  BY <4>6, <4>7
      <3>3. QED  BY <3>1, <3>2
    <2>5. QED  BY <2>4 DEF TriesAreChained
  <1>6. CASE Records(job[a].row, job[a].outcome) \/ rows' = rows
    <2>1. DOMAIN rows' = DOMAIN rows
      <3>1. CASE Records(job[a].row, job[a].outcome)
        <4>1. rows' \in Seq(DeliveryRow) /\ Len(rows') = Len(rows)  BY <3>1 DEF Records
        <4>2. QED  BY <1>3, <4>1, LenProperties
      <3>2. QED  BY <1>6, <3>1
    <2>2. QED  BY <1>4, <2>1 DEF TriesAreChained
  <1>7. QED  BY <1>5, <1>6, RowsChange DEF StepOf

LEMMA SoundInit ==
  ASSUME DeliveryConstants, DeliveryInit
  PROVE  DeliverySound
  <1>1. rows = <<>> /\ rows \in Seq(DeliveryRow) /\ Len(rows) = 0 /\ DOMAIN rows = {}
    BY EmptySeq DEF DeliveryInit
  <1>2. DeliveryTypeOK
    BY <1>1 DEF DeliveryInit, DeliveryTypeOK, NoJob, Job, DeliveryConstants
  <1>3. QED
    BY <1>1, <1>2 DEF DeliveryInit, DeliverySound, AgentSound, Posting, OneSender, Sends,
       DeliveredWasReceived, TriesAreChained

LEMMA SoundNext ==
  ASSUME DeliveryConstants, DeliverySound, [DeliveryNext]_dvars
  PROVE  DeliverySound'
  <1>1. CASE UNCHANGED dvars
    BY <1>1 DEF dvars, DeliverySound, DeliveryTypeOK, AgentSound, Follows, OneSender, Sends,
       DeliveredWasReceived, TriesAreChained, Precedes
  <1>2. CASE DeliveryNext
    <2>1. PICK a \in Agents : StepOf(a)  BY <1>2 DEF DeliveryNext, StepOf
    <2>2. \A b \in Agents : AgentSound(b)'
      BY <2>1, StepperStaysSound, OthersStaySound
    <2>3. QED
      BY <2>1, <2>2, TypedDelivery, OneSenderStays, DeliveredStaysReceived, ChainsGrow
      DEF DeliverySound
  <1>3. QED  BY <1>1, <1>2

LEMMA AlwaysDeliverySound ==
  ASSUME DeliveryConstants
  PROVE  DeliverySpec => []DeliverySound
  <1>1. DeliveryInit => DeliverySound  BY SoundInit
  <1>2. DeliverySound /\ [DeliveryNext]_dvars => DeliverySound'  BY SoundNext
  <1>3. QED  BY <1>1, <1>2, PTL DEF DeliverySpec

-----------------------------------------------------------------------------
(* Type correctness.                                                       *)
THEOREM DeliveryTypeCorrect ==
  ASSUME DeliveryConstants
  PROVE  DeliverySpec => []DeliveryTypeOK
  <1>1. DeliverySound => DeliveryTypeOK  BY DEF DeliverySound
  <1>2. QED  BY <1>1, AlwaysDeliverySound, PTL

(* No delivery is recorded as delivered that its endpoint did not accept.  *)
THEOREM RecordsOnlyReceived ==
  ASSUME DeliveryConstants
  PROVE  DeliverySpec => []DeliveredWasReceived
  <1>1. DeliverySound => DeliveredWasReceived  BY DEF DeliverySound
  <1>2. QED  BY <1>1, AlwaysDeliverySound, PTL

(* However retries overlap, a repeated try has a failed one before it.     *)
THEOREM ChainsTries ==
  ASSUME DeliveryConstants
  PROVE  DeliverySpec => []TriesAreChained
  <1>1. DeliverySound => TriesAreChained  BY DEF DeliverySound
  <1>2. QED  BY <1>1, AlwaysDeliverySound, PTL

(* However retries overlap, a recorded outcome never changes.              *)
THEOREM OutcomesAreFinal ==
  ASSUME DeliveryConstants
  PROVE  DeliverySpec => OutcomeIsFinal
  <1>1. DeliverySound /\ [DeliveryNext]_dvars =>
          [\A i \in DOMAIN rows : rows[i].status # "pending" => rows'[i] = rows[i]]_dvars
    BY StepKeepsRows DEF RowsStay
  <1>2. QED  BY <1>1, AlwaysDeliverySound, PTL DEF DeliverySpec, OutcomeIsFinal

-----------------------------------------------------------------------------
(* As long as nothing has failed, nothing is lost on the way either: a     *)
(* pending row has its sender, and an agent that dispatches an event has a *)
(* row, sent or at hand, for each active endpoint it has gone past.        *)
FirstTry(log, i, e, ep) ==
  /\ i \in DOMAIN log
  /\ log[i].evt = e /\ log[i].ep = ep /\ log[i].attempt = 1

PendingSent == \A i \in DOMAIN rows : rows[i].status = "pending" => \E a \in Agents : Sends(a, i)

PastTried(a) ==
  pc[a] \in Posting /\ job[a].attempt = 1 =>
    \A ep \in Active : ep \in job[a].todo \/
      \E i : FirstTry(rows, i, job[a].evt, ep) /\ (rows[i].status # "pending" \/ Sends(a, i))

AllTried ==
  \A e \in dispatched, ep \in Active : \E i : FirstTry(rows, i, e, ep) /\ rows[i].status # "pending"

UndisturbedSound ==
  faults = 0 => PendingSent /\ (\A a \in Agents : PastTried(a)) /\ AllTried

LEMMA FirstTryStays ==
  ASSUME RowsStay
  PROVE  \A i, e, ep :
           FirstTry(rows, i, e, ep) =>
             /\ FirstTry(rows', i, e, ep)
             /\ rows[i].status # "pending" => rows'[i].status # "pending"
  BY DEF RowsStay, FirstTry

(* What a step that is no fault does to the agent that takes it.           *)
LEMMA UndisturbedStep ==
  ASSUME DeliverySound, NEW a \in Agents, StepOf(a), faults' = 0
  PROVE  /\ faults = 0
         /\ \/ \E e \in Events : Dispatch(a, e)
            \/ \E i \in Ids : AskRetry(a, i)
            \/ Post(a)
  <1>1. faults \in Nat  BY DEF DeliverySound, DeliveryTypeOK
  <1>2. ~ Break(a)
    BY <1>1 DEF Break, InsertFails, MarkFails, Dies, Fault
  <1>3. faults = 0
    BY <1>2 DEF StepOf, Dispatch, AskRetry, Post, Retry, Insert, Accepted, AnswerLost,
       Refused, Mark, End
  <1>4. QED  BY <1>2, <1>3 DEF StepOf

LEMMA ConcludeKeeps ==
  ASSUME DeliveryTypeOK, NEW a \in Agents, Accepted(a) \/ AnswerLost(a) \/ Refused(a)
  PROVE  /\ pc[a] = "send" /\ pc'[a] = "mark" /\ rows' = rows
         /\ job'[a].row = job[a].row /\ job'[a].todo = job[a].todo
         /\ job'[a].evt = job[a].evt /\ job'[a].attempt = job[a].attempt
  <1>1. PICK o \in {"delivered", "failed"} : Conclude(a, o)
    BY DEF Accepted, AnswerLost, Refused
  <1>2. job[a] \in Job  BY DEF DeliveryTypeOK
  <1>3. job'[a] = [job[a] EXCEPT !.outcome = o]  BY <1>1 DEF Conclude, DeliveryTypeOK
  <1>4. pc[a] = "send" /\ pc'[a] = "mark" /\ rows' = rows
    BY <1>1 DEF Accepted, AnswerLost, Refused, Conclude, Goto, DeliveryTypeOK
  <1>5. QED  BY <1>2, <1>3, <1>4 DEF Job

LEMMA PendingStaysSent ==
  ASSUME DeliverySound, NEW a \in Agents, StepOf(a), faults' = 0, PendingSent
  PROVE  PendingSent'
  <1>1. DeliveryTypeOK /\ AgentSound(a)  BY DEF DeliverySound
  <1>2. rows \in Seq(DeliveryRow) /\ DOMAIN rows = 1..Len(rows) /\ Len(rows) \in Nat
    BY <1>1, RowsAreSequence
  <1>3. ASSUME NEW i \in DOMAIN rows, NEW b \in Agents, b # a, Sends(b, i)
        PROVE  Sends(b, i)'
    BY <1>3, OthersStaySound DEF Sends
  <1>4. CASE \E ep \in Endpoints :
               /\ Insert(a, ep)
               /\ Grows([evt |-> job[a].evt, ep |-> ep, attempt |-> job[a].attempt,
                         status |-> "pending"])
    <2>1. PICK ep \in Endpoints :
            /\ Insert(a, ep)
            /\ Grows([evt |-> job[a].evt, ep |-> ep, attempt |-> job[a].attempt,
                      status |-> "pending"])
      BY <1>4
    <2>2. /\ rows' \in Seq(DeliveryRow) /\ Len(rows') = Len(rows) + 1
          /\ \A i \in DOMAIN rows : rows'[i] = rows[i]
      BY <2>1 DEF Grows
    <2>3. DOMAIN rows' = 1..(Len(rows) + 1)  BY <2>2, LenProperties
    <2>4. PICK n \in Nat : n = Len(rows) + 1  BY <1>2
    <2>5. Sends(a, n)'
      BY <1>1, <2>1, <2>4 DEF Insert, Goto, Sends, DeliveryTypeOK, Job
    <2>6. ASSUME NEW i \in DOMAIN rows, rows'[i].status = "pending"
          PROVE  \E b \in Agents : Sends(b, i)'
      <3>1. PICK b \in Agents : Sends(b, i)  BY <2>2, <2>6 DEF PendingSent
      <3>2. b # a  BY <2>1, <3>1 DEF Insert, Sends
      <3>3. QED  BY <1>3, <3>1, <3>2
    <2>7. QED  BY <1>2, <2>3, <2>4, <2>5, <2>6 DEF PendingSent
  <1>5. CASE Mark(a) /\ Records(job[a].row, job[a].outcome)
    <2>1. DOMAIN rows' = DOMAIN rows
      <3>1. rows' \in Seq(DeliveryRow) /\ Len(rows') = Len(rows)  BY <1>5 DEF Records
      <3>2. QED  BY <1>2, <3>1, LenProperties
    <2>2. job[a].outcome \in {"delivered", "failed"}  BY <1>1, <1>5 DEF AgentSound, Mark
    <2>3. ASSUME NEW i \in DOMAIN rows, rows'[i].status = "pending"
          PROVE  \E b \in Agents : Sends(b, i)'
      <3>1. rows[i] \in DeliveryRow  BY <1>2, ElementOfSeq
      <3>2. i # job[a].row /\ rows'[i] = rows[i]
        BY <1>5, <2>2, <2>3, <3>1 DEF Records, DeliveryRow
      <3>3. PICK b \in Agents : Sends(b, i)  BY <2>3, <3>2 DEF PendingSent
      <3>4. b # a  BY <3>2, <3>3 DEF Sends
      <3>5. QED  BY <1>3, <3>3, <3>4
    <2>4. QED  BY <2>1, <2>3 DEF PendingSent
  <1>6. CASE rows' = rows /\ ~ Mark(a) /\ ~ \E ep \in Endpoints : Insert(a, ep)
    <2>1. ASSUME NEW i \in DOMAIN rows, NEW b \in Agents, Sends(b, i)
          PROVE  Sends(b, i)'
      <3>1. CASE b # a  BY <1>3, <2>1, <3>1
      <3>2. CASE b = a
        <4>1. pc[a] \in {"send", "mark"} /\ job[a].row = i  BY <2>1, <3>2 DEF Sends
        <4>2. Accepted(a) \/ AnswerLost(a) \/ Refused(a)
          BY <1>6, <4>1, UndisturbedStep DEF Dispatch, AskRetry, Post, Retry, End
        <4>3. QED  BY <1>1, <3>2, <4>1, <4>2, ConcludeKeeps DEF Sends
      <3>3. QED  BY <3>1, <3>2
    <2>2. QED  BY <1>6, <2>1 DEF PendingSent
  <1>7. QED  BY <1>4, <1>5, <1>6, RowsChange DEF StepOf

LEMMA PastStaysTried ==
  ASSUME DeliverySound, NEW a \in Agents, StepOf(a), faults' = 0,
         \A b \in Agents : PastTried(b)
  PROVE  \A b \in Agents : PastTried(b)'
  <1>1. DeliveryTypeOK /\ AgentSound(a)  BY DEF DeliverySound
  <1>2. RowsStay  BY StepKeepsRows DEF StepOf, DeliveryNext
  <1>3. /\ rows \in Seq(DeliveryRow) /\ DOMAIN rows = 1..Len(rows) /\ Len(rows) \in Nat
        /\ \A i \in DOMAIN rows : rows[i] \in DeliveryRow
    BY <1>1, RowsAreSequence
  <1>4. job[a] \in Job /\ job \in [Agents -> Job]
        /\ pc \in [Agents -> {"idle", "check", "next", "send", "mark"}]
    BY <1>1 DEF DeliveryTypeOK
  <1>5. ASSUME NEW b \in Agents, b # a
        PROVE  PastTried(b)'
    <2>1. pc'[b] = pc[b] /\ job'[b] = job[b]  BY <1>5, OthersStaySound
    <2>2. PastTried(b)  OBVIOUS
    <2>3. QED  BY <1>2, <2>1, <2>2, FirstTryStays DEF PastTried, Sends
  <1>6. ASSUME \E e \in Events : Dispatch(a, e)
        PROVE  PastTried(a)'
    <2>1. PICK e \in Events : Dispatch(a, e)  BY <1>6
    <2>2. job'[a].todo = Active  BY <1>4, <2>1 DEF Dispatch, NoJob
    <2>3. QED  BY <2>2 DEF PastTried
  <1>7. ASSUME \E i \in Ids : AskRetry(a, i)
        PROVE  PastTried(a)'
    <2>1. pc'[a] = "check"  BY <1>4, <1>7 DEF AskRetry, Goto
    <2>2. QED  BY <2>1 DEF PastTried, Posting
  <1>8. ASSUME Retry(a)
        PROVE  PastTried(a)'
    <2>1. job[a].row \in DOMAIN rows  BY <1>1, <1>8 DEF AgentSound, Retry
    <2>2. rows[job[a].row].attempt \in Nat \ {0}  BY <1>3, <2>1 DEF DeliveryRow
    <2>3. pc'[a] = "idle" \/ job'[a].attempt = rows[job[a].row].attempt + 1
      BY <1>4, <1>8 DEF Retry, Goto, NoJob
    <2>4. QED  BY <2>2, <2>3 DEF PastTried, Posting
  <1>9. ASSUME \E ep \in Endpoints :
                 /\ Insert(a, ep)
                 /\ Grows([evt |-> job[a].evt, ep |-> ep, attempt |-> job[a].attempt,
                           status |-> "pending"])
        PROVE  PastTried(a)'
    <2>1. PICK ep \in Endpoints :
            /\ Insert(a, ep)
            /\ Grows([evt |-> job[a].evt, ep |-> ep, attempt |-> job[a].attempt,
                      status |-> "pending"])
      BY <1>9
    <2>0. PICK n \in Nat : n = Len(rows) + 1  BY <1>3
    <2>2. /\ rows' \in Seq(DeliveryRow) /\ Len(rows') = n
          /\ rows'[n].evt = job[a].evt /\ rows'[n].ep = ep
          /\ rows'[n].attempt = job[a].attempt
      BY <2>0, <2>1 DEF Grows
    <2>3. n \in DOMAIN rows'  BY <1>3, <2>0, <2>2, LenProperties
    <2>4. /\ pc[a] = "next" /\ pc'[a] = "send"
          /\ job'[a] = [job[a] EXCEPT !.todo = @ \ {ep}, !.row = n]
      BY <1>4, <2>0, <2>1 DEF Insert, Goto
    <2>5. /\ job'[a].todo = job[a].todo \ {ep} /\ job'[a].row = n
          /\ job'[a].evt = job[a].evt /\ job'[a].attempt = job[a].attempt
      BY <1>4, <2>4 DEF Job
    <2>6. ASSUME job'[a].attempt = 1, NEW q \in Active, q \notin job'[a].todo
          PROVE  \E i : FirstTry(rows', i, job[a].evt, q) /\ (rows'[i].status # "pending" \/ Sends(a, i)')
      <3>1. CASE q = ep
        <4>1. FirstTry(rows', n, job[a].evt, q)
          BY <2>2, <2>3, <2>5, <2>6, <3>1 DEF FirstTry
        <4>2. Sends(a, n)'  BY <2>4, <2>5 DEF Sends
        <4>3. QED  BY <4>1, <4>2
      <3>2. CASE q # ep
        <4>1. q \notin job[a].todo /\ job[a].attempt = 1  BY <2>5, <2>6, <3>2
        <4>2. PICK i : FirstTry(rows, i, job[a].evt, q) /\ (rows[i].status # "pending" \/ Sends(a, i))
          BY <2>4, <4>1 DEF PastTried, Posting
        <4>3. rows[i].status # "pending"  BY <2>4, <4>2 DEF Sends
        <4>4. QED  BY <1>2, <4>2, <4>3, FirstTryStays
      <3>3. QED  BY <3>1, <3>2
    <2>7. QED  BY <2>5, <2>6 DEF PastTried
  <1>10. ASSUME Accepted(a) \/ AnswerLost(a) \/ Refused(a)
         PROVE  PastTried(a)'
    <2>1. /\ pc[a] = "send" /\ pc'[a] = "mark" /\ rows' = rows
          /\ job'[a].row = job[a].row /\ job'[a].todo = job[a].todo
          /\ job'[a].evt = job[a].evt /\ job'[a].attempt = job[a].attempt
      BY <1>1, <1>10, ConcludeKeeps
    <2>2. PastTried(a)  OBVIOUS
    <2>3. QED  BY <2>1, <2>2 DEF PastTried, Posting, FirstTry, Sends
  <1>11. ASSUME Mark(a) /\ Records(job[a].row, job[a].outcome)
         PROVE  PastTried(a)'
    <2>1. /\ pc[a] = "mark" /\ job'[a] = [job[a] EXCEPT !.row = 0, !.outcome = "none"]
      BY <1>4, <1>11 DEF Mark
    <2>2. /\ job'[a].todo = job[a].todo /\ job'[a].evt = job[a].evt
          /\ job'[a].attempt = job[a].attempt
      BY <1>4, <2>1 DEF Job
    <2>3. job[a].row \in DOMAIN rows /\ job[a].outcome \in {"delivered", "failed"}
      BY <1>1, <2>1 DEF AgentSound
    <2>4. rows'[job[a].row].status = job[a].outcome
      BY <1>3, <1>11, <2>3 DEF Records, DeliveryRow
    <2>5. ASSUME job'[a].attempt = 1, NEW q \in Active, q \notin job'[a].todo
          PROVE  \E i : FirstTry(rows', i, job[a].evt, q) /\ rows'[i].status # "pending"
      <3>1. PICK i : FirstTry(rows, i, job[a].evt, q) /\ (rows[i].status # "pending" \/ Sends(a, i))
        BY <2>1, <2>2, <2>5 DEF PastTried, Posting
      <3>2. CASE rows[i].status # "pending"  BY <1>2, <3>1, <3>2, FirstTryStays
      <3>3. CASE Sends(a, i)
        <4>1. rows'[i].status # "pending"  BY <2>3, <2>4, <3>3 DEF Sends
        <4>2. QED  BY <1>2, <3>1, <4>1, FirstTryStays
      <3>4. QED  BY <3>1, <3>2, <3>3
    <2>6. QED  BY <2>2, <2>5 DEF PastTried
  <1>12. ASSUME End(a)
         PROVE  PastTried(a)'
    <2>1. pc'[a] = "idle"  BY <1>4, <1>12 DEF End, Goto
    <2>2. QED  BY <2>1 DEF PastTried, Posting
  <1>13. PastTried(a)'
    <2>1. CASE \E ep \in Endpoints : Insert(a, ep)
      BY <1>1, <1>9, <2>1, InsertGrows
    <2>2. CASE Mark(a)  BY <1>1, <1>11, <2>2, MarkRecords
    <2>3. QED
      BY <1>6, <1>7, <1>8, <1>10, <1>12, <2>1, <2>2, UndisturbedStep DEF Post
  <1>14. QED  BY <1>5, <1>13

(* A dispatch that ends has gone past every active endpoint, and has no    *)
(* row at hand.                                                            *)
LEMMA AllStayTried ==
  ASSUME DeliverySound, NEW a \in Agents, StepOf(a), faults' = 0, PastTried(a), AllTried
  PROVE  AllTried'
  <1>1. RowsStay  BY StepKeepsRows DEF StepOf, DeliveryNext
  <1>2. ASSUME NEW e \in dispatched, NEW ep \in Active
        PROVE  \E i : FirstTry(rows', i, e, ep) /\ rows'[i].status # "pending"
    BY <1>1, FirstTryStays DEF AllTried
  <1>3. CASE End(a)
    <2>1. pc[a] = "next" /\ job[a].todo = {}  BY <1>3 DEF End
    <2>2. ASSUME job[a].attempt = 1, NEW ep \in Active
          PROVE  \E i : FirstTry(rows', i, job[a].evt, ep) /\ rows'[i].status # "pending"
      <3>1. PICK i : FirstTry(rows, i, job[a].evt, ep) /\ (rows[i].status # "pending" \/ Sends(a, i))
        BY <2>1, <2>2 DEF PastTried, Posting
      <3>2. rows[i].status # "pending"  BY <2>1, <3>1 DEF Sends
      <3>3. QED  BY <1>1, <3>1, <3>2, FirstTryStays
    <2>3. QED  BY <1>2, <1>3, <2>2 DEF End, AllTried
  <1>4. CASE ~ End(a)
    <2>1. dispatched' = dispatched
      BY <1>4 DEF StepOf, Dispatch, AskRetry, Post, Break, Retry, Insert, Accepted, AnswerLost,
         Refused, Mark, InsertFails, MarkFails, Dies
    <2>2. QED  BY <1>2, <2>1 DEF AllTried
  <1>5. QED  BY <1>3, <1>4

LEMMA AlwaysUndisturbed ==
  ASSUME DeliveryConstants
  PROVE  DeliverySpec => []UndisturbedSound
  <1>1. DeliveryInit => UndisturbedSound
    <2>1. SUFFICES ASSUME DeliveryInit PROVE UndisturbedSound  OBVIOUS
    <2>2. DOMAIN rows = {}  BY <2>1, EmptySeq DEF DeliveryInit
    <2>3. QED
      BY <2>1, <2>2 DEF DeliveryInit, UndisturbedSound, PendingSent, PastTried, AllTried, Posting
  <1>2. DeliverySound /\ UndisturbedSound /\ [DeliveryNext]_dvars => UndisturbedSound'
    <2>1. SUFFICES ASSUME DeliverySound, UndisturbedSound, [DeliveryNext]_dvars, faults' = 0
                   PROVE  PendingSent' /\ (\A b \in Agents : PastTried(b)') /\ AllTried'
      BY DEF UndisturbedSound
    <2>2. CASE UNCHANGED dvars
      BY <2>1, <2>2 DEF dvars, UndisturbedSound, PendingSent, PastTried, AllTried, FirstTry, Sends
    <2>3. CASE DeliveryNext
      <3>1. PICK a \in Agents : StepOf(a)  BY <2>3 DEF DeliveryNext, StepOf
      <3>2. PendingSent /\ (\A b \in Agents : PastTried(b)) /\ AllTried
        BY <2>1, <3>1, UndisturbedStep DEF UndisturbedSound
      <3>3. QED
        BY <2>1, <3>1, <3>2, PendingStaysSent, PastStaysTried, AllStayTried
    <2>4. QED  BY <2>1, <2>2, <2>3
  <1>3. QED  BY <1>1, <1>2, AlwaysDeliverySound, PTL DEF DeliverySpec

(* A row has at most one sender; and what is neither delivered nor failed  *)
(* is still being tried, as long as no statement failed and no process     *)
(* died (sendAndRecord and failDelivery of webhook/dispatcher.go).         *)
THEOREM SendsWhatIsPending ==
  ASSUME DeliveryConstants
  PROVE  DeliverySpec => []PendingIsBeingSent
  <1>1. DeliverySound /\ UndisturbedSound => PendingIsBeingSent
    BY DEF DeliverySound, OneSender, UndisturbedSound, PendingSent, PendingIsBeingSent
  <1>2. QED  BY <1>1, AlwaysDeliverySound, AlwaysUndisturbed, PTL

(* Under the same condition a Dispatch that has returned has tried every   *)
(* active endpoint and recorded how that went, whatever they answered.     *)
THEOREM TriesEveryEndpoint ==
  ASSUME DeliveryConstants
  PROVE  DeliverySpec => []EveryEndpointTried
  <1>1. UndisturbedSound => EveryEndpointTried
    BY DEF UndisturbedSound, AllTried, FirstTry, EveryEndpointTried
  <1>2. QED  BY <1>1, AlwaysUndisturbed, PTL

-----------------------------------------------------------------------------
(***************************************************************************)
(* The rows implement the log of deliveries.                               *)
(***************************************************************************)

(* A first try is for active endpoints only.                               *)
FirstsActive ==
  \A a \in Agents : pc[a] \in Posting /\ job[a].attempt = 1 => job[a].todo \subseteq Active

LEMMA FirstsStayActive ==
  ASSUME DeliverySound, FirstsActive, NEW a \in Agents, StepOf(a)
  PROVE  FirstsActive'
  <1>1. DeliveryTypeOK /\ AgentSound(a)  BY DEF DeliverySound
  <1>2. /\ job[a] \in Job /\ job \in [Agents -> Job]
        /\ pc \in [Agents -> {"idle", "check", "next", "send", "mark"}]
    BY <1>1 DEF DeliveryTypeOK
  <1>3. ASSUME NEW b \in Agents, b # a, pc'[b] \in Posting, job'[b].attempt = 1
        PROVE  job'[b].todo \subseteq Active
    BY <1>3, OthersStaySound DEF FirstsActive
  <1>4. ASSUME pc'[a] \in Posting, job'[a].attempt = 1
        PROVE  job'[a].todo \subseteq Active
    <2>1. CASE \E e \in Events : Dispatch(a, e)
      BY <1>2, <2>1 DEF Dispatch, NoJob
    <2>2. CASE Retry(a)
      <3>1. rows[job[a].row] \in DeliveryRow
        BY <1>1, <2>2, RowsAreSequence DEF AgentSound, Retry
      <3>2. rows[job[a].row].attempt + 1 # 1  BY <3>1 DEF DeliveryRow
      <3>3. pc'[a] = "idle" \/ job'[a].attempt = rows[job[a].row].attempt + 1
        BY <1>2, <2>2 DEF Retry, Goto, NoJob
      <3>4. QED  BY <1>4, <3>2, <3>3 DEF Posting
    <2>3. CASE Accepted(a) \/ AnswerLost(a) \/ Refused(a)
      BY <1>1, <1>4, <2>3, ConcludeKeeps DEF FirstsActive, Posting
    <2>4. CASE (\E ep \in Endpoints : Insert(a, ep) \/ InsertFails(a, ep))
               \/ Mark(a) \/ MarkFails(a)
      <3>1. /\ pc[a] \in Posting /\ job'[a].attempt = job[a].attempt
            /\ job'[a].todo \subseteq job[a].todo
        <4>1. ASSUME NEW ep \in Endpoints, Insert(a, ep) \/ InsertFails(a, ep)
              PROVE  /\ job'[a].attempt = job[a].attempt
                     /\ job'[a].todo \subseteq job[a].todo
          <5>1. \/ job'[a] = [job[a] EXCEPT !.todo = @ \ {ep}, !.row = Len(rows) + 1]
                \/ job'[a] = [job[a] EXCEPT !.todo = @ \ {ep}]
            BY <1>2, <4>1 DEF Insert, InsertFails
          <5>2. job[a] \in Job  BY <1>2
          <5>3. job'[a].attempt = job[a].attempt  BY <5>1, <5>2 DEF Job
          <5>4. job'[a].todo = job[a].todo \ {ep}  BY <5>1, <5>2 DEF Job
          <5>5. QED  BY <5>3, <5>4
        <4>2. ASSUME Mark(a) \/ MarkFails(a)
              PROVE  /\ job'[a].attempt = job[a].attempt
                     /\ job'[a].todo \subseteq job[a].todo
          <5>1. job'[a] = [job[a] EXCEPT !.row = 0, !.outcome = "none"]
            BY <1>2, <4>2 DEF Mark, MarkFails
          <5>2. QED  BY <1>2, <5>1 DEF Job
        <4>3. /\ job'[a].attempt = job[a].attempt
              /\ job'[a].todo \subseteq job[a].todo
          BY <2>4, <4>1, <4>2
        <4>4. pc[a] \in Posting
          BY <2>4 DEF Insert, InsertFails, Mark, MarkFails, Posting
        <4>5. QED  BY <4>3, <4>4
      <3>2. QED  BY <1>4, <3>1 DEF FirstsActive
    <2>5. CASE (\E i \in Ids : AskRetry(a, i)) \/ End(a) \/ Dies(a)
      <3>1. pc'[a] \in {"idle", "check"}  BY <1>2, <2>5 DEF AskRetry, End, Dies, Goto
      <3>2. QED  BY <1>4, <3>1 DEF Posting
    <2>6. QED  BY <2>1, <2>2, <2>3, <2>4, <2>5 DEF StepOf, Post, Break
  <1>5. QED  BY <1>3, <1>4 DEF FirstsActive

(* A new row is a first try, or one that follows a failed try.             *)
LEMMA InsertIsTry ==
  ASSUME DeliverySound, FirstsActive, NEW a \in Agents, NEW ep \in Endpoints, Insert(a, ep)
  PROVE  Log!Next
  <1>1. AgentSound(a)  BY DEF DeliverySound
  <1>2. /\ pc[a] = "next" /\ ep \in job[a].todo
        /\ Log!Add(job[a].evt, ep, job[a].attempt)
    BY DEF Insert, Log!Add
  <1>3. job[a].evt \in Events /\ job[a].attempt \in Nat \ {0}
    BY <1>1, <1>2 DEF AgentSound, Posting
  <1>4. CASE job[a].attempt = 1
    <2>1. ep \in Active  BY <1>2, <1>4 DEF FirstsActive, Posting
    <2>2. Log!Try(job[a].evt, ep)  BY <1>2, <1>4 DEF Log!Try
    <2>3. QED  BY <1>3, <2>1, <2>2 DEF Log!Next
  <1>5. CASE job[a].attempt > 1
    <2>1. PICK j \in DOMAIN rows : Follows(j, a)
      BY <1>1, <1>2, <1>5 DEF AgentSound, Posting
    <2>2. /\ rows[j].evt = job[a].evt /\ rows[j].ep = ep
          /\ rows[j].attempt + 1 = job[a].attempt /\ rows[j].status = "failed"
      BY <1>2, <2>1 DEF Follows
    <2>3. Log!TryAgain(j)  BY <1>2, <2>2 DEF Log!TryAgain
    <2>4. QED  BY <2>3 DEF Log!Next
  <1>6. QED  BY <1>3, <1>4, <1>5

LEMMA LogStep ==
  ASSUME DeliverySound, FirstsActive, [DeliveryNext]_dvars
  PROVE  [Log!Next]_<<rows, received>>
  <1>1. CASE UNCHANGED dvars  BY <1>1 DEF dvars
  <1>2. CASE DeliveryNext
    <2>1. PICK a \in Agents : StepOf(a)  BY <1>2 DEF DeliveryNext, StepOf
    <2>2. AgentSound(a)  BY DEF DeliverySound
    <2>3. CASE \E ep \in Endpoints : Insert(a, ep)  BY <2>3, InsertIsTry
    <2>4. CASE Accepted(a) \/ AnswerLost(a)
      <3>1. job[a].row \in DOMAIN rows /\ Log!Receive(job[a].row)
        BY <2>2, <2>4 DEF Accepted, AnswerLost, AgentSound, Log!Receive
      <3>2. QED  BY <3>1 DEF Log!Next
    <2>5. CASE Mark(a)
      <3>1. /\ job[a].row \in DOMAIN rows /\ job[a].outcome \in {"delivered", "failed"}
            /\ Log!Conclude(job[a].row, job[a].outcome)
        BY <2>2, <2>5 DEF Mark, AgentSound, Log!Conclude
      <3>2. QED  BY <3>1 DEF Log!Next
    <2>6. CASE ~ (\/ \E ep \in Endpoints : Insert(a, ep)
                  \/ Accepted(a) \/ AnswerLost(a) \/ Mark(a))
      BY <2>1, <2>6 DEF StepOf, Dispatch, AskRetry, Post, Break, Retry, Refused, End,
         InsertFails, MarkFails, Dies
    <2>7. QED  BY <2>3, <2>4, <2>5, <2>6
  <1>3. QED  BY <1>1, <1>2

(* With any number of agents that post, retry, fail and die at the same    *)
(* time, the rows are a log that a merchant may rely on.                   *)
THEOREM DeliveryImplementsLog ==
  ASSUME DeliveryConstants
  PROVE  DeliverySpec => ImplementsLog
  <1>1. DeliveryInit => FirstsActive /\ Log!Init
    BY DEF DeliveryInit, FirstsActive, Posting, Log!Init
  <1>2. DeliverySound /\ FirstsActive /\ [DeliveryNext]_dvars => FirstsActive'
    <2>1. CASE UNCHANGED dvars  BY <2>1 DEF dvars, FirstsActive
    <2>2. CASE \E a \in Agents : StepOf(a)  BY <2>2, FirstsStayActive
    <2>3. QED  BY <2>1, <2>2 DEF DeliveryNext, StepOf
  <1>3. DeliverySound /\ FirstsActive /\ [DeliveryNext]_dvars
          => [Log!Next]_<<rows, received>>
    BY LogStep
  <1>4. QED
    BY <1>1, <1>2, <1>3, AlwaysDeliverySound, PTL DEF DeliverySpec, ImplementsLog, Log!Spec

=============================================================================
