------------------------------ MODULE Admission ------------------------------
(***************************************************************************)
(* What CreatePaymentIntent asks before it creates anything: the risk      *)
(* engine's sliding windows, and the routing rules with their circuit      *)
(* breaker.                                                                *)
(*                                                                         *)
(* Both live in the memory of one process, are shared by its request       *)
(* goroutines under a mutex each, and decide by the clock. Nothing in the  *)
(* repository reports outcomes to the breaker yet: the reports are those   *)
(* of an environment that uses its interface as it pleases.                *)
(***************************************************************************)
EXTENDS Integers, Sequences, FiniteSets

CONSTANTS
  Callers,      \* goroutines that run CreatePaymentIntent
  Contacts,     \* customers' phones and emails, the keys of the windows
  CallsFor,     \* lists of contacts a request can bring: phone, then email
  Orders,       \* pairs of a payment method and a currency
  Registered,   \* PSPs with a configured connector
  MaxAttempts,  \* risk.maxAttempts: 10
  Window,       \* risk.window: a minute
  Threshold,    \* failures that open the breaker: 5
  Cooldown,     \* how long it stays open: a minute
  MaxClock,     \* bound: the clock
  MaxCalls,     \* bound: calls
  MaxReports,   \* bound: outcomes reported to the breaker
  None

PSPs == {"mpesa", "paystack"}
BreakerState == [Failures : Nat, LastFailure : Int, Open : BOOLEAN]

ASSUME AdmissionConstants ==
  /\ CallsFor \subseteq Seq(Contacts)
  /\ Registered \subseteq PSPs
  /\ {MaxAttempts, Window, Cooldown} \subseteq Nat
  /\ {MaxClock, MaxCalls, MaxReports} \subseteq Nat
  /\ MaxAttempts > 0
  /\ Threshold \in Nat /\ Threshold > 1
  /\ None \notin PSPs \cup BreakerState

VARIABLES
  clock,
  pc,          \* where each caller is
  call,        \* its contacts still to be checked, its order, its PSP
  calls,       \* calls so far
  accepted,    \* per contact: when the counted attempts were made
  velocities,  \* risk: per contact, those of them it remembers
  breaker,     \* routing: per PSP, the BreakerState, or None
  failedAt,    \* per PSP: when failures were reported since the last success
  reports      \* outcomes reported so far

windows == <<accepted, velocities>>
routing == <<breaker, failedAt, reports>>
callers == <<pc, call, calls>>
avars == <<clock, callers, windows, routing>>

NoCall == [keys |-> <<>>, order |-> None, psp |-> None]
Time == 0..MaxClock
Never == -1  \* the zero time

AdmissionTypeOK ==
  /\ clock \in Time
  /\ pc \in [Callers -> {"idle", "risk", "route", "create"}]
  /\ call \in [Callers -> [keys : Seq(Contacts), order : Orders \cup {None},
                           psp : PSPs \cup {None}]]
  /\ calls \in 0..MaxCalls
  /\ accepted \in [Contacts -> Seq(Time)]
  /\ velocities \in [Contacts -> SUBSET Nat]
  /\ \A k \in Contacts : velocities[k] \subseteq DOMAIN accepted[k]
  /\ breaker \in [PSPs -> BreakerState \cup {None}]
  /\ failedAt \in [PSPs -> Seq(Time)]
  /\ reports \in 0..MaxReports

AdmissionInit ==
  /\ clock = 0
  /\ pc = [a \in Callers |-> "idle"]
  /\ call = [a \in Callers |-> NoCall]
  /\ calls = 0
  /\ accepted = [k \in Contacts |-> <<>>]
  /\ velocities = [k \in Contacts |-> {}]
  /\ breaker = [p \in PSPs |-> None]
  /\ failedAt = [p \in PSPs |-> <<>>]
  /\ reports = 0

Tick ==
  /\ clock < MaxClock
  /\ clock' = clock + 1
  /\ UNCHANGED <<callers, windows, routing>>

Goto(a, step) == pc' = [pc EXCEPT ![a] = step]

Leave(a) ==
  /\ Goto(a, "idle")
  /\ call' = [call EXCEPT ![a] = NoCall]
  /\ UNCHANGED calls

-----------------------------------------------------------------------------
(* risk.Evaluate                                                           *)

(* A call without a key that was used before, and with an amount Evaluate  *)
(* does not refuse at once: such a refusal leaves no trace.                *)
Evaluate(a) ==
  /\ pc[a] = "idle"
  /\ calls < MaxCalls
  /\ calls' = calls + 1
  /\ \E keys \in CallsFor, order \in Orders :
       call' = [call EXCEPT ![a] = [keys |-> keys, order |-> order, psp |-> None]]
  /\ Goto(a, "risk")
  /\ UNCHANGED <<clock, windows, routing>>

(* Those remembered attempts that lie after the cutoff.                    *)
Recent(k) == {i \in velocities[k] : accepted[k][i] > clock - Window}

(* Variant: compares the limit with what is there, not with what will be.  *)
LimitReachedLate(k) == Cardinality(Recent(k)) > MaxAttempts

LimitReached(k) == Cardinality(Recent(k)) >= MaxAttempts

(* checkVelocity is one critical section; the contacts of a call are       *)
(* checked in turn, so one refused for its email has counted for its phone.*)
Count(a, k) ==
  /\ ~LimitReached(k)
  /\ accepted' = [accepted EXCEPT ![k] = Append(@, clock)]
  /\ velocities' = [velocities EXCEPT ![k] = Recent(k) \cup {Len(accepted[k]) + 1}]
  /\ call' = [call EXCEPT ![a].keys = Tail(@)]
  /\ UNCHANGED <<pc, calls>>

(* Variant: an attempt is remembered although it was refused.              *)
RefuseCounting(a, k) ==
  /\ LimitReached(k)
  /\ velocities' = [velocities EXCEPT ![k] = Recent(k) \cup {Len(accepted[k]) + 1}]
  /\ Leave(a)
  /\ UNCHANGED accepted

(* Only what is over is forgotten.                                         *)
RefuseFrequent(a, k) ==
  /\ LimitReached(k)
  /\ velocities' = [velocities EXCEPT ![k] = Recent(k)]
  /\ Leave(a)
  /\ UNCHANGED accepted

CheckVelocity(a) ==
  /\ pc[a] = "risk"
  /\ call[a].keys # <<>>
  /\ Count(a, Head(call[a].keys)) \/ RefuseFrequent(a, Head(call[a].keys))
  /\ UNCHANGED <<clock, routing>>

RiskPassed(a) ==
  /\ pc[a] = "risk"
  /\ call[a].keys = <<>>
  /\ Goto(a, "route")
  /\ UNCHANGED <<clock, call, calls, windows, routing>>

-----------------------------------------------------------------------------
(* routing.Engine.Route with the default rules, which name no fallbacks    *)

setDefaultRules ==
  {[method |-> "mpesa_stk", currency |-> {"KES"}, psp |-> "mpesa"],
   [method |-> "card", currency |-> {"KES", "USD"}, psp |-> "paystack"]}

(* The PSPs of the rules that match; no order matches two default rules.   *)
PrimaryFor(order) ==
  {rule.psp : rule \in {r \in setDefaultRules :
                          order[1] = r.method /\ order[2] \in r.currency}}

(* Variant: lets the PSP in as soon as the cooldown is reached.            *)
CooledDownEarly(p) == clock - breaker[p].LastFailure >= Cooldown

CooledDown(p) == clock - breaker[p].LastFailure > Cooldown

IsOpen(p) == breaker[p] # None /\ breaker[p].Open

IsAvailable(p) == IsOpen(p) => CooledDown(p)

(* IsAvailable closes a breaker that cooled down, and forgets its count.   *)
Closed(p) ==
  IF IsOpen(p)
    THEN [breaker EXCEPT ![p].Open = FALSE, ![p].Failures = 0]
    ELSE breaker

(* The registry's Get: is there a connector?                               *)
Get(p) == p \in Registered

(* The payment goes to the PSP of the rule, if it has a connector.         *)
RouteTo(a, p) ==
  /\ pc[a] = "route"
  /\ p \in PrimaryFor(call[a].order)
  /\ IsAvailable(p)
  /\ breaker' = Closed(p)
  /\ IF Get(p)
       THEN /\ call' = [call EXCEPT ![a].psp = p]
            /\ Goto(a, "create")
            /\ UNCHANGED calls
       ELSE Leave(a)
  /\ UNCHANGED <<clock, windows, failedAt, reports>>

(* No rule, or the breaker of the rule's PSP is open: the call fails.      *)
RouteFails(a) ==
  /\ pc[a] = "route"
  /\ \A p \in PrimaryFor(call[a].order) : ~IsAvailable(p)
  /\ Leave(a)
  /\ UNCHANGED <<clock, windows, routing>>

(* The first failure ever makes the state, without time or comparison.     *)
RecordFailure(p) ==
  /\ reports < MaxReports
  /\ reports' = reports + 1
  /\ failedAt' = [failedAt EXCEPT ![p] = Append(@, clock)]
  /\ breaker' = [breaker EXCEPT ![p] =
       IF @ = None
         THEN [Failures |-> 1, LastFailure |-> Never, Open |-> FALSE]
         ELSE [Failures |-> @.Failures + 1, LastFailure |-> clock,
               Open |-> @.Open \/ @.Failures + 1 >= Threshold]]
  /\ UNCHANGED <<clock, callers, windows>>

RecordSuccess(p) ==
  /\ reports < MaxReports
  /\ reports' = reports + 1
  /\ failedAt' = [failedAt EXCEPT ![p] = <<>>]
  /\ breaker' = [breaker EXCEPT ![p] =
       IF @ = None THEN @ ELSE [@ EXCEPT !.Failures = 0, !.Open = FALSE]]
  /\ UNCHANGED <<clock, callers, windows>>

(* The payment is created, as the Orchestrator models it.                  *)
Create(a) ==
  /\ pc[a] = "create"
  /\ Leave(a)
  /\ UNCHANGED <<clock, windows, routing>>

AdmissionNext ==
  \/ Tick
  \/ \E a \in Callers :
       \/ Evaluate(a) \/ CheckVelocity(a) \/ RiskPassed(a)
       \/ RouteFails(a) \/ \E p \in PSPs : RouteTo(a, p)
       \/ Create(a)
  \/ \E p \in Registered : RecordFailure(p) \/ RecordSuccess(p)

AdmissionSpec == AdmissionInit /\ [][AdmissionNext]_avars

-----------------------------------------------------------------------------
(* Properties                                                              *)

(* Of one contact, MaxAttempts attempts and one more never lie within one  *)
(* window, whoever made them and however often it was refused in between:  *)
(* no window that slides over the accepted attempts holds too many.        *)
WindowHolds ==
  \A k \in Contacts : \A i \in DOMAIN accepted[k] :
    i + MaxAttempts \in DOMAIN accepted[k] =>
      accepted[k][i + MaxAttempts] >= accepted[k][i] + Window

(* The last Threshold reports on a PSP were failures, all within Cooldown. *)
KeepsFailing(p) ==
  /\ Len(failedAt[p]) >= Threshold
  /\ \A i \in DOMAIN failedAt[p] :
       i > Len(failedAt[p]) - Threshold => clock - failedAt[p][i] <= Cooldown

(* It failed at least that often since its last success, and lately.       *)
FailedLately(p) ==
  /\ Len(failedAt[p]) >= Threshold
  /\ clock - failedAt[p][Len(failedAt[p])] <= Cooldown

(* A PSP that keeps failing gets no payment, although the breaker's count  *)
(* is forgotten whenever somebody asks after a cooldown; and no payment is *)
(* turned away from a PSP that has not failed that often, or not lately.   *)
LeftOutWhileFailing ==
  [][\A a \in Callers : pc[a] = "route" =>
       /\ \A p \in PSPs : call'[a].psp = p => ~KeepsFailing(p)
       /\ call'[a].psp = None /\ pc'[a] # "route" =>
            \A p \in PrimaryFor(call[a].order) \cap Registered : FailedLately(p)]_avars

=============================================================================
