--------------------------- MODULE AdmissionProofs ---------------------------
(***************************************************************************)
(* Theorems about module Admission: the sliding window of the risk engine, *)
(* for any number of callers and contacts, any limit and any window.       *)
(***************************************************************************)
EXTENDS Admission, SequenceTheorems, FiniteSetTheorems, TLAPS

LEMMA Limits == MaxAttempts \in Nat /\ MaxAttempts > 0 /\ Window \in Nat
  BY AdmissionConstants

Calls == [keys : Seq(Contacts), order : Orders \cup {None}, psp : PSPs \cup {None}]

LEMMA NoCallTyped == NoCall \in Calls
  BY DEF NoCall, Calls

(* The part of the type invariant that the window needs.                   *)
WindowTyped ==
  /\ clock \in Nat
  /\ call \in [Callers -> Calls]
  /\ accepted \in [Contacts -> Seq(Nat)]
  /\ velocities \in [Contacts -> SUBSET Nat]
  /\ \A k \in Contacts : velocities[k] \subseteq DOMAIN accepted[k]

(* The attempts of a contact are in the order of their times, none later   *)
(* than now; those the engine has forgotten have left the window; and any  *)
(* attempt and the one MaxAttempts later are a window apart.               *)
WindowSound(times, remembered, now) ==
  /\ \A i \in 1..Len(times) :
       /\ times[i] <= now
       /\ i \notin remembered => times[i] + Window <= now
  /\ \A i, j \in 1..Len(times) : i <= j => times[i] <= times[j]
  /\ \A i \in 1..Len(times) :
       i + MaxAttempts <= Len(times) => times[i + MaxAttempts] >= times[i] + Window

WindowsSound ==
  WindowTyped /\ \A k \in Contacts : WindowSound(accepted[k], velocities[k], clock)

LEMMA AcceptedFacts ==
  ASSUME WindowTyped, NEW k \in Contacts
  PROVE  /\ accepted[k] \in Seq(Nat) /\ Len(accepted[k]) \in Nat
         /\ DOMAIN accepted[k] = 1..Len(accepted[k])
         /\ \A i \in 1..Len(accepted[k]) : accepted[k][i] \in Nat
         /\ velocities[k] \subseteq 1..Len(accepted[k])
<1>1. accepted[k] \in Seq(Nat) /\ velocities[k] \subseteq DOMAIN accepted[k]
  BY DEF WindowTyped
<1> QED
  BY <1>1, LenProperties, ElementOfSeq

(* As time goes on nothing comes back into the window.                     *)
LEMMA LaterIsSound ==
  ASSUME NEW times \in Seq(Nat), NEW kept, NEW now \in Nat, NEW later \in Nat,
         now <= later, WindowSound(times, kept, now)
  PROVE  WindowSound(times, kept, later)
<1>1. \A i \in 1..Len(times) : times[i] \in Nat
  BY ElementOfSeq
<1> QED
  BY <1>1, Limits DEF WindowSound

(* Forgetting what is not recent forgets only what has left the window.    *)
LEMMA PrunedIsSound ==
  ASSUME WindowTyped, NEW k \in Contacts, WindowSound(accepted[k], velocities[k], clock)
  PROVE  /\ Recent(k) \subseteq velocities[k]
         /\ WindowSound(accepted[k], Recent(k), clock)
  BY AcceptedFacts, Limits DEF WindowSound, Recent, WindowTyped

(* If the limit is not reached, then the attempt MaxAttempts before a new  *)
(* one has left the window: otherwise all those from it on are recent.     *)
LEMMA RoomInWindow ==
  ASSUME WindowTyped, NEW k \in Contacts, WindowSound(accepted[k], velocities[k], clock),
         ~LimitReached(k), NEW i \in 1..Len(accepted[k]),
         i + MaxAttempts = Len(accepted[k]) + 1
  PROVE  accepted[k][i] + Window <= clock
<1> DEFINE n == Len(accepted[k])
           times == accepted[k]
<1>1. /\ n \in Nat /\ clock \in Nat /\ i \in 1..n
      /\ \A j \in 1..n : times[j] \in Nat
      /\ velocities[k] \subseteq 1..n
  BY AcceptedFacts DEF WindowTyped
<1>2. /\ \A j \in 1..n : j \notin velocities[k] => times[j] + Window <= clock
      /\ \A j \in 1..n : i <= j => times[i] <= times[j]
  BY DEF WindowSound
<1>3. Recent(k) = {j \in velocities[k] : times[j] > clock - Window}
  BY DEF Recent
<1>4. i + MaxAttempts = n + 1
  OBVIOUS
<1> HIDE DEF n, times
<1>5. SUFFICES ASSUME times[i] + Window > clock PROVE FALSE
  BY <1>1, Limits DEF n, times
<1>6. \A j \in i..n : j \in Recent(k)
  <2>1. TAKE j \in i..n
  <2>2. j \in 1..n /\ i <= j
    BY <1>1
  <2>3. times[j] \in Nat /\ times[i] \in Nat /\ times[i] <= times[j]
    BY <1>1, <1>2, <2>2
  <2>4. times[j] + Window > clock /\ times[j] > clock - Window
    BY <1>1, <1>5, <2>3, Limits
  <2> QED
    BY <1>1, <1>2, <1>3, <2>2, <2>3, <2>4, Limits
<1>7. IsFiniteSet(1..n) /\ Recent(k) \in SUBSET (1..n)
  <2>1. 1 \in Int /\ n \in Int
    BY <1>1
  <2>2. IsFiniteSet(1..n)
    BY <2>1, FS_Interval
  <2> QED
    BY <1>1, <1>3, <2>2
<1>8. IsFiniteSet(Recent(k)) /\ Cardinality(Recent(k)) \in Nat
  BY <1>7, FS_Subset, FS_CardinalityType
<1>9. Cardinality(i..n) = MaxAttempts
  <2>1. i \in Int /\ n \in Int
    BY <1>1
  <2>2. Cardinality(i..n) = IF i > n THEN 0 ELSE n - i + 1
    BY <2>1, FS_Interval
  <2> QED
    BY <1>1, <1>4, <2>2, Limits
<1>10. Cardinality(i..n) <= Cardinality(Recent(k))
  <2>1. (i..n) \in SUBSET Recent(k)
    BY <1>6
  <2> QED
    BY <2>1, <1>8, FS_Subset
<1> QED
  BY <1>8, <1>9, <1>10, Limits DEF LimitReached

(* Counting an attempt keeps the window.                                   *)
LEMMA CountedIsSound ==
  ASSUME WindowTyped, NEW k \in Contacts, WindowSound(accepted[k], velocities[k], clock),
         ~LimitReached(k)
  PROVE  LET times == Append(accepted[k], clock)
             kept == Recent(k) \cup {Len(accepted[k]) + 1}
         IN  /\ times \in Seq(Nat)
             /\ kept \subseteq Nat /\ kept \subseteq DOMAIN times
             /\ WindowSound(times, kept, clock)
<1> DEFINE n == Len(accepted[k])
           times == Append(accepted[k], clock)
           kept == Recent(k) \cup {n + 1}
<1>1. n \in Nat /\ clock \in Nat /\ (\A j \in 1..n : accepted[k][j] \in Nat)
      /\ velocities[k] \subseteq 1..n /\ accepted[k] \in Seq(Nat)
  BY AcceptedFacts DEF WindowTyped
<1>2. /\ times \in Seq(Nat) /\ Len(times) = n + 1 /\ DOMAIN times = 1..(n + 1)
      /\ \A j \in 1..n : times[j] = accepted[k][j]
      /\ times[n + 1] = clock
  BY <1>1, AppendProperties, LenProperties
<1>3. WindowSound(accepted[k], Recent(k), clock) /\ Recent(k) \subseteq 1..n
  BY <1>1, PrunedIsSound
<1>4. \A j \in 1..(n + 1) : j # n + 1 => j \in 1..n
  BY <1>1
<1>5. \A i \in 1..(n + 1) : times[i] <= clock /\ (i \notin kept => times[i] + Window <= clock)
  BY <1>1, <1>2, <1>3, <1>4 DEF WindowSound
<1>6. \A i, j \in 1..(n + 1) : i <= j => times[i] <= times[j]
  <2> TAKE i, j \in 1..(n + 1)
  <2>1. i \in Int /\ j \in Int /\ 1 <= i /\ j <= n + 1
    BY <1>1
  <2>2. CASE j = n + 1
    BY <1>2, <1>5, <2>2
  <2>3. CASE j # n + 1 /\ i <= j
    <3>1. i # n + 1 /\ j # n + 1
      BY <1>1, <2>1, <2>3
    <3>2. i \in 1..n /\ j \in 1..n
      BY <1>4, <3>1
    <3> QED
      BY <1>2, <1>3, <2>3, <3>2 DEF WindowSound
  <2> QED
    BY <2>2, <2>3
<1>7. \A i \in 1..(n + 1) :
        i + MaxAttempts <= n + 1 => times[i + MaxAttempts] >= times[i] + Window
  <2>1. TAKE i \in 1..(n + 1)
  <2>2. HAVE i + MaxAttempts <= n + 1
  <2>3. i \in 1..n
    BY <1>1, <2>2, Limits
  <2>4. CASE i + MaxAttempts = n + 1
    <3>1. accepted[k][i] + Window <= clock
      BY <2>3, <2>4, RoomInWindow
    <3> QED
      BY <1>1, <1>2, <2>3, <2>4, <3>1
  <2>5. CASE i + MaxAttempts # n + 1
    <3>1. i + MaxAttempts \in 1..n /\ i + MaxAttempts <= n
      BY <1>1, <2>2, <2>3, <2>5, Limits
    <3> QED
      BY <1>2, <1>3, <2>3, <3>1 DEF WindowSound
  <2> QED
    BY <2>4, <2>5
<1>8. WindowSound(times, kept, clock)
  <2> HIDE DEF times, kept
  <2> QED
    BY <1>2, <1>5, <1>6, <1>7 DEF WindowSound
<1> QED
  BY <1>1, <1>2, <1>3, <1>8

LEMMA WindowInit == AdmissionInit => WindowsSound
  BY NoCallTyped DEF AdmissionInit, WindowsSound, WindowTyped, WindowSound

(* Only CheckVelocity touches the windows.                                 *)
LEMMA WindowByCheck ==
  ASSUME WindowsSound, NEW a \in Callers, CheckVelocity(a)
  PROVE  WindowsSound'
<1> DEFINE k == Head(call[a].keys)
<1>1. call[a] \in Calls
  BY DEF WindowsSound, WindowTyped
<1>2. /\ k \in Contacts /\ Tail(call[a].keys) \in Seq(Contacts)
      /\ WindowTyped /\ WindowSound(accepted[k], velocities[k], clock)
      /\ clock' = clock
  BY <1>1, HeadTailProperties DEF WindowsSound, CheckVelocity, Calls
<1>3. CASE Count(a, k)
  <2>1. /\ accepted' = [accepted EXCEPT ![k] = Append(@, clock)]
        /\ velocities' = [velocities EXCEPT ![k] = Recent(k) \cup {Len(accepted[k]) + 1}]
        /\ call' = [call EXCEPT ![a].keys = Tail(@)]
        /\ ~LimitReached(k)
    BY <1>3 DEF Count
  <2>2. /\ accepted'[k] \in Seq(Nat)
        /\ velocities'[k] \subseteq Nat /\ velocities'[k] \subseteq DOMAIN accepted'[k]
        /\ WindowSound(accepted'[k], velocities'[k], clock)
    BY <1>2, <2>1, CountedIsSound DEF WindowTyped
  <2>3. call' \in [Callers -> Calls]
    BY <1>1, <1>2, <2>1 DEF WindowTyped, Calls
  <2>4. \A c \in Contacts \ {k} : accepted'[c] = accepted[c] /\ velocities'[c] = velocities[c]
    BY <1>2, <2>1 DEF WindowTyped
  <2>5. WindowTyped'
    BY <1>2, <2>1, <2>2, <2>3, <2>4 DEF WindowTyped
  <2> QED
    BY <1>2, <2>2, <2>4, <2>5 DEF WindowsSound
<1>4. CASE RefuseFrequent(a, k)
  <2>1. /\ accepted' = accepted
        /\ velocities' = [velocities EXCEPT ![k] = Recent(k)]
        /\ call' = [call EXCEPT ![a] = NoCall]
    BY <1>4 DEF RefuseFrequent, Leave
  <2>2. WindowSound(accepted'[k], velocities'[k], clock) /\ velocities'[k] \subseteq velocities[k]
    BY <1>2, <2>1, PrunedIsSound DEF WindowTyped
  <2>3. \A c \in Contacts \ {k} : velocities'[c] = velocities[c]
    BY <1>2, <2>1 DEF WindowTyped
  <2>4. call' \in [Callers -> Calls]
    BY <1>2, <2>1, NoCallTyped DEF WindowTyped
  <2>5. WindowTyped'
    BY <1>2, <2>1, <2>2, <2>3, <2>4 DEF WindowTyped
  <2> QED
    BY <1>2, <2>1, <2>2, <2>3, <2>5 DEF WindowsSound
<1> QED
  BY <1>3, <1>4 DEF CheckVelocity

LEMMA WindowStep == WindowsSound /\ [AdmissionNext]_avars => WindowsSound'
<1> SUFFICES ASSUME WindowsSound, [AdmissionNext]_avars PROVE WindowsSound'
  OBVIOUS
<1>1. CASE Tick
  <2>1. clock' = clock + 1 /\ UNCHANGED <<call, accepted, velocities>> /\ clock \in Nat
    BY <1>1 DEF Tick, callers, windows, WindowsSound, WindowTyped
  <2>2. \A k \in Contacts : WindowSound(accepted[k], velocities[k], clock + 1)
    BY <2>1, LaterIsSound, AcceptedFacts DEF WindowsSound
  <2> QED
    BY <2>1, <2>2 DEF WindowsSound, WindowTyped
<1>2. CASE \E a \in Callers : CheckVelocity(a)
  BY <1>2, WindowByCheck
<1>3. CASE \E a \in Callers : Evaluate(a)
  <2>1. PICK a \in Callers, keys \in CallsFor, order \in Orders :
          call' = [call EXCEPT ![a] = [keys |-> keys, order |-> order, psp |-> None]]
    BY <1>3 DEF Evaluate
  <2>2. call' \in [Callers -> Calls]
    BY <2>1, AdmissionConstants DEF WindowsSound, WindowTyped, Calls
  <2> QED
    BY <1>3, <2>2 DEF Evaluate, windows, WindowsSound, WindowTyped
<1>4. CASE \E a \in Callers : RiskPassed(a)
  BY <1>4 DEF RiskPassed, windows, WindowsSound, WindowTyped
<1>5. CASE \E a \in Callers : RouteFails(a) \/ Create(a)
  <2>1. PICK a \in Callers : call' = [call EXCEPT ![a] = NoCall]
    BY <1>5 DEF RouteFails, Create, Leave
  <2>2. call' \in [Callers -> Calls]
    BY <2>1, NoCallTyped DEF WindowsSound, WindowTyped
  <2> QED
    BY <1>5, <2>2 DEF RouteFails, Create, windows, WindowsSound, WindowTyped
<1>6. CASE \E a \in Callers, p \in PSPs : RouteTo(a, p)
  <2>1. PICK a \in Callers, p \in PSPs : RouteTo(a, p)
    BY <1>6
  <2>2. \/ call' = [call EXCEPT ![a].psp = p]
        \/ call' = [call EXCEPT ![a] = NoCall]
    BY <2>1 DEF RouteTo, Leave
  <2>3. call \in [Callers -> Calls]
    BY DEF WindowsSound, WindowTyped
  <2>4. [call[a] EXCEPT !.psp = p] \in Calls
    BY <2>3 DEF Calls
  <2>5. call' \in [Callers -> Calls]
    BY <2>2, <2>3, <2>4, NoCallTyped
  <2> QED
    BY <2>1, <2>5 DEF RouteTo, windows, WindowsSound, WindowTyped
<1>7. CASE \E p \in Registered : RecordFailure(p) \/ RecordSuccess(p)
  BY <1>7 DEF RecordFailure, RecordSuccess, callers, windows, WindowsSound, WindowTyped
<1>8. CASE UNCHANGED avars
  BY <1>8 DEF avars, callers, windows, WindowsSound, WindowTyped
<1> QED
  BY <1>1, <1>2, <1>3, <1>4, <1>5, <1>6, <1>7, <1>8 DEF AdmissionNext

(* Of one contact, an attempt that is accepted lies at least a window      *)
(* after the one MaxAttempts before it, whoever made them.                 *)
THEOREM WindowNeverOverfull == AdmissionSpec => []WindowHolds
<1>1. WindowsSound => WindowHolds
  BY AcceptedFacts DEF WindowsSound, WindowSound, WindowHolds
<1> QED
  BY <1>1, WindowInit, WindowStep, PTL DEF AdmissionSpec

-----------------------------------------------------------------------------
(* What the type invariant adds to WindowTyped.                            *)
RoutingTyped ==
  /\ clock \in Time
  /\ pc \in [Callers -> {"idle", "risk", "route", "create"}]
  /\ calls \in 0..MaxCalls
  /\ accepted \in [Contacts -> Seq(Time)]
  /\ breaker \in [PSPs -> BreakerState \cup {None}]
  /\ failedAt \in [PSPs -> Seq(Time)]
  /\ reports \in 0..MaxReports

(* A breaker that is closed, or has succeeded, keeps its kind of state.    *)
LEMMA BreakerCloses ==
  ASSUME RoutingTyped, NEW p \in PSPs, breaker[p] # None
  PROVE  /\ [[breaker[p] EXCEPT !.Open = FALSE] EXCEPT !.Failures = 0] \in BreakerState
         /\ [[breaker[p] EXCEPT !.Failures = 0] EXCEPT !.Open = FALSE] \in BreakerState
  BY DEF RoutingTyped, BreakerState

(* A step of a caller.                                                     *)
LEMMA RoutingByCaller ==
  ASSUME WindowsSound, RoutingTyped, NEW a \in Callers,
         \/ Evaluate(a) \/ CheckVelocity(a) \/ RiskPassed(a)
         \/ RouteFails(a) \/ (\E p \in PSPs : RouteTo(a, p)) \/ Create(a)
  PROVE  RoutingTyped'
<1> USE AdmissionConstants
<1>1. CASE Evaluate(a)
  BY <1>1 DEF Evaluate, Goto, RoutingTyped, windows, routing
<1>2. CASE CheckVelocity(a)
  <2>1. Head(call[a].keys) \in Contacts
    BY <1>2, HeadTailProperties DEF CheckVelocity, WindowsSound, WindowTyped, Calls
  <2>2. PICK k \in Contacts : Count(a, k) \/ RefuseFrequent(a, k)
    BY <1>2, <2>1 DEF CheckVelocity
  <2>3. /\ UNCHANGED <<clock, calls, breaker, failedAt, reports>>
        /\ pc' = pc \/ pc' = [pc EXCEPT ![a] = "idle"]
        /\ accepted' = accepted \/ accepted' = [accepted EXCEPT ![k] = Append(@, clock)]
    BY <1>2, <2>2 DEF CheckVelocity, Count, RefuseFrequent, Leave, Goto, routing
  <2>4. Append(accepted[k], clock) \in Seq(Time)
    BY <2>2, AppendProperties DEF RoutingTyped
  <2> QED
    BY <2>3, <2>4 DEF RoutingTyped
<1>3. CASE RiskPassed(a)
  BY <1>3 DEF RiskPassed, Goto, RoutingTyped, windows, routing
<1>4. CASE RouteFails(a) \/ Create(a)
  BY <1>4 DEF RouteFails, Create, Leave, Goto, RoutingTyped, windows, routing
<1>5. ASSUME NEW p \in PSPs, RouteTo(a, p)
      PROVE  RoutingTyped'
  <2>1. /\ UNCHANGED <<clock, accepted, failedAt, reports, calls>>
        /\ pc' = [pc EXCEPT ![a] = "create"] \/ pc' = [pc EXCEPT ![a] = "idle"]
        /\ breaker' = Closed(p)
    BY <1>5 DEF RouteTo, Leave, Goto, windows
  <2>2. Closed(p) \in [PSPs -> BreakerState \cup {None}]
    <3>1. CASE IsOpen(p)
      <4>1. Closed(p) = [breaker EXCEPT ![p] = [[@ EXCEPT !.Open = FALSE] EXCEPT !.Failures = 0]]
        BY <3>1 DEF Closed
      <4> QED
        BY <3>1, <4>1, BreakerCloses DEF IsOpen, RoutingTyped
    <3>2. CASE ~IsOpen(p)
      BY <3>2 DEF Closed, RoutingTyped
    <3> QED
      BY <3>1, <3>2
  <2> QED
    BY <2>1, <2>2 DEF RoutingTyped
<1> QED
  BY <1>1, <1>2, <1>3, <1>4, <1>5

(* A report to the breaker.                                                *)
LEMMA RoutingByReport ==
  ASSUME RoutingTyped, NEW p \in PSPs, RecordFailure(p) \/ RecordSuccess(p)
  PROVE  RoutingTyped'
<1> USE AdmissionConstants
<1>1. /\ UNCHANGED <<clock, pc, calls, accepted>>
      /\ reports' \in 0..MaxReports
  BY DEF RecordFailure, RecordSuccess, callers, windows, RoutingTyped
<1>2. CASE RecordFailure(p)
  <2>1. Append(failedAt[p], clock) \in Seq(Time)
    BY AppendProperties DEF RoutingTyped
  <2>2. failedAt' \in [PSPs -> Seq(Time)]
    BY <1>2, <2>1 DEF RecordFailure, RoutingTyped
  <2> DEFINE first == [Failures |-> 1, LastFailure |-> Never, Open |-> FALSE]
             opens == breaker[p].Open \/ breaker[p].Failures + 1 >= Threshold
             later == [Failures |-> breaker[p].Failures + 1, LastFailure |-> clock,
                       Open |-> opens]
  <2>3. breaker' = [breaker EXCEPT ![p] = IF breaker[p] = None THEN first ELSE later]
    BY <1>2 DEF RecordFailure
  <2>4. first \in BreakerState
    BY DEF BreakerState, Never
  <2>5. CASE breaker[p] # None
    <3>1. opens \in BOOLEAN
      OBVIOUS
    <3> HIDE DEF opens
    <3>2. breaker[p] \in BreakerState
      BY <2>5 DEF RoutingTyped
    <3>3. breaker[p].Failures + 1 \in Nat
      BY <3>2 DEF BreakerState
    <3>4. clock \in Int
      BY DEF RoutingTyped, Time
    <3>5. later \in BreakerState
      BY <3>1, <3>3, <3>4 DEF BreakerState
    <3> QED
      BY <1>1, <2>2, <2>3, <2>5, <3>5 DEF RoutingTyped
  <2>6. CASE breaker[p] = None
    BY <1>1, <2>2, <2>3, <2>4, <2>6 DEF RoutingTyped
  <2> QED
    BY <2>5, <2>6
<1>3. CASE RecordSuccess(p)
  <2>1. failedAt' \in [PSPs -> Seq(Time)]
    BY <1>3 DEF RecordSuccess, RoutingTyped
  <2>2. breaker' = [breaker EXCEPT ![p] =
          IF @ = None THEN @ ELSE [[@ EXCEPT !.Failures = 0] EXCEPT !.Open = FALSE]]
    BY <1>3 DEF RecordSuccess
  <2>3. breaker' \in [PSPs -> BreakerState \cup {None}]
    BY <2>2, BreakerCloses DEF RoutingTyped
  <2> QED
    BY <1>1, <2>1, <2>3 DEF RoutingTyped
<1> QED
  BY <1>2, <1>3

LEMMA RoutingStep ==
  ASSUME WindowsSound, RoutingTyped, [AdmissionNext]_avars
  PROVE  RoutingTyped'
<1>1. CASE Tick
  BY <1>1, AdmissionConstants DEF Tick, RoutingTyped, Time, callers, windows, routing
<1>2. CASE UNCHANGED avars
  BY <1>2 DEF avars, callers, windows, routing, RoutingTyped
<1> QED
  BY <1>1, <1>2, RoutingByCaller, RoutingByReport, AdmissionConstants DEF AdmissionNext

(* Type correctness; what the engine remembers of a contact are attempts   *)
(* that were made.                                                         *)
THEOREM AdmissionTypeCorrect == AdmissionSpec => []AdmissionTypeOK
<1>1. AdmissionInit => RoutingTyped
  BY AdmissionConstants DEF AdmissionInit, RoutingTyped, Time
<1>2. WindowsSound /\ RoutingTyped /\ [AdmissionNext]_avars => RoutingTyped'
  BY RoutingStep
<1>3. WindowsSound /\ RoutingTyped => AdmissionTypeOK
  BY DEF WindowsSound, WindowTyped, Calls, RoutingTyped, AdmissionTypeOK
<1> QED
  BY <1>1, <1>2, <1>3, WindowInit, WindowStep, PTL DEF AdmissionSpec

-----------------------------------------------------------------------------
(* The reports on one PSP and the state its breaker has reached. Open, it  *)
(* knows when it last failed, and has failed often enough. Closed, it has  *)
(* counted the failures since some moment, fewer than would open it; those *)
(* before had left the cooldown by then.                                   *)
OpenSound(p) ==
  breaker[p].Open =>
    /\ Len(failedAt[p]) >= Threshold
    /\ breaker[p].LastFailure = failedAt[p][Len(failedAt[p])]

Over(time, now) == now - time > Cooldown

ClosedSound(p, now) ==
  ~breaker[p].Open =>
    /\ breaker[p].Failures < Threshold
    /\ breaker[p].Failures <= Len(failedAt[p])
    /\ breaker[p].Failures < Len(failedAt[p]) =>
         Over(failedAt[p][Len(failedAt[p]) - breaker[p].Failures], now)

BreakerSound(p, now) ==
  /\ \A i \in 1..Len(failedAt[p]) : failedAt[p][i] <= now
  /\ breaker[p] = None => failedAt[p] = <<>>
  /\ breaker[p] # None => OpenSound(p) /\ ClosedSound(p, now)

BreakersSound ==
  /\ \A p \in PSPs : BreakerSound(p, clock)
  /\ \A a \in Callers : pc[a] \in {"idle", "risk", "route"} => call[a].psp = None

(* What the proofs know of one PSP's reports.                              *)
LEMMA ReportFacts ==
  ASSUME RoutingTyped, NEW p \in PSPs
  PROVE  /\ failedAt[p] \in Seq(Time) /\ Len(failedAt[p]) \in Nat
         /\ \A i \in 1..Len(failedAt[p]) : failedAt[p][i] \in Nat
         /\ clock \in Nat /\ Threshold \in Nat /\ Threshold > 1 /\ Cooldown \in Nat
         /\ breaker[p] # None =>
              breaker[p].Failures \in Nat /\ breaker[p].LastFailure \in Int
<1>1. failedAt[p] \in Seq(Time) /\ Time \subseteq Nat /\ clock \in Nat
  BY DEF RoutingTyped, Time
<1>2. Len(failedAt[p]) \in Nat
  BY <1>1, LenProperties
<1>3. \A i \in 1..Len(failedAt[p]) : failedAt[p][i] \in Nat
  BY <1>1, ElementOfSeq
<1>4. Threshold \in Nat /\ Threshold > 1 /\ Cooldown \in Nat
  BY AdmissionConstants
<1>5. breaker[p] \in BreakerState \cup {None}
  BY DEF RoutingTyped
<1>6. ASSUME breaker[p] # None
      PROVE  breaker[p].Failures \in Nat /\ breaker[p].LastFailure \in Int
  BY <1>5, <1>6 DEF BreakerState
<1> QED
  BY <1>1, <1>2, <1>3, <1>4, <1>6

(* A PSP that keeps failing is not available.                              *)
LEMMA FailingIsOut ==
  ASSUME RoutingTyped, NEW p \in PSPs, BreakerSound(p, clock), KeepsFailing(p)
  PROVE  ~IsAvailable(p)
<1> DEFINE n == Len(failedAt[p])
<1>1. /\ n \in Nat /\ n >= Threshold /\ Threshold > 1 /\ Threshold \in Nat
      /\ \A i \in 1..n : failedAt[p][i] \in Nat
      /\ clock \in Nat /\ Cooldown \in Nat
  BY ReportFacts DEF KeepsFailing
<1>2. \A i \in 1..n : i > n - Threshold => clock - failedAt[p][i] <= Cooldown
  BY <1>1 DEF KeepsFailing
<1>3. breaker[p] # None
  BY <1>1 DEF BreakerSound, OpenSound, ClosedSound, Over
<1> DEFINE f == breaker[p].Failures
<1>4. f \in Nat /\ breaker[p].LastFailure \in Int
  BY <1>3, ReportFacts
<1>5. breaker[p].Open
  <2> SUFFICES ASSUME ~breaker[p].Open PROVE FALSE
    OBVIOUS
  <2>1. f < Threshold /\ f <= n /\ (f < n => clock - failedAt[p][n - f] > Cooldown)
    BY <1>3 DEF BreakerSound, OpenSound, ClosedSound, Over
  <2> HIDE DEF n, f
  <2>2. f < n /\ n - f \in 1..n /\ n - f > n - Threshold
    BY <1>1, <1>4, <2>1
  <2>3. clock - failedAt[p][n - f] <= Cooldown /\ failedAt[p][n - f] \in Nat
    BY <1>1, <1>2, <2>2
  <2> QED
    BY <1>1, <2>1, <2>2, <2>3
<1>6. breaker[p].LastFailure = failedAt[p][n] /\ n \in 1..n /\ n > n - Threshold
  BY <1>1, <1>3, <1>5 DEF BreakerSound, OpenSound, ClosedSound, Over
<1>7. clock - breaker[p].LastFailure <= Cooldown
  BY <1>2, <1>6
<1> QED
  BY <1>1, <1>3, <1>4, <1>5, <1>7 DEF IsAvailable, IsOpen, CooledDown

(* A PSP that is not available has failed often, and lately.               *)
LEMMA OutHasFailed ==
  ASSUME RoutingTyped, NEW p \in PSPs, BreakerSound(p, clock), ~IsAvailable(p)
  PROVE  FailedLately(p)
<1>1. breaker[p] # None /\ breaker[p].Open /\ ~(clock - breaker[p].LastFailure > Cooldown)
  BY DEF IsAvailable, IsOpen, CooledDown
<1>2. /\ Len(failedAt[p]) >= Threshold
      /\ breaker[p].LastFailure = failedAt[p][Len(failedAt[p])]
  BY <1>1 DEF BreakerSound, OpenSound, ClosedSound, Over
<1>3. clock \in Nat /\ Cooldown \in Nat /\ breaker[p].LastFailure \in Int
  BY <1>1, ReportFacts
<1>4. clock - failedAt[p][Len(failedAt[p])] <= Cooldown
  BY <1>1, <1>2, <1>3
<1> QED
  BY <1>2, <1>4 DEF FailedLately

(* A failure is counted, and opens a breaker that has counted enough.      *)
LEMMA FailureIsSound ==
  ASSUME RoutingTyped, RoutingTyped', NEW p \in PSPs, BreakerSound(p, clock), RecordFailure(p)
  PROVE  BreakerSound(p, clock)'
<1> DEFINE times == failedAt[p]
           n == Len(times)
           f == breaker[p].Failures
<1>1. /\ n \in Nat /\ times \in Seq(Time) /\ clock \in Time /\ clock \in Nat
      /\ \A i \in 1..n : times[i] \in Nat
      /\ Threshold \in Nat /\ Threshold > 1 /\ Cooldown \in Nat
  BY ReportFacts DEF RoutingTyped
<1>2. failedAt'[p] = Append(times, clock) /\ clock' = clock
  BY DEF RecordFailure, RoutingTyped
<1>3. /\ Len(failedAt'[p]) = n + 1 /\ failedAt'[p][n + 1] = clock
      /\ \A i \in 1..n : failedAt'[p][i] = times[i]
  BY <1>1, <1>2, AppendProperties
<1>4. \A i \in 1..Len(failedAt'[p]) : failedAt'[p][i] <= clock
  <2>1. \A i \in 1..n : times[i] <= clock
    BY DEF BreakerSound, OpenSound, ClosedSound, Over
  <2> HIDE DEF n, times
  <2> QED
    BY <1>1, <1>3, <2>1
<1>5. breaker'[p] # None
  <2>1. breaker'[p] = IF breaker[p] = None
          THEN [Failures |-> 1, LastFailure |-> Never, Open |-> FALSE]
          ELSE [Failures |-> breaker[p].Failures + 1, LastFailure |-> clock,
                Open |-> breaker[p].Open \/ breaker[p].Failures + 1 >= Threshold]
    BY DEF RecordFailure, RoutingTyped
  <2> DEFINE opens == breaker[p].Open \/ breaker[p].Failures + 1 >= Threshold
  <2>2. opens \in BOOLEAN
    OBVIOUS
  <2> HIDE DEF opens
  <2>3. breaker'[p] = IF breaker[p] = None
          THEN [Failures |-> 1, LastFailure |-> Never, Open |-> FALSE]
          ELSE [Failures |-> breaker[p].Failures + 1, LastFailure |-> clock, Open |-> opens]
    BY <2>1 DEF opens
  <2>4. breaker'[p] \in BreakerState
    BY <1>1, <2>2, <2>3, ReportFacts DEF BreakerState, Never
  <2> QED
    BY <2>4, AdmissionConstants
<1>6. CASE breaker[p] = None
  <2>1. breaker'[p].Failures = 1 /\ breaker'[p].Open = FALSE
    BY <1>6 DEF RecordFailure, RoutingTyped
  <2>2. n = 0
    BY <1>6 DEF BreakerSound, OpenSound, ClosedSound, Over
  <2> HIDE DEF n, times
  <2>3. /\ 1 < Threshold /\ 1 <= Len(failedAt'[p]) /\ ~(1 < Len(failedAt'[p]))
    BY <1>1, <1>3, <2>2
  <2> QED
    BY <1>2, <1>4, <1>5, <2>1, <2>3 DEF BreakerSound, OpenSound, ClosedSound, Over
<1>7. CASE breaker[p] # None
  <2>1. /\ breaker'[p].Failures = f + 1 /\ breaker'[p].LastFailure = clock
        /\ breaker'[p].Open <=> breaker[p].Open \/ f + 1 >= Threshold
    BY <1>7 DEF RecordFailure, RoutingTyped
  <2>2. f \in Nat
    BY <1>7, ReportFacts
  <2>3. /\ breaker[p].Open => n >= Threshold
        /\ ~breaker[p].Open => /\ f <= n
                               /\ f < n => clock - times[n - f] > Cooldown
    BY <1>7 DEF BreakerSound, OpenSound, ClosedSound, Over
  <2> HIDE DEF n, times, f
  <2>4. ASSUME breaker'[p].Open
        PROVE  /\ Len(failedAt'[p]) >= Threshold
               /\ breaker'[p].LastFailure = failedAt'[p][Len(failedAt'[p])]
    BY <1>1, <1>3, <2>1, <2>2, <2>3, <2>4
  <2>5. ASSUME ~breaker'[p].Open
        PROVE  /\ breaker'[p].Failures < Threshold
               /\ breaker'[p].Failures <= Len(failedAt'[p])
               /\ breaker'[p].Failures < Len(failedAt'[p]) =>
                    clock - failedAt'[p][Len(failedAt'[p]) - breaker'[p].Failures] > Cooldown
    <3>1. f + 1 < Threshold /\ f + 1 <= n + 1
      BY <1>1, <2>1, <2>2, <2>3, <2>5
    <3>2. ASSUME f + 1 < n + 1
          PROVE  clock - failedAt'[p][n + 1 - (f + 1)] > Cooldown
      <4>1. n - f \in 1..n /\ n + 1 - (f + 1) = n - f /\ f < n
        BY <1>1, <2>2, <3>2
      <4> QED
        BY <1>3, <2>1, <2>3, <2>5, <4>1
    <3>3. Len(failedAt'[p]) = n + 1 /\ breaker'[p].Failures = f + 1
      BY <1>3, <2>1
    <3>4. breaker'[p].Failures < Threshold /\ breaker'[p].Failures <= Len(failedAt'[p])
      BY <3>1, <3>3
    <3>5. ASSUME breaker'[p].Failures < Len(failedAt'[p])
          PROVE  clock - failedAt'[p][Len(failedAt'[p]) - breaker'[p].Failures] > Cooldown
      <4>1. f + 1 < n + 1 /\ Len(failedAt'[p]) - breaker'[p].Failures = n + 1 - (f + 1)
        BY <1>1, <2>2, <3>3, <3>5
      <4>2. clock - failedAt'[p][n + 1 - (f + 1)] > Cooldown
        BY <3>2, <4>1
      <4> QED
        BY <4>1, <4>2
    <3> QED
      BY <3>4, <3>5
  <2> QED
    BY <1>2, <1>4, <1>5, <2>4, <2>5 DEF BreakerSound, OpenSound, ClosedSound, Over
<1> QED
  BY <1>6, <1>7

(* After a success nothing is counted.                                     *)
LEMMA SuccessIsSound ==
  ASSUME RoutingTyped, NEW p \in PSPs, BreakerSound(p, clock), RecordSuccess(p)
  PROVE  BreakerSound(p, clock)'
<1>1. failedAt'[p] = <<>> /\ Len(failedAt'[p]) = 0 /\ clock' = clock
  BY DEF RecordSuccess, RoutingTyped
<1>2. CASE breaker[p] = None
  <2>1. breaker'[p] = None
    BY <1>2 DEF RecordSuccess, RoutingTyped
  <2> QED
    BY <1>1, <2>1 DEF BreakerSound, OpenSound, ClosedSound, Over
<1>3. CASE breaker[p] # None
  <2>1. breaker[p] \in BreakerState
    BY <1>3 DEF RoutingTyped
  <2>2. breaker'[p] = [[breaker[p] EXCEPT !.Failures = 0] EXCEPT !.Open = FALSE]
    BY <1>3 DEF RecordSuccess, RoutingTyped
  <2>3. breaker'[p].Failures = 0 /\ breaker'[p].Open = FALSE
    BY <2>1, <2>2 DEF BreakerState
  <2>4. 0 < Threshold
    BY ReportFacts
  <2> QED
    BY <1>1, <2>3, <2>4 DEF BreakerSound, OpenSound, ClosedSound, Over
<1> QED
  BY <1>2, <1>3

(* The call that finds the cooldown over starts the count anew: all that   *)
(* failed until then has left the cooldown.                                *)
LEMMA ClosingIsSound ==
  ASSUME RoutingTyped, NEW p \in PSPs, BreakerSound(p, clock), IsAvailable(p),
         breaker' = Closed(p), failedAt' = failedAt, clock' = clock
  PROVE  BreakerSound(p, clock)'
<1> DEFINE n == Len(failedAt[p])
<1>1. CASE IsOpen(p)
  <2>1. breaker[p] \in BreakerState /\ breaker[p] # None /\ breaker[p].Open
    BY <1>1 DEF IsOpen, RoutingTyped
  <2>2. breaker'[p] = [[breaker[p] EXCEPT !.Open = FALSE] EXCEPT !.Failures = 0]
    BY <1>1 DEF Closed, RoutingTyped
  <2>3. breaker'[p].Failures = 0 /\ breaker'[p].Open = FALSE
    BY <2>1, <2>2 DEF BreakerState
  <2>4. n >= Threshold /\ breaker[p].LastFailure = failedAt[p][n]
    BY <2>1 DEF BreakerSound, OpenSound, ClosedSound, Over
  <2>5. clock - failedAt[p][n] > Cooldown
    BY <1>1, <2>4 DEF IsAvailable, CooledDown
  <2>6. n \in Nat /\ Threshold \in Nat /\ Threshold > 1
    BY ReportFacts
  <2>7. n # 0 /\ n - 0 = n /\ 0 <= n /\ 0 < Threshold /\ n > 0
    BY <2>4, <2>6
  <2>8. breaker'[p] # None
    <3>1. breaker'[p] \in BreakerState
      BY <2>1, <2>2, BreakerCloses
    <3> QED
      BY <3>1, AdmissionConstants
  <2> QED
    BY <2>3, <2>5, <2>7, <2>8 DEF BreakerSound, OpenSound, ClosedSound, Over
<1>2. CASE ~IsOpen(p)
  BY <1>2 DEF Closed, BreakerSound, OpenSound, ClosedSound, Over
<1> QED
  BY <1>1, <1>2

LEMMA BreakersInit == AdmissionInit => BreakersSound
  BY DEF AdmissionInit, BreakersSound, BreakerSound, OpenSound, ClosedSound, Over, NoCall

(* Where a caller is settles whether it has a PSP.                         *)
LEMMA CallersStep ==
  ASSUME WindowsSound, RoutingTyped, BreakersSound, [AdmissionNext]_avars, NEW b \in Callers,
         pc'[b] \in {"idle", "risk", "route"}
  PROVE  call'[b].psp = None
<1> USE DEF Goto, Leave, NoCall
<1>1. /\ call \in [Callers -> Calls] /\ pc \in [Callers -> {"idle", "risk", "route", "create"}]
      /\ \A a \in Callers : pc[a] \in {"idle", "risk", "route"} => call[a].psp = None
  BY DEF WindowsSound, WindowTyped, RoutingTyped, BreakersSound
<1>2. ASSUME NEW a \in Callers, Evaluate(a)
      PROVE  call'[b].psp = None
  BY <1>1, <1>2 DEF Evaluate
<1>3. ASSUME NEW a \in Callers, CheckVelocity(a)
      PROVE  call'[b].psp = None
  <2>1. /\ pc[a] = "risk"
        /\ \/ call' = [call EXCEPT ![a] = NoCall] /\ pc' = [pc EXCEPT ![a] = "idle"]
           \/ call' = [call EXCEPT ![a].keys = Tail(@)] /\ pc' = pc
    BY <1>3 DEF CheckVelocity, Count, RefuseFrequent
  <2>2. call'[b].psp = None \/ call'[b].psp = call[b].psp
    BY <1>1, <2>1 DEF Calls
  <2>3. pc'[b] = pc[b] \/ b = a
    BY <1>1, <2>1
  <2> QED
    BY <1>1, <2>1, <2>2, <2>3
<1>4. ASSUME NEW a \in Callers, RiskPassed(a)
      PROVE  call'[b].psp = None
  BY <1>1, <1>4 DEF RiskPassed
<1>5. ASSUME NEW a \in Callers, RouteFails(a) \/ Create(a)
      PROVE  call'[b].psp = None
  BY <1>1, <1>5 DEF RouteFails, Create
<1>6. ASSUME NEW a \in Callers, NEW p \in PSPs, RouteTo(a, p)
      PROVE  call'[b].psp = None
  BY <1>1, <1>6 DEF RouteTo
<1>7. CASE UNCHANGED <<pc, call>>
  BY <1>1, <1>7
<1> QED
  BY <1>2, <1>3, <1>4, <1>5, <1>6, <1>7
     DEF AdmissionNext, Tick, RecordFailure, RecordSuccess, avars, callers

LEMMA BreakersStep ==
  ASSUME WindowsSound, RoutingTyped, BreakersSound, [AdmissionNext]_avars
  PROVE  BreakersSound'
<1>0. RoutingTyped'
  BY RoutingStep
<1>1. \A b \in Callers : pc'[b] \in {"idle", "risk", "route"} => call'[b].psp = None
  BY CallersStep
<1>2. ASSUME NEW p \in PSPs PROVE BreakerSound(p, clock)'
  <2>1. BreakerSound(p, clock)
    BY DEF BreakersSound
  <2>2. CASE Tick
    <3>1. clock' = clock + 1 /\ breaker' = breaker /\ failedAt' = failedAt
      BY <2>2 DEF Tick, routing
    <3>2. /\ clock \in Nat /\ Len(failedAt[p]) \in Nat /\ Cooldown \in Nat
          /\ \A i \in 1..Len(failedAt[p]) : failedAt[p][i] \in Nat
          /\ breaker[p] # None => breaker[p].Failures \in Nat
      BY ReportFacts
    <3>3. \A i \in 1..Len(failedAt[p]) : failedAt[p][i] <= clock + 1
      BY <2>1, <3>2 DEF BreakerSound, OpenSound, ClosedSound, Over
    <3>4. CASE breaker[p] = None
      BY <2>1, <3>1, <3>3, <3>4 DEF BreakerSound
    <3>5. CASE breaker[p] # None
      <4> DEFINE n == Len(failedAt[p])
                 f == breaker[p].Failures
      <4>2. OpenSound(p) /\ ClosedSound(p, clock)
        BY <2>1, <3>5 DEF BreakerSound
      <4>3. ClosedSound(p, clock + 1)
        <5> SUFFICES ASSUME ~breaker[p].Open PROVE ClosedSound(p, clock + 1)
          BY DEF ClosedSound
        <5>1. f < Threshold /\ f <= n /\ (f < n => Over(failedAt[p][n - f], clock))
          BY <4>2 DEF ClosedSound
        <5>2. f < n => Over(failedAt[p][n - f], clock + 1)
          <6>1. ASSUME f < n PROVE failedAt[p][n - f] \in Nat
            <7>1. n - f \in 1..n
              BY <3>2, <3>5, <6>1
            <7> QED
              BY <3>2, <7>1
          <6> HIDE DEF n, f
          <6> QED
            BY <3>2, <5>1, <6>1 DEF Over
        <5> QED
          BY <5>1, <5>2 DEF ClosedSound
      <4>4. OpenSound(p)' /\ ClosedSound(p, clock)'
        BY <3>1, <4>2, <4>3 DEF OpenSound, ClosedSound
      <4> QED
        BY <3>1, <3>3, <3>5, <4>4 DEF BreakerSound
    <3> QED
      BY <3>4, <3>5
  <2>3. ASSUME NEW a \in Callers, NEW q \in PSPs, RouteTo(a, q)
        PROVE  BreakerSound(p, clock)'
    <3>1. /\ IsAvailable(q) /\ breaker' = Closed(q)
          /\ failedAt' = failedAt /\ clock' = clock
      BY <2>3 DEF RouteTo
    <3>2. CASE p = q
      BY <2>1, <3>1, <3>2, ClosingIsSound
    <3>3. CASE p # q
      <4>1. breaker'[p] = breaker[p]
        BY <3>1, <3>3 DEF Closed, RoutingTyped
      <4> QED
        BY <2>1, <3>1, <4>1 DEF BreakerSound, OpenSound, ClosedSound, Over
    <3> QED
      BY <3>2, <3>3
  <2>4. ASSUME NEW q \in PSPs, RecordFailure(q) \/ RecordSuccess(q)
        PROVE  BreakerSound(p, clock)'
    <3>1. CASE p = q
      BY <1>0, <2>1, <2>4, <3>1, FailureIsSound, SuccessIsSound
    <3>2. CASE p # q
      <4>1. breaker'[p] = breaker[p] /\ failedAt'[p] = failedAt[p] /\ clock' = clock
        BY <2>4, <3>2 DEF RecordFailure, RecordSuccess, RoutingTyped
      <4> QED
        BY <2>1, <4>1 DEF BreakerSound, OpenSound, ClosedSound, Over
    <3> QED
      BY <3>1, <3>2
  <2>5. CASE UNCHANGED <<clock, breaker, failedAt>>
    BY <2>1, <2>5 DEF BreakerSound, OpenSound, ClosedSound, Over
  <2> QED
    BY <2>2, <2>3, <2>4, <2>5, AdmissionConstants
       DEF AdmissionNext, Evaluate, CheckVelocity, RiskPassed, RouteFails, Create, avars, routing
<1> QED
  BY <1>1, <1>2 DEF BreakersSound

(* What the routing does with a call.                                      *)
LEMMA RoutesAsReported ==
  ASSUME WindowsSound, RoutingTyped, BreakersSound, AdmissionNext, NEW a \in Callers,
         pc[a] = "route"
  PROVE  /\ \A p \in PSPs : call'[a].psp = p => ~KeepsFailing(p)
         /\ call'[a].psp = None /\ pc'[a] # "route" =>
              \A p \in PrimaryFor(call[a].order) \cap Registered : FailedLately(p)
<1>1. /\ call \in [Callers -> Calls] /\ call[a].psp = None
      /\ pc \in [Callers -> {"idle", "risk", "route", "create"}]
  BY DEF WindowsSound, WindowTyped, RoutingTyped, BreakersSound
<1>2. None \notin PSPs /\ Registered \subseteq PSPs
  BY AdmissionConstants
<1>3. ASSUME NEW q \in PSPs, RouteTo(a, q)
      PROVE  /\ \A p \in PSPs : call'[a].psp = p => ~KeepsFailing(p)
             /\ call'[a].psp = None /\ pc'[a] # "route" =>
                  \A p \in PrimaryFor(call[a].order) \cap Registered : FailedLately(p)
  <2>1. IsAvailable(q) /\ q \in PrimaryFor(call[a].order)
    BY <1>3 DEF RouteTo
  <2>2. ~KeepsFailing(q)
    BY <2>1, FailingIsOut DEF BreakersSound
  <2>3. CASE Get(q)
    <3>1. call'[a].psp = q
      BY <1>1, <1>3, <2>3 DEF RouteTo, Calls
    <3> QED
      BY <1>2, <2>2, <3>1
  <2>4. CASE ~Get(q)
    <3>1. call'[a].psp = None
      BY <1>1, <1>3, <2>4 DEF RouteTo, Leave, NoCall
    <3>2. \A p \in PrimaryFor(call[a].order) : p = q
      BY <2>1 DEF PrimaryFor, setDefaultRules
    <3> QED
      BY <1>2, <2>4, <3>1, <3>2 DEF Get
  <2> QED
    BY <2>3, <2>4
<1>4. CASE RouteFails(a)
  <2>1. call'[a].psp = None
    BY <1>1, <1>4 DEF RouteFails, Leave, NoCall
  <2>2. \A p \in PSPs : p \in PrimaryFor(call[a].order) => ~IsAvailable(p)
    BY <1>4 DEF RouteFails
  <2>3. \A p \in PrimaryFor(call[a].order) \cap Registered : FailedLately(p)
    BY <1>2, <2>2, OutHasFailed DEF BreakersSound
  <2> QED
    BY <1>2, <2>1, <2>3
<1>5. ASSUME NEW b \in Callers, Evaluate(b) \/ CheckVelocity(b) \/ RiskPassed(b) \/ Create(b)
      PROVE  pc'[a] = pc[a] /\ call'[a] = call[a]
  <2>1. b # a
    BY <1>5 DEF Evaluate, CheckVelocity, RiskPassed, Create
  <2>2. /\ pc' = pc \/ \E s : pc' = [pc EXCEPT ![b] = s]
        /\ call' = call \/ \E c : call' = [call EXCEPT ![b] = c]
    BY <1>5 DEF Evaluate, CheckVelocity, Count, RefuseFrequent, RiskPassed, Create, Leave, Goto
  <2> QED
    BY <1>1, <2>1, <2>2
<1>6. ASSUME NEW b \in Callers, b # a, RouteFails(b) \/ \E q \in PSPs : RouteTo(b, q)
      PROVE  pc'[a] = pc[a] /\ call'[a] = call[a]
  <2>1. /\ \E s : pc' = [pc EXCEPT ![b] = s]
        /\ \E c : call' = [call EXCEPT ![b] = c]
    BY <1>6 DEF RouteFails, RouteTo, Leave, Goto
  <2> QED
    BY <1>1, <1>6, <2>1
<1>7. CASE UNCHANGED <<pc, call>>
  BY <1>1, <1>2, <1>7
<1> QED
  BY <1>1, <1>2, <1>3, <1>4, <1>5, <1>6, <1>7
     DEF AdmissionNext, Tick, RecordFailure, RecordSuccess, callers

(* Whoever reports what, and whenever callers ask the breaker and so start *)
(* its count anew: a PSP whose last Threshold reports were failures within *)
(* one cooldown gets no payment, and none is turned away from a PSP that   *)
(* has not failed that often, or not lately.                               *)
THEOREM LeavesOutWhileFailing == AdmissionSpec => LeftOutWhileFailing
<1> DEFINE Routed == \A a \in Callers : pc[a] = "route" =>
       /\ \A p \in PSPs : call'[a].psp = p => ~KeepsFailing(p)
       /\ call'[a].psp = None /\ pc'[a] # "route" =>
            \A p \in PrimaryFor(call[a].order) \cap Registered : FailedLately(p)
<1>1. AdmissionInit => RoutingTyped
  BY AdmissionConstants DEF AdmissionInit, RoutingTyped, Time
<1>2. WindowsSound /\ RoutingTyped /\ BreakersSound /\ [AdmissionNext]_avars
        => RoutingTyped' /\ BreakersSound' /\ [Routed]_avars
  BY RoutingStep, BreakersStep, RoutesAsReported
<1>3. LeftOutWhileFailing <=> [][Routed]_avars
  BY DEF LeftOutWhileFailing
<1> QED
  BY <1>1, <1>2, <1>3, WindowInit, WindowStep, BreakersInit, PTL DEF AdmissionSpec

=============================================================================
