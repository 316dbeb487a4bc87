-------------------------- MODULE NotificationProofs --------------------------
(***************************************************************************)
(* Theorems about module Notifications, for any notices, merchants and     *)
(* bounds: they need no fairness and no limit on faults.                   *)
(***************************************************************************)
EXTENDS Notifications, SequenceTheorems, TLAPS

USE NotificationConstants DEF MaxRetries

(* The client's buffer stays one of published notices.                     *)
LEMMA Widened ==
  ASSUME NEW S, NEW T, S \subseteq T, NEW s \in Seq(S)
  PROVE  s \in Seq(T)
  OBVIOUS

LEMMA OneMoreCounts ==
  ASSUME NEW c \in 0..2
  PROVE  OneMore(c) \in 0..2 /\ OneMore(c) > 0
  BY DEF OneMore

(* What is left of the consumer once it is done with a notice.             *)
LEMMA DoneTyped ==
  ASSUME Done
  PROVE  /\ cur' = None /\ step' = "idle" /\ url' \in BOOLEAN
         /\ attempt' = 0 /\ attempt' \in 0..MaxRetries
<1>1. url' \in BOOLEAN
  BY Zenon DEF Done
<1> QED
  BY <1>1 DEF Done

LEMMA TypeInit == NotificationInit => NotificationTypeOK
<1> SUFFICES ASSUME NotificationInit PROVE NotificationTypeOK
  OBVIOUS
<1>1. url \in BOOLEAN
  BY Zenon DEF NotificationInit
<1> QED
  BY <1>1 DEF NotificationInit, NotificationTypeOK

LEMMA TypeByStream ==
  ASSUME NotificationTypeOK, NEW n \in Notices,
         Publish(n) \/ Deliver(n) \/ ExpireLost(n) \/ ExpireHeld(n)
  PROVE  NotificationTypeOK'
<1>1. CASE Publish(n)
  <2>1. published \subseteq published' /\ published' \subseteq Notices
    BY <1>1 DEF Publish, NotificationTypeOK
  <2>2. buffer' \in Seq(published')
    BY <1>1, <2>1, Widened DEF Publish, NotificationTypeOK
  <2> QED
    BY <1>1, <2>1, <2>2 DEF Publish, NotificationTypeOK, consumer, outcome, bounds
<1>2. CASE Deliver(n)
  BY <1>2 DEF Deliver, NotificationTypeOK, consumer, outcome, bounds
<1>3. CASE ExpireLost(n)
  BY <1>3 DEF ExpireLost, NotificationTypeOK, consumer, outcome, bounds
<1>4. CASE ExpireHeld(n)
  BY <1>4 DEF ExpireHeld, NotificationTypeOK, consumer, outcome
<1> QED
  BY <1>1, <1>2, <1>3, <1>4

LEMMA TypeByConsume ==
  ASSUME NotificationTypeOK, Consume
  PROVE  NotificationTypeOK'
<1>1. CASE NextMsg
  <2>1. Head(buffer) \in published /\ Tail(buffer) \in Seq(published)
    BY <1>1 DEF NextMsg, NotificationTypeOK
  <2> QED
    BY <1>1, <2>1 DEF NextMsg, NotificationTypeOK, stream, outcome, bounds
<1>2. CASE Lookup
  BY <1>2 DEF Lookup, NotificationTypeOK, stream, bounds
<1>3. CASE Persist
  BY <1>3, OneMoreCounts DEF Persist, AfterStore, NotificationTypeOK, stream, bounds
<1>4. CASE SendAccepted
  BY <1>4, OneMoreCounts DEF SendAccepted, NotificationTypeOK, stream, bounds
<1>5. CASE SendAnswerLost
  <2>1. heard' \in [Notices -> 0..2]
    BY <1>5, OneMoreCounts DEF SendAnswerLost, NotificationTypeOK
  <2>2. refusals' \in 0..MaxRefusals /\ UNCHANGED <<faults, late, edits>>
    BY <1>5 DEF SendAnswerLost, Refusal, NotificationTypeOK
  <2>3. attempt' \in 0..MaxRetries /\ step' \in {"send", "nak"} /\ step = "send"
    BY <1>5 DEF SendAnswerLost, TryAgain, NotificationTypeOK
  <2> QED
    BY <1>5, <2>1, <2>2, <2>3 DEF SendAnswerLost, NotificationTypeOK, stream
<1>6. CASE SendRefused
  <2>1. refusals' \in 0..MaxRefusals /\ UNCHANGED <<faults, late, edits>>
    BY <1>6 DEF SendRefused, Refusal, NotificationTypeOK
  <2>2. attempt' \in 0..MaxRetries /\ step' \in {"send", "nak"} /\ step = "send"
    BY <1>6 DEF SendRefused, TryAgain, NotificationTypeOK
  <2> QED
    BY <1>6, <2>1, <2>2 DEF SendRefused, NotificationTypeOK, stream, outcome
<1>7. CASE Ack
  BY <1>7, DoneTyped DEF Ack, NotificationTypeOK, outcome, bounds
<1>8. CASE Nak
  BY <1>8, DoneTyped DEF Nak, NotificationTypeOK, outcome, bounds
<1> QED
  BY <1>1, <1>2, <1>3, <1>4, <1>5, <1>6, <1>7, <1>8 DEF Consume

LEMMA TypeByFaults ==
  ASSUME NotificationTypeOK, LookupFails \/ PersistFails \/ AnswerLost \/ Crash
  PROVE  NotificationTypeOK'
<1>1. CASE LookupFails
  BY <1>1 DEF LookupFails, Fault, NotificationTypeOK, stream, outcome
<1>2. CASE PersistFails
  BY <1>2 DEF PersistFails, AfterStore, Fault, NotificationTypeOK, stream, outcome
<1>3. CASE AnswerLost
  BY <1>3, DoneTyped DEF AnswerLost, Fault, NotificationTypeOK, stream, outcome
<1>4. CASE Crash
  BY <1>4, DoneTyped DEF Crash, Fault, NotificationTypeOK, stream, outcome
<1> QED
  BY <1>1, <1>2, <1>3, <1>4

LEMMA TypeStep == NotificationTypeOK /\ [NotificationNext]_nvars => NotificationTypeOK'
<1> SUFFICES ASSUME NotificationTypeOK, [NotificationNext]_nvars
             PROVE  NotificationTypeOK'
  OBVIOUS
<1>1. CASE \E m \in Merchants : UpdateSettings(m)
  BY <1>1 DEF UpdateSettings, NotificationTypeOK, stream, consumer, outcome
<1>2. CASE UNCHANGED nvars
  BY <1>2 DEF nvars, NotificationTypeOK, stream, consumer, outcome, bounds
<1> QED
  BY <1>1, <1>2, TypeByStream, TypeByConsume, TypeByFaults DEF NotificationNext

(* Type correctness of the notifications: among others the number of tries *)
(* never passes the limit, and a notice is processed exactly while the     *)
(* consumer is at work.                                                    *)
THEOREM NotificationTypeCorrect == NotificationSpec => []NotificationTypeOK
  BY TypeInit, TypeStep, PTL DEF NotificationSpec

-----------------------------------------------------------------------------

(* What the consumer is about to acknowledge was heard or is unwanted; and *)
(* a notice whose merchant had no URL when it was looked up is known to be *)
(* unwanted before the consumer goes on.                                   *)
Heard(n) == heard[n] > 0 \/ n \in unwanted

AckSound ==
  /\ \A n \in acked : Heard(n)
  /\ step = "ack" => Heard(cur)
  /\ step = "store" /\ ~url => cur \in unwanted

LEMMA AckByConsume ==
  ASSUME NotificationTypeOK, AckSound, Consume
  PROVE  AckSound'
<1> USE DEF AckSound, Heard
<1>1. CASE NextMsg
  BY <1>1 DEF NextMsg, stream, outcome
<1>2. CASE Lookup
  BY <1>2 DEF Lookup, stream
<1>3. CASE Persist
  BY <1>3 DEF Persist, AfterStore, NotificationTypeOK, stream
<1>4. CASE SendAccepted \/ SendAnswerLost
  <2>1. cur \in Notices /\ acked \subseteq Notices /\ heard \in [Notices -> 0..2]
    BY <1>4 DEF SendAccepted, SendAnswerLost, NotificationTypeOK
  <2>2. heard' = [heard EXCEPT ![cur] = OneMore(@)] /\ heard'[cur] > 0
    BY <1>4, <2>1, OneMoreCounts DEF SendAccepted, SendAnswerLost
  <2>3. \A n \in Notices : heard[n] > 0 => heard'[n] > 0
    BY <2>1, <2>2
  <2> QED
    BY <1>4, <2>1, <2>2, <2>3 DEF SendAccepted, SendAnswerLost, TryAgain, stream
<1>5. CASE SendRefused
  BY <1>5 DEF SendRefused, TryAgain, stream, outcome
<1>6. CASE Ack
  BY <1>6 DEF Ack, Done, outcome
<1>7. CASE Nak
  BY <1>7 DEF Nak, Done, outcome
<1> QED
  BY <1>1, <1>2, <1>3, <1>4, <1>5, <1>6, <1>7 DEF Consume

LEMMA AckStep ==
  NotificationTypeOK /\ AckSound /\ [NotificationNext]_nvars => AckSound'
<1> SUFFICES ASSUME NotificationTypeOK, AckSound, [NotificationNext]_nvars
             PROVE  AckSound'
  OBVIOUS
<1> USE DEF AckSound, Heard
<1>1. CASE \E n \in Notices : Publish(n) \/ Deliver(n) \/ ExpireLost(n) \/ ExpireHeld(n)
  BY <1>1 DEF Publish, Deliver, ExpireLost, ExpireHeld, consumer, outcome
<1>2. CASE \E m \in Merchants : UpdateSettings(m)
  BY <1>2 DEF UpdateSettings, stream, consumer, outcome
<1>3. CASE LookupFails \/ AnswerLost \/ Crash
  BY <1>3 DEF LookupFails, AnswerLost, Crash, Done, stream, outcome
<1>4. CASE PersistFails
  BY <1>4 DEF PersistFails, AfterStore, stream, outcome
<1>5. CASE UNCHANGED nvars
  BY <1>5 DEF nvars, stream, consumer, outcome
<1> QED
  BY <1>1, <1>2, <1>3, <1>4, <1>5, AckByConsume DEF NotificationNext

(* Whatever fails or is delivered again: a notice is acknowledged only     *)
(* once its merchant's endpoint has accepted it, or a delivery found that  *)
(* the merchant had no webhook URL.                                        *)
THEOREM AcknowledgesHeard == NotificationSpec => []AckedIsHeard
<1>1. NotificationInit => AckSound
  BY DEF NotificationInit, AckSound
<1>2. AckSound => AckedIsHeard
  BY DEF AckSound, Heard, AckedIsHeard
<1> QED
  BY <1>1, <1>2, NotificationTypeCorrect, AckStep, PTL DEF NotificationSpec

-----------------------------------------------------------------------------
(* As long as nothing failed, was refused or came late, a notice for a     *)
(* working endpoint is in one place: due, once in the buffer, at hand, or  *)
(* acknowledged; and its rows and posts are counted up to that place.      *)
Calm == faults = 0 /\ refusals = 0 /\ late = 0

In(s, n) == \E i \in DOMAIN s : s[i] = n
Single(s, n) == \A i, j \in DOMAIN s : s[i] = n /\ s[j] = n => i = j

PlaceSound(n) ==
  /\ n \in published => n \in due \/ n \in acked \/ In(buffer, n) \/ n = cur
  /\ n \in due => n \notin acked /\ ~In(buffer, n) /\ n # cur
  /\ In(buffer, n) => n \notin acked /\ n # cur
  /\ n = cur => n \notin acked /\ step # "nak"
  /\ Single(buffer, n)

CountsSound(n) ==
  /\ n \in acked => rows[n] = 1 /\ heard[n] <= 1
  /\ n = cur /\ step = "send" => rows[n] = 1 /\ heard[n] = 0
  /\ n = cur /\ step = "ack" => rows[n] = 1 /\ heard[n] <= 1
  /\ \/ n \in acked
     \/ n = cur /\ step \in {"send", "ack"}
     \/ rows[n] = 0 /\ heard[n] = 0

CalmSound ==
  /\ \A n \in Notices : MerchantOf[n] \in Dead => heard[n] = 0
  /\ Calm => \A n \in Notices : MerchantOf[n] \notin Dead => PlaceSound(n) /\ CountsSound(n)

LEMMA TailOf ==
  ASSUME NEW S, NEW s \in Seq(S), s # <<>>, NEW n, Single(s, n)
  PROVE  /\ In(s, n) <=> n = Head(s) \/ In(Tail(s), n)
         /\ Single(Tail(s), n)
         /\ n = Head(s) => ~In(Tail(s), n)
<1>1. /\ Len(s) \in Nat \ {0} /\ DOMAIN s = 1..Len(s) /\ Head(s) = s[1]
      /\ DOMAIN Tail(s) = 1..(Len(s) - 1)
      /\ \A i \in 1..(Len(s) - 1) : Tail(s)[i] = s[i + 1]
  OBVIOUS
<1>2. \A i \in DOMAIN s : i = 1 \/ (i - 1 \in DOMAIN Tail(s) /\ Tail(s)[i - 1] = s[i])
  BY <1>1
<1>3. \A i \in DOMAIN Tail(s) : i + 1 \in DOMAIN s /\ Tail(s)[i] = s[i + 1] /\ i + 1 # 1
  BY <1>1
<1>4. 1 \in DOMAIN s /\ Head(s) = s[1]
  BY <1>1
<1>5. In(s, n) <=> n = Head(s) \/ In(Tail(s), n)
  BY <1>2, <1>3, <1>4 DEF In
<1>6. Single(Tail(s), n)
  <2>1. ASSUME NEW i \in DOMAIN Tail(s), NEW j \in DOMAIN Tail(s),
               Tail(s)[i] = n, Tail(s)[j] = n
        PROVE  i = j
    <3>1. i + 1 = j + 1
      BY <1>3, <2>1 DEF Single
    <3> QED
      BY <1>1, <3>1
  <2> QED
    BY <2>1 DEF Single
<1>7. n = Head(s) => ~In(Tail(s), n)
  BY <1>3, <1>4 DEF Single, In
<1> QED
  BY <1>5, <1>6, <1>7

LEMMA AppendOf ==
  ASSUME NEW S, NEW s \in Seq(S), NEW x \in S, NEW n, Single(s, n), n = x => ~In(s, n)
  PROVE  /\ In(Append(s, x), n) <=> In(s, n) \/ n = x
         /\ Single(Append(s, x), n)
<1>1. /\ DOMAIN s = 1..Len(s) /\ Len(s) \in Nat
      /\ DOMAIN Append(s, x) = 1..(Len(s) + 1)
      /\ \A i \in 1..Len(s) : Append(s, x)[i] = s[i]
      /\ Append(s, x)[Len(s) + 1] = x
  OBVIOUS
<1> DEFINE t == Append(s, x)
           k == Len(s) + 1
<1>2. /\ \A i \in DOMAIN t : i = k \/ i \in DOMAIN s
      /\ \A i \in DOMAIN s : i \in DOMAIN t /\ t[i] = s[i]
      /\ k \in DOMAIN t /\ t[k] = x
  BY <1>1
<1> HIDE DEF t, k
<1>3. In(t, n) <=> In(s, n) \/ n = x
  BY <1>2 DEF In
<1>4. Single(t, n)
  BY <1>2 DEF Single, In
<1> QED
  BY <1>3, <1>4 DEF t

(* The counts never go down.                                               *)
LEMMA CalmBefore ==
  ASSUME NotificationTypeOK, [NotificationNext]_nvars, Calm'
  PROVE  /\ Calm
         /\ ~(LookupFails \/ PersistFails \/ AnswerLost \/ Crash)
         /\ \A n \in Notices : ~ExpireHeld(n)
         /\ SendAnswerLost \/ SendRefused => MerchantOf[cur] \in Dead
<1>1. faults \in Nat /\ refusals \in Nat /\ late \in Nat
  BY DEF NotificationTypeOK
<1>2. ~(LookupFails \/ PersistFails \/ AnswerLost \/ Crash)
  BY <1>1 DEF LookupFails, PersistFails, AnswerLost, Crash, Fault, Calm
<1>3. \A n \in Notices : ~ExpireHeld(n)
  BY <1>1 DEF ExpireHeld, Calm
<1>4. SendAnswerLost \/ SendRefused => MerchantOf[cur] \in Dead /\ UNCHANGED <<faults, refusals, late>>
  BY <1>1 DEF SendAnswerLost, SendRefused, Refusal, Calm
<1>5. CASE UNCHANGED nvars
  BY <1>2, <1>3, <1>4, <1>5 DEF nvars, bounds, Calm
<1>6. CASE NotificationNext
  <2>1. UNCHANGED <<faults, refusals, late>>
    BY <1>2, <1>3, <1>4, <1>6 DEF NotificationNext, Publish, Deliver, ExpireLost, UpdateSettings,
       Consume, NextMsg, Lookup, Persist, SendAccepted, Ack, Nak, bounds
  <2> QED
    BY <1>2, <1>3, <1>4, <2>1 DEF Calm
<1> QED
  BY <1>5, <1>6

LEMMA CalmByStream ==
  ASSUME NotificationTypeOK, NEW m \in Notices, Publish(m) \/ Deliver(m) \/ ExpireLost(m),
         NEW n \in Notices, PlaceSound(n), CountsSound(n)
  PROVE  PlaceSound(n)' /\ CountsSound(n)'
<1>1. buffer \in Seq(published) /\ due \subseteq published /\ acked \subseteq published
  BY DEF NotificationTypeOK
<1>2. n \notin published => n # cur /\ ~In(buffer, n)
  BY <1>1 DEF NotificationTypeOK, In
<1>3. CASE Publish(m)
  BY <1>1, <1>2, <1>3 DEF Publish, PlaceSound, CountsSound, consumer, outcome
<1>4. CASE Deliver(m)
  <2>1. m \in due /\ buffer' = Append(buffer, m) /\ due' = due \ {m}
        /\ UNCHANGED <<published, acked, cur, step, rows, heard>>
    BY <1>4 DEF Deliver, consumer, outcome
  <2>2. (n = m => ~In(buffer, n)) /\ Single(buffer, n)
    BY <2>1 DEF PlaceSound
  <2>3. (In(buffer', n) <=> In(buffer, n) \/ n = m) /\ Single(buffer', n)
    BY <1>1, <2>1, <2>2, AppendOf
  <2> QED
    BY <2>1, <2>3 DEF PlaceSound, CountsSound
<1>5. CASE ExpireLost(m)
  <2>1. n # m
    BY <1>5 DEF ExpireLost, PlaceSound, Held, In
  <2> QED
    BY <1>5, <2>1 DEF ExpireLost, PlaceSound, CountsSound, consumer, outcome
<1> QED
  BY <1>3, <1>4, <1>5

LEMMA CalmByConsume ==
  ASSUME NotificationTypeOK, Consume, SendAnswerLost \/ SendRefused => MerchantOf[cur] \in Dead,
         NEW n \in Notices, MerchantOf[n] \notin Dead, PlaceSound(n), CountsSound(n)
  PROVE  PlaceSound(n)' /\ CountsSound(n)'
<1>1. /\ buffer \in Seq(published) /\ cur \in published \cup {None} /\ published \subseteq Notices
      /\ rows \in [Notices -> 0..2] /\ heard \in [Notices -> 0..2] /\ None \notin Notices
      /\ step = "idle" <=> cur = None
  BY DEF NotificationTypeOK
<1>2. OneMore(0) = 1
  BY DEF OneMore
<1>3. CASE NextMsg
  <2>1. /\ step = "idle" /\ step' = "lookup" /\ cur' = Head(buffer) /\ buffer' = Tail(buffer)
        /\ buffer # <<>> /\ UNCHANGED <<published, due, acked, rows, heard>>
    BY <1>3 DEF NextMsg, stream, outcome
  <2>2. /\ In(buffer, n) <=> n = Head(buffer) \/ In(Tail(buffer), n)
        /\ Single(Tail(buffer), n)
        /\ n = Head(buffer) => ~In(Tail(buffer), n)
    BY <1>1, <2>1, TailOf DEF PlaceSound
  <2>3. n # cur
    BY <1>1, <2>1
  <2> QED
    BY <2>1, <2>2, <2>3 DEF PlaceSound, CountsSound
<1>4. CASE Lookup
  BY <1>4 DEF Lookup, PlaceSound, CountsSound, stream
<1>5. CASE Persist
  <2>1. /\ step = "store" /\ step' \in {"send", "ack"}
        /\ rows' = [rows EXCEPT ![cur] = OneMore(@)]
        /\ UNCHANGED <<published, due, acked, buffer, cur, heard>>
    BY <1>5 DEF Persist, AfterStore, stream
  <2>2. rows'[n] = IF n = cur THEN OneMore(rows[n]) ELSE rows[n]
    BY <1>1, <2>1
  <2> QED
    BY <1>2, <2>1, <2>2 DEF PlaceSound, CountsSound
<1>6. CASE SendAccepted
  <2>1. /\ step = "send" /\ step' = "ack"
        /\ heard' = [heard EXCEPT ![cur] = OneMore(@)]
        /\ UNCHANGED <<published, due, acked, buffer, cur, rows>>
    BY <1>6 DEF SendAccepted, stream
  <2>2. heard'[n] = IF n = cur THEN OneMore(heard[n]) ELSE heard[n]
    BY <1>1, <2>1
  <2>3. PlaceSound(n)'
    BY <2>1 DEF PlaceSound
  <2>4. CountsSound(n)'
    BY <1>2, <2>1, <2>2 DEF CountsSound, PlaceSound
  <2> QED
    BY <2>3, <2>4
<1>7. CASE SendAnswerLost \/ SendRefused
  <2>1. n # cur
    BY <1>7
  <2>2. UNCHANGED <<published, due, acked, buffer, cur, rows>>
    BY <1>7 DEF SendAnswerLost, SendRefused, stream, outcome
  <2>3. heard'[n] = heard[n]
    BY <1>1, <1>7, <2>1 DEF SendAnswerLost, SendRefused, outcome
  <2>4. PlaceSound(n)'
    BY <2>1, <2>2 DEF PlaceSound
  <2>5. CountsSound(n)'
    BY <2>1, <2>2, <2>3 DEF CountsSound
  <2> QED
    BY <2>4, <2>5
<1>8. CASE Ack
  <2>1. /\ step = "ack" /\ cur' = None /\ step' = "idle"
        /\ acked' = acked \cup {cur} /\ due' = due \ {cur}
        /\ UNCHANGED <<published, buffer, rows, heard>>
    BY <1>8 DEF Ack, Done, outcome
  <2>2. n # None
    BY <1>1
  <2>3. PlaceSound(n)'
    BY <2>1, <2>2 DEF PlaceSound
  <2>4. CountsSound(n)'
    BY <2>1, <2>2 DEF CountsSound
  <2> QED
    BY <2>3, <2>4
<1>9. CASE Nak
  <2>1. /\ step = "nak" /\ cur' = None /\ step' = "idle"
        /\ due' \in {due, due \cup {cur}}
        /\ UNCHANGED <<published, acked, buffer, rows, heard>>
    BY <1>9 DEF Nak, Done, outcome
  <2> QED
    BY <1>1, <2>1 DEF PlaceSound, CountsSound
<1> QED
  BY <1>3, <1>4, <1>5, <1>6, <1>7, <1>8, <1>9 DEF Consume

LEMMA DeadStayDeaf ==
  ASSUME NotificationTypeOK, CalmSound, [NotificationNext]_nvars,
         NEW n \in Notices, MerchantOf[n] \in Dead
  PROVE  heard'[n] = 0
<1>1. heard[n] = 0 /\ heard \in [Notices -> 0..2]
  BY DEF CalmSound, NotificationTypeOK
<1>2. CASE SendAccepted \/ SendAnswerLost
  <2>1. n # cur /\ heard' = [heard EXCEPT ![cur] = OneMore(@)]
    BY <1>2 DEF SendAccepted, SendAnswerLost
  <2> QED
    BY <1>1, <2>1
<1>3. CASE ~(SendAccepted \/ SendAnswerLost)
  <2>1. heard' = heard
    BY <1>3 DEF NotificationNext, Publish, Deliver, ExpireLost, ExpireHeld, UpdateSettings, Consume,
       NextMsg, Lookup, Persist, SendRefused, Ack, Nak, LookupFails, PersistFails, AnswerLost,
       Crash, nvars, outcome
  <2> QED
    BY <1>1, <2>1
<1> QED
  BY <1>2, <1>3

LEMMA CalmStep ==
  NotificationTypeOK /\ CalmSound /\ [NotificationNext]_nvars => CalmSound'
<1> SUFFICES ASSUME NotificationTypeOK, CalmSound, [NotificationNext]_nvars
             PROVE  CalmSound'
  OBVIOUS
<1>1. ASSUME Calm', NEW n \in Notices, MerchantOf[n] \notin Dead
      PROVE  PlaceSound(n)' /\ CountsSound(n)'
  <2>1. /\ ~(LookupFails \/ PersistFails \/ AnswerLost \/ Crash)
        /\ \A m \in Notices : ~ExpireHeld(m)
        /\ SendAnswerLost \/ SendRefused => MerchantOf[cur] \in Dead
    BY <1>1, CalmBefore
  <2>2. PlaceSound(n) /\ CountsSound(n)
    BY <1>1, CalmBefore DEF CalmSound
  <2>3. CASE (\E m \in Merchants : UpdateSettings(m)) \/ UNCHANGED nvars
    BY <2>2, <2>3 DEF UpdateSettings, nvars, stream, consumer, outcome, PlaceSound, CountsSound
  <2>4. CASE Consume
    BY <1>1, <2>1, <2>2, <2>4, CalmByConsume
  <2>5. CASE \E m \in Notices : Publish(m) \/ Deliver(m) \/ ExpireLost(m)
    BY <2>2, <2>5, CalmByStream
  <2> QED
    BY <2>1, <2>3, <2>4, <2>5 DEF NotificationNext
<1> QED
  BY <1>1, DeadStayDeaf DEF CalmSound

(* As long as nothing failed, was refused or came late, a notice that left *)
(* the stream was stored once, unless its endpoint never accepts, and was  *)
(* heard at most once, however many merchants share the consumer.          *)
THEOREM CalmMeansOnce == NotificationSpec => []OnceUnlessTroubled
<1>1. NotificationInit => CalmSound
  <2>1. ASSUME NotificationInit
        PROVE  \A n \in Notices : heard[n] = 0 /\ PlaceSound(n) /\ CountsSound(n)
    BY <2>1 DEF NotificationInit, PlaceSound, CountsSound, In, Single
  <2> QED
    BY <2>1 DEF CalmSound
<1>2. NotificationTypeOK /\ CalmSound => OnceUnlessTroubled
  BY DEF NotificationTypeOK, CalmSound, Calm, CountsSound, OnceUnlessTroubled
<1> QED
  BY <1>1, <1>2, NotificationTypeCorrect, CalmStep, PTL DEF NotificationSpec

=============================================================================
