---------------------------- MODULE Notifications ----------------------------
(***************************************************************************)
(* The notification consumer of internal/notification and the stream it    *)
(* reads: every settled payment becomes a notice that is stored for the    *)
(* portal and posted to the merchant's webhook URL, up to four times per   *)
(* delivery.                                                               *)
(*                                                                         *)
(* The worker has one consumer goroutine, so one slow merchant holds up    *)
(* all others. Meanwhile the stream, which waits half a minute for an      *)
(* acknowledgement, delivers what is already waiting in the client's       *)
(* buffer again, so one notice can be there more than once.                *)
(***************************************************************************)
EXTENDS Naturals, Sequences, FiniteSets

CONSTANTS
  Notices,      \* messages published under zia.notification
  Merchants,
  MerchantOf,   \* the merchant a notice is for
  Dead,         \* merchants whose endpoint never accepts anything
  MaxRefusals,  \* bound: failed posts to the other endpoints
  MaxFaults,    \* bound: failed statements, lost acknowledgements, crashes
  MaxLate,      \* bound: redeliveries of what the client still holds
  MaxEdits,     \* bound: changes of a webhook URL
  MaxBuffer,    \* bound: messages in the client's buffer
  None

ASSUME NotificationConstants ==
  /\ MerchantOf \in [Notices -> Merchants]
  /\ Dead \subseteq Merchants
  /\ {MaxRefusals, MaxFaults, MaxLate, MaxEdits, MaxBuffer} \subseteq Nat
  /\ None \notin Notices

VARIABLES
  published,  \* stream: the notices it holds
  due,        \* stream: those it will deliver, or deliver again
  acked,      \* stream: those that were acknowledged
  buffer,     \* client: delivered messages the consumer has not taken yet
  cur,        \* consumer: the notice it processes
  step,       \* consumer: where it is
  url,        \* consumer: did the merchant it read have a webhook URL?
  attempt,    \* consumer: the number of the next post, from 0
  hooked,     \* merchants.settlement_config: who has a webhook URL
  rows,       \* notifications: rows for a notice (0, 1, or 2 for several)
  heard,      \* merchants: posts accepted for a notice (0, 1, or several)
  unwanted,   \* notices whose merchant had no URL when it was looked up
  refusals, faults, late, edits  \* how much of each bound is used

stream == <<published, due, acked>>
consumer == <<cur, step, url, attempt>>
outcome == <<rows, heard, unwanted>>
bounds == <<refusals, faults, late, edits>>
nvars == <<stream, buffer, consumer, hooked, outcome, bounds>>

MaxRetries == 3

Held == {buffer[i] : i \in DOMAIN buffer} \cup {cur}

NotificationTypeOK ==
  /\ published \subseteq Notices /\ due \subseteq published /\ acked \subseteq published
  /\ buffer \in Seq(published)
  /\ cur \in published \cup {None}
  /\ step \in {"idle", "lookup", "store", "send", "ack", "nak"}
  /\ step = "idle" <=> cur = None
  /\ url \in BOOLEAN
  /\ attempt \in 0..MaxRetries
  /\ hooked \subseteq Merchants
  /\ rows \in [Notices -> 0..2]
  /\ heard \in [Notices -> 0..2]
  /\ unwanted \subseteq published
  /\ refusals \in 0..MaxRefusals /\ faults \in 0..MaxFaults
  /\ late \in 0..MaxLate /\ edits \in 0..MaxEdits

NotificationInit ==
  /\ published = {} /\ due = {} /\ acked = {}
  /\ buffer = <<>>
  /\ cur = None /\ step = "idle" /\ url = FALSE /\ attempt = 0
  /\ hooked \in SUBSET Merchants
  /\ rows = [n \in Notices |-> 0]
  /\ heard = [n \in Notices |-> 0]
  /\ unwanted = {}
  /\ refusals = 0 /\ faults = 0 /\ late = 0 /\ edits = 0

Fault ==
  /\ faults < MaxFaults
  /\ faults' = faults + 1
  /\ UNCHANGED <<refusals, late, edits>>

OneMore(count) == IF count = 2 THEN 2 ELSE count + 1

-----------------------------------------------------------------------------
(* The orchestrator, the merchant and the stream                           *)

(* Publish puts a notice on the stream.                                    *)
Publish(n) ==
  /\ n \notin published
  /\ published' = published \cup {n}
  /\ due' = due \cup {n}
  /\ UNCHANGED <<acked, buffer, consumer, hooked, outcome, bounds>>

(* UpdateSettings replaces the whole configuration: the URL is set or gone. *)
UpdateSettings(m) ==
  /\ edits < MaxEdits
  /\ edits' = edits + 1
  /\ hooked' \in {hooked \cup {m}, hooked \ {m}}
  /\ UNCHANGED <<stream, buffer, consumer, outcome, refusals, faults, late>>

Deliver(n) ==
  /\ n \in due
  /\ Len(buffer) < MaxBuffer
  /\ buffer' = Append(buffer, n)
  /\ due' = due \ {n}
  /\ UNCHANGED <<published, acked, consumer, hooked, outcome, bounds>>

(* No acknowledgement came in time, because the client lost the message ... *)
ExpireLost(n) ==
  /\ n \in published \ (acked \cup due)
  /\ n \notin Held
  /\ due' = due \cup {n}
  /\ UNCHANGED <<published, acked, buffer, consumer, hooked, outcome, bounds>>

(* ... or has not got that far: it will get a second copy.                 *)
ExpireHeld(n) ==
  /\ n \in published \ (acked \cup due)
  /\ n \in Held
  /\ late < MaxLate
  /\ late' = late + 1
  /\ due' = due \cup {n}
  /\ UNCHANGED <<published, acked, buffer, consumer, hooked, outcome, refusals, faults, edits>>

-----------------------------------------------------------------------------
(* The consumer: StartConsumer, processNotification and sendWithRetry      *)

NextMsg ==
  /\ step = "idle"
  /\ buffer # <<>>
  /\ cur' = Head(buffer)
  /\ buffer' = Tail(buffer)
  /\ step' = "lookup"
  /\ UNCHANGED <<stream, url, attempt, hooked, outcome, bounds>>

(* The merchant is read once; a URL that changes later is not seen by the  *)
(* posts of this delivery.                                                 *)
Lookup ==
  /\ step = "lookup"
  /\ url' = (MerchantOf[cur] \in hooked)
  /\ unwanted' = IF url' THEN unwanted ELSE unwanted \cup {cur}
  /\ attempt' = 0
  /\ step' = "store"
  /\ UNCHANGED <<stream, buffer, cur, hooked, rows, heard, bounds>>

LookupFails ==
  /\ step = "lookup"
  /\ Fault
  /\ step' = "nak"
  /\ UNCHANGED <<stream, buffer, cur, url, attempt, hooked, outcome>>

AfterStore == IF url THEN "send" ELSE "ack"

(* Variant: a notice nobody is called for is not stored either.            *)
PersistWanted ==
  /\ step = "store"
  /\ rows' = IF url THEN [rows EXCEPT ![cur] = OneMore(@)] ELSE rows
  /\ step' = AfterStore
  /\ UNCHANGED <<stream, buffer, cur, url, attempt, hooked, heard, unwanted, bounds>>

(* The notice is stored for the portal, once per delivery ...              *)
Persist ==
  /\ step = "store"
  /\ rows' = [rows EXCEPT ![cur] = OneMore(@)]
  /\ step' = AfterStore
  /\ UNCHANGED <<stream, buffer, cur, url, attempt, hooked, heard, unwanted, bounds>>

(* ... and when that fails the merchant is called all the same.            *)
PersistFails ==
  /\ step = "store"
  /\ Fault
  /\ step' = AfterStore
  /\ UNCHANGED <<stream, buffer, cur, url, attempt, hooked, outcome>>

SendAccepted ==
  /\ step = "send"
  /\ MerchantOf[cur] \notin Dead
  /\ heard' = [heard EXCEPT ![cur] = OneMore(@)]
  /\ step' = "ack"
  /\ UNCHANGED <<stream, buffer, cur, url, attempt, hooked, rows, unwanted, bounds>>

Refusal ==
  /\ IF MerchantOf[cur] \in Dead
       THEN UNCHANGED refusals
       ELSE refusals < MaxRefusals /\ refusals' = refusals + 1
  /\ UNCHANGED <<faults, late, edits>>

(* Variant: the loop ends after the last try without looking at its error. *)
TryAgainOrPass ==
  IF attempt < MaxRetries
    THEN attempt' = attempt + 1 /\ UNCHANGED step
    ELSE step' = "ack" /\ UNCHANGED attempt

(* Variant: the loop counts its tries from one.                            *)
TryOnceMore ==
  IF attempt <= MaxRetries
    THEN attempt' = attempt + 1 /\ UNCHANGED step
    ELSE step' = "nak" /\ UNCHANGED attempt

(* Variant: the loop tries until the endpoint accepts.                     *)
TryForever ==
  attempt' = (IF attempt < MaxRetries THEN attempt + 1 ELSE 0) /\ UNCHANGED step

(* Another try after the backoff, or an error after the last one.          *)
TryAgain ==
  IF attempt < MaxRetries
    THEN attempt' = attempt + 1 /\ UNCHANGED step
    ELSE step' = "nak" /\ UNCHANGED attempt

(* The endpoint accepts, and its answer does not arrive.                   *)
SendAnswerLost ==
  /\ step = "send"
  /\ MerchantOf[cur] \notin Dead
  /\ Refusal
  /\ heard' = [heard EXCEPT ![cur] = OneMore(@)]
  /\ TryAgain
  /\ UNCHANGED <<stream, buffer, cur, url, hooked, rows, unwanted>>

SendRefused ==
  /\ step = "send"
  /\ Refusal
  /\ TryAgain
  /\ UNCHANGED <<stream, buffer, cur, url, hooked, outcome>>

Done == cur' = None /\ step' = "idle" /\ url' = FALSE /\ attempt' = 0

Ack ==
  /\ step = "ack"
  /\ acked' = acked \cup {cur}
  /\ due' = due \ {cur}
  /\ Done
  /\ UNCHANGED <<published, buffer, hooked, outcome, bounds>>

(* A refused message is delivered again, unless a copy was acknowledged.   *)
Nak ==
  /\ step = "nak"
  /\ due' = IF cur \in acked THEN due ELSE due \cup {cur}
  /\ Done
  /\ UNCHANGED <<published, acked, buffer, hooked, outcome, bounds>>

(* The answer to the stream is lost: an error that is only logged.         *)
AnswerLost ==
  /\ step \in {"ack", "nak"}
  /\ Fault
  /\ Done
  /\ UNCHANGED <<stream, buffer, hooked, outcome>>

(* The worker dies, and with it what its client had received.              *)
Crash ==
  /\ Fault
  /\ buffer' = <<>>
  /\ Done
  /\ UNCHANGED <<stream, hooked, outcome>>

Consume ==
  \/ NextMsg \/ Lookup \/ Persist
  \/ SendAccepted \/ SendAnswerLost \/ SendRefused
  \/ Ack \/ Nak

NotificationNext ==
  \/ \E n \in Notices : Publish(n) \/ Deliver(n) \/ ExpireLost(n) \/ ExpireHeld(n)
  \/ \E m \in Merchants : UpdateSettings(m)
  \/ Consume
  \/ LookupFails \/ PersistFails \/ AnswerLost \/ Crash

NotificationSpec == NotificationInit /\ [][NotificationNext]_nvars

(* The consumer goroutine runs, and the stream delivers what is due and    *)
(* notices what was lost. Nothing makes anybody publish or fail.           *)
FairNotifications ==
  /\ NotificationSpec
  /\ WF_nvars(Consume)
  /\ \A n \in Notices : WF_nvars(Deliver(n)) /\ WF_nvars(ExpireLost(n))

-----------------------------------------------------------------------------
(* Properties                                                              *)

(* Whatever fails, is retried, redelivered or changed meanwhile: a notice  *)
(* leaves the stream only when its merchant's endpoint has accepted it, or *)
(* a delivery of it found that the merchant had no URL.                    *)
AckedIsHeard ==
  \A n \in acked : heard[n] > 0 \/ n \in unwanted

(* As long as no statement failed, nothing was refused and nothing came    *)
(* late, what leaves the stream is in the portal exactly once, and was     *)
(* heard at most once.                                                     *)
OnceUnlessTroubled ==
  faults = 0 /\ refusals = 0 /\ late = 0 =>
    \A n \in acked :
      /\ rows[n] = 1 \/ MerchantOf[n] \in Dead
      /\ heard[n] <= 1

(* A notice for a merchant whose endpoint works leaves the stream in the   *)
(* end, although the one consumer keeps coming back to the notices of      *)
(* merchants whose endpoints never accept.                                 *)
LiveMerchantsHear ==
  \A n \in Notices :
    MerchantOf[n] \notin Dead => (n \in published ~> n \in acked)

=============================================================================
