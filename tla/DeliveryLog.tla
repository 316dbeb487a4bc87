----------------------------- MODULE DeliveryLog -----------------------------
(***************************************************************************)
(* What a merchant may rely on about the list of its deliveries, whoever   *)
(* posts them and however their work breaks off: a try is added pending,   *)
(* either as the first on an active endpoint or behind one that has        *)
(* failed; it is concluded once, as delivered only if the endpoint took    *)
(* it; and nothing else of it is ever changed or removed.                  *)
(***************************************************************************)
EXTENDS Naturals, Sequences

CONSTANTS Events, Active

VARIABLES
  log,      \* the tries, in the order in which they began
  received  \* those that the endpoint accepted

Init ==
  /\ log = <<>>
  /\ received = {}

Add(e, ep, n) ==
  /\ log' = Append(log, [evt |-> e, ep |-> ep, attempt |-> n, status |-> "pending"])
  /\ UNCHANGED received

Try(e, ep) == Add(e, ep, 1)

TryAgain(i) ==
  /\ log[i].status = "failed"
  /\ Add(log[i].evt, log[i].ep, log[i].attempt + 1)

Receive(i) ==
  /\ log[i].status = "pending"
  /\ received' = received \cup {i}
  /\ UNCHANGED log

(* A try may also fail although it was received: the answer may be lost.   *)
Conclude(i, outcome) ==
  /\ log[i].status = "pending"
  /\ outcome = "delivered" => i \in received
  /\ log' = [log EXCEPT ![i].status = outcome]
  /\ UNCHANGED received

Next ==
  \/ \E e \in Events, ep \in Active : Try(e, ep)
  \/ \E i \in DOMAIN log :
       \/ TryAgain(i)
       \/ Receive(i)
       \/ \E outcome \in {"delivered", "failed"} : Conclude(i, outcome)

Spec == Init /\ [][Next]_<<log, received>>

=============================================================================
