-------------------------- MODULE PaymentLifecycle --------------------------
(***************************************************************************)
(* What a merchant may rely on, with the orchestrator's machinery hidden:  *)
(* a payment is opened, waits for its payer, and ends as failed or - only  *)
(* after the PSP confirmed it - as succeeded; a succeeded payment stays so *)
(* and is booked once.                                                     *)
(***************************************************************************)
CONSTANT Payments

VARIABLES
  status,     \* the payment's status, "none" before it exists
  confirmed,  \* the payments the PSP confirmed
  booked      \* the payments whose collection is in the ledger

Init ==
  /\ status = [p \in Payments |-> "none"]
  /\ confirmed = {}
  /\ booked = {}

Move(p, from, to) ==
  /\ status[p] \in from
  /\ status' = [status EXCEPT ![p] = to]
  /\ UNCHANGED <<confirmed, booked>>

Open(p) == Move(p, {"none"}, "created")
Wait(p) == Move(p, {"created"}, "requires_action")
Fail(p) == Move(p, {"created", "requires_action"}, "failed")
Succeed(p) == p \in confirmed /\ Move(p, {"requires_action"}, "succeeded")

Confirm(p) ==
  /\ confirmed' = confirmed \cup {p}
  /\ UNCHANGED <<status, booked>>

Book(p) ==
  /\ status[p] = "succeeded"
  /\ p \notin booked
  /\ booked' = booked \cup {p}
  /\ UNCHANGED <<status, confirmed>>

Next == \E p \in Payments :
  Open(p) \/ Wait(p) \/ Fail(p) \/ Succeed(p) \/ Confirm(p) \/ Book(p)

Spec == Init /\ [][Next]_<<status, confirmed, booked>>

=============================================================================
