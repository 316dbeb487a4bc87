---------------------------- MODULE PayoutStages ----------------------------
(***************************************************************************)
(* What may be relied on about the money paid out to each merchant,        *)
(* whatever fails on its way: it goes through stages, each of which adds   *)
(* up what has reached it. The total of a stage never goes down, grows by  *)
(* one payout at a time, and never gets ahead of the stage before it.      *)
(***************************************************************************)
EXTENDS Naturals

CONSTANTS
  Merchants,
  Largest    \* the largest payout

VARIABLES  \* the total of each merchant ...
  sent,       \* ... that the PSP took on
  stored,     \* ... of the payouts table
  withdrawn,  \* ... taken from the merchant's balance
  moved,      \* ... added to the in-transit account
  confirmed,  \* ... that the PSP confirmed
  succeeded,  \* ... of the payouts stored as succeeded
  drained,    \* ... taken from the in-transit account
  settled     \* ... that the platform counts as paid

totals == <<sent, stored, withdrawn, moved, confirmed, succeeded, drained, settled>>

Nothing == [m \in Merchants |-> 0]

Init ==
  totals =
    <<Nothing, Nothing, Nothing, Nothing, Nothing, Nothing, Nothing, Nothing>>

(* The PSP may confirm a transfer as it takes it on.                       *)
Send(m, n) ==
  /\ sent' = [sent EXCEPT ![m] = @ + n]
  /\ \/ UNCHANGED confirmed
     \/ confirmed' = [confirmed EXCEPT ![m] = @ + n]
  /\ UNCHANGED <<stored, withdrawn, moved, succeeded, drained, settled>>

Store(m, n) ==
  /\ stored[m] + n <= sent[m]
  /\ stored' = [stored EXCEPT ![m] = @ + n]
  /\ UNCHANGED <<sent, withdrawn, moved, confirmed, succeeded, drained, settled>>

Withdraw(m, n) ==
  /\ withdrawn[m] + n <= stored[m]
  /\ withdrawn' = [withdrawn EXCEPT ![m] = @ + n]
  /\ UNCHANGED <<sent, stored, moved, confirmed, succeeded, drained, settled>>

Move(m, n) ==
  /\ moved[m] + n <= withdrawn[m]
  /\ moved' = [moved EXCEPT ![m] = @ + n]
  /\ UNCHANGED <<sent, stored, withdrawn, confirmed, succeeded, drained, settled>>

Succeed(m, n) ==
  /\ succeeded[m] + n <= confirmed[m]
  /\ succeeded' = [succeeded EXCEPT ![m] = @ + n]
  /\ UNCHANGED <<sent, stored, withdrawn, moved, confirmed, drained, settled>>

Drain(m, n) ==
  /\ drained[m] + n <= succeeded[m]
  /\ drained' = [drained EXCEPT ![m] = @ + n]
  /\ UNCHANGED <<sent, stored, withdrawn, moved, confirmed, succeeded, settled>>

Settle(m, n) ==
  /\ settled[m] + n <= drained[m]
  /\ settled' = [settled EXCEPT ![m] = @ + n]
  /\ UNCHANGED <<sent, stored, withdrawn, moved, confirmed, succeeded, drained>>

Next ==
  \E m \in Merchants, n \in 1..Largest :
    \/ Send(m, n)
    \/ Store(m, n) \/ Withdraw(m, n) \/ Move(m, n)
    \/ Succeed(m, n) \/ Drain(m, n) \/ Settle(m, n)

Spec == Init /\ [][Next]_totals

=============================================================================
