----------------------------- MODULE Settlement -----------------------------
(***************************************************************************)
(* The settlement run of internal/settlement: for each merchant in turn it *)
(* reads the available balance, has the connector pay it out, stores the   *)
(* payout and posts it to the ledger, while collections go on being posted *)
(* by other processes. Each statement and each call of the PSP is a step.  *)
(*                                                                         *)
(* The payouts table is kept as the total of the payouts of each merchant  *)
(* and status.                                                             *)
(***************************************************************************)
EXTENDS Ledger

CONSTANTS
  Rail,             \* the connector selectRail finds for a merchant
  MinBalanceMinor,  \* the settlement policy: pay out from this balance on ...
  MaxPayoutMinor,   \* ... and at most this much
  MaxRuns,          \* bound on the settlement runs
  MaxFaults,        \* bound on errors and crashes
  None

ASSUME SettlementConstants ==
  /\ Rail \in [Merchants -> {"paystack", "mpesa", "none"}]
  /\ MinBalanceMinor \in Nat \ {0}
  /\ MaxPayoutMinor \in Nat \ {0}
  /\ MaxRuns \in Nat
  /\ MaxFaults \in Nat
  /\ None \notin Merchants

VARIABLES
  pc,         \* where the run is
  todo,       \* the merchants it has not come to
  cur,        \* the merchant it is paying
  amount,     \* the payout: how much ...
  answer,     \* ... and the status the PSP answered with
  payouts,    \* the payouts table: the total of each status
  sent,       \* PSP: the total of the transfers it took on
  confirmed,  \* PSP: the total of those it answered "success" to
  runs,       \* runs started so far
  faults      \* faults so far

runner == <<pc, todo, cur, amount, answer>>
bank == <<sent, confirmed>>
bounds == <<runs, faults>>
svars == <<books, runner, payouts, bank, bounds>>

Steps == {"idle", "next", "pay", "save", "withdraw", "move", "mark", "drain", "settle"}

SettlementTypeOK ==
  /\ LedgerTypeOK
  /\ pc \in Steps
  /\ todo \subseteq Merchants
  /\ cur \in Merchants \cup {None}
  /\ amount \in Nat
  /\ answer \in {"none", "accepted", "succeeded"}
  /\ payouts \in [Merchants \X {"pending", "succeeded"} -> Nat]
  /\ sent \in [Merchants -> Nat]
  /\ confirmed \in [Merchants -> Nat]
  /\ runs \in 0..MaxRuns
  /\ faults \in 0..MaxFaults

Stored(m, status) == payouts[<<m, status>>]

SettlementInit ==
  /\ LedgerInit
  /\ pc = "idle"
  /\ todo = {}
  /\ cur = None
  /\ amount = 0
  /\ answer = "none"
  /\ payouts = [p \in Merchants \X {"pending", "succeeded"} |-> 0]
  /\ sent = [m \in Merchants |-> 0]
  /\ confirmed = [m \in Merchants |-> 0]
  /\ runs = 0
  /\ faults = 0

-----------------------------------------------------------------------------
Fault ==
  /\ faults < MaxFaults
  /\ faults' = faults + 1
  /\ UNCHANGED runs

(* settleMerchant returns: the local variables of this payout are gone.    *)
GoOn ==
  /\ pc' = "next"
  /\ cur' = None
  /\ amount' = 0
  /\ answer' = "none"
  /\ UNCHANGED todo

Go(step) == pc' = step /\ UNCHANGED <<todo, cur, amount, answer>>

(* The cron job starts and lists every merchant.                           *)
StartRun ==
  /\ pc = "idle"
  /\ runs < MaxRuns
  /\ pc' = "next"
  /\ todo' = Merchants
  /\ runs' = runs + 1
  /\ UNCHANGED <<books, cur, amount, answer, payouts, bank, faults>>

EndRun ==
  /\ pc = "next"
  /\ todo = {}
  /\ Go("idle")
  /\ UNCHANGED <<books, payouts, bank, bounds>>

(* The balance is read once; below the threshold the merchant is skipped,  *)
(* above the maximum the rest is left for another run.                     *)
ReadBalance(m) ==
  /\ pc = "next"
  /\ m \in todo
  /\ todo' = todo \ {m}
  /\ IF Balance(m) < MinBalanceMinor
       THEN UNCHANGED <<pc, cur, amount, answer>>
       ELSE /\ pc' = "pay"
            /\ cur' = m
            /\ amount' = IF Balance(m) > MaxPayoutMinor THEN MaxPayoutMinor ELSE Balance(m)
            /\ UNCHANGED answer
  /\ UNCHANGED <<books, payouts, bank, bounds>>

(* The balance cannot be read: the merchant is left for another run.       *)
ReadFails(m) ==
  /\ pc = "next"
  /\ m \in todo
  /\ Fault
  /\ todo' = todo \ {m}
  /\ UNCHANGED <<books, pc, cur, amount, answer, payouts, bank>>

(* InitiatePayout: Paystack takes the transfer on, done already or not.    *)
(* What it reports of the transfer later is looked up among the attempts,  *)
(* where no payout is, and so changes nothing here.                        *)
TransferTaken(status) ==
  /\ pc = "pay"
  /\ Rail[cur] = "paystack"
  /\ sent' = [sent EXCEPT ![cur] = @ + amount]
  /\ confirmed' = IF status = "succeeded"
                    THEN [confirmed EXCEPT ![cur] = @ + amount]
                    ELSE confirmed
  /\ answer' = status
  /\ pc' = "save"
  /\ UNCHANGED <<books, todo, cur, amount, payouts, bounds>>

(* Variant: the first merchant that cannot be paid ends the run.           *)
TransferRefusedEndsRun ==
  /\ pc = "pay"
  /\ Rail[cur] # "paystack"
  /\ pc' = "next"
  /\ todo' = {}
  /\ cur' = None
  /\ amount' = 0
  /\ UNCHANGED <<books, answer, payouts, bank, bounds>>

(* There is no connector for the merchant's currency, or it is M-Pesa,     *)
(* which refuses every payout.                                             *)
TransferRefused ==
  /\ pc = "pay"
  /\ Rail[cur] # "paystack"
  /\ GoOn
  /\ UNCHANGED <<books, payouts, bank, bounds>>

(* Paystack refuses, or its answer is lost: the transfer may be under way. *)
TransferFails ==
  /\ pc = "pay"
  /\ Rail[cur] = "paystack"
  /\ Fault
  /\ \/ sent' = [sent EXCEPT ![cur] = @ + amount]
     \/ UNCHANGED sent
  /\ GoOn
  /\ UNCHANGED <<books, payouts, confirmed>>

(* Variant: a transfer that is done already is stored as succeeded.        *)
SavePayoutAsAnswered ==
  /\ pc = "save"
  /\ payouts' = [payouts EXCEPT
       ![<<cur, IF answer = "succeeded" THEN "succeeded" ELSE "pending">>] = @ + amount]
  /\ Go("withdraw")
  /\ UNCHANGED <<books, bank, bounds>>

(* Variant: a transfer that is done already is only completed.             *)
SavePayoutCompletes ==
  /\ pc = "save"
  /\ payouts' = [payouts EXCEPT ![<<cur, "pending">>] = @ + amount]
  /\ Go(IF answer = "succeeded" THEN "mark" ELSE "withdraw")
  /\ UNCHANGED <<books, bank, bounds>>

SavePayout ==
  /\ pc = "save"
  /\ payouts' = [payouts EXCEPT ![<<cur, "pending">>] = @ + amount]
  /\ Go("withdraw")
  /\ UNCHANGED <<books, bank, bounds>>

(* PostPayoutInit, the first entry, then the second.                       *)
PostWithdrawal ==
  /\ pc = "withdraw"
  /\ Insert(cur, "home", Withdrawn, amount)
  /\ Go("move")
  /\ UNCHANGED <<lines, broken, payouts, bank, bounds>>

(* Variant: every payout that was taken on counts as done.                 *)
AfterInitEager == "mark"

AfterInit == IF answer = "succeeded" THEN "mark" ELSE "next"

FinishInit ==
  IF AfterInit = "next" THEN GoOn ELSE Go(AfterInit)

PostMove ==
  /\ pc = "move"
  /\ Insert(cur, "home", Moved, amount)
  /\ FinishInit
  /\ UNCHANGED <<lines, broken, payouts, bank, bounds>>

(* An INSERT of PostPayoutInit fails: it is logged and the run goes on as  *)
(* if the payout had been posted.                                          *)
InitFails ==
  /\ pc \in {"withdraw", "move"}
  /\ Fault
  /\ FinishInit
  /\ UNCHANGED <<books, payouts, bank>>

MarkSucceeded ==
  /\ pc = "mark"
  /\ payouts' = [payouts EXCEPT ![<<cur, "pending">>] = @ - amount,
                                ![<<cur, "succeeded">>] = @ + amount]
  /\ Go("drain")
  /\ UNCHANGED <<books, bank, bounds>>

(* PostPayoutComplete.                                                     *)
PostDrain ==
  /\ pc = "drain"
  /\ Insert(cur, "home", Drained, amount)
  /\ Go("settle")
  /\ UNCHANGED <<lines, broken, payouts, bank, bounds>>

PostSettled ==
  /\ pc = "settle"
  /\ Insert(cur, "home", Settled, amount)
  /\ GoOn
  /\ UNCHANGED <<lines, broken, payouts, bank, bounds>>

(* Any other statement fails: settleMerchant returns, the run goes on.     *)
StatementFails ==
  /\ pc \in {"save", "mark", "drain", "settle"}
  /\ Fault
  /\ GoOn
  /\ UNCHANGED <<books, payouts, bank>>

(* The process dies.                                                       *)
RunDies ==
  /\ pc # "idle"
  /\ Fault
  /\ pc' = "idle"
  /\ todo' = {}
  /\ cur' = None
  /\ amount' = 0
  /\ answer' = "none"
  /\ UNCHANGED <<books, payouts, bank>>

-----------------------------------------------------------------------------
Settle ==
  \/ EndRun
  \/ \E m \in Merchants : ReadBalance(m)
  \/ \E status \in {"accepted", "succeeded"} : TransferTaken(status)
  \/ TransferRefused
  \/ SavePayout \/ PostWithdrawal \/ PostMove \/ MarkSucceeded
  \/ PostDrain \/ PostSettled

Collect == LedgerNext /\ UNCHANGED <<runner, payouts, bank, bounds>>

SettlementNext ==
  \/ Collect
  \/ StartRun \/ Settle
  \/ \E m \in Merchants : ReadFails(m)
  \/ TransferFails \/ InitFails \/ StatementFails \/ RunDies

SettlementSpec == SettlementInit /\ [][SettlementNext]_svars

(* A run that was started proceeds as long as it does not die.             *)
FairSettlement == SettlementSpec /\ WF_svars(Settle)

-----------------------------------------------------------------------------
(* Properties                                                              *)

(* While nothing fails, what the PSP transfers to a merchant was collected *)
(* for it in the same currency, although the balance is read once and the  *)
(* ledger goes on changing while the payout is under way.                  *)
PaidWasCollected ==
  faults = 0 => \A m \in Merchants : sent[m] <= Total(m, "home", Credited)

(* While nothing fails the in-transit account never goes below zero: no    *)
(* payout leaves it that did not enter it.                                 *)
InTransitCovered ==
  faults = 0 => \A m \in Merchants : InTransit(m, "home") >= 0

(* The ledger takes from a merchant's balance only what the PSP took on,   *)
(* even if statements fail and runs die.                                   *)
WithdrawnWasSent ==
  \A m \in Merchants : Total(m, "home", Withdrawn) <= sent[m]

(* Money counts as settled only when the payout is stored as succeeded,    *)
(* and a payout is stored as succeeded only when the PSP said so.          *)
SettledIsConfirmed ==
  \A m \in Merchants :
    /\ Total(m, "home", Settled) <= Stored(m, "succeeded")
    /\ Stored(m, "succeeded") <= confirmed[m]

TotalPaid(entry) == [m \in Merchants |-> Total(m, "home", entry)]
AllStored == [m \in Merchants |-> Stored(m, "pending") + Stored(m, "succeeded")]
StoredSucceeded == [m \in Merchants |-> Stored(m, "succeeded")]

Stages == INSTANCE PayoutStages
  WITH Largest <- MaxPayoutMinor,
       stored <- AllStored, succeeded <- StoredSucceeded,
       withdrawn <- TotalPaid(Withdrawn), moved <- TotalPaid(Moved),
       drained <- TotalPaid(Drained), settled <- TotalPaid(Settled)

(* Whatever fails, the books, the payouts table and the PSP follow each    *)
(* other: a payout is stored only when the PSP took it on, withdrawn only  *)
(* when it is stored, moved only when withdrawn; it is stored as succeeded *)
(* only when the PSP said so, drained only when it is stored so, settled   *)
(* only when drained. No total ever goes down, and each grows by no more   *)
(* than one payout at a time. It implies the two before.                   *)
ImplementsPayoutStages == Stages!Spec

(* Once every posting is complete, no run is under way and nothing has     *)
(* failed, the books are balanced, and every transfer the PSP took on is   *)
(* in them and in the payouts table.                                       *)
BalancedWhenQuiet ==
  pc = "idle" /\ AtRest /\ broken = {} /\ faults = 0 =>
    /\ Balanced
    /\ \A m \in Merchants :
         /\ Total(m, "home", Withdrawn) = sent[m]
         /\ Total(m, "home", Withdrawn) = Stored(m, "pending") + Stored(m, "succeeded")

(* A merchant with enough to its name whom a running settlement has not    *)
(* come to yet gets its payout, unless something fails, whatever becomes   *)
(* of the merchants before it.                                             *)
EarnerIsPaid ==
  \A m \in Merchants :
    (/\ m \in todo
     /\ Rail[m] = "paystack"
     /\ sent[m] = 0
     /\ Balance(m) >= MinBalanceMinor) ~> (sent[m] > 0 \/ faults > 0)

=============================================================================
