------------------------------- MODULE Ledger -------------------------------
(***************************************************************************)
(* The double-entry ledger of internal/ledger: an append-only table of     *)
(* debits and credits. A posting is a list of entries that balance; its    *)
(* entries are inserted one statement at a time, outside any transaction,  *)
(* so that others read balances between two of them, and a posting that    *)
(* breaks off leaves the entries it had inserted.                          *)
(*                                                                         *)
(* The table is kept as its totals per merchant, currency and kind of      *)
(* entry, which is all that the code ever reads of it.                     *)
(***************************************************************************)
EXTENDS Integers, Sequences

CONSTANTS
  Merchants,
  Collections,  \* the confirmed payments whose collection is posted
  Payee,        \* the merchant of a collection
  Currency,     \* "home", the merchant's default currency, or "foreign"
  Amount,       \* the amount of a collection, in minor units
  FeePercent,   \* the platform's fee: a percentage ...
  FeeMinimum    \* ... and at least this much

Currencies == {"home", "foreign"}

ASSUME LedgerConstants ==
  /\ Payee \in [Collections -> Merchants]
  /\ Currency \in [Collections -> Currencies]
  /\ Amount \in [Collections -> Nat]
  /\ FeePercent \in Nat
  /\ FeeMinimum \in Nat

VARIABLES
  posted,   \* ledger_entries: the total of each kind of entry
  lines,    \* how many entries of its posting each collection has in the table
  broken    \* the collections whose posting broke off

books == <<posted, lines, broken>>

(* Account, side and reference type of the entries that the code writes.   *)
Captured  == "clearing_debit_attempt"
Credited  == "available_credit_attempt"
Charged   == "available_debit_fee"
Earned    == "fees_credit_fee"
Withdrawn == "available_debit_payout"
Moved     == "in_transit_credit_payout"
Drained   == "in_transit_debit_payout"
Settled   == "operating_credit_payout"

Debits == {Captured, Charged, Withdrawn, Drained}
Credits == {Credited, Earned, Moved, Settled}
Entries == Debits \cup Credits

Totals == Merchants \X Currencies \X Entries

LedgerTypeOK ==
  /\ posted \in [Totals -> Nat]
  /\ lines \in [Collections -> 0..4]
  /\ broken \subseteq Collections

LedgerInit ==
  /\ posted = [t \in Totals |-> 0]
  /\ lines = [k \in Collections |-> 0]
  /\ broken = {}

Total(m, c, entry) == posted[<<m, c, entry>>]

(* One INSERT.                                                             *)
Insert(m, c, entry, amount) ==
  posted' = [posted EXCEPT ![<<m, c, entry>>] = @ + amount]

(* Engine.Balance adds up an account whatever the currency of its entries. *)
Available(m, c) ==
  Total(m, c, Credited) - Total(m, c, Charged) - Total(m, c, Withdrawn)
InTransit(m, c) == Total(m, c, Moved) - Total(m, c, Drained)

(* Variant: a balance that takes no account of what was paid out.          *)
BalanceGross(m) ==
  Total(m, "home", Credited) - Total(m, "home", Charged)

Balance(m) == Available(m, "home") + Available(m, "foreign")

-----------------------------------------------------------------------------
(* PostCollection                                                          *)

computeFee(amount) ==
  LET share == (amount * FeePercent) \div 100
  IN  IF share < FeeMinimum THEN FeeMinimum ELSE share

Collection == <<Captured, Credited, Charged, Earned>>

(* The two entries of the fee exist only when there is one.                *)
LineCount(k) == IF computeFee(Amount[k]) > 0 THEN 4 ELSE 2

(* Variant: the fee starts one entry late.                                 *)
LineAmountLate(k) == IF lines[k] < 3 THEN Amount[k] ELSE computeFee(Amount[k])

LineAmount(k) == IF lines[k] < 2 THEN Amount[k] ELSE computeFee(Amount[k])

PostCollection(k) ==
  /\ k \notin broken
  /\ lines[k] < LineCount(k)
  /\ lines' = [lines EXCEPT ![k] = @ + 1]
  /\ Insert(Payee[k], Currency[k], Collection[lines[k] + 1], LineAmount(k))
  /\ UNCHANGED broken

(* An INSERT returns an error, or the process dies: what was inserted      *)
(* stays, and the payment's status keeps the posting from being tried      *)
(* again.                                                                  *)
PostingBreaks(k) ==
  /\ k \notin broken
  /\ lines[k] < LineCount(k)
  /\ broken' = broken \cup {k}
  /\ UNCHANGED <<posted, lines>>

(* No posting of a collection is in progress.                              *)
AtRest == \A k \in Collections : k \in broken \/ lines[k] \in {0, LineCount(k)}

LedgerNext == \E k \in Collections : PostCollection(k) \/ PostingBreaks(k)

-----------------------------------------------------------------------------
(* Properties                                                              *)

TotalDebit(m, c) ==
  Total(m, c, Captured) + Total(m, c, Charged)
    + Total(m, c, Withdrawn) + Total(m, c, Drained)
TotalCredit(m, c) ==
  Total(m, c, Credited) + Total(m, c, Earned)
    + Total(m, c, Moved) + Total(m, c, Settled)

Balanced ==
  \A m \in Merchants, c \in Currencies : TotalDebit(m, c) = TotalCredit(m, c)

=============================================================================
