-------------------------- MODULE SettlementProofs --------------------------
(***************************************************************************)
(* Proofs about Settlement, for any merchants, collections, amounts, fees  *)
(* and settlement policy, and any number of runs.                          *)
(***************************************************************************)
EXTENDS Settlement, FiniteSetTheorems, TLAPS

(* What a merchant is owed by a run that is at one of the given steps.     *)
Owed(m, steps) == IF cur = m /\ pc \in steps THEN amount ELSE 0

(* A run that pays knows whom, and completes only confirmed transfers.     *)
RunnerSound ==
  /\ pc \notin {"idle", "next"} => cur \in Merchants
  /\ pc \in {"mark", "drain", "settle"} => answer = "succeeded"

(* Whatever fails, each total stays behind the one it follows from, by at  *)
(* least what the run has yet to add to it.                                *)
MoneyOf(m) ==
  /\ Total(m, "home", Withdrawn) + Owed(m, {"save", "withdraw"}) <= sent[m]
  /\ Owed(m, {"withdraw", "move", "mark"}) <= Stored(m, "pending")
  /\ Total(m, "home", Settled) + Owed(m, {"drain", "settle"}) <= Stored(m, "succeeded")
  /\ Stored(m, "succeeded")
       + (IF answer = "succeeded"
            THEN Owed(m, {"save", "withdraw", "move", "mark"}) ELSE 0)
       <= confirmed[m]

MoneySound == \A m \in Merchants : MoneyOf(m)

SettlementSound == SettlementTypeOK /\ RunnerSound /\ MoneySound

USE DEF Captured, Credited, Charged, Earned, Withdrawn, Moved, Drained, Settled

(* The effect of one INSERT.                                               *)
LEMMA InsertAdds ==
  ASSUME posted \in [Totals -> Nat],
         NEW m \in Merchants, NEW c \in Currencies, NEW e \in Entries, NEW a \in Nat,
         Insert(m, c, e, a)
  PROVE  /\ posted' \in [Totals -> Nat]
         /\ \A t \in Totals :
              posted'[t] = IF t = <<m, c, e>> THEN posted[t] + a ELSE posted[t]
  <1>1. <<m, c, e>> \in Totals  BY DEF Totals
  <1>2. posted' = [posted EXCEPT ![<<m, c, e>>] = posted[<<m, c, e>>] + a]
    BY DEF Insert
  <1>3. QED  BY <1>1, <1>2

(* The total of a withdrawal or of a settled payout is one of the table.   *)
LEMMA TotalsOfMerchant ==
  ASSUME NEW m \in Merchants, NEW c \in Currencies, NEW e \in Entries
  PROVE  <<m, c, e>> \in Totals
  BY DEF Totals

LEMMA FeesAreNatural ==
  ASSUME LedgerConstants, NEW k \in Collections
  PROVE  /\ computeFee(Amount[k]) \in Nat
         /\ Amount[k] \in Nat
         /\ LineCount(k) \in {2, 4}
  <1>1. Amount[k] \in Nat /\ FeePercent \in Nat /\ FeeMinimum \in Nat
    BY DEF LedgerConstants
  <1>2. Amount[k] * FeePercent \in Nat  BY <1>1
  <1>3. (Amount[k] * FeePercent) \div 100 \in Nat  BY <1>2
  <1>4. QED  BY <1>1, <1>3 DEF computeFee, LineCount

(* The effect of one entry of a collection: the next of its four, on the    *)
(* totals of its merchant and currency.                                    *)
LEMMA PostingAdds ==
  ASSUME LedgerConstants, LedgerTypeOK, NEW k \in Collections, PostCollection(k)
  PROVE  /\ lines[k] \in 0..3
         /\ LineAmount(k) \in Nat
         /\ Collection[lines[k] + 1] \in {Captured, Credited, Charged, Earned}
         /\ LedgerTypeOK'
         /\ \A m \in Merchants, c \in Currencies, e \in Entries :
              Total(m, c, e)' =
                IF m = Payee[k] /\ c = Currency[k] /\ e = Collection[lines[k] + 1]
                  THEN Total(m, c, e) + LineAmount(k) ELSE Total(m, c, e)
  <1> DEFINE d == Collection[lines[k] + 1]
  <1>1. lines[k] \in 0..3
    BY FeesAreNatural DEF PostCollection, LedgerTypeOK
  <1>2. d \in {Captured, Credited, Charged, Earned}
    <2>1. lines[k] + 1 \in {1, 2, 3, 4}  BY <1>1
    <2>2. Collection[1] = Captured /\ Collection[2] = Credited
            /\ Collection[3] = Charged /\ Collection[4] = Earned
      BY DEF Collection
    <2>3. QED  BY <2>1, <2>2
  <1>3. LineAmount(k) \in Nat  BY FeesAreNatural DEF LineAmount
  <1>4. Payee[k] \in Merchants /\ Currency[k] \in Currencies
    BY DEF LedgerConstants
  <1>5. d \in Entries  BY <1>2 DEF Entries, Debits, Credits
  <1>6. Insert(Payee[k], Currency[k], d, LineAmount(k))  BY DEF PostCollection
  <1> HIDE DEF d
  <1>7. /\ posted' \in [Totals -> Nat]
        /\ \A t \in Totals :
             posted'[t] = IF t = <<Payee[k], Currency[k], d>>
                            THEN posted[t] + LineAmount(k) ELSE posted[t]
    BY <1>3, <1>4, <1>5, <1>6, InsertAdds DEF LedgerTypeOK
  <1>8. LedgerTypeOK'
    BY <1>1, <1>7 DEF PostCollection, LedgerTypeOK
  <1>9. ASSUME NEW m \in Merchants, NEW c \in Currencies, NEW e \in Entries
        PROVE  Total(m, c, e)' = IF m = Payee[k] /\ c = Currency[k] /\ e = d
                                   THEN Total(m, c, e) + LineAmount(k)
                                   ELSE Total(m, c, e)
    <2>1. <<m, c, e>> \in Totals  BY TotalsOfMerchant
    <2>2. <<m, c, e>> = <<Payee[k], Currency[k], d>>
            <=> m = Payee[k] /\ c = Currency[k] /\ e = d
      OBVIOUS
    <2>3. QED  BY <1>7, <2>1, <2>2 DEF Total
  <1>10. QED  BY <1>1, <1>2, <1>3, <1>8, <1>9 DEF d

(* A collection is posted without touching what payouts post.              *)
LEMMA CollectAdds ==
  ASSUME LedgerConstants, LedgerTypeOK, LedgerNext
  PROVE  /\ LedgerTypeOK'
         /\ \A m \in Merchants, c \in Currencies :
              /\ \A e \in {Withdrawn, Moved, Drained, Settled} :
                   Total(m, c, e)' = Total(m, c, e)
              /\ Total(m, c, Credited) <= Total(m, c, Credited)'
  <1>1. PICK k \in Collections : PostCollection(k) \/ PostingBreaks(k)
    BY DEF LedgerNext
  <1>2. \A m \in Merchants, c \in Currencies : Total(m, c, Credited) \in Nat
    BY TotalsOfMerchant DEF LedgerTypeOK, Entries, Credits, Total
  <1>3. CASE PostingBreaks(k)
    <2>1. posted' = posted /\ lines' = lines /\ broken' = broken \cup {k}
      BY <1>3 DEF PostingBreaks
    <2>2. LedgerTypeOK'  BY <2>1 DEF LedgerTypeOK
    <2>3. ASSUME NEW m \in Merchants, NEW c \in Currencies
          PROVE  Total(m, c, Credited) <= Total(m, c, Credited)'
      BY <1>2, <2>1 DEF Total
    <2>4. QED  BY <2>1, <2>2, <2>3 DEF Total
  <1>4. CASE PostCollection(k)
    <2>1. ASSUME NEW m \in Merchants, NEW c \in Currencies,
                 NEW d \in {Withdrawn, Moved, Drained, Settled}
          PROVE  Total(m, c, d)' = Total(m, c, d)
      <3>1. d \in Entries  BY DEF Entries, Debits, Credits
      <3>2. d # Collection[lines[k] + 1]  BY <1>4, PostingAdds
      <3>3. QED  BY <1>4, <3>1, <3>2, PostingAdds
    <2>2. ASSUME NEW m \in Merchants, NEW c \in Currencies
          PROVE  Total(m, c, Credited) <= Total(m, c, Credited)'
      <3>1. Credited \in Entries  BY DEF Entries, Credits
      <3>2. Total(m, c, Credited)' \in
              {Total(m, c, Credited), Total(m, c, Credited) + LineAmount(k)}
        BY <1>4, <3>1, PostingAdds
      <3>3. QED  BY <1>2, <1>4, <3>2, PostingAdds
    <2>3. QED  BY <1>4, <2>1, <2>2, PostingAdds
  <1>5. QED  BY <1>1, <1>3, <1>4

-----------------------------------------------------------------------------
(* The effect of an entry of a payout, merchant by merchant.               *)
LEMMA PayoutAdds ==
  ASSUME LedgerTypeOK, NEW x \in Merchants, NEW d \in Entries, NEW a \in Nat,
         Insert(x, "home", d, a)
  PROVE  /\ posted' \in [Totals -> Nat]
         /\ \A m \in Merchants, c \in Currencies, e \in Entries :
              Total(m, c, e)' = IF m = x /\ c = "home" /\ e = d
                                  THEN Total(m, c, e) + a ELSE Total(m, c, e)
  <1>1. "home" \in Currencies  BY DEF Currencies
  <1>2. /\ posted' \in [Totals -> Nat]
        /\ \A t \in Totals :
             posted'[t] = IF t = <<x, "home", d>> THEN posted[t] + a ELSE posted[t]
    BY <1>1, InsertAdds DEF LedgerTypeOK
  <1>3. ASSUME NEW m \in Merchants, NEW c \in Currencies, NEW e \in Entries
        PROVE  Total(m, c, e)' = IF m = x /\ c = "home" /\ e = d
                                   THEN Total(m, c, e) + a ELSE Total(m, c, e)
    <2>1. <<m, c, e>> \in Totals  BY TotalsOfMerchant
    <2>2. <<m, c, e>> = <<x, "home", d>> <=> m = x /\ c = "home" /\ e = d
      OBVIOUS
    <2>3. QED  BY <1>2, <2>1, <2>2 DEF Total
  <1>4. QED  BY <1>2, <1>3

(* Every quantity the invariants compare is a number.                      *)
LEMMA Numbers ==
  ASSUME SettlementTypeOK
  PROVE  /\ \A m \in Merchants, c \in Currencies, e \in Entries :
              Total(m, c, e) \in Nat
         /\ \A m \in Merchants :
              /\ Stored(m, "pending") \in Nat
              /\ Stored(m, "succeeded") \in Nat
              /\ sent[m] \in Nat
              /\ confirmed[m] \in Nat
         /\ amount \in Nat
  <1>1. ASSUME NEW m \in Merchants, NEW c \in Currencies, NEW e \in Entries
        PROVE  Total(m, c, e) \in Nat
    BY TotalsOfMerchant DEF SettlementTypeOK, LedgerTypeOK, Total
  <1>2. ASSUME NEW m \in Merchants
        PROVE  /\ Stored(m, "pending") \in Nat
               /\ Stored(m, "succeeded") \in Nat
    <2>1. /\ <<m, "pending">> \in Merchants \X {"pending", "succeeded"}
          /\ <<m, "succeeded">> \in Merchants \X {"pending", "succeeded"}
      OBVIOUS
    <2>2. payouts \in [Merchants \X {"pending", "succeeded"} -> Nat]
      BY DEF SettlementTypeOK
    <2>3. QED  BY <2>1, <2>2 DEF Stored
  <1>3. QED  BY <1>1, <1>2 DEF SettlementTypeOK

LEMMA EntriesOfPayouts ==
  /\ Withdrawn \in Entries /\ Moved \in Entries
  /\ Drained \in Entries /\ Settled \in Entries
  /\ Credited \in Entries /\ Charged \in Entries
  /\ "home" \in Currencies /\ "foreign" \in Currencies
  BY DEF Entries, Debits, Credits, Currencies

LEMMA SoundInit ==
  ASSUME SettlementConstants, SettlementInit
  PROVE  SettlementSound
  <1>1. LedgerTypeOK  BY DEF SettlementInit, LedgerInit, LedgerTypeOK
  <1>2. SettlementTypeOK
    BY <1>1 DEF SettlementInit, SettlementTypeOK, SettlementConstants, Steps
  <1>3. ASSUME NEW m \in Merchants
        PROVE  /\ Total(m, "home", Withdrawn) = 0 /\ Total(m, "home", Settled) = 0
               /\ Stored(m, "pending") = 0 /\ Stored(m, "succeeded") = 0
               /\ sent[m] = 0 /\ confirmed[m] = 0
    <2>1. Total(m, "home", Withdrawn) = 0 /\ Total(m, "home", Settled) = 0
      BY EntriesOfPayouts, TotalsOfMerchant DEF SettlementInit, LedgerInit, Total
    <2>2. Stored(m, "pending") = 0 /\ Stored(m, "succeeded") = 0
      BY DEF SettlementInit, Stored
    <2>3. QED  BY <2>1, <2>2 DEF SettlementInit
  <1>4. MoneySound
    <2>1. ASSUME NEW m \in Merchants
          PROVE  /\ Owed(m, {"save", "withdraw"}) = 0
                 /\ Owed(m, {"withdraw", "move", "mark"}) = 0
                 /\ Owed(m, {"drain", "settle"}) = 0
                 /\ Owed(m, {"save", "withdraw", "move", "mark"}) = 0
      BY DEF SettlementInit, Owed
    <2>2. ASSUME NEW m \in Merchants  PROVE MoneyOf(m)
      <3>1. /\ Total(m, "home", Withdrawn) = 0 /\ Total(m, "home", Settled) = 0
            /\ Stored(m, "pending") = 0 /\ Stored(m, "succeeded") = 0
            /\ sent[m] = 0 /\ confirmed[m] = 0
        BY <1>3
      <3>2. QED  BY <2>1, <3>1 DEF MoneyOf
    <2>3. QED  BY <2>2 DEF MoneySound
  <1>5. RunnerSound  BY DEF RunnerSound, SettlementInit
  <1>6. QED  BY <1>2, <1>4, <1>5 DEF SettlementSound

-----------------------------------------------------------------------------
(* One lemma for each kind of step that the run can take.                  *)

(* Whom the run pays and how much does not change, or it pays nobody.      *)
LEMMA GoOnTyped ==
  ASSUME SettlementTypeOK, GoOn \/ \E step \in Steps : Go(step)
  PROVE  /\ pc' \in Steps
         /\ todo' \subseteq Merchants
         /\ cur' \in Merchants \cup {None}
         /\ amount' \in Nat
         /\ answer' \in {"none", "accepted", "succeeded"}
  BY DEF SettlementTypeOK, GoOn, Go, Steps

(* A fault is counted within its bound.                                    *)
LEMMA FaultTyped ==
  ASSUME SettlementConstants, SettlementTypeOK, Fault
  PROVE  runs' \in 0..MaxRuns /\ faults' \in 0..MaxFaults /\ MaxFaults # 0
  BY DEF SettlementConstants, SettlementTypeOK, Fault

LEMMA SoundCollect ==
  ASSUME LedgerConstants, SettlementSound, Collect
  PROVE  SettlementSound'
  <1>1. LedgerTypeOK /\ LedgerNext
    BY DEF SettlementSound, SettlementTypeOK, Collect
  <1>2. UNCHANGED <<runner, payouts, bank, bounds>>  BY DEF Collect
  <1>3. SettlementTypeOK'
    BY <1>1, <1>2, CollectAdds
    DEF SettlementSound, SettlementTypeOK, runner, bank, bounds
  <1>4. RunnerSound'
    BY <1>2 DEF SettlementSound, RunnerSound, runner
  <1>5. MoneySound'
    <2>1. \A m \in Merchants :
            /\ Total(m, "home", Withdrawn)' = Total(m, "home", Withdrawn)
            /\ Total(m, "home", Settled)' = Total(m, "home", Settled)
      BY <1>1, CollectAdds, EntriesOfPayouts
    <2>2. QED
      BY <1>2, <2>1
      DEF SettlementSound, MoneySound, MoneyOf, Owed, Stored, runner, bank
  <1>6. QED  BY <1>3, <1>4, <1>5 DEF SettlementSound

(* A step that writes nothing leaves the totals in order, provided that    *)
(* the run owes nothing after it.                                          *)
LEMMA SoundWhenNothingOwed ==
  ASSUME SettlementSound, SettlementTypeOK',
         UNCHANGED <<posted, payouts, confirmed>>,
         \A m \in Merchants : sent[m] <= sent'[m],
         pc' \in {"idle", "next", "pay"}
  PROVE  MoneySound'
  <1> SUFFICES ASSUME NEW m \in Merchants  PROVE MoneyOf(m)'
    BY DEF MoneySound
  <1>1. MoneyOf(m)  BY DEF SettlementSound, MoneySound
  <1>2. /\ Total(m, "home", Withdrawn)' = Total(m, "home", Withdrawn)
        /\ Total(m, "home", Settled)' = Total(m, "home", Settled)
        /\ Stored(m, "pending")' = Stored(m, "pending")
        /\ Stored(m, "succeeded")' = Stored(m, "succeeded")
        /\ confirmed'[m] = confirmed[m]
        /\ sent[m] <= sent'[m]
    BY DEF Total, Stored
  <1>3. /\ Owed(m, {"save", "withdraw"})' = 0
        /\ Owed(m, {"withdraw", "move", "mark"})' = 0
        /\ Owed(m, {"drain", "settle"})' = 0
        /\ Owed(m, {"save", "withdraw", "move", "mark"})' = 0
    BY DEF Owed
  <1>4. /\ Owed(m, {"save", "withdraw"}) \in Nat
        /\ Owed(m, {"withdraw", "move", "mark"}) \in Nat
        /\ Owed(m, {"drain", "settle"}) \in Nat
        /\ Owed(m, {"save", "withdraw", "move", "mark"}) \in Nat
    BY Numbers DEF SettlementSound, Owed
  <1>5. /\ Total(m, "home", Withdrawn) \in Nat /\ Total(m, "home", Settled) \in Nat
        /\ Stored(m, "pending") \in Nat /\ Stored(m, "succeeded") \in Nat
        /\ sent[m] \in Nat /\ sent'[m] \in Nat /\ confirmed[m] \in Nat
    BY Numbers, EntriesOfPayouts DEF SettlementSound, SettlementTypeOK
  <1>6. QED  BY <1>1, <1>2, <1>3, <1>4, <1>5 DEF MoneyOf

LEMMA SoundReturn ==
  ASSUME SettlementConstants, SettlementSound,
         StartRun \/ EndRun \/ (\E m \in Merchants : ReadBalance(m) \/ ReadFails(m))
           \/ TransferRefused \/ TransferFails \/ StatementFails \/ RunDies
  PROVE  SettlementSound'
  <1>1. SettlementTypeOK'
    <2>1. CASE StartRun
      BY <2>1 DEF StartRun, books, bank, SettlementSound, SettlementTypeOK,
                  LedgerTypeOK, SettlementConstants, Steps
    <2>2. CASE EndRun
      BY <2>2 DEF EndRun, Go, books, bank, bounds, SettlementSound, SettlementTypeOK,
                  LedgerTypeOK, Steps
    <2>3. ASSUME NEW m \in Merchants, ReadBalance(m)  PROVE SettlementTypeOK'
      <3>1. \A c \in Currencies : Available(m, c) \in Int
        BY Numbers, EntriesOfPayouts DEF SettlementSound, Available
      <3>2. Balance(m) \in Int  BY <3>1, EntriesOfPayouts DEF Balance
      <3>3. amount' \in Nat
        BY <2>3, <3>2 DEF ReadBalance, SettlementConstants, SettlementSound,
                          SettlementTypeOK
      <3>4. LedgerTypeOK'
        BY <2>3 DEF ReadBalance, books, SettlementSound, SettlementTypeOK, LedgerTypeOK
      <3>5. QED
        BY <2>3, <3>3, <3>4
        DEF ReadBalance, bank, bounds, SettlementSound, SettlementTypeOK, Steps
    <2>4. CASE TransferRefused
      <3>1. LedgerTypeOK'
        BY <2>4 DEF TransferRefused, books, SettlementSound, SettlementTypeOK, LedgerTypeOK
      <3>2. QED
        BY <2>4, <3>1, GoOnTyped
        DEF TransferRefused, bank, bounds, SettlementSound, SettlementTypeOK
    <2>5. CASE TransferFails
      <3>1. LedgerTypeOK'
        BY <2>5 DEF TransferFails, books, SettlementSound, SettlementTypeOK, LedgerTypeOK
      <3>2. sent' \in [Merchants -> Nat]
        BY <2>5, Numbers DEF TransferFails, SettlementSound, SettlementTypeOK
      <3>3. QED
        BY <2>5, <3>1, <3>2, GoOnTyped, FaultTyped
        DEF TransferFails, SettlementSound, SettlementTypeOK
    <2>6. CASE StatementFails
      <3>1. LedgerTypeOK'
        BY <2>6 DEF StatementFails, books, SettlementSound, SettlementTypeOK, LedgerTypeOK
      <3>2. QED
        BY <2>6, <3>1, GoOnTyped, FaultTyped
        DEF StatementFails, bank, SettlementSound, SettlementTypeOK
    <2>7. CASE RunDies
      <3>1. LedgerTypeOK'
        BY <2>7 DEF RunDies, books, SettlementSound, SettlementTypeOK, LedgerTypeOK
      <3>2. QED
        BY <2>7, <3>1, FaultTyped
        DEF RunDies, bank, SettlementSound, SettlementTypeOK, Steps
    <2>8. ASSUME NEW m \in Merchants, ReadFails(m)  PROVE SettlementTypeOK'
      <3>1. LedgerTypeOK'
        BY <2>8 DEF ReadFails, books, SettlementSound, SettlementTypeOK, LedgerTypeOK
      <3>2. QED
        BY <2>8, <3>1, FaultTyped
        DEF ReadFails, bank, SettlementSound, SettlementTypeOK, Steps
    <2>9. QED  BY <2>1, <2>2, <2>3, <2>4, <2>5, <2>6, <2>7, <2>8
  <1>2. pc' \in {"idle", "next", "pay"} /\ (pc' = "pay" => cur' \in Merchants)
    BY DEF StartRun, EndRun, ReadBalance, ReadFails, TransferRefused, TransferFails,
           StatementFails, RunDies, GoOn, Go, SettlementSound, SettlementTypeOK
  <1>3. UNCHANGED <<posted, payouts, confirmed>>
    BY DEF StartRun, EndRun, ReadBalance, ReadFails, TransferRefused, TransferFails,
           StatementFails, RunDies, books, bank
  <1>4. ASSUME NEW m \in Merchants  PROVE sent[m] <= sent'[m]
    <2>1. sent[m] \in Nat /\ amount \in Nat  BY Numbers DEF SettlementSound
    <2>2. CASE TransferFails
      BY <2>1, <2>2 DEF TransferFails, SettlementSound, SettlementTypeOK
    <2>3. CASE ~TransferFails
      <3>1. sent' = sent
        BY <2>3 DEF StartRun, EndRun, ReadBalance, ReadFails, TransferRefused,
                    StatementFails, RunDies, bank
      <3>2. QED  BY <2>1, <3>1
    <2>4. QED  BY <2>2, <2>3
  <1>5. MoneySound'  BY <1>1, <1>2, <1>3, <1>4, SoundWhenNothingOwed
  <1>6. RunnerSound'  BY <1>2 DEF RunnerSound
  <1>7. QED  BY <1>1, <1>5, <1>6 DEF SettlementSound

(* A transfer is taken on: what the run owes is what the PSP now has.      *)
LEMMA SoundTransfer ==
  ASSUME SettlementSound, NEW status \in {"accepted", "succeeded"}, TransferTaken(status)
  PROVE  SettlementSound'
  <1>1. cur \in Merchants /\ pc = "pay"
    BY DEF SettlementSound, RunnerSound, TransferTaken
  <1>2. SettlementTypeOK'
    <2>1. sent' \in [Merchants -> Nat] /\ confirmed' \in [Merchants -> Nat]
      <3>1. sent[cur] + amount \in Nat /\ confirmed[cur] + amount \in Nat
        BY <1>1, Numbers DEF SettlementSound
      <3>2. QED  BY <3>1 DEF TransferTaken, SettlementSound, SettlementTypeOK
    <2>2. LedgerTypeOK'
      BY DEF TransferTaken, books, SettlementSound, SettlementTypeOK, LedgerTypeOK
    <2>3. QED
      BY <2>1, <2>2 DEF TransferTaken, SettlementSound, SettlementTypeOK, bounds, Steps
  <1>3. ASSUME NEW m \in Merchants  PROVE MoneyOf(m)'
    <2>1. MoneyOf(m)  BY DEF SettlementSound, MoneySound
    <2>2. /\ Total(m, "home", Withdrawn)' = Total(m, "home", Withdrawn)
          /\ Total(m, "home", Settled)' = Total(m, "home", Settled)
          /\ Stored(m, "pending")' = Stored(m, "pending")
          /\ Stored(m, "succeeded")' = Stored(m, "succeeded")
      BY DEF TransferTaken, books, Total, Stored
    <2>3. /\ Total(m, "home", Withdrawn) \in Nat /\ Total(m, "home", Settled) \in Nat
          /\ Stored(m, "pending") \in Nat /\ Stored(m, "succeeded") \in Nat
          /\ sent[m] \in Nat /\ confirmed[m] \in Nat /\ amount \in Nat
      BY Numbers, EntriesOfPayouts DEF SettlementSound
    <2>4. sent'[m] = IF m = cur THEN sent[m] + amount ELSE sent[m]
      BY DEF TransferTaken, SettlementSound, SettlementTypeOK
    <2>5. confirmed'[m] = IF m = cur /\ status = "succeeded"
                            THEN confirmed[m] + amount ELSE confirmed[m]
      BY DEF TransferTaken, SettlementSound, SettlementTypeOK
    <2>6. pc' = "save" /\ cur' = cur /\ amount' = amount /\ answer' = status
      BY DEF TransferTaken
    <2>7. QED
      BY <1>1, <2>1, <2>2, <2>3, <2>4, <2>5, <2>6 DEF MoneyOf, Owed
  <1>4. RunnerSound'  BY <1>1 DEF RunnerSound, TransferTaken
  <1>5. QED  BY <1>2, <1>3, <1>4 DEF SettlementSound, MoneySound

(* The payout is stored, or moves from pending to succeeded.               *)
LEMMA SoundStored ==
  ASSUME SettlementSound, SavePayout \/ MarkSucceeded
  PROVE  SettlementSound'
  <1>1. cur \in Merchants /\ pc \in {"save", "mark"} /\ amount \in Nat
    BY Numbers DEF SettlementSound, RunnerSound, SavePayout, MarkSucceeded
  <1>2. MoneyOf(cur)  BY <1>1 DEF SettlementSound, MoneySound
  <1>3. <<cur, "pending">> \in Merchants \X {"pending", "succeeded"}
          /\ <<cur, "succeeded">> \in Merchants \X {"pending", "succeeded"}
    BY <1>1
  <1>4. Stored(cur, "pending") \in Nat /\ Stored(cur, "succeeded") \in Nat
    BY <1>1, Numbers DEF SettlementSound
  <1>5. pc = "mark" => amount <= Stored(cur, "pending")
    BY <1>2 DEF MoneyOf, Owed
  <1>6. payouts \in [Merchants \X {"pending", "succeeded"} -> Nat]
    BY DEF SettlementSound, SettlementTypeOK
  <1>7. payouts' \in [Merchants \X {"pending", "succeeded"} -> Nat]
    <2>1. CASE SavePayout
      BY <1>1, <1>3, <1>4, <1>6, <2>1 DEF SavePayout, Stored
    <2>2. CASE MarkSucceeded
      <3>1. payouts[<<cur, "pending">>] - amount \in Nat
        BY <1>1, <1>4, <1>5, <2>2 DEF MarkSucceeded, Stored
      <3>2. payouts[<<cur, "succeeded">>] + amount \in Nat
        BY <1>1, <1>4 DEF Stored
      <3>3. QED  BY <1>6, <2>2, <3>1, <3>2 DEF MarkSucceeded
    <2>3. QED  BY <2>1, <2>2
  <1>8. SettlementTypeOK'
    <2>1. LedgerTypeOK'
      BY DEF SavePayout, MarkSucceeded, books, SettlementSound, SettlementTypeOK,
             LedgerTypeOK
    <2>2. Go("withdraw") \/ Go("drain")  BY DEF SavePayout, MarkSucceeded
    <2>3. UNCHANGED <<bank, bounds>>  BY DEF SavePayout, MarkSucceeded
    <2>4. QED
      BY <1>7, <2>1, <2>2, <2>3
      DEF SettlementSound, SettlementTypeOK, Go, Steps, bank, bounds
  <1>9. ASSUME NEW m \in Merchants  PROVE MoneyOf(m)'
    <2>1. MoneyOf(m)  BY DEF SettlementSound, MoneySound
    <2>2. /\ Total(m, "home", Withdrawn)' = Total(m, "home", Withdrawn)
          /\ Total(m, "home", Settled)' = Total(m, "home", Settled)
          /\ sent'[m] = sent[m] /\ confirmed'[m] = confirmed[m]
          /\ cur' = cur /\ amount' = amount /\ answer' = answer
      BY DEF SavePayout, MarkSucceeded, Go, books, bank, Total
    <2>3. /\ Total(m, "home", Withdrawn) \in Nat /\ Total(m, "home", Settled) \in Nat
          /\ Stored(m, "pending") \in Nat /\ Stored(m, "succeeded") \in Nat
          /\ sent[m] \in Nat /\ confirmed[m] \in Nat
      BY Numbers, EntriesOfPayouts DEF SettlementSound
    <2>4. <<m, "pending">> \in Merchants \X {"pending", "succeeded"}
            /\ <<m, "succeeded">> \in Merchants \X {"pending", "succeeded"}
      OBVIOUS
    <2>5. CASE SavePayout
      <3>1. Stored(m, "pending")' = IF m = cur THEN Stored(m, "pending") + amount
                                                ELSE Stored(m, "pending")
        BY <1>6, <2>4, <2>5 DEF SavePayout, Stored
      <3>2. Stored(m, "succeeded")' = Stored(m, "succeeded")
        BY <1>6, <2>4, <2>5 DEF SavePayout, Stored
      <3>3. pc = "save" /\ pc' = "withdraw"  BY <2>5 DEF SavePayout, Go
      <3>4. QED
        BY <1>1, <2>1, <2>2, <2>3, <3>1, <3>2, <3>3 DEF MoneyOf, Owed
    <2>6. CASE MarkSucceeded
      <3>1. Stored(m, "pending")' = IF m = cur THEN Stored(m, "pending") - amount
                                                ELSE Stored(m, "pending")
        BY <1>6, <2>4, <2>6 DEF MarkSucceeded, Stored
      <3>2. Stored(m, "succeeded")' = IF m = cur THEN Stored(m, "succeeded") + amount
                                                  ELSE Stored(m, "succeeded")
        BY <1>6, <2>4, <2>6 DEF MarkSucceeded, Stored
      <3>3. pc = "mark" /\ pc' = "drain" /\ answer = "succeeded"
        BY <2>6 DEF MarkSucceeded, Go, SettlementSound, RunnerSound
      <3>4. QED
        BY <1>1, <2>1, <2>2, <2>3, <3>1, <3>2, <3>3 DEF MoneyOf, Owed
    <2>7. QED  BY <2>5, <2>6
  <1>10. RunnerSound'
    BY <1>1 DEF SettlementSound, RunnerSound, SavePayout, MarkSucceeded, Go
  <1>11. QED  BY <1>8, <1>9, <1>10 DEF SettlementSound, MoneySound

(* An entry of the payout is posted, or posting its first two fails.       *)
LEMMA SoundPosted ==
  ASSUME SettlementConstants, SettlementSound,
         PostWithdrawal \/ PostMove \/ InitFails \/ PostDrain \/ PostSettled
  PROVE  SettlementSound'
  <1>1. cur \in Merchants /\ amount \in Nat
    BY Numbers DEF SettlementSound, RunnerSound, PostWithdrawal, PostMove, InitFails,
                   PostDrain, PostSettled
  <1>2. LedgerTypeOK  BY DEF SettlementSound, SettlementTypeOK
  <1>3. GoOn \/ \E step \in Steps : Go(step)
    BY DEF PostWithdrawal, PostMove, InitFails, PostDrain, PostSettled, FinishInit,
           AfterInit, Steps
  <1>4. posted' \in [Totals -> Nat]
    <2>1. CASE InitFails  BY <1>2, <2>1 DEF InitFails, books, LedgerTypeOK
    <2>2. CASE ~InitFails
      <3>1. \E e \in Entries : Insert(cur, "home", e, amount)
        BY <2>2, EntriesOfPayouts DEF PostWithdrawal, PostMove, PostDrain, PostSettled
      <3>2. QED  BY <1>1, <1>2, <3>1, PayoutAdds
    <2>3. QED  BY <2>1, <2>2
  <1>5. SettlementTypeOK'
    <2>1. /\ lines' = lines /\ broken' = broken /\ payouts' = payouts
          /\ sent' = sent /\ confirmed' = confirmed
      BY DEF PostWithdrawal, PostMove, InitFails, PostDrain, PostSettled, books, bank
    <2>2. runs' \in 0..MaxRuns /\ faults' \in 0..MaxFaults
      BY FaultTyped
      DEF PostWithdrawal, PostMove, InitFails, PostDrain, PostSettled, bounds,
          SettlementSound, SettlementTypeOK
    <2>3. QED
      BY <1>3, <1>4, <2>1, <2>2, GoOnTyped
      DEF SettlementSound, SettlementTypeOK, LedgerTypeOK
  <1>6. ASSUME NEW m \in Merchants  PROVE MoneyOf(m)'
    <2>1. MoneyOf(m)  BY DEF SettlementSound, MoneySound
    <2>2. /\ Stored(m, "pending")' = Stored(m, "pending")
          /\ Stored(m, "succeeded")' = Stored(m, "succeeded")
          /\ sent'[m] = sent[m] /\ confirmed'[m] = confirmed[m]
      BY DEF PostWithdrawal, PostMove, InitFails, PostDrain, PostSettled, bank, Stored
    <2>3. /\ Total(m, "home", Withdrawn) \in Nat /\ Total(m, "home", Settled) \in Nat
          /\ Stored(m, "pending") \in Nat /\ Stored(m, "succeeded") \in Nat
          /\ sent[m] \in Nat /\ confirmed[m] \in Nat
      BY Numbers, EntriesOfPayouts DEF SettlementSound
    <2>4. Withdrawn # Moved /\ Withdrawn # Drained /\ Withdrawn # Settled
            /\ Settled # Moved /\ Settled # Drained
      OBVIOUS
    <2>5. CASE PostWithdrawal
      <3>1. Insert(cur, "home", Withdrawn, amount)  BY <2>5 DEF PostWithdrawal
      <3>2. /\ Total(m, "home", Withdrawn)'
                 = IF m = cur THEN Total(m, "home", Withdrawn) + amount
                              ELSE Total(m, "home", Withdrawn)
            /\ Total(m, "home", Settled)' = Total(m, "home", Settled)
        BY <1>1, <1>2, <2>4, <3>1, PayoutAdds, EntriesOfPayouts
      <3>3. pc = "withdraw" /\ pc' = "move" /\ cur' = cur /\ amount' = amount
              /\ answer' = answer
        BY <2>5 DEF PostWithdrawal, Go
      <3>4. QED  BY <1>1, <2>1, <2>2, <2>3, <3>2, <3>3 DEF MoneyOf, Owed
    <2>6. CASE PostMove \/ InitFails
      <3>1. /\ Total(m, "home", Withdrawn)' = Total(m, "home", Withdrawn)
            /\ Total(m, "home", Settled)' = Total(m, "home", Settled)
        <4>1. CASE InitFails  BY <4>1 DEF InitFails, books, Total
        <4>2. CASE PostMove
          <5>1. Insert(cur, "home", Moved, amount)  BY <4>2 DEF PostMove
          <5>2. QED  BY <1>1, <1>2, <2>4, <5>1, PayoutAdds, EntriesOfPayouts
        <4>3. QED  BY <2>6, <4>1, <4>2
      <3>2. pc \in {"withdraw", "move"} /\ FinishInit
        BY <2>6 DEF PostMove, InitFails
      <3>3. CASE AfterInit = "next"
        <4>1. pc' = "next"  BY <3>2, <3>3 DEF FinishInit, GoOn
        <4>2. QED  BY <1>1, <2>1, <2>2, <2>3, <3>1, <3>2, <4>1 DEF MoneyOf, Owed
      <3>4. CASE AfterInit # "next"
        <4>1. pc' = "mark" /\ cur' = cur /\ amount' = amount /\ answer' = answer
          BY <3>2, <3>4 DEF FinishInit, AfterInit, Go
        <4>2. QED  BY <1>1, <2>1, <2>2, <2>3, <3>1, <3>2, <4>1 DEF MoneyOf, Owed
      <3>5. QED  BY <3>3, <3>4
    <2>7. CASE PostDrain
      <3>1. Insert(cur, "home", Drained, amount)  BY <2>7 DEF PostDrain
      <3>2. /\ Total(m, "home", Withdrawn)' = Total(m, "home", Withdrawn)
            /\ Total(m, "home", Settled)' = Total(m, "home", Settled)
        BY <1>1, <1>2, <2>4, <3>1, PayoutAdds, EntriesOfPayouts
      <3>3. pc = "drain" /\ pc' = "settle" /\ cur' = cur /\ amount' = amount
              /\ answer' = answer
        BY <2>7 DEF PostDrain, Go
      <3>4. QED  BY <1>1, <2>1, <2>2, <2>3, <3>2, <3>3 DEF MoneyOf, Owed
    <2>8. CASE PostSettled
      <3>1. Insert(cur, "home", Settled, amount)  BY <2>8 DEF PostSettled
      <3>2. /\ Total(m, "home", Withdrawn)' = Total(m, "home", Withdrawn)
            /\ Total(m, "home", Settled)'
                 = IF m = cur THEN Total(m, "home", Settled) + amount
                              ELSE Total(m, "home", Settled)
        BY <1>1, <1>2, <2>4, <3>1, PayoutAdds, EntriesOfPayouts
      <3>3. pc = "settle" /\ pc' = "next"  BY <2>8 DEF PostSettled, GoOn
      <3>4. QED  BY <1>1, <2>1, <2>2, <2>3, <3>2, <3>3 DEF MoneyOf, Owed
    <2>9. QED  BY <2>5, <2>6, <2>7, <2>8
  <1>7. RunnerSound'
    BY <1>1 DEF SettlementSound, RunnerSound, PostWithdrawal, PostMove, InitFails,
                PostDrain, PostSettled, FinishInit, AfterInit, GoOn, Go
  <1>8. QED  BY <1>5, <1>6, <1>7 DEF SettlementSound, MoneySound

LEMMA AlwaysSettlementSound ==
  ASSUME LedgerConstants, SettlementConstants
  PROVE  SettlementSpec => []SettlementSound
  <1>1. SettlementInit => SettlementSound  BY SoundInit
  <1>2. SettlementSound /\ [SettlementNext]_svars => SettlementSound'
    <2> SUFFICES ASSUME SettlementSound, [SettlementNext]_svars
                 PROVE  SettlementSound'
      OBVIOUS
    <2>1. CASE Collect  BY <2>1, SoundCollect
    <2>2. CASE StartRun \/ (\E m \in Merchants : ReadFails(m)) \/ TransferFails
                        \/ StatementFails \/ RunDies
      BY <2>2, SoundReturn
    <2>3. CASE InitFails  BY <2>3, SoundPosted
    <2>4. CASE Settle
      BY <2>4, SoundReturn, SoundTransfer, SoundStored, SoundPosted DEF Settle
    <2>5. CASE UNCHANGED svars
      BY <2>5 DEF svars, books, runner, bank, bounds, SettlementSound, SettlementTypeOK,
                  LedgerTypeOK, RunnerSound, MoneySound, MoneyOf, Owed, Total, Stored
    <2>6. QED  BY <2>1, <2>2, <2>3, <2>4, <2>5 DEF SettlementNext
  <1>3. QED  BY <1>1, <1>2, PTL DEF SettlementSpec

(* The totals of the ledger, of the payouts table and of the PSP stay      *)
(* natural numbers: no payout leaves "pending" that had not entered it.    *)
THEOREM SettlementTypeCorrect ==
  ASSUME LedgerConstants, SettlementConstants
  PROVE  SettlementSpec => []SettlementTypeOK
  <1>1. SettlementSound => SettlementTypeOK  BY DEF SettlementSound
  <1>2. QED  BY <1>1, AlwaysSettlementSound, PTL

(* Whatever fails, the ledger withdraws from a merchant's balance no more  *)
(* than the PSP took on.                                                   *)
THEOREM WithdrawsOnlySent ==
  ASSUME LedgerConstants, SettlementConstants
  PROVE  SettlementSpec => []WithdrawnWasSent
  <1>1. SettlementSound => WithdrawnWasSent
    <2> SUFFICES ASSUME SettlementSound, NEW m \in Merchants
                 PROVE  Total(m, "home", Withdrawn) <= sent[m]
      BY DEF WithdrawnWasSent
    <2>1. MoneyOf(m)  BY DEF SettlementSound, MoneySound
    <2>2. Total(m, "home", Withdrawn) \in Nat /\ sent[m] \in Nat /\ amount \in Nat
      BY Numbers, EntriesOfPayouts DEF SettlementSound
    <2>3. QED  BY <2>1, <2>2 DEF MoneyOf, Owed
  <1>2. QED  BY <1>1, AlwaysSettlementSound, PTL

(* Whatever fails, money is settled only for payouts stored as succeeded,  *)
(* and those only for transfers that the PSP confirmed.                    *)
THEOREM SettlesOnlyConfirmed ==
  ASSUME LedgerConstants, SettlementConstants
  PROVE  SettlementSpec => []SettledIsConfirmed
  <1>1. SettlementSound => SettledIsConfirmed
    <2> SUFFICES ASSUME SettlementSound, NEW m \in Merchants
                 PROVE  /\ Total(m, "home", Settled) <= Stored(m, "succeeded")
                        /\ Stored(m, "succeeded") <= confirmed[m]
      BY DEF SettledIsConfirmed
    <2>1. MoneyOf(m)  BY DEF SettlementSound, MoneySound
    <2>2. /\ Total(m, "home", Settled) \in Nat /\ Stored(m, "succeeded") \in Nat
          /\ confirmed[m] \in Nat /\ amount \in Nat
      BY Numbers, EntriesOfPayouts DEF SettlementSound
    <2>3. QED  BY <2>1, <2>2 DEF MoneyOf, Owed
  <1>2. QED  BY <1>1, AlwaysSettlementSound, PTL

-----------------------------------------------------------------------------
(* The books of the collections. A sum over the collections whose posting  *)
(* is half done would need an induction; it is instead the cardinality of  *)
(* the set of the units that have been debited and not yet credited, which *)
(* a step changes by the units of one collection.                          *)

Fees == [k \in Collections |-> computeFee(Amount[k])]

(* The units of size[k] of each collection k, of the given merchant and    *)
(* currency, that has n entries in the table.                              *)
UnitsAt(m, c, n, size) ==
  {u \in Collections \X Nat :
     /\ Payee[u[1]] = m
     /\ Currency[u[1]] = c
     /\ lines[u[1]] = n
     /\ u[2] \in 1..size[u[1]]}

UnitsOf(k, size) == {k} \X (1..size[k])

(* What has been debited is credited or waits to be: one entry is in the   *)
(* table of each pair.                                                     *)
PairedOf(m, c) ==
  /\ IsFiniteSet(UnitsAt(m, c, 1, Amount))
  /\ IsFiniteSet(UnitsAt(m, c, 3, Fees))
  /\ Total(m, c, Captured) = Total(m, c, Credited) + Cardinality(UnitsAt(m, c, 1, Amount))
  /\ Total(m, c, Charged) = Total(m, c, Earned) + Cardinality(UnitsAt(m, c, 3, Fees))

Paired == \A m \in Merchants, c \in Currencies : PairedOf(m, c)

LEMMA UnitsCounted ==
  ASSUME NEW size \in [Collections -> Nat], NEW k \in Collections
  PROVE  IsFiniteSet(UnitsOf(k, size)) /\ Cardinality(UnitsOf(k, size)) = size[k]
  <1>1. IsFiniteSet({k}) /\ Cardinality({k}) = 1  BY FS_Singleton
  <1>2. size[k] \in Nat  OBVIOUS
  <1>3. IsFiniteSet(1..size[k]) /\ Cardinality(1..size[k]) = size[k]
    BY <1>2, FS_Interval
  <1>4. /\ IsFiniteSet({k} \X (1..size[k]))
        /\ Cardinality({k} \X (1..size[k]))
             = Cardinality({k}) * Cardinality(1..size[k])
    BY <1>1, <1>3, FS_Product
  <1>5. QED  BY <1>1, <1>2, <1>3, <1>4 DEF UnitsOf

(* A collection that comes to its n-th entry brings its units, one that    *)
(* goes past it takes them away, and those of the others stay.             *)
Advances(k) ==
  lines \in [Collections -> 0..4] /\ lines' = [lines EXCEPT ![k] = @ + 1]

Comes(k, m, c, n) == Payee[k] = m /\ Currency[k] = c /\ lines[k] + 1 = n
Leaves(k, m, c, n) == Payee[k] = m /\ Currency[k] = c /\ lines[k] = n

LEMMA UnitsMove ==
  ASSUME NEW k \in Collections, Advances(k),
         NEW m, NEW c, NEW n \in Nat, NEW size
  PROVE  /\ Leaves(k, m, c, n) =>
              UnitsAt(m, c, n, size)' = UnitsAt(m, c, n, size) \ UnitsOf(k, size)
         /\ Comes(k, m, c, n) =>
              UnitsAt(m, c, n, size)' = UnitsAt(m, c, n, size) \cup UnitsOf(k, size)
         /\ ~ Leaves(k, m, c, n) /\ ~ Comes(k, m, c, n) =>
              UnitsAt(m, c, n, size)' = UnitsAt(m, c, n, size)
  <1>1. lines[k] \in 0..4 /\ lines'[k] = lines[k] + 1
    BY DEF Advances
  <1>2. \A j \in Collections : j # k => lines'[j] = lines[j]
    BY DEF Advances
  <1>3. \A u \in Collections \X Nat :
          u \in UnitsAt(m, c, n, size)' <=>
            /\ Payee[u[1]] = m /\ Currency[u[1]] = c
            /\ lines'[u[1]] = n /\ u[2] \in 1..size[u[1]]
    BY DEF UnitsAt
  <1>4. \A u \in Collections \X Nat :
          u \in UnitsAt(m, c, n, size) <=>
            /\ Payee[u[1]] = m /\ Currency[u[1]] = c
            /\ lines[u[1]] = n /\ u[2] \in 1..size[u[1]]
    BY DEF UnitsAt
  <1>5. \A u \in Collections \X Nat :
          u \in UnitsOf(k, size) <=> u[1] = k /\ u[2] \in 1..size[u[1]]
    BY DEF UnitsOf
  <1>6. /\ UnitsAt(m, c, n, size)' \subseteq Collections \X Nat
        /\ UnitsAt(m, c, n, size) \subseteq Collections \X Nat
        /\ UnitsOf(k, size) \subseteq Collections \X Nat
    BY DEF UnitsAt, UnitsOf
  <1> DEFINE new == UnitsAt(m, c, n, size)'
             old == UnitsAt(m, c, n, size)
             own == UnitsOf(k, size)
  <1>7. ASSUME NEW u \in Collections \X Nat
        PROVE  /\ u[1] = k => (u \in new <=> /\ Payee[k] = m /\ Currency[k] = c
                                              /\ lines[k] + 1 = n /\ u \in own)
               /\ u[1] = k => (u \in old <=> /\ Payee[k] = m /\ Currency[k] = c
                                              /\ lines[k] = n /\ u \in own)
               /\ u[1] # k => u \notin own /\ (u \in new <=> u \in old)
    <2>1. u[1] \in Collections  OBVIOUS
    <2>2. QED  BY <1>1, <1>2, <1>3, <1>4, <1>5, <2>1
  <1> HIDE DEF new, old, own
  <1>8. lines[k] + 1 # lines[k]  BY <1>1
  <1>9. new \subseteq Collections \X Nat /\ old \subseteq Collections \X Nat
          /\ own \subseteq Collections \X Nat
    BY <1>6 DEF new, old, own
  <1>10. ASSUME Leaves(k, m, c, n)
         PROVE  new = old \ own
    BY <1>7, <1>8, <1>9, <1>10 DEF Leaves
  <1>11. ASSUME Comes(k, m, c, n)
         PROVE  new = old \cup own
    BY <1>7, <1>8, <1>9, <1>11 DEF Comes
  <1>12. ASSUME ~ Leaves(k, m, c, n) /\ ~ Comes(k, m, c, n)
         PROVE  new = old
    BY <1>7, <1>9, <1>12 DEF Leaves, Comes
  <1>13. QED  BY <1>10, <1>11, <1>12, Zenon DEF new, old, own

(* So their number changes by the size of that collection.                 *)
LEMMA UnitsMoveCounted ==
  ASSUME NEW k \in Collections, Advances(k),
         NEW m, NEW c, NEW n \in Nat, NEW size \in [Collections -> Nat],
         IsFiniteSet(UnitsAt(m, c, n, size))
  PROVE  /\ IsFiniteSet(UnitsAt(m, c, n, size)')
         /\ Cardinality(UnitsAt(m, c, n, size)) \in Nat
         /\ Cardinality(UnitsAt(m, c, n, size)') =
              IF Leaves(k, m, c, n)
                THEN Cardinality(UnitsAt(m, c, n, size)) - size[k]
              ELSE IF Comes(k, m, c, n)
                THEN Cardinality(UnitsAt(m, c, n, size)) + size[k]
              ELSE Cardinality(UnitsAt(m, c, n, size))
  <1> DEFINE old == UnitsAt(m, c, n, size)
             own == UnitsOf(k, size)
  <1>1. IsFiniteSet(own) /\ Cardinality(own) = size[k]  BY UnitsCounted
  <1>2. lines[k] \in 0..4  BY DEF Advances
  <1>3. IsFiniteSet(old) /\ Cardinality(old) \in Nat  BY FS_CardinalityType
  <1>4. CASE Leaves(k, m, c, n)
    <2>1. UnitsAt(m, c, n, size)' = old \ own  BY <1>4, UnitsMove
    <2>2. own \subseteq old  BY <1>4 DEF Leaves, UnitsOf, UnitsAt
    <2>3. old \cap own = own  BY <2>2
    <2>4. /\ IsFiniteSet(old \ own)
          /\ Cardinality(old \ own) = Cardinality(old) - Cardinality(old \cap own)
      BY <1>3, FS_Difference
    <2>5. QED  BY <1>1, <1>3, <1>4, <2>1, <2>3, <2>4
  <1>5. CASE Comes(k, m, c, n)
    <2>1. lines[k] # n  BY <1>2, <1>5 DEF Comes
    <2>2. UnitsAt(m, c, n, size)' = old \cup own  BY <1>5, UnitsMove
    <2>3. old \cap own = {}  BY <2>1 DEF UnitsOf, UnitsAt
    <2>4. /\ IsFiniteSet(old \cup own)
          /\ Cardinality(old \cup own)
               = Cardinality(old) + Cardinality(own) - Cardinality(old \cap own)
      BY <1>1, <1>3, FS_Union
    <2>5. Cardinality(old \cap own) = 0  BY <2>3, FS_EmptySet
    <2>6. size[k] \in Nat  OBVIOUS
    <2>7. ~ Leaves(k, m, c, n)  BY <2>1 DEF Leaves
    <2>8. QED  BY <1>1, <1>3, <1>5, <2>2, <2>4, <2>5, <2>6, <2>7
  <1>6. CASE ~ Leaves(k, m, c, n) /\ ~ Comes(k, m, c, n)
    <2>1. UnitsAt(m, c, n, size)' = UnitsAt(m, c, n, size)  BY <1>6, UnitsMove
    <2>2. QED  BY <1>3, <1>6, <2>1
  <1>7. QED  BY <1>4, <1>5, <1>6

LEMMA SizesAreNatural ==
  ASSUME LedgerConstants
  PROVE  Amount \in [Collections -> Nat] /\ Fees \in [Collections -> Nat]
  BY FeesAreNatural DEF LedgerConstants, Fees

LEMMA PairedInit ==
  ASSUME LedgerConstants, SettlementInit
  PROVE  Paired
  <1>1. \A k \in Collections : lines[k] = 0
    BY DEF SettlementInit, LedgerInit
  <1>2. ASSUME NEW m \in Merchants, NEW c \in Currencies  PROVE PairedOf(m, c)
    <2>1. UnitsAt(m, c, 1, Amount) = {} /\ UnitsAt(m, c, 3, Fees) = {}
      BY <1>1 DEF UnitsAt
    <2>2. \A e \in Entries : Total(m, c, e) = 0
      BY TotalsOfMerchant DEF SettlementInit, LedgerInit, Total
    <2>3. Captured \in Entries /\ Credited \in Entries
            /\ Charged \in Entries /\ Earned \in Entries
      BY DEF Entries, Debits, Credits
    <2>4. QED  BY <2>1, <2>2, <2>3, FS_EmptySet DEF PairedOf
  <1>3. QED  BY <1>2 DEF Paired

(* One entry of a collection: a debit brings its units, the credit after   *)
(* it takes them away.                                                     *)
LEMMA PairedPost ==
  ASSUME LedgerConstants, LedgerTypeOK, Paired,
         NEW k \in Collections, PostCollection(k)
  PROVE  Paired'
  <1>1. lines[k] \in 0..3 /\ LineAmount(k) \in Nat  BY PostingAdds
  <1>2. Advances(k)  BY DEF PostCollection, LedgerTypeOK, Advances
  <1>3. ASSUME NEW m \in Merchants, NEW c \in Currencies  PROVE PairedOf(m, c)'
    <2> DEFINE n1 == Cardinality(UnitsAt(m, c, 1, Amount))
               n3 == Cardinality(UnitsAt(m, c, 3, Fees))
               d == Collection[lines[k] + 1]
               mine == Payee[k] = m /\ Currency[k] = c
    <2>1. PairedOf(m, c)  BY DEF Paired
    <2>2. /\ IsFiniteSet(UnitsAt(m, c, 1, Amount)')
          /\ n1 \in Nat
          /\ Cardinality(UnitsAt(m, c, 1, Amount)') =
               IF Leaves(k, m, c, 1) THEN n1 - Amount[k]
               ELSE IF Comes(k, m, c, 1) THEN n1 + Amount[k] ELSE n1
      BY <1>2, <2>1, SizesAreNatural, UnitsMoveCounted DEF PairedOf
    <2>3. /\ IsFiniteSet(UnitsAt(m, c, 3, Fees)')
          /\ n3 \in Nat
          /\ Cardinality(UnitsAt(m, c, 3, Fees)') =
               IF Leaves(k, m, c, 3) THEN n3 - Fees[k]
               ELSE IF Comes(k, m, c, 3) THEN n3 + Fees[k] ELSE n3
      BY <1>2, <2>1, SizesAreNatural, UnitsMoveCounted DEF PairedOf
    <2>4. Amount[k] \in Nat /\ Fees[k] \in Nat /\ Fees[k] = computeFee(Amount[k])
      BY SizesAreNatural DEF Fees
    <2>5. Captured \in Entries /\ Credited \in Entries
            /\ Charged \in Entries /\ Earned \in Entries
      BY DEF Entries, Debits, Credits
    <2>6. \A e \in Entries :
            /\ Total(m, c, e) \in Nat
            /\ Total(m, c, e)' = IF mine /\ e = d THEN Total(m, c, e) + LineAmount(k)
                                                 ELSE Total(m, c, e)
      <3>1. \A e \in Entries : Total(m, c, e) \in Nat
        BY TotalsOfMerchant DEF LedgerTypeOK, Total
      <3>2. QED  BY <3>1, PostingAdds
    <2>7. /\ lines[k] = 0 => d = Captured
          /\ lines[k] = 1 => d = Credited
          /\ lines[k] = 2 => d = Charged
          /\ lines[k] = 3 => d = Earned
      BY DEF Collection
    <2>8. /\ lines[k] \in {0, 1} => LineAmount(k) = Amount[k]
          /\ lines[k] \in {2, 3} => LineAmount(k) = Fees[k]
      BY <2>4 DEF LineAmount
    <2>9. /\ \A n \in Nat : Leaves(k, m, c, n) <=> mine /\ lines[k] = n
          /\ \A n \in Nat : Comes(k, m, c, n) <=> mine /\ lines[k] + 1 = n
      BY DEF Leaves, Comes
    <2> HIDE DEF n1, n3, d, mine
    <2>10. /\ Total(m, c, Captured)'
                = Total(m, c, Credited)' + Cardinality(UnitsAt(m, c, 1, Amount)')
           /\ Total(m, c, Charged)'
                = Total(m, c, Earned)' + Cardinality(UnitsAt(m, c, 3, Fees)')
      <3>1. /\ Total(m, c, Captured) = Total(m, c, Credited) + n1
            /\ Total(m, c, Charged) = Total(m, c, Earned) + n3
        BY <2>1 DEF PairedOf, n1, n3
      <3>2. CASE ~ mine
        BY <2>2, <2>3, <2>5, <2>6, <2>9, <3>1, <3>2
      <3>3. CASE mine /\ lines[k] = 0
        BY <2>2, <2>3, <2>4, <2>5, <2>6, <2>7, <2>8, <2>9, <3>1, <3>3
      <3>4. CASE mine /\ lines[k] = 1
        BY <2>2, <2>3, <2>4, <2>5, <2>6, <2>7, <2>8, <2>9, <3>1, <3>4
      <3>5. CASE mine /\ lines[k] = 2
        BY <2>2, <2>3, <2>4, <2>5, <2>6, <2>7, <2>8, <2>9, <3>1, <3>5
      <3>6. CASE mine /\ lines[k] = 3
        BY <2>2, <2>3, <2>4, <2>5, <2>6, <2>7, <2>8, <2>9, <3>1, <3>6
      <3>7. QED  BY <1>1, <3>2, <3>3, <3>4, <3>5, <3>6
    <2>11. QED  BY <2>2, <2>3, <2>10 DEF PairedOf
  <1>4. QED  BY <1>3 DEF Paired

(* A step that posts nothing of a collection.                              *)
LEMMA PairedStays ==
  ASSUME Paired, UNCHANGED lines,
         \A m \in Merchants, c \in Currencies, e \in {Captured, Credited, Charged, Earned} :
           Total(m, c, e)' = Total(m, c, e)
  PROVE  Paired'
  <1>1. \A m, c, n, size : UnitsAt(m, c, n, size)' = UnitsAt(m, c, n, size)
    BY DEF UnitsAt
  <1>2. ASSUME NEW m \in Merchants, NEW c \in Currencies  PROVE PairedOf(m, c)'
    <2>1. PairedOf(m, c)  BY DEF Paired
    <2>2. QED  BY <1>1, <2>1 DEF PairedOf
  <1>3. QED  BY <1>2 DEF Paired

LEMMA AlwaysPaired ==
  ASSUME LedgerConstants, SettlementConstants
  PROVE  SettlementSpec => [](SettlementSound /\ Paired)
  <1>1. SettlementInit => Paired  BY PairedInit
  <1>2. SettlementSound /\ Paired /\ [SettlementNext]_svars
          => Paired'
    <2> SUFFICES ASSUME SettlementSound, Paired, [SettlementNext]_svars
                 PROVE  Paired'
      OBVIOUS
    <2>1. LedgerTypeOK  BY DEF SettlementSound, SettlementTypeOK
    <2>2. CASE Collect
      <3>1. PICK k \in Collections : PostCollection(k) \/ PostingBreaks(k)
        BY <2>2 DEF Collect, LedgerNext
      <3>2. CASE PostCollection(k)  BY <2>1, <3>2, PairedPost
      <3>3. CASE PostingBreaks(k)
        BY <3>3, PairedStays DEF PostingBreaks, Total
      <3>4. QED  BY <3>1, <3>2, <3>3
    <2>3. CASE PostWithdrawal \/ PostMove \/ PostDrain \/ PostSettled
      <3>1. PICK e \in {Withdrawn, Moved, Drained, Settled} :
              Insert(cur, "home", e, amount)
        BY <2>3 DEF PostWithdrawal, PostMove, PostDrain, PostSettled
      <3>2. e \in Entries /\ UNCHANGED lines
        BY <2>3, EntriesOfPayouts
        DEF PostWithdrawal, PostMove, PostDrain, PostSettled
      <3>3. cur \in Merchants /\ amount \in Nat
        BY <2>3, Numbers DEF SettlementSound, RunnerSound, PostWithdrawal, PostMove,
                             PostDrain, PostSettled
      <3>4. ASSUME NEW m \in Merchants, NEW c \in Currencies,
                   NEW d \in {Captured, Credited, Charged, Earned}
            PROVE  Total(m, c, d)' = Total(m, c, d)
        <4>1. d \in Entries /\ d # e  BY DEF Entries, Debits, Credits
        <4>2. QED  BY <2>1, <3>1, <3>2, <3>3, <4>1, PayoutAdds
      <3>5. QED  BY <3>2, <3>4, PairedStays
    <2>4. CASE UNCHANGED books
      BY <2>4, PairedStays DEF books, Total
    <2>5. QED
      BY <2>2, <2>3, <2>4
      DEF SettlementNext, Settle, StartRun, EndRun, ReadBalance, ReadFails, TransferTaken,
          TransferRefused, SavePayout, MarkSucceeded, TransferFails, InitFails,
          StatementFails, RunDies, svars
  <1>3. QED  BY <1>1, <1>2, AlwaysSettlementSound, PTL DEF SettlementSpec

-----------------------------------------------------------------------------
(* As long as nothing has failed, the ledger and the payouts table keep    *)
(* pace with the PSP: each total is the one before it in the sequence of   *)
(* the run, but for what the run has yet to add to it.                     *)

OnTimeOf(m) ==
  /\ sent[m] = Total(m, "home", Withdrawn) + Owed(m, {"save", "withdraw"})
  /\ sent[m] + Owed(m, {"pay"}) <= Total(m, "home", Credited) + Total(m, "foreign", Credited)
  /\ Stored(m, "pending") + Stored(m, "succeeded")
       = Total(m, "home", Withdrawn) + Owed(m, {"withdraw"})
  /\ Total(m, "home", Withdrawn) = Total(m, "home", Moved) + Owed(m, {"move"})
  /\ Total(m, "home", Drained) + Owed(m, {"mark", "drain"}) <= Total(m, "home", Moved)
  /\ Total(m, "home", Drained) = Total(m, "home", Settled) + Owed(m, {"settle"})
  /\ \A e \in {Withdrawn, Moved, Drained, Settled} : Total(m, "foreign", e) = 0

OnTime == \A m \in Merchants : OnTimeOf(m)

(* The numbers that OnTimeOf compares.                                     *)
LEMMA NumbersOf ==
  ASSUME SettlementSound, NEW m \in Merchants
  PROVE  /\ Total(m, "home", Withdrawn) \in Nat /\ Total(m, "home", Moved) \in Nat
         /\ Total(m, "home", Drained) \in Nat /\ Total(m, "home", Settled) \in Nat
         /\ Total(m, "home", Credited) \in Nat /\ Total(m, "foreign", Credited) \in Nat
         /\ Stored(m, "pending") \in Nat /\ Stored(m, "succeeded") \in Nat
         /\ sent[m] \in Nat /\ amount \in Nat
  BY Numbers, EntriesOfPayouts DEF SettlementSound

LEMMA OnTimeInit ==
  ASSUME SettlementInit
  PROVE  OnTime
  <1> SUFFICES ASSUME NEW m \in Merchants  PROVE OnTimeOf(m)
    BY DEF OnTime
  <1>1. \A c \in Currencies, e \in Entries : Total(m, c, e) = 0
    BY TotalsOfMerchant DEF SettlementInit, LedgerInit, Total
  <1>2. sent[m] = 0 /\ Stored(m, "pending") = 0 /\ Stored(m, "succeeded") = 0
    BY DEF SettlementInit, Stored
  <1>3. \A steps : steps \subseteq Steps \ {"idle"} => Owed(m, steps) = 0
    BY DEF SettlementInit, Owed
  <1>4. /\ Owed(m, {"save", "withdraw"}) = 0 /\ Owed(m, {"pay"}) = 0
        /\ Owed(m, {"withdraw"}) = 0 /\ Owed(m, {"move"}) = 0
        /\ Owed(m, {"mark", "drain"}) = 0 /\ Owed(m, {"settle"}) = 0
    BY <1>3 DEF Steps
  <1>5. QED  BY <1>1, <1>2, <1>4, EntriesOfPayouts DEF OnTimeOf

(* Collections only add to what was credited.                              *)
LEMMA OnTimeCollect ==
  ASSUME LedgerConstants, SettlementSound, SettlementSound', OnTime, Collect
  PROVE  OnTime'
  <1> SUFFICES ASSUME NEW m \in Merchants  PROVE OnTimeOf(m)'
    BY DEF OnTime
  <1>1. OnTimeOf(m)  BY DEF OnTime
  <1>2. LedgerTypeOK /\ LedgerNext /\ UNCHANGED <<runner, payouts, bank>>
    BY DEF SettlementSound, SettlementTypeOK, Collect
  <1>3. /\ \A c \in Currencies, e \in {Withdrawn, Moved, Drained, Settled} :
             Total(m, c, e)' = Total(m, c, e)
        /\ Total(m, "home", Credited) <= Total(m, "home", Credited)'
        /\ Total(m, "foreign", Credited) <= Total(m, "foreign", Credited)'
    BY <1>2, CollectAdds, EntriesOfPayouts
  <1>4. /\ sent'[m] = sent[m]
        /\ Stored(m, "pending")' = Stored(m, "pending")
        /\ Stored(m, "succeeded")' = Stored(m, "succeeded")
        /\ cur' = cur /\ pc' = pc /\ amount' = amount
    BY <1>2 DEF runner, bank, Stored
  <1>5. /\ Total(m, "home", Credited)' \in Nat /\ Total(m, "foreign", Credited)' \in Nat
        /\ Total(m, "home", Credited) \in Nat /\ Total(m, "foreign", Credited) \in Nat
        /\ sent[m] \in Nat /\ amount \in Nat
    BY NumbersOf, TotalsOfMerchant, EntriesOfPayouts
    DEF SettlementSound, SettlementTypeOK, LedgerTypeOK, Total
  <1>6. \A steps : Owed(m, steps)' = Owed(m, steps)  BY <1>4 DEF Owed
  <1>7. Owed(m, {"pay"}) \in Nat  BY <1>5 DEF Owed
  <1>8. sent'[m] + Owed(m, {"pay"})'
          <= Total(m, "home", Credited)' + Total(m, "foreign", Credited)'
    BY <1>1, <1>3, <1>4, <1>5, <1>6, <1>7 DEF OnTimeOf
  <1>9. QED  BY <1>1, <1>3, <1>4, <1>6, <1>8, EntriesOfPayouts DEF OnTimeOf

(* The balance a run reads is covered by what was credited and not sent.   *)
LEMMA OnTimeRead ==
  ASSUME SettlementConstants, SettlementSound, OnTime, NEW x \in Merchants, ReadBalance(x)
  PROVE  OnTime'
  <1> SUFFICES ASSUME NEW m \in Merchants  PROVE OnTimeOf(m)'
    BY DEF OnTime
  <1>1. OnTimeOf(m) /\ OnTimeOf(x)  BY DEF OnTime
  <1>2. /\ \A c \in Currencies, e \in Entries : Total(m, c, e)' = Total(m, c, e)
        /\ sent'[m] = sent[m]
        /\ Stored(m, "pending")' = Stored(m, "pending")
        /\ Stored(m, "succeeded")' = Stored(m, "succeeded")
        /\ pc = "next" /\ pc' \in {"next", "pay"}
    BY DEF ReadBalance, books, bank, Total, Stored
  <1>3. /\ Balance(x) <= Total(x, "home", Credited) + Total(x, "foreign", Credited) - sent[x]
        /\ Balance(x) \in Int
    <2>1. sent[x] = Total(x, "home", Withdrawn)
      BY <1>1, <1>2, NumbersOf DEF OnTimeOf, Owed
    <2>2. /\ Total(x, "home", Charged) \in Nat /\ Total(x, "foreign", Charged) \in Nat
          /\ Total(x, "foreign", Withdrawn) \in Nat
      BY Numbers, EntriesOfPayouts DEF SettlementSound
    <2>3. QED
      BY <2>1, <2>2, NumbersOf DEF Balance, Available
  <1>4. \A steps : steps \subseteq Steps \ {"next", "pay"} =>
          Owed(m, steps) = 0 /\ Owed(m, steps)' = 0
    BY <1>2 DEF Owed
  <1>5. /\ Owed(m, {"save", "withdraw"}) = 0 /\ Owed(m, {"save", "withdraw"})' = 0
        /\ Owed(m, {"withdraw"}) = 0 /\ Owed(m, {"withdraw"})' = 0
        /\ Owed(m, {"move"}) = 0 /\ Owed(m, {"move"})' = 0
        /\ Owed(m, {"mark", "drain"}) = 0 /\ Owed(m, {"mark", "drain"})' = 0
        /\ Owed(m, {"settle"}) = 0 /\ Owed(m, {"settle"})' = 0
    BY <1>4 DEF Steps
  <1>6. Owed(m, {"pay"})'
          <= Total(m, "home", Credited) + Total(m, "foreign", Credited) - sent[m]
    <2>1. CASE pc' = "pay" /\ m = x
      <3>1. Balance(x) >= MinBalanceMinor /\ cur' = x
              /\ amount' = IF Balance(x) > MaxPayoutMinor THEN MaxPayoutMinor
                                                          ELSE Balance(x)
        BY <1>2, <1>3, <2>1 DEF ReadBalance, SettlementConstants
      <3>2. amount' <= Balance(x) /\ amount' \in Int
        BY <1>3, <3>1 DEF SettlementConstants
      <3>3. Owed(m, {"pay"})' = amount'  BY <2>1, <3>1 DEF Owed
      <3>4. QED  BY <1>3, <2>1, <3>2, <3>3, NumbersOf
    <2>2. CASE ~(pc' = "pay" /\ m = x)
      <3>1. Owed(m, {"pay"})' = 0  BY <1>2, <2>2 DEF ReadBalance, Owed
      <3>2. QED  BY <1>1, <1>2, <3>1, NumbersOf DEF OnTimeOf, Owed
    <2>3. QED  BY <2>1, <2>2
  <1>7. Owed(m, {"pay"})' \in Int
    <2>1. amount' \in Int
      BY <1>3, NumbersOf DEF ReadBalance, SettlementConstants
    <2>2. QED  BY <2>1 DEF Owed
  <1>8. QED
    BY <1>1, <1>2, <1>5, <1>6, <1>7, NumbersOf, EntriesOfPayouts DEF OnTimeOf

(* A transfer is taken on: what was owed has been sent.                    *)
LEMMA OnTimeTransfer ==
  ASSUME SettlementSound, OnTime, NEW status \in {"accepted", "succeeded"},
         TransferTaken(status)
  PROVE  OnTime'
  <1> SUFFICES ASSUME NEW m \in Merchants  PROVE OnTimeOf(m)'
    BY DEF OnTime
  <1>1. OnTimeOf(m)  BY DEF OnTime
  <1>2. /\ \A c \in Currencies, e \in Entries : Total(m, c, e)' = Total(m, c, e)
        /\ Stored(m, "pending")' = Stored(m, "pending")
        /\ Stored(m, "succeeded")' = Stored(m, "succeeded")
    BY DEF TransferTaken, books, Total, Stored
  <1>3. sent'[m] = IF m = cur THEN sent[m] + amount ELSE sent[m]
    BY DEF TransferTaken, SettlementSound, SettlementTypeOK
  <1>4. pc = "pay" /\ pc' = "save" /\ cur' = cur /\ amount' = amount
    BY DEF TransferTaken
  <1>5. QED
    BY <1>1, <1>2, <1>3, <1>4, NumbersOf, EntriesOfPayouts DEF OnTimeOf, Owed

(* A step that writes neither to the ledger nor to the PSP.                *)
LEMMA OnTimeQuiet ==
  ASSUME SettlementSound, OnTime,
         StartRun \/ EndRun \/ TransferRefused \/ SavePayout \/ MarkSucceeded
  PROVE  OnTime'
  <1> SUFFICES ASSUME NEW m \in Merchants  PROVE OnTimeOf(m)'
    BY DEF OnTime
  <1>1. OnTimeOf(m)  BY DEF OnTime
  <1>2. /\ \A c \in Currencies, e \in Entries : Total(m, c, e)' = Total(m, c, e)
        /\ sent'[m] = sent[m]
    BY DEF StartRun, EndRun, TransferRefused, SavePayout, MarkSucceeded, books, bank, Total
  <1>3. payouts \in [Merchants \X {"pending", "succeeded"} -> Nat]
    BY DEF SettlementSound, SettlementTypeOK
  <1>4. <<m, "pending">> \in Merchants \X {"pending", "succeeded"}
          /\ <<m, "succeeded">> \in Merchants \X {"pending", "succeeded"}
    OBVIOUS
  <1>5. CASE SavePayout
    <2>1. pc = "save" /\ pc' = "withdraw" /\ cur' = cur /\ amount' = amount
      BY <1>5 DEF SavePayout, Go
    <2>2. /\ Stored(m, "pending")' = IF m = cur THEN Stored(m, "pending") + amount
                                                ELSE Stored(m, "pending")
          /\ Stored(m, "succeeded")' = Stored(m, "succeeded")
      BY <1>3, <1>4, <1>5 DEF SavePayout, Stored
    <2>3. QED
      BY <1>1, <1>2, <2>1, <2>2, NumbersOf, EntriesOfPayouts DEF OnTimeOf, Owed
  <1>6. CASE MarkSucceeded
    <2>1. pc = "mark" /\ pc' = "drain" /\ cur' = cur /\ amount' = amount
      BY <1>6 DEF MarkSucceeded, Go
    <2>2. /\ Stored(m, "pending")' = IF m = cur THEN Stored(m, "pending") - amount
                                                ELSE Stored(m, "pending")
          /\ Stored(m, "succeeded")' = IF m = cur THEN Stored(m, "succeeded") + amount
                                                  ELSE Stored(m, "succeeded")
      BY <1>3, <1>4, <1>6 DEF MarkSucceeded, Stored
    <2>3. QED
      BY <1>1, <1>2, <2>1, <2>2, NumbersOf, EntriesOfPayouts DEF OnTimeOf, Owed
  <1>7. CASE StartRun \/ EndRun \/ TransferRefused
    <2>1. /\ pc \in {"idle", "next", "pay"} /\ pc' \in {"idle", "next"}
          /\ Stored(m, "pending")' = Stored(m, "pending")
          /\ Stored(m, "succeeded")' = Stored(m, "succeeded")
      BY <1>7 DEF StartRun, EndRun, TransferRefused, GoOn, Go, Stored
    <2>2. QED  BY <1>1, <1>2, <2>1, NumbersOf, EntriesOfPayouts DEF OnTimeOf, Owed
  <1>8. QED  BY <1>5, <1>6, <1>7

(* An entry of the payout is posted.                                       *)
LEMMA OnTimePosted ==
  ASSUME SettlementSound, OnTime,
         PostWithdrawal \/ PostMove \/ PostDrain \/ PostSettled
  PROVE  OnTime'
  <1> SUFFICES ASSUME NEW m \in Merchants  PROVE OnTimeOf(m)'
    BY DEF OnTime
  <1>1. OnTimeOf(m)  BY DEF OnTime
  <1>2. cur \in Merchants /\ amount \in Nat
    BY Numbers DEF SettlementSound, RunnerSound, PostWithdrawal, PostMove,
                   PostDrain, PostSettled
  <1>3. LedgerTypeOK  BY DEF SettlementSound, SettlementTypeOK
  <1>4. /\ sent'[m] = sent[m]
        /\ Stored(m, "pending")' = Stored(m, "pending")
        /\ Stored(m, "succeeded")' = Stored(m, "succeeded")
    BY DEF PostWithdrawal, PostMove, PostDrain, PostSettled, bank, Stored
  <1> DEFINE kinds == {Withdrawn, Moved, Drained, Settled}
             Rest(e) == /\ \A d \in kinds \ {e} : Total(m, "home", d)' = Total(m, "home", d)
                        /\ \A d \in kinds : Total(m, "foreign", d)' = Total(m, "foreign", d)
                        /\ Total(m, "home", Credited)' = Total(m, "home", Credited)
                        /\ Total(m, "foreign", Credited)' = Total(m, "foreign", Credited)
  <1>5. ASSUME NEW e \in kinds, Insert(cur, "home", e, amount)
        PROVE  /\ Total(m, "home", e)' = IF m = cur THEN Total(m, "home", e) + amount
                                                    ELSE Total(m, "home", e)
               /\ Rest(e)
    <2>1. e \in Entries /\ e # Credited  BY DEF Entries, Debits, Credits
    <2>2. kinds \subseteq Entries  BY DEF Entries, Debits, Credits
    <2>3. QED  BY <1>2, <1>3, <1>5, <2>1, <2>2, PayoutAdds, EntriesOfPayouts
  <1>6. CASE PostWithdrawal
    <2>1. Insert(cur, "home", Withdrawn, amount)  BY <1>6 DEF PostWithdrawal
    <2>2. /\ Total(m, "home", Withdrawn)' = IF m = cur THEN Total(m, "home", Withdrawn) + amount
                                                       ELSE Total(m, "home", Withdrawn)
          /\ Rest(Withdrawn)
      BY <1>5, <2>1
    <2>3. pc = "withdraw" /\ pc' = "move" /\ cur' = cur /\ amount' = amount
      BY <1>6 DEF PostWithdrawal, Go
    <2>4. QED  BY <1>1, <1>4, <2>2, <2>3, NumbersOf DEF OnTimeOf, Owed
  <1>7. CASE PostMove
    <2>1. Insert(cur, "home", Moved, amount)  BY <1>7 DEF PostMove
    <2>2. /\ Total(m, "home", Moved)' = IF m = cur THEN Total(m, "home", Moved) + amount
                                                   ELSE Total(m, "home", Moved)
          /\ Rest(Moved)
      BY <1>5, <2>1
    <2>3. /\ pc = "move"
          /\ \/ pc' = "next" /\ amount' = 0
             \/ pc' = "mark" /\ cur' = cur /\ amount' = amount
      BY <1>7 DEF PostMove, FinishInit, AfterInit, GoOn, Go
    <2>4. QED  BY <1>1, <1>4, <2>2, <2>3, NumbersOf DEF OnTimeOf, Owed
  <1>8. CASE PostDrain
    <2>1. Insert(cur, "home", Drained, amount)  BY <1>8 DEF PostDrain
    <2>2. /\ Total(m, "home", Drained)' = IF m = cur THEN Total(m, "home", Drained) + amount
                                                     ELSE Total(m, "home", Drained)
          /\ Rest(Drained)
      BY <1>5, <2>1
    <2>3. pc = "drain" /\ pc' = "settle" /\ cur' = cur /\ amount' = amount
      BY <1>8 DEF PostDrain, Go
    <2>4. QED  BY <1>1, <1>4, <2>2, <2>3, NumbersOf DEF OnTimeOf, Owed
  <1>9. CASE PostSettled
    <2>1. Insert(cur, "home", Settled, amount)  BY <1>9 DEF PostSettled
    <2>2. /\ Total(m, "home", Settled)' = IF m = cur THEN Total(m, "home", Settled) + amount
                                                     ELSE Total(m, "home", Settled)
          /\ Rest(Settled)
      BY <1>5, <2>1
    <2>3. pc = "settle" /\ pc' = "next"  BY <1>9 DEF PostSettled, GoOn
    <2>4. QED  BY <1>1, <1>4, <2>2, <2>3, NumbersOf DEF OnTimeOf, Owed
  <1>10. QED  BY <1>6, <1>7, <1>8, <1>9

LEMMA AlwaysOnTime ==
  ASSUME LedgerConstants, SettlementConstants
  PROVE  SettlementSpec => [](SettlementSound /\ (faults = 0 => OnTime))
  <1>1. SettlementInit => (faults = 0 => OnTime)  BY OnTimeInit
  <1>2. /\ SettlementSound /\ SettlementSound' /\ [SettlementNext]_svars
        /\ faults = 0 => OnTime
        => (faults = 0 => OnTime)'
    <2> SUFFICES ASSUME SettlementSound, SettlementSound', [SettlementNext]_svars,
                        faults = 0 => OnTime, faults' = 0
                 PROVE  OnTime'
      OBVIOUS
    <2>1. faults \in Nat
      BY DEF SettlementSound, SettlementTypeOK, SettlementConstants
    <2>2. ~ Fault  BY <2>1 DEF Fault
    <2>3. /\ Collect \/ StartRun \/ Settle \/ UNCHANGED svars
          /\ faults' = faults
      BY <2>2 DEF SettlementNext, ReadFails, TransferFails, InitFails, StatementFails, RunDies,
                  Collect, StartRun, Settle, EndRun, ReadBalance, TransferTaken,
                  TransferRefused, SavePayout, PostWithdrawal, PostMove, MarkSucceeded,
                  PostDrain, PostSettled, bounds, svars
    <2>4. OnTime  BY <2>3
    <2>5. CASE Collect  BY <2>4, <2>5, OnTimeCollect
    <2>6. CASE StartRun  BY <2>4, <2>6, OnTimeQuiet
    <2>7. CASE Settle
      BY <2>4, <2>7, OnTimeRead, OnTimeTransfer, OnTimeQuiet, OnTimePosted DEF Settle
    <2>8. CASE UNCHANGED svars
      BY <2>4, <2>8
      DEF svars, books, runner, bank, OnTime, OnTimeOf, Owed, Total, Stored
    <2>9. QED  BY <2>3, <2>5, <2>6, <2>7, <2>8
  <1>3. QED  BY <1>1, <1>2, AlwaysSettlementSound, PTL DEF SettlementSpec

(* As long as nothing has failed, what the PSP transfers to a merchant was *)
(* collected for it, in one currency or another: the balance that a run    *)
(* reads adds up the currencies.                                           *)
PaidWasCollectedInAll ==
  faults = 0 => \A m \in Merchants :
    sent[m] <= Total(m, "home", Credited) + Total(m, "foreign", Credited)

THEOREM PaysOnlyCollectedInAll ==
  ASSUME LedgerConstants, SettlementConstants
  PROVE  SettlementSpec => []PaidWasCollectedInAll
  <1>1. SettlementSound /\ (faults = 0 => OnTime) => PaidWasCollectedInAll
    <2> SUFFICES ASSUME SettlementSound, OnTime, NEW m \in Merchants
                 PROVE  sent[m] <= Total(m, "home", Credited) + Total(m, "foreign", Credited)
      BY DEF PaidWasCollectedInAll
    <2>1. OnTimeOf(m)  BY DEF OnTime
    <2>2. QED  BY <2>1, NumbersOf DEF OnTimeOf, Owed
  <1>2. QED  BY <1>1, AlwaysOnTime, PTL

(* When all collections are in the merchant's currency, nothing is ever    *)
(* credited in another.                                                    *)
OneCurrency == \A k \in Collections : Currency[k] = "home"

NoneForeign == \A m \in Merchants : Total(m, "foreign", Credited) = 0

LEMMA AlwaysNoneForeign ==
  ASSUME LedgerConstants, SettlementConstants, OneCurrency
  PROVE  SettlementSpec => []NoneForeign
  <1>1. SettlementInit => NoneForeign
    BY TotalsOfMerchant, EntriesOfPayouts
    DEF SettlementInit, LedgerInit, Total, NoneForeign
  <1>2. SettlementSound /\ NoneForeign /\ [SettlementNext]_svars => NoneForeign'
    <2> SUFFICES ASSUME SettlementSound, NoneForeign, [SettlementNext]_svars,
                        NEW m \in Merchants
                 PROVE  Total(m, "foreign", Credited)' = Total(m, "foreign", Credited)
      BY DEF NoneForeign
    <2>1. LedgerTypeOK  BY DEF SettlementSound, SettlementTypeOK
    <2>2. CASE Collect
      <3>1. PICK k \in Collections : PostCollection(k) \/ PostingBreaks(k)
        BY <2>2 DEF Collect, LedgerNext
      <3>2. CASE PostCollection(k)
        BY <2>1, <3>2, PostingAdds, EntriesOfPayouts DEF OneCurrency
      <3>3. CASE PostingBreaks(k)  BY <3>3 DEF PostingBreaks, Total
      <3>4. QED  BY <3>1, <3>2, <3>3
    <2>3. CASE PostWithdrawal \/ PostMove \/ PostDrain \/ PostSettled
      <3>1. PICK e \in {Withdrawn, Moved, Drained, Settled} :
              Insert(cur, "home", e, amount)
        BY <2>3 DEF PostWithdrawal, PostMove, PostDrain, PostSettled
      <3>2. e \in Entries  BY EntriesOfPayouts
      <3>3. cur \in Merchants /\ amount \in Nat
        BY <2>3, Numbers DEF SettlementSound, RunnerSound, PostWithdrawal, PostMove,
                             PostDrain, PostSettled
      <3>4. QED  BY <2>1, <3>1, <3>2, <3>3, PayoutAdds, EntriesOfPayouts
    <2>4. CASE UNCHANGED books  BY <2>4 DEF books, Total
    <2>5. QED
      BY <2>2, <2>3, <2>4
      DEF SettlementNext, Settle, StartRun, EndRun, ReadBalance, ReadFails, TransferTaken,
          TransferRefused, SavePayout, MarkSucceeded, TransferFails, InitFails,
          StatementFails, RunDies, svars
  <1>3. QED  BY <1>1, <1>2, AlwaysSettlementSound, PTL DEF SettlementSpec

(* As long as nothing has failed, and with collections in the merchant's   *)
(* own currency only, what the PSP transfers to a merchant was collected   *)
(* for it in that currency, however collections are posted while a run     *)
(* reads and pays.                                                         *)
THEOREM PaysOnlyCollected ==
  ASSUME LedgerConstants, SettlementConstants, OneCurrency
  PROVE  SettlementSpec => []PaidWasCollected
  <1>1. SettlementSound /\ PaidWasCollectedInAll /\ NoneForeign => PaidWasCollected
    <2> SUFFICES ASSUME SettlementSound, PaidWasCollectedInAll, NoneForeign, faults = 0,
                        NEW m \in Merchants
                 PROVE  sent[m] <= Total(m, "home", Credited)
      BY DEF PaidWasCollected
    <2>1. /\ sent[m] <= Total(m, "home", Credited) + Total(m, "foreign", Credited)
          /\ Total(m, "foreign", Credited) = 0
      BY DEF PaidWasCollectedInAll, NoneForeign
    <2>2. QED  BY <2>1, NumbersOf
  <1>2. QED
    BY <1>1, AlwaysSettlementSound, PaysOnlyCollectedInAll, AlwaysNoneForeign, PTL

(* As long as nothing has failed, no payout leaves the in-transit account  *)
(* that did not enter it.                                                  *)
THEOREM InTransitIsCovered ==
  ASSUME LedgerConstants, SettlementConstants
  PROVE  SettlementSpec => []InTransitCovered
  <1>1. SettlementSound /\ (faults = 0 => OnTime) => InTransitCovered
    <2> SUFFICES ASSUME SettlementSound, OnTime, NEW m \in Merchants
                 PROVE  InTransit(m, "home") >= 0
      BY DEF InTransitCovered
    <2>1. OnTimeOf(m)  BY DEF OnTime
    <2>2. QED  BY <2>1, NumbersOf DEF OnTimeOf, Owed, InTransit
  <1>2. QED  BY <1>1, AlwaysOnTime, PTL

(* Once every posting is complete, no run is under way and nothing has     *)
(* failed, the books are balanced in each currency, and every transfer the *)
(* PSP took on is in the ledger and in the payouts table, after any number *)
(* of collections, runs and interleavings of the two.                      *)
THEOREM BalancesWhenQuiet ==
  ASSUME LedgerConstants, SettlementConstants
  PROVE  SettlementSpec => []BalancedWhenQuiet
  <1>1. /\ SettlementSound /\ Paired /\ (faults = 0 => OnTime)
        => BalancedWhenQuiet
    <2> SUFFICES ASSUME SettlementSound, Paired, OnTime,
                        pc = "idle", AtRest, broken = {}
                 PROVE  /\ Balanced
                        /\ \A m \in Merchants :
                             /\ Total(m, "home", Withdrawn) = sent[m]
                             /\ Total(m, "home", Withdrawn)
                                  = Stored(m, "pending") + Stored(m, "succeeded")
      BY DEF BalancedWhenQuiet
    <2>1. ASSUME NEW m \in Merchants
          PROVE  /\ Total(m, "home", Withdrawn) = sent[m]
                 /\ Total(m, "home", Withdrawn)
                      = Stored(m, "pending") + Stored(m, "succeeded")
                 /\ Total(m, "home", Withdrawn) = Total(m, "home", Moved)
                 /\ Total(m, "home", Drained) = Total(m, "home", Settled)
      <3>1. OnTimeOf(m)  BY DEF OnTime
      <3>2. QED  BY <3>1, NumbersOf DEF OnTimeOf, Owed
    <2>2. ASSUME NEW m \in Merchants, NEW c \in Currencies
          PROVE  /\ Total(m, c, Withdrawn) = Total(m, c, Moved)
                 /\ Total(m, c, Drained) = Total(m, c, Settled)
      <3>1. OnTimeOf(m)  BY DEF OnTime
      <3>2. c \in {"home", "foreign"}  BY DEF Currencies
      <3>3. QED  BY <2>1, <3>1, <3>2 DEF OnTimeOf
    <2>3. ASSUME NEW m \in Merchants, NEW c \in Currencies
          PROVE  /\ Total(m, c, Captured) = Total(m, c, Credited)
                 /\ Total(m, c, Charged) = Total(m, c, Earned)
      <3>1. \A k \in Collections : lines[k] \in {0, 2, 4}
        BY FeesAreNatural DEF AtRest
      <3>2. UnitsAt(m, c, 1, Amount) = {} /\ UnitsAt(m, c, 3, Fees) = {}
        BY <3>1 DEF UnitsAt
      <3>3. PairedOf(m, c)  BY DEF Paired
      <3>4. Total(m, c, Credited) \in Nat /\ Total(m, c, Earned) \in Nat
        BY Numbers DEF SettlementSound, Entries, Credits
      <3>5. QED  BY <3>2, <3>3, <3>4, FS_EmptySet DEF PairedOf
    <2>4. Balanced  BY <2>2, <2>3 DEF Balanced, TotalDebit, TotalCredit
    <2>5. QED  BY <2>1, <2>4
  <1>2. QED  BY <1>1, AlwaysPaired, AlwaysOnTime, PTL

-----------------------------------------------------------------------------
(* The totals of the payouts are stages of one way, whatever fails on it.  *)

PayoutEntries == {Withdrawn, Moved, Drained, Settled}

(* What a run is about to add to a stage is already in the one before.     *)
StagesOf(m) ==
  /\ AllStored[m] + Owed(m, {"save"}) <= sent[m]
  /\ TotalPaid(Withdrawn)[m] + Owed(m, {"withdraw"}) <= AllStored[m]
  /\ TotalPaid(Moved)[m] + Owed(m, {"move"}) <= TotalPaid(Withdrawn)[m]
  /\ TotalPaid(Drained)[m] + Owed(m, {"drain"}) <= StoredSucceeded[m]
  /\ TotalPaid(Settled)[m] + Owed(m, {"settle"}) <= TotalPaid(Drained)[m]

PayoutSized == pc \notin {"idle", "next"} => amount \in 1..MaxPayoutMinor

StagesSound == PayoutSized /\ \A m \in Merchants : StagesOf(m)

LEMMA StagesTyped ==
  ASSUME SettlementSound
  PROVE  /\ AllStored \in [Merchants -> Nat]
         /\ StoredSucceeded \in [Merchants -> Nat]
         /\ \A e \in PayoutEntries : TotalPaid(e) \in [Merchants -> Nat]
         /\ sent \in [Merchants -> Nat]
         /\ confirmed \in [Merchants -> Nat]
         /\ amount \in Nat
  <1>1. ASSUME NEW e \in PayoutEntries  PROVE TotalPaid(e) \in [Merchants -> Nat]
    BY Numbers, EntriesOfPayouts DEF PayoutEntries, TotalPaid, SettlementSound
  <1>2. QED
    BY <1>1, Numbers
    DEF SettlementSound, SettlementTypeOK, AllStored, StoredSucceeded

(* An entry of a payout adds to one of the totals.                         *)
LEMMA EntryCounts ==
  ASSUME SettlementSound, cur \in Merchants,
         NEW e \in PayoutEntries, Insert(cur, "home", e, amount)
  PROVE  /\ TotalPaid(e)' = [TotalPaid(e) EXCEPT ![cur] = @ + amount]
         /\ \A d \in PayoutEntries \ {e} : TotalPaid(d)' = TotalPaid(d)
  <1>1. LedgerTypeOK /\ amount \in Nat /\ PayoutEntries \subseteq Entries
    BY Numbers, EntriesOfPayouts DEF SettlementSound, SettlementTypeOK, PayoutEntries
  <1>2. ASSUME NEW d \in PayoutEntries, NEW m \in Merchants
        PROVE  Total(m, "home", d)' = IF m = cur /\ d = e
                                        THEN Total(m, "home", d) + amount
                                        ELSE Total(m, "home", d)
    BY <1>1, PayoutAdds, EntriesOfPayouts
  <1>3. ASSUME NEW d \in PayoutEntries \ {e}  PROVE TotalPaid(d)' = TotalPaid(d)
    BY <1>2 DEF TotalPaid
  <1>4. TotalPaid(e)' = [TotalPaid(e) EXCEPT ![cur] = @ + amount]
    <2>1. TotalPaid(e)' = [m \in Merchants |->
                             IF m = cur THEN Total(m, "home", e) + amount
                                        ELSE Total(m, "home", e)]
      BY <1>2 DEF TotalPaid
    <2>2. QED  BY <2>1 DEF TotalPaid
  <1>5. QED  BY <1>3, <1>4

(* The step leaves the ledger's totals of payouts alone.                   *)
LEMMA EntriesStay ==
  ASSUME posted' = posted
  PROVE  \A e \in PayoutEntries : TotalPaid(e)' = TotalPaid(e)
  BY DEF TotalPaid, Total

LEMMA StoredStays ==
  ASSUME payouts' = payouts
  PROVE  AllStored' = AllStored /\ StoredSucceeded' = StoredSucceeded
  BY DEF AllStored, StoredSucceeded, Stored

(* The payout enters the table.                                            *)
LEMMA SaveCounts ==
  ASSUME SettlementSound, cur \in Merchants, SavePayout
  PROVE  /\ AllStored' = [AllStored EXCEPT ![cur] = @ + amount]
         /\ StoredSucceeded' = StoredSucceeded
  <1>1. ASSUME NEW m \in Merchants
        PROVE  /\ Stored(m, "pending")' = IF m = cur THEN Stored(m, "pending") + amount
                                                     ELSE Stored(m, "pending")
               /\ Stored(m, "succeeded")' = Stored(m, "succeeded")
    <2>1. <<m, "pending">> \in Merchants \X {"pending", "succeeded"}
            /\ <<m, "succeeded">> \in Merchants \X {"pending", "succeeded"}
      OBVIOUS
    <2>2. payouts \in [Merchants \X {"pending", "succeeded"} -> Nat]
      BY DEF SettlementSound, SettlementTypeOK
    <2>3. QED  BY <2>1, <2>2 DEF SavePayout, Stored
  <1>2. \A m \in Merchants :
          Stored(m, "pending") \in Nat /\ Stored(m, "succeeded") \in Nat /\ amount \in Nat
    BY Numbers DEF SettlementSound
  <1>3. ASSUME NEW m \in Merchants
        PROVE  (Stored(m, "pending") + Stored(m, "succeeded"))'
                 = IF m = cur THEN Stored(m, "pending") + Stored(m, "succeeded") + amount
                              ELSE Stored(m, "pending") + Stored(m, "succeeded")
    BY <1>1, <1>2
  <1>4. AllStored' = [m \in Merchants |->
                        IF m = cur THEN Stored(m, "pending") + Stored(m, "succeeded") + amount
                                   ELSE Stored(m, "pending") + Stored(m, "succeeded")]
    BY <1>3 DEF AllStored
  <1>5. QED  BY <1>1, <1>4 DEF AllStored, StoredSucceeded

(* The payout is marked: all that is stored stays, more of it succeeded.   *)
LEMMA MarkCounts ==
  ASSUME SettlementSound, cur \in Merchants, MarkSucceeded
  PROVE  /\ AllStored' = AllStored
         /\ StoredSucceeded' = [StoredSucceeded EXCEPT ![cur] = @ + amount]
  <1>1. ASSUME NEW m \in Merchants
        PROVE  /\ Stored(m, "pending")' = IF m = cur THEN Stored(m, "pending") - amount
                                                     ELSE Stored(m, "pending")
               /\ Stored(m, "succeeded")' = IF m = cur THEN Stored(m, "succeeded") + amount
                                                       ELSE Stored(m, "succeeded")
    <2>1. <<m, "pending">> \in Merchants \X {"pending", "succeeded"}
            /\ <<m, "succeeded">> \in Merchants \X {"pending", "succeeded"}
      OBVIOUS
    <2>2. payouts \in [Merchants \X {"pending", "succeeded"} -> Nat]
      BY DEF SettlementSound, SettlementTypeOK
    <2>3. QED  BY <2>1, <2>2 DEF MarkSucceeded, Stored
  <1>2. \A m \in Merchants :
          Stored(m, "pending") \in Nat /\ Stored(m, "succeeded") \in Nat /\ amount \in Nat
    BY Numbers DEF SettlementSound
  <1>3. ASSUME NEW m \in Merchants
        PROVE  (Stored(m, "pending") + Stored(m, "succeeded"))'
                 = Stored(m, "pending") + Stored(m, "succeeded")
    BY <1>1, <1>2
  <1>4. AllStored' = AllStored  BY <1>3 DEF AllStored
  <1>5. StoredSucceeded' = [m \in Merchants |->
                              IF m = cur THEN Stored(m, "succeeded") + amount
                                         ELSE Stored(m, "succeeded")]
    BY <1>1 DEF StoredSucceeded
  <1>6. QED  BY <1>4, <1>5 DEF StoredSucceeded

(* A payout is of something, and at most the policy's maximum.             *)
LEMMA SizedStays ==
  ASSUME SettlementConstants, SettlementSound, PayoutSized, [SettlementNext]_svars
  PROVE  PayoutSized'
  <1>1. CASE \E m \in Merchants : ReadBalance(m)
    <2>1. PICK m \in Merchants : ReadBalance(m)  BY <1>1
    <2>2. \A c \in Currencies : Available(m, c) \in Int
      BY Numbers, EntriesOfPayouts DEF SettlementSound, Available
    <2>3. Balance(m) \in Int  BY <2>2, EntriesOfPayouts DEF Balance
    <2>4. QED  BY <2>1, <2>3 DEF ReadBalance, PayoutSized, SettlementConstants
  <1>2. CASE ~ \E m \in Merchants : ReadBalance(m)
    BY <1>2 DEF SettlementNext, Collect, Settle, StartRun, EndRun, ReadFails, TransferTaken,
       TransferRefused, TransferFails, SavePayout, PostWithdrawal, PostMove, InitFails,
       FinishInit, AfterInit, MarkSucceeded, PostDrain, PostSettled, StatementFails,
       RunDies, GoOn, Go, svars, runner, PayoutSized
  <1>3. QED  BY <1>1, <1>2

-----------------------------------------------------------------------------
(* Each step, as a step of the stages.                                     *)

(* The totals stay, and the run owes nothing new.                          *)
LEMMA StagesStay ==
  ASSUME SettlementSound, StagesSound, PayoutSized',
         \A e \in PayoutEntries : TotalPaid(e)' = TotalPaid(e),
         payouts' = payouts, sent' = sent, confirmed' = confirmed,
         pc' \in {"idle", "next", "pay", "mark"} \/ UNCHANGED runner
  PROVE  StagesSound' /\ UNCHANGED Stages!totals
  <1>1. /\ \A e \in PayoutEntries : TotalPaid(e)' = TotalPaid(e)
        /\ AllStored' = AllStored /\ StoredSucceeded' = StoredSucceeded
    BY StoredStays
  <1>2. ASSUME NEW m \in Merchants  PROVE StagesOf(m)'
    <2>1. StagesOf(m)  BY DEF StagesSound
    <2>2. \A step \in {"save", "withdraw", "move", "drain", "settle"} :
            Owed(m, {step})' \in {0, Owed(m, {step})} /\ Owed(m, {step}) \in Nat
      BY StagesTyped DEF Owed, runner
    <2>3. QED
      BY <1>1, <2>1, <2>2, StagesTyped DEF StagesOf, PayoutEntries
  <1>3. UNCHANGED Stages!totals  BY <1>1 DEF Stages!totals, PayoutEntries
  <1>4. QED  BY <1>2, <1>3 DEF StagesSound

(* The PSP takes a transfer on, whether the run learns of it or not.       *)
LEMMA StagesSend ==
  ASSUME SettlementSound, StagesSound, PayoutSized', cur \in Merchants, pc = "pay",
         sent' = [sent EXCEPT ![cur] = @ + amount],
         \/ confirmed' = confirmed
         \/ confirmed' = [confirmed EXCEPT ![cur] = @ + amount],
         posted' = posted, payouts' = payouts,
         \/ pc' = "save" /\ cur' = cur /\ amount' = amount
         \/ pc' = "next"
  PROVE  StagesSound' /\ Stages!Send(cur, amount)
  <1>1. /\ \A e \in PayoutEntries : TotalPaid(e)' = TotalPaid(e)
        /\ AllStored' = AllStored /\ StoredSucceeded' = StoredSucceeded
    BY EntriesStay, StoredStays
  <1>2. ASSUME NEW m \in Merchants  PROVE StagesOf(m)'
    <2>1. StagesOf(m)  BY DEF StagesSound
    <2>2. /\ Owed(m, {"save"}) = 0
          /\ Owed(m, {"save"})' \in {0, IF m = cur THEN amount ELSE 0}
          /\ \A step \in {"withdraw", "move", "drain", "settle"} :
               Owed(m, {step})' = 0 /\ Owed(m, {step}) = 0
      BY DEF Owed
    <2>3. sent'[m] = IF m = cur THEN sent[m] + amount ELSE sent[m]
      BY StagesTyped
    <2>4. QED
      BY <1>1, <2>1, <2>2, <2>3, StagesTyped DEF StagesOf, PayoutEntries
  <1>3. Stages!Send(cur, amount)  BY <1>1 DEF Stages!Send, PayoutEntries
  <1>4. QED  BY <1>2, <1>3 DEF StagesSound

(* The payout is stored.                                                   *)
LEMMA StagesSave ==
  ASSUME SettlementSound, StagesSound, PayoutSized', SavePayout
  PROVE  StagesSound' /\ Stages!Store(cur, amount) /\ cur \in Merchants
  <1>1. cur \in Merchants /\ pc = "save"
    BY DEF SavePayout, SettlementSound, RunnerSound
  <1>2. sent' = sent /\ confirmed' = confirmed
    BY DEF SavePayout, bank
  <1>3. \A e \in PayoutEntries : TotalPaid(e)' = TotalPaid(e)
    BY EntriesStay DEF SavePayout, books
  <1>4. AllStored' = [AllStored EXCEPT ![cur] = @ + amount] /\ StoredSucceeded' = StoredSucceeded
    BY <1>1, SaveCounts
  <1>5. pc' = "withdraw" /\ cur' = cur /\ amount' = amount
    BY DEF SavePayout, Go
  <1>6. ASSUME NEW m \in Merchants  PROVE StagesOf(m)'
    <2>1. StagesOf(m)  BY DEF StagesSound
    <2>2. AllStored'[m] = IF m = cur THEN AllStored[m] + amount
                       ELSE AllStored[m]
      BY <1>1, <1>4, StagesTyped DEF PayoutEntries
    <2>3. \A step \in {"save", "withdraw", "move", "drain", "settle"} :
            /\ Owed(m, {step}) = IF m = cur /\ pc = step THEN amount ELSE 0
            /\ Owed(m, {step})' \in {0, IF m = cur /\ pc' = step THEN amount ELSE 0}
      BY <1>1, <1>5 DEF Owed
    <2>4. QED
      BY <1>1, <1>2, <1>3, <1>4, <1>5, <2>1, <2>2, <2>3, StagesTyped DEF StagesOf, PayoutEntries
  <1>7. AllStored[cur] + amount <= sent[cur]
    <2>1. StagesOf(cur) /\ Owed(cur, {"save"}) = amount
      BY <1>1 DEF StagesSound, Owed
    <2>2. QED  BY <2>1 DEF StagesOf
  <1>8. Stages!Store(cur, amount)
    BY <1>2, <1>3, <1>4, <1>7 DEF Stages!Store, PayoutEntries
  <1>9. QED  BY <1>1, <1>6, <1>8 DEF StagesSound

(* The payout leaves the merchant's balance.                               *)
LEMMA StagesWithdraw ==
  ASSUME SettlementSound, StagesSound, PayoutSized', PostWithdrawal
  PROVE  StagesSound' /\ Stages!Withdraw(cur, amount) /\ cur \in Merchants
  <1>1. cur \in Merchants /\ pc = "withdraw"
    BY DEF PostWithdrawal, SettlementSound, RunnerSound
  <1>2. /\ sent' = sent /\ confirmed' = confirmed
        /\ AllStored' = AllStored /\ StoredSucceeded' = StoredSucceeded
    BY StoredStays DEF PostWithdrawal, bank
  <1>3. Insert(cur, "home", Withdrawn, amount) /\ Withdrawn \in PayoutEntries
    BY DEF PostWithdrawal, PayoutEntries
  <1>4. /\ TotalPaid(Withdrawn)' = [TotalPaid(Withdrawn) EXCEPT ![cur] = @ + amount]
        /\ TotalPaid(Moved)' = TotalPaid(Moved)
        /\ TotalPaid(Drained)' = TotalPaid(Drained)
        /\ TotalPaid(Settled)' = TotalPaid(Settled)
    BY <1>1, <1>3, EntryCounts DEF PayoutEntries
  <1>5. pc' = "move" /\ cur' = cur /\ amount' = amount
    BY DEF PostWithdrawal, Go
  <1>6. ASSUME NEW m \in Merchants  PROVE StagesOf(m)'
    <2>1. StagesOf(m)  BY DEF StagesSound
    <2>2. TotalPaid(Withdrawn)'[m] = IF m = cur THEN TotalPaid(Withdrawn)[m] + amount
                       ELSE TotalPaid(Withdrawn)[m]
      BY <1>1, <1>4, StagesTyped DEF PayoutEntries
    <2>3. \A step \in {"save", "withdraw", "move", "drain", "settle"} :
            /\ Owed(m, {step}) = IF m = cur /\ pc = step THEN amount ELSE 0
            /\ Owed(m, {step})' \in {0, IF m = cur /\ pc' = step THEN amount ELSE 0}
      BY <1>1, <1>5 DEF Owed
    <2>4. QED
      BY <1>1, <1>2, <1>4, <1>5, <2>1, <2>2, <2>3, StagesTyped DEF StagesOf, PayoutEntries
  <1>7. TotalPaid(Withdrawn)[cur] + amount <= AllStored[cur]
    <2>1. StagesOf(cur) /\ Owed(cur, {"withdraw"}) = amount
      BY <1>1 DEF StagesSound, Owed
    <2>2. QED  BY <2>1 DEF StagesOf
  <1>8. Stages!Withdraw(cur, amount)
    BY <1>2, <1>4, <1>7 DEF Stages!Withdraw, PayoutEntries
  <1>9. QED  BY <1>1, <1>6, <1>8 DEF StagesSound

(* The payout enters the in-transit account.                               *)
LEMMA StagesMove ==
  ASSUME SettlementSound, StagesSound, PayoutSized', PostMove
  PROVE  StagesSound' /\ Stages!Move(cur, amount) /\ cur \in Merchants
  <1>1. cur \in Merchants /\ pc = "move"
    BY DEF PostMove, SettlementSound, RunnerSound
  <1>2. /\ sent' = sent /\ confirmed' = confirmed
        /\ AllStored' = AllStored /\ StoredSucceeded' = StoredSucceeded
    BY StoredStays DEF PostMove, bank
  <1>3. Insert(cur, "home", Moved, amount) /\ Moved \in PayoutEntries
    BY DEF PostMove, PayoutEntries
  <1>4. /\ TotalPaid(Moved)' = [TotalPaid(Moved) EXCEPT ![cur] = @ + amount]
        /\ TotalPaid(Withdrawn)' = TotalPaid(Withdrawn)
        /\ TotalPaid(Drained)' = TotalPaid(Drained)
        /\ TotalPaid(Settled)' = TotalPaid(Settled)
    BY <1>1, <1>3, EntryCounts DEF PayoutEntries
  <1>5. pc' \in {"next", "mark"}
    BY DEF PostMove, FinishInit, AfterInit, GoOn, Go
  <1>6. ASSUME NEW m \in Merchants  PROVE StagesOf(m)'
    <2>1. StagesOf(m)  BY DEF StagesSound
    <2>2. TotalPaid(Moved)'[m] = IF m = cur THEN TotalPaid(Moved)[m] + amount
                       ELSE TotalPaid(Moved)[m]
      BY <1>1, <1>4, StagesTyped DEF PayoutEntries
    <2>3. \A step \in {"save", "withdraw", "move", "drain", "settle"} :
            /\ Owed(m, {step}) = IF m = cur /\ pc = step THEN amount ELSE 0
            /\ Owed(m, {step})' \in {0, IF m = cur /\ pc' = step THEN amount ELSE 0}
      BY <1>1, <1>5 DEF Owed
    <2>4. QED
      BY <1>1, <1>2, <1>4, <1>5, <2>1, <2>2, <2>3, StagesTyped DEF StagesOf, PayoutEntries
  <1>7. TotalPaid(Moved)[cur] + amount <= TotalPaid(Withdrawn)[cur]
    <2>1. StagesOf(cur) /\ Owed(cur, {"move"}) = amount
      BY <1>1 DEF StagesSound, Owed
    <2>2. QED  BY <2>1 DEF StagesOf
  <1>8. Stages!Move(cur, amount)
    BY <1>2, <1>4, <1>7 DEF Stages!Move, PayoutEntries
  <1>9. QED  BY <1>1, <1>6, <1>8 DEF StagesSound

(* The payout is stored as succeeded.                                      *)
LEMMA StagesMark ==
  ASSUME SettlementSound, StagesSound, PayoutSized', MarkSucceeded
  PROVE  StagesSound' /\ Stages!Succeed(cur, amount) /\ cur \in Merchants
  <1>1. cur \in Merchants /\ pc = "mark"
    BY DEF MarkSucceeded, SettlementSound, RunnerSound
  <1>2. sent' = sent /\ confirmed' = confirmed
    BY DEF MarkSucceeded, bank
  <1>3. \A e \in PayoutEntries : TotalPaid(e)' = TotalPaid(e)
    BY EntriesStay DEF MarkSucceeded, books
  <1>4. StoredSucceeded' = [StoredSucceeded EXCEPT ![cur] = @ + amount] /\ AllStored' = AllStored
    BY <1>1, MarkCounts
  <1>5. pc' = "drain" /\ cur' = cur /\ amount' = amount
    BY DEF MarkSucceeded, Go
  <1>6. ASSUME NEW m \in Merchants  PROVE StagesOf(m)'
    <2>1. StagesOf(m)  BY DEF StagesSound
    <2>2. StoredSucceeded'[m] = IF m = cur THEN StoredSucceeded[m] + amount
                       ELSE StoredSucceeded[m]
      BY <1>1, <1>4, StagesTyped DEF PayoutEntries
    <2>3. \A step \in {"save", "withdraw", "move", "drain", "settle"} :
            /\ Owed(m, {step}) = IF m = cur /\ pc = step THEN amount ELSE 0
            /\ Owed(m, {step})' \in {0, IF m = cur /\ pc' = step THEN amount ELSE 0}
      BY <1>1, <1>5 DEF Owed
    <2>4. QED
      BY <1>1, <1>2, <1>3, <1>4, <1>5, <2>1, <2>2, <2>3, StagesTyped DEF StagesOf, PayoutEntries
  <1>7. StoredSucceeded[cur] + amount <= confirmed[cur]
    <2>1. MoneyOf(cur) /\ answer = "succeeded"
      BY <1>1 DEF SettlementSound, MoneySound, RunnerSound
    <2>2. StoredSucceeded[cur] = Stored(cur, "succeeded")
      BY <1>1 DEF StoredSucceeded
    <2>3. QED  BY <1>1, <2>1, <2>2 DEF MoneyOf, Owed
  <1>8. Stages!Succeed(cur, amount)
    BY <1>2, <1>3, <1>4, <1>7 DEF Stages!Succeed, PayoutEntries
  <1>9. QED  BY <1>1, <1>6, <1>8 DEF StagesSound

(* The payout leaves the in-transit account.                               *)
LEMMA StagesDrain ==
  ASSUME SettlementSound, StagesSound, PayoutSized', PostDrain
  PROVE  StagesSound' /\ Stages!Drain(cur, amount) /\ cur \in Merchants
  <1>1. cur \in Merchants /\ pc = "drain"
    BY DEF PostDrain, SettlementSound, RunnerSound
  <1>2. /\ sent' = sent /\ confirmed' = confirmed
        /\ AllStored' = AllStored /\ StoredSucceeded' = StoredSucceeded
    BY StoredStays DEF PostDrain, bank
  <1>3. Insert(cur, "home", Drained, amount) /\ Drained \in PayoutEntries
    BY DEF PostDrain, PayoutEntries
  <1>4. /\ TotalPaid(Drained)' = [TotalPaid(Drained) EXCEPT ![cur] = @ + amount]
        /\ TotalPaid(Withdrawn)' = TotalPaid(Withdrawn)
        /\ TotalPaid(Moved)' = TotalPaid(Moved)
        /\ TotalPaid(Settled)' = TotalPaid(Settled)
    BY <1>1, <1>3, EntryCounts DEF PayoutEntries
  <1>5. pc' = "settle" /\ cur' = cur /\ amount' = amount
    BY DEF PostDrain, Go
  <1>6. ASSUME NEW m \in Merchants  PROVE StagesOf(m)'
    <2>1. StagesOf(m)  BY DEF StagesSound
    <2>2. TotalPaid(Drained)'[m] = IF m = cur THEN TotalPaid(Drained)[m] + amount
                       ELSE TotalPaid(Drained)[m]
      BY <1>1, <1>4, StagesTyped DEF PayoutEntries
    <2>3. \A step \in {"save", "withdraw", "move", "drain", "settle"} :
            /\ Owed(m, {step}) = IF m = cur /\ pc = step THEN amount ELSE 0
            /\ Owed(m, {step})' \in {0, IF m = cur /\ pc' = step THEN amount ELSE 0}
      BY <1>1, <1>5 DEF Owed
    <2>4. QED
      BY <1>1, <1>2, <1>4, <1>5, <2>1, <2>2, <2>3, StagesTyped DEF StagesOf, PayoutEntries
  <1>7. TotalPaid(Drained)[cur] + amount <= StoredSucceeded[cur]
    <2>1. StagesOf(cur) /\ Owed(cur, {"drain"}) = amount
      BY <1>1 DEF StagesSound, Owed
    <2>2. QED  BY <2>1 DEF StagesOf
  <1>8. Stages!Drain(cur, amount)
    BY <1>2, <1>4, <1>7 DEF Stages!Drain, PayoutEntries
  <1>9. QED  BY <1>1, <1>6, <1>8 DEF StagesSound

(* The payout is settled.                                                  *)
LEMMA StagesSettle ==
  ASSUME SettlementSound, StagesSound, PayoutSized', PostSettled
  PROVE  StagesSound' /\ Stages!Settle(cur, amount) /\ cur \in Merchants
  <1>1. cur \in Merchants /\ pc = "settle"
    BY DEF PostSettled, SettlementSound, RunnerSound
  <1>2. /\ sent' = sent /\ confirmed' = confirmed
        /\ AllStored' = AllStored /\ StoredSucceeded' = StoredSucceeded
    BY StoredStays DEF PostSettled, bank
  <1>3. Insert(cur, "home", Settled, amount) /\ Settled \in PayoutEntries
    BY DEF PostSettled, PayoutEntries
  <1>4. /\ TotalPaid(Settled)' = [TotalPaid(Settled) EXCEPT ![cur] = @ + amount]
        /\ TotalPaid(Withdrawn)' = TotalPaid(Withdrawn)
        /\ TotalPaid(Moved)' = TotalPaid(Moved)
        /\ TotalPaid(Drained)' = TotalPaid(Drained)
    BY <1>1, <1>3, EntryCounts DEF PayoutEntries
  <1>5. pc' = "next"
    BY DEF PostSettled, GoOn
  <1>6. ASSUME NEW m \in Merchants  PROVE StagesOf(m)'
    <2>1. StagesOf(m)  BY DEF StagesSound
    <2>2. TotalPaid(Settled)'[m] = IF m = cur THEN TotalPaid(Settled)[m] + amount
                       ELSE TotalPaid(Settled)[m]
      BY <1>1, <1>4, StagesTyped DEF PayoutEntries
    <2>3. \A step \in {"save", "withdraw", "move", "drain", "settle"} :
            /\ Owed(m, {step}) = IF m = cur /\ pc = step THEN amount ELSE 0
            /\ Owed(m, {step})' \in {0, IF m = cur /\ pc' = step THEN amount ELSE 0}
      BY <1>1, <1>5 DEF Owed
    <2>4. QED
      BY <1>1, <1>2, <1>4, <1>5, <2>1, <2>2, <2>3, StagesTyped DEF StagesOf, PayoutEntries
  <1>7. TotalPaid(Settled)[cur] + amount <= TotalPaid(Drained)[cur]
    <2>1. StagesOf(cur) /\ Owed(cur, {"settle"}) = amount
      BY <1>1 DEF StagesSound, Owed
    <2>2. QED  BY <2>1 DEF StagesOf
  <1>8. Stages!Settle(cur, amount)
    BY <1>2, <1>4, <1>7 DEF Stages!Settle, PayoutEntries
  <1>9. QED  BY <1>1, <1>6, <1>8 DEF StagesSound

LEMMA StagesStep ==
  ASSUME LedgerConstants, SettlementConstants, SettlementSound, StagesSound,
         [SettlementNext]_svars
  PROVE  StagesSound' /\ [Stages!Next]_(Stages!totals)
  <1>1. PayoutSized'  BY SizedStays DEF StagesSound
  <1>2. pc \notin {"idle", "next"} => cur \in Merchants /\ amount \in 1..MaxPayoutMinor
    BY DEF SettlementSound, RunnerSound, StagesSound, PayoutSized
  <1>3. CASE UNCHANGED svars
    <2>1. posted' = posted  BY <1>3 DEF svars, books
    <2>2. QED
      BY <1>1, <1>3, <2>1, EntriesStay, StagesStay DEF svars, bank, StagesSound
  <1>4. CASE Collect
    <2>1. \A e \in PayoutEntries : TotalPaid(e)' = TotalPaid(e)
      BY <1>4, CollectAdds, EntriesOfPayouts
      DEF Collect, PayoutEntries, TotalPaid, SettlementSound, SettlementTypeOK
    <2>2. QED  BY <1>1, <1>4, <2>1, StagesStay DEF Collect, bank, StagesSound
  <1>5. CASE \/ StartRun \/ EndRun \/ TransferRefused \/ StatementFails \/ RunDies
             \/ InitFails \/ \E m \in Merchants : ReadBalance(m) \/ ReadFails(m)
    <2>1. /\ posted' = posted /\ payouts' = payouts
          /\ sent' = sent /\ confirmed' = confirmed
          /\ pc' \in {"idle", "next", "pay", "mark"}
      BY <1>5 DEF StartRun, EndRun, TransferRefused, StatementFails, RunDies, InitFails,
                  FinishInit, AfterInit, ReadBalance, ReadFails, GoOn, Go, books, bank
    <2>2. QED  BY <1>1, <2>1, EntriesStay, StagesStay DEF StagesSound
  <1>6. CASE TransferFails \/ \E status \in {"accepted", "succeeded"} : TransferTaken(status)
    <2>1. pc = "pay" /\ cur \in Merchants /\ amount \in 1..MaxPayoutMinor
      BY <1>2, <1>6 DEF TransferFails, TransferTaken
    <2>2. posted' = posted /\ payouts' = payouts
      BY <1>6 DEF TransferFails, TransferTaken, books
    <2>3. \/ pc' = "save" /\ cur' = cur /\ amount' = amount
          \/ pc' = "next"
      BY <1>6 DEF TransferFails, TransferTaken, GoOn
    <2>4. \/ confirmed' = confirmed
          \/ confirmed' = [confirmed EXCEPT ![cur] = @ + amount]
      BY <1>6 DEF TransferFails, TransferTaken
    <2>5. CASE sent' = sent /\ TransferFails
      <3>1. pc' = "next" /\ confirmed' = confirmed  BY <2>5 DEF TransferFails, GoOn
      <3>2. QED  BY <1>1, <2>2, <2>5, <3>1, EntriesStay, StagesStay DEF StagesSound
    <2>6. CASE sent' = [sent EXCEPT ![cur] = @ + amount]
      <3>1. StagesSound' /\ Stages!Send(cur, amount)
        BY <1>1, <2>1, <2>2, <2>3, <2>4, <2>6, StagesSend
      <3>2. QED  BY <2>1, <3>1 DEF Stages!Next
    <2>7. QED  BY <1>6, <2>5, <2>6 DEF TransferFails, TransferTaken
  <1>7. CASE SavePayout
    <2>1. StagesSound' /\ Stages!Store(cur, amount) /\ cur \in Merchants
      BY <1>1, <1>7, StagesSave
    <2>2. amount \in 1..MaxPayoutMinor  BY <1>2, <1>7 DEF SavePayout
    <2>3. QED  BY <2>1, <2>2 DEF Stages!Next
  <1>8. CASE PostWithdrawal
    <2>1. StagesSound' /\ Stages!Withdraw(cur, amount) /\ cur \in Merchants
      BY <1>1, <1>8, StagesWithdraw
    <2>2. amount \in 1..MaxPayoutMinor  BY <1>2, <1>8 DEF PostWithdrawal
    <2>3. QED  BY <2>1, <2>2 DEF Stages!Next
  <1>9. CASE PostMove
    <2>1. StagesSound' /\ Stages!Move(cur, amount) /\ cur \in Merchants
      BY <1>1, <1>9, StagesMove
    <2>2. amount \in 1..MaxPayoutMinor  BY <1>2, <1>9 DEF PostMove
    <2>3. QED  BY <2>1, <2>2 DEF Stages!Next
  <1>10. CASE MarkSucceeded
    <2>1. StagesSound' /\ Stages!Succeed(cur, amount) /\ cur \in Merchants
      BY <1>1, <1>10, StagesMark
    <2>2. amount \in 1..MaxPayoutMinor  BY <1>2, <1>10 DEF MarkSucceeded
    <2>3. QED  BY <2>1, <2>2 DEF Stages!Next
  <1>11. CASE PostDrain
    <2>1. StagesSound' /\ Stages!Drain(cur, amount) /\ cur \in Merchants
      BY <1>1, <1>11, StagesDrain
    <2>2. amount \in 1..MaxPayoutMinor  BY <1>2, <1>11 DEF PostDrain
    <2>3. QED  BY <2>1, <2>2 DEF Stages!Next
  <1>12. CASE PostSettled
    <2>1. StagesSound' /\ Stages!Settle(cur, amount) /\ cur \in Merchants
      BY <1>1, <1>12, StagesSettle
    <2>2. amount \in 1..MaxPayoutMinor  BY <1>2, <1>12 DEF PostSettled
    <2>3. QED  BY <2>1, <2>2 DEF Stages!Next
  <1>13. QED
    BY <1>3, <1>4, <1>5, <1>6, <1>7, <1>8, <1>9, <1>10, <1>11, <1>12
    DEF SettlementNext, Settle

(* Whatever fails and whenever a run dies, the money paid out goes through *)
(* the stages of PayoutStages: no total goes down or gets ahead of the one *)
(* before it, and none grows by more than one payout at a time.            *)
THEOREM SettlementImplementsStages ==
  ASSUME LedgerConstants, SettlementConstants
  PROVE  SettlementSpec => ImplementsPayoutStages
  <1>1. SettlementInit => StagesSound /\ Stages!Init
    <2> SUFFICES ASSUME SettlementInit  PROVE StagesSound /\ Stages!Init
      OBVIOUS
    <2>1. \A e \in PayoutEntries : TotalPaid(e) = [m \in Merchants |-> 0]
      BY EntriesOfPayouts, TotalsOfMerchant
      DEF SettlementInit, LedgerInit, TotalPaid, Total, PayoutEntries
    <2>2. \A m \in Merchants : Stored(m, "pending") = 0 /\ Stored(m, "succeeded") = 0
      BY DEF SettlementInit, Stored
    <2>3. /\ AllStored = [m \in Merchants |-> 0]
          /\ StoredSucceeded = [m \in Merchants |-> 0]
      BY <2>2 DEF AllStored, StoredSucceeded
    <2>4. pc = "idle" /\ sent = [m \in Merchants |-> 0] /\ confirmed = [m \in Merchants |-> 0]
      BY DEF SettlementInit
    <2>5. StagesSound
      BY <2>1, <2>3, <2>4 DEF StagesSound, StagesOf, PayoutSized, PayoutEntries, Owed
    <2>6. Stages!Init
      BY <2>1, <2>3, <2>4 DEF Stages!Init, Stages!totals, Stages!Nothing, PayoutEntries
    <2>7. QED  BY <2>5, <2>6
  <1>2. SettlementSound /\ StagesSound /\ [SettlementNext]_svars
          => StagesSound' /\ [Stages!Next]_(Stages!totals)
    BY StagesStep
  <1>3. QED
    BY <1>1, <1>2, AlwaysSettlementSound, PTL
    DEF SettlementSpec, ImplementsPayoutStages, Stages!Spec

=============================================================================
