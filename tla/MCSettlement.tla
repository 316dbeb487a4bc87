---------------------------- MODULE MCSettlement ----------------------------
(* Small instances of Settlement for TLC: m1 is paid out by Paystack, m2   *)
(* would be by M-Pesa. The fee is 1 for each amount when the minimum is 1; *)
(* without a minimum the smaller amount has none.                          *)
EXTENDS Settlement

CONSTANTS m1, m2, k1, k2, k3

Rails == [m \in Merchants |-> IF m = m1 THEN "paystack" ELSE "mpesa"]

PaidToBoth == [k \in Collections |-> IF k = k3 THEN m2 ELSE m1]
PaidToOne == [k \in Collections |-> m1]

AllHome == [k \in Collections |-> "home"]
SomeForeign == [k \in Collections |-> IF k = k2 THEN "foreign" ELSE "home"]

Amounts == [k \in Collections |-> IF k = k1 THEN 5 ELSE 3]

=============================================================================
