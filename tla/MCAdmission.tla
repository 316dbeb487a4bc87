----------------------------- MODULE MCAdmission -----------------------------
(* Two callers, one phone and one email; M-Pesa, and cards, whose PSP is   *)
(* not configured. The limits are those of the code, made small.           *)
EXTENDS Admission, TLC

CONSTANTS a1, a2, phone, email

SomeCalls == {<<email>>, <<phone, email>>}
SomeOrders == {<<"mpesa_stk", "KES">>, <<"card", "USD">>}

CallerSymmetry == Permutations(Callers)

=============================================================================
