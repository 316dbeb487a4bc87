---------------------------- MODULE PaymentStates ----------------------------
(***************************************************************************)
(* The payment intent state machine: the statuses a payment intent may     *)
(* have and the table of transitions the orchestrator consults before it   *)
(* writes one.                                                             *)
(***************************************************************************)

PIStatuses == {"created", "requires_action", "processing", "succeeded",
               "failed", "expired", "partially_refunded", "refunded"}

(* Variant: a table that lets a payment succeed before it waits for a payer. *)
transitionsEager ==
  UNION { {"created", "requires_action", "processing"} \X {"succeeded", "failed"},
          {"created"} \X {"requires_action", "processing"} }

(* The transition table, as a set of edges: a status with no edge leaving  *)
(* it is terminal.                                                         *)
transitions ==
  UNION { {"created"}         \X {"requires_action", "processing", "failed", "expired"},
          {"requires_action"} \X {"succeeded", "processing", "failed", "expired"},
          {"processing"}      \X {"succeeded", "failed", "requires_action"},
          {"succeeded"}       \X {"partially_refunded", "refunded"} }

IsValidTransition(from, to) == <<from, to>> \in transitions

(* The statuses a PSP can report that move a payment to its end.           *)
Verdicts == {"succeeded", "failed"}

=============================================================================
