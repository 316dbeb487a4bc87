--------------------------- MODULE MCNotifications ---------------------------
(* A notice for a merchant that answers, and one for a merchant whose      *)
(* endpoint never accepts.                                                 *)
EXTENDS Notifications

CONSTANTS n1, n2, acme, mute

OwnerOf == [n \in Notices |-> IF n = n2 THEN mute ELSE acme]
MuteMerchants == {mute}

=============================================================================
