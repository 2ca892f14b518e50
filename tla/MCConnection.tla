--------------------------- MODULE MCConnection ---------------------------
(* Payments in and out of the account, in fees. *)
EXTENDS Connection

SomePayments == {-1, -6, 3}

=============================================================================
