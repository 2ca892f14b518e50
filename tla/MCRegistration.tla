--------------------------- MODULE MCRegistration ---------------------------
(* The instance of Registration that TLC checks. *)
EXTENDS Registration

CONSTANTS alice, bob, ill, p1

=============================================================================
