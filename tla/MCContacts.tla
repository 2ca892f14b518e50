---------------------------- MODULE MCContacts -----------------------------
(* Names, addresses and pages as model values. *)
EXTENDS Contacts

CONSTANTS p1, n1, a1, a2

=============================================================================
