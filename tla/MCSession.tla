---------------------------- MODULE MCSession -----------------------------
(* Tabs and users as model values. *)
EXTENDS Session

CONSTANTS t1, t2, u1

=============================================================================
