----------------------------- MODULE MCSendPane -----------------------------
(* The instance of SendPane that TLC checks: two recipients, one of them a   *)
(* gateway that requires a destination tag.                                  *)
EXTENDS SendPane

CONSTANTS alice, gateway, dt1, str1, usd1

MCInputs == {[who |-> a, dt |-> None] : a \in Account}
MCFederation == [n \in Name |-> [address |-> alice, tag |-> None]]
=============================================================================
