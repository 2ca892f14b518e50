------------------------------ MODULE MCPayment ------------------------------
(* The instance of Payment that TLC checks. *)
EXTENDS Payment

CONSTANTS alice, bob, gateway, bobName, dt1, dt2, str1, str9, usd1

MCInputs == {[who |-> alice, dt |-> None],
             [who |-> bob, dt |-> None], [who |-> bobName, dt |-> None],
             [who |-> gateway, dt |-> None], [who |-> gateway, dt |-> dt1]}
MCFederation == [n \in Name |-> [address |-> bob, tag |-> None]]
MCUnderfunds == {<<bob, str1>>}
=============================================================================
