------------------------------ MODULE MCMarket ------------------------------
(* STR and the USD of two gateways; the account is the high side of its     *)
(* trust lines, the other the low side, without a line for usdH.            *)
EXTENDS Market

CONSTANTS str, usdG, usdH, me, peer

MCCode == [c \in Currency |-> IF c = str THEN "STR" ELSE "USD"]
MCTrusted == {<<me, usdG>>, <<me, usdH>>, <<peer, usdG>>}

MCFavorites0 == <<<<str, usdG>>, <<usdH, str>>>>

MCBalance0 == [a \in {me, peer} |->
  [c \in Currency |-> CASE c = str -> 12
                       [] c = usdG -> IF a = me THEN 3 ELSE 0
                       [] c = usdH -> IF a = me THEN 2 ELSE 0]]

Pairing(g, n, p, m) == [gets |-> Amount(g, n), pays |-> Amount(p, m)]
Standing(a, n, terms) == terms @@ [account |-> a, sequence |-> n]

(* Two offers of the account on the same funds, one on either side of       *)
(* STR/usdH, and one of the other's that it may take.                       *)
MCOffers0 ==
  {Standing(me, 1, Pairing(usdG, 3, str, 6)), Standing(me, 2, Pairing(usdG, 2, str, 6)),
   Standing(me, 3, Pairing(usdH, 2, str, 4)), Standing(me, 4, Pairing(str, 2, usdH, 2)),
   Standing(peer, 1, Pairing(str, 2, usdG, 2))}

(* Among them: one that takes all of an offer and rests, one that takes a   *)
(* part, one at the price of a standing one, and one that gains the fee.    *)
MCOrders ==
  {Pairing(str, 2, usdG, 1), Pairing(str, 6, usdG, 3), Pairing(str, 6, usdG, 2),
   Pairing(usdG, 1, str, 2), Pairing(usdG, 4, str, 4), Pairing(usdG, 1, str, 1),
   Pairing(str, 4, usdH, 2), Pairing(usdH, 2, str, 2)}

=============================================================================
