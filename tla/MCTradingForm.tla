--------------------------- MODULE MCTradingForm ---------------------------
(* m1 and m2 are the account's offers, x1 another's. *)
EXTENDS TradingForm, TLC

CONSTANTS btc, usd, m1, m2, x1

MCPairOf == [o \in Offer |-> btc]

MCSymmetry == Permutations({m1, m2})

=============================================================================
