------------------------ MODULE MCTransactionHistory ------------------------
(* The second transaction is a trade, the others are payments. *)
EXTENDS TransactionHistory

CONSTANTS payments, trades

MCPasses == [r \in Reader |-> IF r = trades THEN {2} ELSE Tx \ {2}]

=============================================================================
