---------------------------- MODULE MCGateways -----------------------------
(* One gateway issues two currencies, the other one. *)
EXTENDS Gateways

CONSTANTS justcoin, ripplefox, usd, btc, cny

MCCurrenciesOf == [d \in Domain |-> IF d = justcoin THEN {usd, btc} ELSE {cny}]

=============================================================================
