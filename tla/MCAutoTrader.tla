---------------------------- MODULE MCAutoTrader ----------------------------
(* AutoTrader on two symbols and two prices. *)
EXTENDS AutoTraderProps, TLC

CONSTANTS A, B

Two == {A, B}
Lists == {<<A>>, <<A, B>>}

MCPrices == {10, 24}

\* A strategy that only ever buys, and one that does anything.
MCStrategies == [momentum |-> {"none", "buy"}, ensemble |-> Signals]
=============================================================================
