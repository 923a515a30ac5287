--------------------------- MODULE MCPaperBroker ---------------------------
(* PaperBroker on two symbols, two prices and orders of one or two shares. *)
EXTENDS PaperBrokerClient, TLC

CONSTANTS A, B

MCSymbols == {A, B}
MCPrices == {10, 14}
Swap == Permutations(MCSymbols)

=============================================================================
