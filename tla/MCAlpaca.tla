------------------------------ MODULE MCAlpaca ------------------------------
(* One account, two programs, two symbols. *)
EXTENDS AlpacaTrading

CONSTANTS A, B

MCSymbols == {A, B}
MCList == <<A, B>>
=============================================================================
