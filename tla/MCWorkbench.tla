----------------------------- MODULE MCWorkbench -----------------------------
(* Two symbols; the account holds both, and other programs may take one short. *)
EXTENDS Workbench, TLC

CONSTANTS A, B

MCSymbols == {A, B}
MCHoldings == {(A :> 1) @@ (B :> 1)}
=============================================================================
