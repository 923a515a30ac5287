---------------------------- MODULE PositionBook ----------------------------
(***************************************************************************)
(* What automated trading promises about positions, whatever the broker:   *)
(* a symbol is flat or open; a flat one is opened with some shares while   *)
(* fewer than MaxPositions are open; an open one is closed whole.  A       *)
(* position is never added to, reversed or closed in part.                 *)
(***************************************************************************)
EXTENDS Integers, FiniteSets, Functions

CONSTANTS Symbols, MaxPositions

VARIABLE book   \* the shares of every open symbol, a partial function

BookInit == DOMAIN book = {}

Open(s) ==
    /\ s \notin DOMAIN book
    /\ Cardinality(DOMAIN book) < MaxPositions
    /\ DOMAIN book' = DOMAIN book \cup {s}
    /\ book'[s] > 0
    /\ \A t \in DOMAIN book : book'[t] = book[t]

Close(s) ==
    /\ s \in DOMAIN book
    /\ book' = Restrict(book, DOMAIN book \ {s})

BookNext == \E s \in Symbols : Open(s) \/ Close(s)

BookSpec == BookInit /\ [][BookNext]_book
=============================================================================
