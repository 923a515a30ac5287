-------------------------- MODULE AutoTraderProps --------------------------
(* What AutoTrader promises, and what its documentation says of it. *)
EXTENDS AutoTrader

-----------------------------------------------------------------------------
(* Types *)

Labels == {"idle", "while", "for", "fetch", "mark", "signals", "snapshot", "decide",
           "limit", "sleep", "done"}

Position ==
    [quantity : Nat \ {0}, avg_cost : [num : Nat, den : Nat \ {0}], market_price : Nat]

Trade == [symbol : Symbols, side : Sides, quantity : Nat \ {0},
          filled_price : Nat, commission : Nat, notional : Nat]

BrokerTypeOK ==
    /\ cash \in Int
    /\ DOMAIN positions \subseteq Symbols
    /\ \A s \in DOMAIN positions : positions[s] \in Position
    /\ DOMAIN latest_prices \subseteq Symbols
    /\ \A s \in DOMAIN latest_prices : latest_prices[s] \in Prices
    /\ trades \in Seq(Trade)

LoopTypeOK ==
    /\ pc \in Labels
    /\ next_index \in Nat \ {0}
    /\ symbol \in Symbols \cup {NoSymbol}
    /\ close \in Prices \cup {0}
    /\ signal \in {"buy", "sell", "none"}
    /\ all_actions \in Seq(Nat) /\ actions_log \in Seq(Nat)
    /\ symbols \in Seq(Symbols)
    /\ strategy \in DOMAIN Strategies
    /\ history \subseteq Symbols
    /\ running \in BOOLEAN
    /\ iteration \in Nat
    /\ edits \in Nat

\* Every variable keeps its type; what a position or an order holds is the
\* interesting part: no position without shares, no order without a quantity.
TypeOK == BrokerTypeOK /\ LoopTypeOK

-----------------------------------------------------------------------------
(* Safety *)

NewOrder == Len(trades') > Len(trades)

LastOrder == trades'[Len(trades')]

\* "Maximum number of simultaneous open positions" (autotrader.py:59).
PositionLimit == Cardinality(DOMAIN positions) <= MaxPositions

\* Seen as a book of shares, every step of the trader opens a flat symbol below
\* the limit, closes an open one whole, or leaves the book alone.
Book == INSTANCE PositionBook WITH
            book <- Quantities(positions)

ImplementsPositionBook == Book!BookSpec

\* Every order fills one slippage away from the close this iteration fetched,
\* as its log entry says to the fourth decimal: never at a mark left by an
\* earlier fill or an earlier iteration.
FillsAtFreshClose ==
    [][NewOrder => LastOrder.filled_price
                       = Rounded(FilledPrice(LastOrder.side, close), PriceGrain)]_vars

\* An order trades at a price; it never leaves the account worth more.
OrdersNeverCreateEquity ==
    [][NewOrder => Equity(cash, positions)' <= Equity(cash, positions)]_vars

\* The actions log never names an order twice, nor out of order, whatever
\* iterations failed in between.
LogInOrder ==
    LET log == actions_log \o all_actions
    IN  /\ \A i \in DOMAIN log : log[i] \in DOMAIN trades
        /\ \A i, j \in DOMAIN log : i < j => log[i] < log[j]

\* A BUY is sized to the cash: at the close it decided on, the shares cost no
\* more than the account holds and half a cent, by which the cash that
\* get_account reports may exceed the cash there is (broker.py:152-156).
BuysFitCash ==
    [][NewOrder /\ LastOrder.side = "buy"
           => 2 * (close * LastOrder.quantity - cash) <= CentGrain]_vars

-----------------------------------------------------------------------------
(* Liveness *)

InLoop == pc \notin {"idle", "done"}

\* stop() ends a loop that has started.
StopEndsLoop == (InLoop /\ ~running) ~> pc = "done"

\* "Stop after this many iterations" (autotrader.py:334): a loop that goes on
\* completing iterations reaches its limit and returns.
LimitEndsLoop == []<><<EndIteration>>_vars => []<>(pc = "done")
=============================================================================
