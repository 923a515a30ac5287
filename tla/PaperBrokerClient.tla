------------------------- MODULE PaperBrokerClient -------------------------
(***************************************************************************)
(* PaperBroker under a client that may issue any legal call in any order,  *)
(* and what the broker's books promise whatever that order is.             *)
(***************************************************************************)
EXTENDS PaperBroker

CONSTANTS
    FeedPrices,  \* prices a feed reports and a limit order may name
    OrderSizes,  \* order sizes
    OrderBound   \* bound: orders per behaviour

ASSUME ClientAssumption ==
    /\ FeedPrices \subseteq Nat \ {0}
    /\ OrderSizes \subseteq Nat \ {0}
    /\ OrderBound \in Nat

PlaceOrder ==
    /\ Len(trades) < OrderBound
    /\ \E symbol \in Symbols, side \in Sides, quantity \in OrderSizes,
          order_type \in {"market", "limit"}, limit_price \in FeedPrices \cup {NoPrice} :
          SubmitOrder(symbol, side, quantity, order_type, limit_price)

MarkSymbol == \E symbol \in Symbols, price \in FeedPrices : UpdatePrices(symbol, price)

ClientNext == PlaceOrder \/ MarkSymbol

ClientSpec == BrokerInit /\ [][ClientNext]_brokerVars

-----------------------------------------------------------------------------
(* Reading the trade log back *)

\* What a replay of a log makes of the initial capital.
ReplayedCash(log) ==
    FoldLeft(LAMBDA money, t :
                money + (IF t.side = "buy" THEN -t.notional ELSE t.notional) - t.commission,
             InitialCapital, log)

\* What it holds of a symbol: the clamp of `Sold` is the only difference from
\* bought minus sold.
ReplayedHolding(symbol, log) ==
    FoldLeft(LAMBDA held, t :
                IF t.symbol # symbol THEN held
                ELSE IF t.side = "buy" THEN held + t.quantity
                ELSE IF t.quantity < held THEN held - t.quantity ELSE 0,
             0, log)

HoldingAfter(symbol, n) == ReplayedHolding(symbol, SubSeq(trades, 1, n))

Holding(symbol) == IF symbol \in DOMAIN positions THEN positions[symbol].quantity ELSE 0

\* The fill prices, as logged, of the buys made since the symbol was last flat.
OpeningFills(symbol) ==
    { trades[i].filled_price : i \in
        { j \in DOMAIN trades :
            /\ trades[j].symbol = symbol /\ trades[j].side = "buy"
            /\ \A k \in j .. Len(trades) : HoldingAfter(symbol, k) > 0 } }

-----------------------------------------------------------------------------
(* Properties *)

\* The trade log is a sufficient record of the account as far as its rounding
\* goes.  The cash moves by exact figures and the log keeps rounded ones
\* (broker.py:233-279), so a replay of the log from the initial capital drifts
\* from the cash; every order adds at most half a cent for its notional and
\* half a ten-thousandth for its commission to that drift, in either direction
\* and however positions are opened, cut and closed in between.  Every holding is
\* what the log says to the share.
TradeLogReplays ==
    /\ LET drift == 2 * (cash - ReplayedCash(trades))
           most  == Len(trades) * (CentGrain + PriceGrain)
       IN  -most <= drift /\ drift <= most
    /\ \A s \in Symbols : Holding(s) = ReplayedHolding(s, trades)

\* The average cost reported for an open position lies between the cheapest and
\* the dearest buy since the symbol was last flat, to within the half
\* ten-thousandth by which a logged price differs from the fill: a close resets
\* it, a partial sell and a mark leave it alone.
AvgCostWithinFills ==
    \A s \in DOMAIN positions :
        LET cost == positions[s].avg_cost
        IN  /\ \E p \in OpeningFills(s) : (2 * p - PriceGrain) * cost.den <= 2 * cost.num
            /\ \E p \in OpeningFills(s) : 2 * cost.num <= (2 * p + PriceGrain) * cost.den
=============================================================================
