---------------------------- MODULE PaperBroker ----------------------------
(***************************************************************************)
(* The simulated broker of build_finance/broker.py (class PaperBroker).    *)
(* Every order is filled at once.  Money and prices are integers, in a     *)
(* unit finer than the fourth decimal, the finest the code rounds to: what *)
(* the code keeps as a float is exact to that unit (slippage is rounded    *)
(* down to it, average costs are fractions), and what it rounds for the    *)
(* log or for its caller is rounded.  `order_id`s are positions in         *)
(* `trades`, and `last_equity` is the newest entry of `equity_history`.    *)
(***************************************************************************)
EXTENDS Integers, Sequences, FiniteSets, SequencesExt

CONSTANTS
    Symbols,             \* the tickers a client may name
    InitialCapital,      \* initial_capital
    SlippageBps,         \* slippage_bps
    CommissionPerShare,  \* commission_per_share
    PriceGrain,          \* units in 0.0001, to which prices and commissions are logged
    CentGrain,           \* units in 0.01, to which money is logged and reported
    NoPrice              \* limit_price = None

ASSUME SymbolsAssumption == IsFiniteSet(Symbols)
ASSUME CostsAssumption ==
    InitialCapital \in Nat /\ SlippageBps \in Nat /\ CommissionPerShare \in Nat
ASSUME GrainsAssumption == PriceGrain \in Nat \ {0} /\ CentGrain \in Nat \ {0}
ASSUME NoPriceAssumption == NoPrice \notin Int

VARIABLES
    cash,           \* self.cash
    positions,      \* self.positions, a partial function on Symbols
    latest_prices,  \* self._latest_prices, a partial function on Symbols
    trades,         \* self.trades
    last_equity     \* self.equity_history[-1][1]

brokerVars == <<cash, positions, latest_prices, trades, last_equity>>

Sides == {"buy", "sell"}

-----------------------------------------------------------------------------
(* Helpers *)

NoFunction == [s \in {} |-> s]

With(f, s, value) ==
    [t \in DOMAIN f \cup {s} |-> IF t = s THEN value ELSE f[t]]

\* round(): to the nearest multiple, to the even one of two as near.
Rounded(amount, grain) ==
    LET whole == amount \div grain
        rest  == 2 * (amount % grain)
    IN  IF rest > grain \/ (rest = grain /\ whole % 2 = 1)
          THEN grain * (whole + 1) ELSE grain * whole

Equity(money, held) ==
    money + SumFunction([s \in DOMAIN held |-> held[s].quantity * held[s].market_price])

\* get_account: what a caller is told of the account.
GetAccount == [equity |-> Rounded(Equity(cash, positions), CentGrain),
               cash   |-> Rounded(cash, CentGrain)]

\* Market orders trade at the position's mark, else at the last price seen,
\* else at the limit price, else at 0.
BasePrice(symbol, order_type, limit_price) ==
    IF order_type = "limit" /\ limit_price # NoPrice
      THEN limit_price
    ELSE IF symbol \in DOMAIN positions /\ positions[symbol].market_price > 0
      THEN positions[symbol].market_price
    ELSE IF symbol \in DOMAIN latest_prices
      THEN latest_prices[symbol]
    ELSE IF limit_price # NoPrice THEN limit_price ELSE 0

Slip(price) == (price * SlippageBps) \div 10000

\* Mutant: slippage in the client's favour when selling.
FilledPriceAlwaysUp(side, base) == base + Slip(base)

FilledPrice(side, base) ==
    LET price == IF side = "buy" THEN base + Slip(base) ELSE base - Slip(base)
    IN  IF price < 0 THEN 0 ELSE price

\* Mutant: the commission of a sell is paid out instead of charged.
CashFlowPayingFee(side, quantity, price) ==
    IF side = "buy" THEN -(price * quantity + CommissionPerShare * quantity)
                    ELSE price * quantity + CommissionPerShare * quantity

CashFlow(side, quantity, price) ==
    LET notional   == price * quantity
        commission == CommissionPerShare * quantity
    IN  IF side = "buy" THEN -(notional + commission) ELSE notional - commission

-----------------------------------------------------------------------------
(* Positions: [quantity, avg_cost, market_price]; a cost is num/den. *)

Whole(n) == [num |-> n, den |-> 1]

\* Mutant: the total cost is divided by the size of the order.
BlendedCostPerOrder(pos, quantity, price) ==
    IF pos.quantity > 0
      THEN [num |-> pos.avg_cost.num * pos.quantity + price * quantity * pos.avg_cost.den,
            den |-> pos.avg_cost.den * quantity]
      ELSE Whole(price)

BlendedCost(pos, quantity, price) ==
    IF pos.quantity > 0
      THEN [num |-> pos.avg_cost.num * pos.quantity + price * quantity * pos.avg_cost.den,
            den |-> pos.avg_cost.den * (pos.quantity + quantity)]
      ELSE Whole(price)

Bought(pos, quantity, price) ==
    [quantity     |-> pos.quantity + quantity,
     avg_cost     |-> BlendedCost(pos, quantity, price),
     market_price |-> price]

\* Selling more than is held leaves the position flat, never short.
Sold(pos, quantity, price) ==
    IF pos.quantity - quantity <= 0
      THEN [quantity |-> 0, avg_cost |-> Whole(0), market_price |-> price]
      ELSE [quantity     |-> pos.quantity - quantity,
            avg_cost     |-> pos.avg_cost,
            market_price |-> price]

PositionOf(symbol, price) ==
    IF symbol \in DOMAIN positions
      THEN positions[symbol]
      ELSE [quantity |-> 0, avg_cost |-> Whole(0), market_price |-> price]

Settled(symbol, pos) ==
    IF pos.quantity = 0
      THEN Restrict(positions, DOMAIN positions \ {symbol})
      ELSE With(positions, symbol, pos)

-----------------------------------------------------------------------------
(* The operations *)

BrokerInit ==
    /\ cash = InitialCapital
    /\ positions = NoFunction
    /\ latest_prices = NoFunction
    /\ trades = <<>>
    /\ last_equity = InitialCapital

\* submit_order; a quantity that is not positive raises ValueError.
SubmitOrder(symbol, side, quantity, order_type, limit_price) ==
    /\ quantity > 0
    /\ LET price == FilledPrice(side, BasePrice(symbol, order_type, limit_price))
           pos   == PositionOf(symbol, price)
       IN  /\ cash' = cash + CashFlow(side, quantity, price)
           /\ positions' = Settled(symbol, IF side = "buy"
                                             THEN Bought(pos, quantity, price)
                                             ELSE Sold(pos, quantity, price))
           /\ trades' = Append(trades, [symbol       |-> symbol,
                                        side         |-> side,
                                        quantity     |-> quantity,
                                        filled_price |-> Rounded(price, PriceGrain),
                                        commission   |->
                                            Rounded(CommissionPerShare * quantity, PriceGrain),
                                        notional     |->
                                            Rounded(price * quantity, CentGrain)])
    /\ last_equity' = GetAccount.equity'
    /\ UNCHANGED latest_prices

MarketOrder(symbol, side, quantity) ==
    SubmitOrder(symbol, side, quantity, "market", NoPrice)

\* Mutant: held positions keep their old mark.
UpdatePricesUnheldOnly(symbol, price) ==
    /\ latest_prices' = With(latest_prices, symbol, price)
    /\ UNCHANGED <<cash, positions, trades>>
    /\ last_equity' = GetAccount.equity

\* update_prices({symbol: price})
UpdatePrices(symbol, price) ==
    /\ latest_prices' = With(latest_prices, symbol, price)
    /\ positions' = IF symbol \in DOMAIN positions
                      THEN [positions EXCEPT ![symbol].market_price = price]
                      ELSE positions
    /\ UNCHANGED <<cash, trades>>
    /\ last_equity' = GetAccount.equity'
=============================================================================
