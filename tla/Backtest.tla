------------------------------- MODULE Backtest -------------------------------
(***************************************************************************)
(* build_finance/backtest.py: Backtester.run over a merged timeline of     *)
(* bars, walk_forward (one run per fold, on fresh books) and monte_carlo   *)
(* over the completed trades, with the fills of orderbook.simulate_fill.   *)
(* The strategy is open: any batch of its batches can come at any bar.     *)
(* Prices, fills and money are whole numbers of 1/Unit, so that the sums   *)
(* are exact; the curve of a walk-forward keeps every point in the money   *)
(* of its fold, before the fold is scaled to where the previous one ended. *)
(***************************************************************************)
EXTENDS Integers, Sequences, FiniteSets, SequencesExt

CONSTANTS
    SymbolOrder,       \* the symbols, in the order of the candles' dict
    Inputs,            \* [candles, n_splits, batches]: see InputsAssumption
    InitialCapital,    \* config.initial_capital, in dollars
    MaxPositions,      \* config.max_positions
    RiskNum, RiskDen,  \* config.risk_per_trade
    SlipNum, SlipDen,  \* ExecutionConfig.slippage_bps / 10000
    ImpactNum, ImpactDen,                              \* market_impact_factor
    CommissionPerShare, CommissionMin, CommissionMax,  \* in 1/Unit dollars
    RatioNum, RatioDen \* walk_forward's in_sample_ratio

Symbols == ToSet(SymbolOrder)

Unit == SlipDen * ImpactDen

Prices == {price \in Nat : price > 0 /\ price % Unit = 0}

\* A data.Signal (is it stamped with this bar?) and a BacktestSignal.
RawSignals == [side : {"buy", "sell"}, current : BOOLEAN]
Signals == [signal_type : {"LONG", "SHORT", "CLOSE"}, symbol : Symbols, price : Prices]

\* A bar is a timestamp and a close.  n_splits is 0 for a plain run.  A batch is
\* what generate_signals returns at a bar.
ASSUME InputsAssumption ==
    \A input \in Inputs :
       /\ DOMAIN input.candles \subseteq Symbols
       /\ SymbolOrder[1] \in DOMAIN input.candles
       /\ \A s \in DOMAIN input.candles :
             /\ input.candles[s] \in Seq([ts : Nat, close : Prices])
             /\ \A i \in 2 .. Len(input.candles[s]) :
                   input.candles[s][i - 1].ts < input.candles[s][i].ts
       /\ input.n_splits \in Nat
       /\ input.batches \subseteq Seq(RawSignals \cup Signals)
ASSUME OrderAssumption == SymbolOrder \in Seq(Symbols)
ASSUME MoneyAssumption ==
    /\ InitialCapital \in Nat \ {0} /\ MaxPositions \in Nat
    /\ RiskNum \in Nat /\ RiskDen \in Nat \ {0}
    /\ SlipDen \in Nat \ {0} /\ SlipNum \in 0 .. SlipDen
    /\ ImpactDen \in Nat \ {0} /\ ImpactNum \in Nat
    /\ {CommissionPerShare, CommissionMin, CommissionMax} \subseteq Nat
    /\ RatioDen \in Nat \ {0} /\ RatioNum \in 0 .. RatioDen

VARIABLES
    pc,               \* where the call is
    input,            \* the arguments
    fold,             \* how many runs were started or skipped
    candles,          \* run: its candles, a fold's out-of-sample bars
    next_event,       \* run: position in the timeline
    bar_counts,       \* run: bars seen per symbol
    signals,          \* run: adapted signals not handled yet
    positions,        \* run: open positions, a partial function
    completed_trades, \* run: in the order they were closed
    equity,           \* run: marked to market after the last event
    equity_history,   \* run: the curve
    prev_ts,          \* run: the last timestamp with a point on the curve
    all_trades,       \* walk_forward: the trades of the folds so far
    all_equity,       \* walk_forward: [fold, equity], the chained curve
    result,           \* what the last run returned
    sim,              \* monte_carlo: one shuffle's final equity and drawdown
    bank              \* history: a cash account that settles every fill at once

run == <<candles, next_event, bar_counts, signals, positions, completed_trades,
         equity, equity_history, prev_ts, bank>>
vars == <<pc, input, fold, run, all_trades, all_equity, result, sim>>

Initial == InitialCapital * Unit
NoTime == -1
NoSim == [equity |-> Initial, drawdown |-> <<0, 1>>]

AtLeast(bound, n) == IF n < bound THEN bound ELSE n
AtMost(bound, n) == IF n > bound THEN bound ELSE n

-----------------------------------------------------------------------------
(* orderbook.simulate_fill and the round trip of a position *)

\* The impact is linear in the quantity and not bounded: a large sale fills
\* below zero.
Fill(price, quantity, side) ==
    LET sign == IF side = "buy" THEN 1 ELSE -1
    IN  (price * (SlipDen + sign * SlipNum)
               * (ImpactDen + sign * quantity * ImpactNum)) \div Unit

Commission(quantity) ==
    AtLeast(CommissionMin, AtMost(CommissionMax, quantity * CommissionPerShare))

\* Mutant: a position is closed on the side that opened it.
ExitSideSame(position) == position.side

ExitSide(position) == IF position.side = "buy" THEN "sell" ELSE "buy"

\* Mutant: a short's result has the sign of a long's.
PnlUnsigned(position, price) == (price - position.entry_price) * position.quantity

\* unrealized_pnl, and the pnl of the trade that closes at `price`.
Pnl(position, price) ==
    IF position.side = "buy" THEN (price - position.entry_price) * position.quantity
                             ELSE (position.entry_price - price) * position.quantity

Trade(symbol, position, price, ts) ==
    LET fill == Fill(price, position.quantity, ExitSide(position))
    IN  [symbol |-> symbol, quantity |-> position.quantity,
         entry_time |-> position.entry_time, exit_time |-> ts,
         pnl |-> Pnl(position, fill),
         commission |-> Commission(position.quantity) + position.commission]

NetPnl(trade) == trade.pnl - trade.commission

Results(trades) == [i \in DOMAIN trades |-> NetPnl(trades[i])]

Realized(trades) == SumFunction(Results(trades))

\* What the bank gains when `quantity` is traded on `side`.
Settled(price, quantity, side) ==
    LET fill == Fill(price, quantity, side)
    IN  (IF side = "buy" THEN -fill ELSE fill) * quantity - Commission(quantity)

-----------------------------------------------------------------------------
(* The timeline: one event per bar, by timestamp; the sort is stable, so bars *)
(* of one timestamp keep the order of the dict.                               *)

Position(s) == CHOOSE i \in DOMAIN SymbolOrder : SymbolOrder[i] = s

Before(e, f) ==
    \/ e.ts < f.ts
    \/ e.ts = f.ts /\ Position(e.symbol) < Position(f.symbol)

Bars(data) == UNION {{[ts |-> data[s][i].ts, symbol |-> s, index |-> i] :
                      i \in DOMAIN data[s]} : s \in DOMAIN data}

Sorted(bars) ==
    [n \in 1 .. Cardinality(bars) |->
        CHOOSE e \in bars : Cardinality({f \in bars : Before(f, e)}) = n - 1]

Timeline == Sorted(Bars(candles))

Event == Timeline[next_event]
Bar == candles[Event.symbol][Event.index]

\* The last close seen of a symbol; the entry price when there is none.
LastClose(s) ==
    IF s \in DOMAIN bar_counts /\ bar_counts[s] > 0
    THEN candles[s][bar_counts[s]].close
    ELSE positions[s].entry_price

-----------------------------------------------------------------------------
(* Statistics *)

\* The least (equity - peak) / peak along a curve, as a fraction, at most 0.
\* monte_carlo follows the equity after each result in the same way.
MaxDrawdown(curve) ==
    FoldLeft(LAMBDA acc, now :
        LET peak == AtLeast(now, acc.peak)
            less == (now - peak) * acc.drawdown[2] < acc.drawdown[1] * peak
        IN  [peak |-> peak,
             drawdown |-> IF peak > 0 /\ less THEN <<now - peak, peak>> ELSE acc.drawdown],
        [peak |-> curve[1], drawdown |-> <<0, 1>>], curve).drawdown

\* _compute_metrics, without the statistics of the daily returns.
Metrics(curve, trades) ==
    LET results == Results(trades)
        wins    == {i \in DOMAIN results : results[i] > 0}
        losses  == {i \in DOMAIN results : results[i] < 0}
    IN  [final_equity |-> curve[Len(curve)], max_drawdown |-> MaxDrawdown(curve),
         num_trades |-> Len(trades),
         winning_trades |-> Cardinality(wins), losing_trades |-> Cardinality(losses),
         gross_profit |-> SumFunction(Restrict(results, wins)),
         gross_loss |-> -SumFunction(Restrict(results, losses))]

-----------------------------------------------------------------------------
Init ==
    /\ pc = "call"
    /\ input \in Inputs
    /\ fold = 0
    /\ candles = input.candles
    /\ next_event = 1
    /\ bar_counts = [s \in DOMAIN candles |-> 0]
    /\ signals = <<>>
    /\ positions = [s \in {} |-> 0]
    /\ completed_trades = <<>>
    /\ equity = Initial
    /\ equity_history = <<Initial>>
    /\ prev_ts = NoTime
    /\ all_trades = <<>>
    /\ all_equity = <<[fold |-> 0, equity |-> Initial]>>
    /\ result = Metrics(<<Initial>>, <<>>)
    /\ sim = NoSim
    /\ bank = Initial

\* The first lines of run: everything but the candles starts afresh.
FreshRun(bars) ==
    /\ pc' = "bar"
    /\ candles' = bars
    /\ next_event' = 1
    /\ bar_counts' = [s \in DOMAIN bars |-> 0]
    /\ signals' = <<>>
    /\ positions' = [s \in {} |-> 0]
    /\ completed_trades' = <<>>
    /\ equity' = Initial
    /\ equity_history' = <<Initial>>
    /\ prev_ts' = NoTime
    /\ bank' = Initial

StartRun ==
    /\ pc = "call" /\ input.n_splits = 0 /\ fold = 0
    /\ fold' = 1
    /\ FreshRun(input.candles)
    /\ UNCHANGED <<input, all_trades, all_equity, result, sim>>

\* Mutant: the folds share the end of the data.
FoldBarsToTheEnd(k) ==
    LET first == SymbolOrder[1]
        size  == Len(input.candles[first]) \div input.n_splits
        split == (k - 1) * size + (size * RatioNum) \div RatioDen
    IN  [s \in DOMAIN input.candles |->
            SubSeq(input.candles[s], split + 1, Len(input.candles[s]))]

\* The out-of-sample bars of the k-th fold.  The bounds are positions in the
\* first symbol's bars; the other symbols are cut at the same positions.
FoldBars(k) ==
    LET first == SymbolOrder[1]
        size  == Len(input.candles[first]) \div input.n_splits
        split == (k - 1) * size + (size * RatioNum) \div RatioDen
        end   == k * size
    IN  [s \in DOMAIN input.candles |->
            SubSeq(input.candles[s], split + 1,
                   AtMost(Len(input.candles[s]), end))]

StartFold ==
    /\ pc = "call" /\ fold < input.n_splits
    /\ FoldBars(fold + 1)[SymbolOrder[1]] # <<>>
    /\ fold' = fold + 1
    /\ FreshRun(FoldBars(fold + 1))
    /\ UNCHANGED <<input, all_trades, all_equity, result, sim>>

SkipFold ==
    /\ pc = "call" /\ fold < input.n_splits
    /\ FoldBars(fold + 1)[SymbolOrder[1]] = <<>>
    /\ fold' = fold + 1
    /\ UNCHANGED <<pc, input, run, all_trades, all_equity, result, sim>>

-----------------------------------------------------------------------------
(* One event of the timeline *)

\* A data.Signal becomes a close when a position of the other side is open.
\* The book is the one before any signal of the batch is handled.
Adapted(raw) ==
    LET s      == Event.symbol
        closes(side) == s \in DOMAIN positions /\ positions[s].side = side
        type   == IF raw.side = "buy" THEN IF closes("sell") THEN "CLOSE" ELSE "LONG"
                                      ELSE IF closes("buy") THEN "CLOSE" ELSE "SHORT"
    IN  IF "signal_type" \in DOMAIN raw THEN raw
        ELSE [signal_type |-> type, symbol |-> s, price |-> Bar.close]

IsCurrent(raw) == "signal_type" \in DOMAIN raw \/ raw.current

Kept(batch) ==
    FoldLeft(LAMBDA kept, raw : IF IsCurrent(raw) THEN Append(kept, Adapted(raw)) ELSE kept,
             <<>>, batch)

NextBar ==
    /\ pc = "bar" /\ next_event <= Len(Timeline)
    /\ bar_counts' = [bar_counts EXCEPT ![Event.symbol] = Event.index]
    /\ \E batch \in input.batches : signals' = Kept(batch)
    /\ pc' = "signals"
    /\ UNCHANGED <<input, fold, candles, next_event, positions, completed_trades, equity,
                   equity_history, prev_ts, bank, all_trades, all_equity, result, sim>>

CloseAt(s, price, ts) ==
    /\ positions' = Restrict(positions, DOMAIN positions \ {s})
    /\ completed_trades' = Append(completed_trades, Trade(s, positions[s], price, ts))
    /\ bank' = bank + Settled(price, positions[s].quantity, ExitSide(positions[s]))

Close ==
    /\ pc = "signals" /\ signals # <<>>
    /\ signals[1].signal_type = "CLOSE"
    /\ signals[1].symbol \in DOMAIN positions
    /\ CloseAt(signals[1].symbol, signals[1].price, Event.ts)
    /\ signals' = Tail(signals)
    /\ UNCHANGED <<pc, input, fold, candles, next_event, bar_counts, equity,
                   equity_history, prev_ts, all_trades, all_equity, result, sim>>

Side(signal) == IF signal.signal_type = "LONG" THEN "buy" ELSE "sell"

\* Mutant: an open symbol may be opened again.
CanOpenAgain(signal) ==
    /\ signal.signal_type \in {"LONG", "SHORT"}
    /\ Cardinality(DOMAIN positions) < MaxPositions
    /\ Fill(signal.price, 1, Side(signal)) > 0

CanOpen(signal) ==
    /\ signal.signal_type \in {"LONG", "SHORT"}
    /\ signal.symbol \notin DOMAIN positions
    /\ Cardinality(DOMAIN positions) < MaxPositions
    /\ Fill(signal.price, 1, Side(signal)) > 0

\* Sized with the fill of one share and the equity after the previous event;
\* filled at the price of the whole quantity.
Open ==
    /\ pc = "signals" /\ signals # <<>> /\ CanOpen(signals[1])
    /\ LET signal   == signals[1]
           side     == Side(signal)
           quantity == AtLeast(1, (RiskNum * equity) \div
                                  (RiskDen * Fill(signal.price, 1, side)))
       IN  /\ positions' = [s \in DOMAIN positions \cup {signal.symbol} |->
                               IF s # signal.symbol THEN positions[s]
                               ELSE [side |-> side, quantity |-> quantity,
                                     entry_price |-> Fill(signal.price, quantity, side),
                                     entry_time |-> Event.ts,
                                     commission |-> Commission(quantity)]]
           /\ bank' = bank + Settled(signal.price, quantity, side)
    /\ signals' = Tail(signals)
    /\ UNCHANGED <<pc, input, fold, candles, next_event, bar_counts, completed_trades,
                   equity, equity_history, prev_ts, all_trades, all_equity, result, sim>>

IgnoreSignal ==
    /\ pc = "signals" /\ signals # <<>>
    /\ ~CanOpen(signals[1])
    /\ ~(signals[1].signal_type = "CLOSE" /\ signals[1].symbol \in DOMAIN positions)
    /\ signals' = Tail(signals)
    /\ UNCHANGED <<pc, input, fold, candles, next_event, bar_counts, positions,
                   completed_trades, equity, equity_history, prev_ts, bank, all_trades,
                   all_equity, result, sim>>

Marked ==
    Initial + Realized(completed_trades)
    + SumFunction([s \in DOMAIN positions |-> Pnl(positions[s], LastClose(s))])

\* The curve gets one point per timestamp, after the first of its events.
MarkToMarket ==
    /\ pc = "signals" /\ signals = <<>>
    /\ equity' = Marked
    /\ equity_history' = IF Event.ts # prev_ts THEN Append(equity_history, equity')
                                               ELSE equity_history
    /\ prev_ts' = Event.ts
    /\ next_event' = next_event + 1
    /\ pc' = "bar"
    /\ UNCHANGED <<input, fold, candles, bar_counts, signals, positions,
                   completed_trades, bank, all_trades, all_equity, result, sim>>

-----------------------------------------------------------------------------
(* The end of a run *)

\* What is left is closed at the last closes, oldest position first in the
\* code, here in any order; the curve does not see it.
CloseRemaining ==
    /\ pc = "bar" /\ next_event > Len(Timeline)
    /\ \E s \in DOMAIN positions :
          CloseAt(s, LastClose(s), Timeline[Len(Timeline)].ts)
    /\ UNCHANGED <<pc, input, fold, candles, next_event, bar_counts, signals, equity,
                   equity_history, prev_ts, all_trades, all_equity, result, sim>>

EndRun ==
    /\ pc = "bar" /\ next_event > Len(Timeline) /\ DOMAIN positions = {}
    /\ all_trades' = all_trades \o completed_trades
    /\ all_equity' = all_equity \o
          [i \in 1 .. (Len(equity_history) - 1) |->
              [fold |-> fold, equity |-> equity_history[i + 1]]]
    /\ pc' = "call"
    /\ result' = Metrics(equity_history, completed_trades)
    /\ UNCHANGED <<input, fold, run, sim>>

Finished == pc = "call" /\ fold >= AtLeast(1, input.n_splits)

-----------------------------------------------------------------------------
(* monte_carlo *)

\* Mutant: a simulation leaves out the last result.
EquitiesShort(pnls) ==
    LET sum[i \in 0 .. Len(pnls)] == IF i = 0 THEN Initial ELSE sum[i - 1] + pnls[i]
    IN  [i \in 1 .. Len(pnls) |-> sum[i - 1]]

\* The equity after each of the shuffled results.
Equities(pnls) ==
    LET sum[i \in 0 .. Len(pnls)] == IF i = 0 THEN Initial ELSE sum[i - 1] + pnls[i]
    IN  [i \in 1 .. (Len(pnls) + 1) |-> sum[i - 1]]

MonteCarlo ==
    /\ Finished /\ all_trades # <<>>
    /\ \E order \in SetToSeqs(DOMAIN all_trades) :
          LET curve == Equities([i \in DOMAIN order |-> NetPnl(all_trades[order[i]])])
          IN  sim' = [equity |-> curve[Len(curve)], drawdown |-> MaxDrawdown(curve)]
    /\ pc' = "simulated"
    /\ UNCHANGED <<input, fold, run, all_trades, all_equity, result>>

-----------------------------------------------------------------------------
Next ==
    \/ StartRun \/ StartFold \/ SkipFold
    \/ NextBar \/ Close \/ Open \/ IgnoreSignal \/ MarkToMarket
    \/ CloseRemaining \/ EndRun
    \/ MonteCarlo

Spec == Init /\ [][Next]_vars

-----------------------------------------------------------------------------
(* Properties *)

Shares(s) == IF positions[s].side = "buy" THEN positions[s].quantity
                                          ELSE -positions[s].quantity

\* The close of the latest bar of s among the events already taken.
CloseOnTheTape(s) ==
    LET taken == {n \in 1 .. (next_event - 1) : Timeline[n].symbol = s}
    IN  IF taken = {} THEN positions[s].entry_price
        ELSE candles[s][Timeline[Max(taken)].index].close

\* The cash of an account that settles every fill, the open shares at the last
\* close, and the entry commissions the backtester only charges at the exit.
BankEquity ==
    bank + SumFunction([s \in DOMAIN positions |->
                            Shares(s) * CloseOnTheTape(s) + positions[s].commission])

\* The equity of run (backtest.py:406-419), which sums round trips and
\* unrealised results, is that of a bank account settling every fill, at every
\* event and, once a run has closed everything, to the last unit: long or short,
\* with slippage, impact and both commissions.
EquityIsBankEquity ==
    /\ pc = "bar" /\ next_event <= Len(Timeline) => equity = BankEquity
    /\ pc = "call" /\ fold > 0 => bank = Initial + Realized(completed_trades)

\* The result of a run on one symbol flatters its trades: final_equity, and with
\* it total_return, never lies below what the wins and losses of the same result
\* add up to, because the liquidation of lines 425-453 costs slippage, impact and
\* commissions the curve does not contain; they agree when no liquidation was
\* needed after the last bar.  (With several symbols the last point is taken
\* before the last bars of the others: lines 421-423.  A position without bars is
\* closed at its entry price, and a short so large that it filled below zero is
\* then bought back below that.)
CurveFlattersTrades ==
    /\ pc = "call" /\ fold > 0 /\ Cardinality(DOMAIN input.candles) = 1
    /\ \A i \in DOMAIN completed_trades : completed_trades[i].symbol \in DOMAIN input.candles
    => LET earned == Initial + result.gross_profit - result.gross_loss
           open   == \E i \in DOMAIN completed_trades :
                        completed_trades[i].exit_time = Timeline[Len(Timeline)].ts
       IN  /\ result.final_equity >= earned
           /\ result.final_equity > earned => open

SameTimes ==
    \A s, t \in DOMAIN input.candles :
       /\ Len(input.candles[s]) = Len(input.candles[t])
       /\ \A i \in DOMAIN input.candles[s] :
             input.candles[s][i].ts = input.candles[t][i].ts

\* Two trades of one symbol never overlap in time, over all the folds of a
\* walk-forward (lines 347-453 and 482-504), when the symbols have their bars at
\* the same times.  The folds are cut by position in the first symbol's bars, so
\* without that the folds overlap.
TradesDoNotOverlap ==
    SameTimes =>
       \A i, j \in DOMAIN all_trades :
          i < j /\ all_trades[i].symbol = all_trades[j].symbol =>
             all_trades[i].exit_time <= all_trades[j].entry_time

Loss(trade) == AtLeast(0, -NetPnl(trade))

\* Whatever the shuffle (lines 541-560), a simulation ends where the trades do:
\* its returns are one number, and only drawdowns differ.  A drawdown exists
\* exactly when some trade lost, and is at most that of the losses in a row.
SimulationsAgree ==
    pc = "simulated" =>
       LET losses == SumFunction([i \in DOMAIN all_trades |-> Loss(all_trades[i])])
       IN  /\ sim.equity = Initial + Realized(all_trades)
           /\ sim.drawdown[1] * Initial >= -(losses * sim.drawdown[2])
           /\ sim.drawdown[1] < 0 <=> losses > 0

\* Quantities follow the book of PositionBook: a symbol is opened once, within
\* max_positions, and closed whole, long or short.
Book == INSTANCE PositionBook WITH book <- [s \in DOMAIN positions |-> positions[s].quantity]

\* The positions of a run implement PositionBook: nothing the signals of a batch
\* ask for (lines 347-404) and no end of a run or fold breaks it.
ImplementsPositionBook == Book!BookSpec
=============================================================================
