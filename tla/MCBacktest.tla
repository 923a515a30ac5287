----------------------------- MODULE MCBacktest -----------------------------
(* Backtest on plain runs and walk-forwards of one and two symbols. *)
EXTENDS Backtest

Order == <<"A", "B", "C">>

Series(times, closes) == [i \in DOMAIN times |-> [ts |-> times[i], close |-> closes[i] * Unit]]

Raw(side) == [side |-> side, current |-> TRUE]
Old(side) == [side |-> side, current |-> FALSE]
Direct(type, symbol, price) ==
    [signal_type |-> type, symbol |-> symbol, price |-> price * Unit]

\* data.Signal objects: nothing, one, a reversal, and one of an earlier bar.
RawBatches == {<<>>, <<Raw("buy")>>, <<Raw("sell")>>, <<Raw("sell"), Raw("buy")>>,
               <<Old("sell")>>}

\* BacktestSignal objects, that can name another symbol, also one without bars.
DirectBatches == {<<>>, <<Direct("LONG", "A", 10)>>,
                  <<Direct("SHORT", "B", 20), Direct("LONG", "C", 10)>>,
                  <<Direct("CLOSE", "A", 20), Direct("LONG", "B", 10)>>}

MCInputs == {
    \* one symbol, up and down again
    [candles |-> [A |-> Series(<<1, 2, 3, 4>>, <<10, 20, 10, 15>>)],
     n_splits |-> 0, batches |-> RawBatches],
    \* two symbols at the same times
    [candles |-> [A |-> Series(<<1, 2, 3>>, <<10, 20, 10>>), B |-> Series(<<1, 2, 3>>, <<20, 10, 20>>)],
     n_splits |-> 0, batches |-> RawBatches],
    \* signals on the other symbol, which may have no bar yet
    [candles |-> [A |-> Series(<<1, 3>>, <<10, 20>>), B |-> Series(<<2>>, <<20>>)],
     n_splits |-> 0, batches |-> DirectBatches],
    \* two folds, the second half of each out of sample
    [candles |-> [A |-> Series(<<1, 2, 3, 4, 5, 6>>, <<10, 10, 20, 10, 20, 10>>)],
     n_splits |-> 2, batches |-> RawBatches],
    [candles |-> [A |-> Series(<<1, 2, 3, 4>>, <<10, 20, 20, 10>>),
                  B |-> Series(<<1, 2, 3, 4>>, <<20, 10, 10, 20>>)],
     n_splits |-> 2, batches |-> {<<>>, <<Raw("buy")>>, <<Raw("sell")>>}],
    \* a second symbol that starts later and has fewer bars
    [candles |-> [A |-> Series(<<1, 2, 3, 4>>, <<10, 20, 20, 10>>),
                  B |-> Series(<<3, 4, 5>>, <<10, 20, 10>>)],
     n_splits |-> 2, batches |-> DirectBatches],
    \* more folds than bars: every fold is empty
    [candles |-> [A |-> Series(<<1, 2>>, <<10, 20>>)],
     n_splits |-> 3, batches |-> RawBatches] }
=============================================================================
