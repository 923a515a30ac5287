----------------------------- MODULE AutoTrader -----------------------------
(***************************************************************************)
(* build_finance/autotrader.py driving a PaperBroker: the thread that runs *)
(* run_loop, and a second thread that calls stop, add_symbol,              *)
(* remove_symbol and set_strategy.  The broker is touched by the loop only,*)
(* so a step of the loop is the code between two accesses to state the     *)
(* threads share (running, config.symbols, strategy), to the network or to *)
(* the broker.  Which candles and signals come is left open; a strategy is *)
(* the set of signals it can generate.                                     *)
(***************************************************************************)
EXTENDS PaperBroker

CONSTANTS
    InitialLists,    \* what config.symbols can be at construction
    Strategies,      \* strategy name |-> the signals that strategy can end on
    MaxPositions,    \* config.max_positions
    RiskPercent,     \* config.risk_per_trade, in percent
    MaxIterations,   \* run_loop's max_iterations, NoLimit for None
    NoLimit,
    Prices,          \* closing prices the feed can report
    FetchOutcomes,   \* what a fetch can do here, a subset of Outcomes
    MaxOrders,       \* bound: orders per behaviour (no signal comes after it)
    MaxEdits,        \* bound: add_symbol, remove_symbol, set_strategy calls
    IterationBound   \* bound: the iteration counter saturates here

\* fetch_yahoo: 50 candles or more, fewer, [] after an error it swallowed, or an
\* exception it lets through.  It raises none of the exceptions _fetch_recent
\* catches, so the cached history of that handler is never returned.
Outcomes == {"enough", "short", "empty", "raise"}

Signals == {"buy", "sell", "none", "error"}

ASSUME PricesAssumption == Prices \subseteq Nat \ {0}
ASSUME InitialListsAssumption == InitialLists \subseteq Seq(Symbols)
ASSUME StrategiesAssumption ==
    /\ DOMAIN Strategies # {}
    /\ \A name \in DOMAIN Strategies :
          Strategies[name] \subseteq Signals /\ "none" \in Strategies[name]
ASSUME LimitsAssumption ==
    /\ MaxPositions \in Nat /\ RiskPercent \in Nat
    /\ NoLimit \notin Nat /\ MaxIterations \in Nat \cup {NoLimit}
ASSUME BoundsAssumption ==
    /\ FetchOutcomes \subseteq Outcomes
    /\ MaxOrders \in Nat /\ MaxEdits \in Nat /\ IterationBound \in Nat

VARIABLES
    pc,           \* where the loop's thread is
    next_index,   \* position of the `for symbol in self.config.symbols` iterator
    symbol,       \* the symbol in hand
    close,        \* candles[-1].close of that symbol
    signal,       \* signals[-1].side
    account,      \* _process_signals: broker.get_account()
    held,         \* _process_signals: broker.get_positions(), as quantities
    all_actions,  \* run_once: orders of this iteration, as indices of `trades`
    actions_log,  \* self._actions_log, likewise
    symbols,      \* self.config.symbols
    strategy,     \* self.strategy and config.strategy_name
    history,      \* self.history: symbols with candles from an earlier fetch
    running,      \* self.running
    iteration,    \* self.iteration
    edits         \* how many edits the other thread has made

locals == <<next_index, symbol, close, signal, account, held, all_actions>>
config == <<symbols, strategy, edits>>
vars == <<brokerVars, pc, locals, actions_log, config, history, running, iteration>>

NoSymbol == "none"
NoAccount == [equity |-> 0, cash |-> 0]

-----------------------------------------------------------------------------
Init ==
    /\ BrokerInit
    /\ pc = "idle"
    /\ next_index = 1 /\ symbol = NoSymbol /\ close = 0 /\ signal = "none"
    /\ account = NoAccount /\ held = NoFunction
    /\ all_actions = <<>> /\ actions_log = <<>>
    /\ symbols \in InitialLists
    /\ strategy \in DOMAIN Strategies
    /\ history = {}
    /\ running = FALSE
    /\ iteration = 0
    /\ edits = 0

\* The locals of one symbol are dead once it is done with.
ForgetSymbol ==
    /\ symbol' = NoSymbol /\ close' = 0 /\ signal' = "none"
    /\ account' = NoAccount /\ held' = NoFunction

\* run_loop is entered; it may be entered again after it returned.
EnterLoop ==
    /\ pc \in {"idle", "done"}
    /\ running' = TRUE
    /\ pc' = "while"
    /\ UNCHANGED <<brokerVars, locals, actions_log, config, history, iteration>>

\* Mutant: the loop does not look at the flag.
CheckRunningNever ==
    /\ pc = "while"
    /\ pc' = "for"
    /\ next_index' = 1
    /\ all_actions' = <<>>
    /\ UNCHANGED <<brokerVars, symbol, close, signal, account, held, actions_log,
                   config, history, running, iteration>>

\* while self.running: run_once starts, or the loop leaves through `finally`.
CheckRunning ==
    /\ pc = "while"
    /\ pc' = IF running THEN "for" ELSE "done"
    /\ next_index' = 1
    /\ all_actions' = <<>>
    /\ UNCHANGED <<brokerVars, symbol, close, signal, account, held, actions_log,
                   config, history, running, iteration>>

\* `for symbol in self.config.symbols`: a list iterator: an index compared with the list's length now.
NextSymbol ==
    /\ pc = "for"
    /\ next_index <= Len(symbols)
    /\ symbol' = symbols[next_index]
    /\ next_index' = next_index + 1
    /\ pc' = "fetch"
    /\ UNCHANGED <<brokerVars, close, signal, account, held, all_actions, actions_log,
                   config, history, running, iteration>>

\* Mutant: the list of this iteration's actions is not started afresh.
EndIterationKeepingActions ==
    /\ pc = "for"
    /\ next_index > Len(symbols)
    /\ actions_log' = actions_log \o all_actions
    /\ iteration' = IF iteration < IterationBound THEN iteration + 1 ELSE iteration
    /\ pc' = "limit"
    /\ UNCHANGED <<brokerVars, next_index, symbol, close, signal, account, held,
                   all_actions, config, history, running>>

\* run_once returns, and run_loop reads the account to log it.
EndIteration ==
    /\ pc = "for"
    /\ next_index > Len(symbols)
    /\ actions_log' = actions_log \o all_actions
    /\ all_actions' = <<>>
    /\ iteration' = IF iteration < IterationBound THEN iteration + 1 ELSE iteration
    /\ pc' = "limit"
    /\ UNCHANGED <<brokerVars, next_index, symbol, close, signal, account, held,
                   config, history, running>>

-----------------------------------------------------------------------------
(* _fetch_recent, and the length test in run_once *)

FetchEnough ==
    /\ pc = "fetch" /\ "enough" \in FetchOutcomes
    /\ close' \in Prices
    /\ history' = history \cup {symbol}
    /\ pc' = "mark"
    /\ UNCHANGED <<brokerVars, next_index, symbol, signal, account, held, all_actions,
                   actions_log, config, running, iteration>>

FetchShort ==
    /\ pc = "fetch" /\ "short" \in FetchOutcomes
    /\ history' = history \cup {symbol}
    /\ ForgetSymbol
    /\ pc' = "for"
    /\ UNCHANGED <<brokerVars, next_index, all_actions, actions_log, config, running, iteration>>

FetchEmpty ==
    /\ pc = "fetch" /\ "empty" \in FetchOutcomes
    /\ ForgetSymbol
    /\ pc' = "for"
    /\ UNCHANGED <<brokerVars, next_index, all_actions, actions_log, config, history,
                   running, iteration>>

\* The exception leaves run_once, whose local list of actions is lost, and is
\* logged by run_loop.
FetchRaises ==
    /\ pc = "fetch" /\ "raise" \in FetchOutcomes
    /\ ForgetSymbol
    /\ all_actions' = <<>>
    /\ pc' = "limit"
    /\ UNCHANGED <<brokerVars, next_index, actions_log, config, history, running, iteration>>

-----------------------------------------------------------------------------
(* The rest of run_once for one symbol *)

MarkToMarket ==
    /\ pc = "mark"
    /\ UpdatePrices(symbol, close)
    /\ pc' = "signals"
    /\ UNCHANGED <<locals, actions_log, config, history, running, iteration>>

\* A ValueError or ZeroDivisionError of the strategy skips the symbol; no
\* signals, or a last one that is neither buy nor sell, does as well.
GenerateSignals ==
    /\ pc = "signals"
    /\ \E generated \in Strategies[strategy] :
          /\ generated \in {"buy", "sell"} => Len(trades) < MaxOrders
          /\ IF generated \in {"buy", "sell"}
               THEN /\ signal' = generated
                    /\ pc' = "snapshot"
                    /\ UNCHANGED <<symbol, close, account, held>>
               ELSE /\ ForgetSymbol
                    /\ pc' = "for"
    /\ UNCHANGED <<brokerVars, next_index, all_actions, actions_log, config, history,
                   running, iteration>>

Quantities(book) == [s \in DOMAIN book |-> book[s].quantity]

\* _process_signals up to the decision.
TakeSnapshot ==
    /\ pc = "snapshot"
    /\ account' = GetAccount
    /\ held' = Quantities(positions)
    /\ UpdatePrices(symbol, close)
    /\ pc' = "decide"
    /\ UNCHANGED <<next_index, symbol, close, signal, all_actions, actions_log, config,
                   history, running, iteration>>

\* _position_size: int() of the risk budget over the price, at least one share.
PositionSize(price, equity) ==
    LET quantity == (equity * RiskPercent) \div (100 * price)
    IN  IF price <= 0 THEN 0 ELSE IF quantity < 1 THEN 1 ELSE quantity

Affordable(price, money) ==
    LET quantity == money \div price IN IF quantity < 1 THEN 1 ELSE quantity

\* The quantity a BUY asks for; 0 when it does not fit the cash.
BuyQuantity ==
    LET wanted  == PositionSize(close, account.equity)
        reduced == Affordable(close, account.cash)
    IN  IF close * wanted <= account.cash THEN wanted
        ELSE IF close * reduced <= account.cash THEN reduced ELSE 0

\* Mutant: the limit is compared with <=.
WantsBuyOneMore ==
    /\ signal = "buy" /\ symbol \notin DOMAIN held
    /\ Cardinality(DOMAIN held) <= MaxPositions
    /\ BuyQuantity \in Nat \ {0}

WantsBuy ==
    /\ signal = "buy" /\ symbol \notin DOMAIN held
    /\ Cardinality(DOMAIN held) < MaxPositions
    /\ BuyQuantity \in Nat \ {0}

WantsSell == signal = "sell" /\ symbol \in DOMAIN held /\ held[symbol] > 0

Order(side, quantity) ==
    /\ pc = "decide"
    /\ MarketOrder(symbol, side, quantity)
    /\ all_actions' = Append(all_actions, Len(trades) + 1)
    /\ ForgetSymbol
    /\ pc' = "for"
    /\ UNCHANGED <<next_index, actions_log, config, history, running, iteration>>

Buy == WantsBuy /\ Order("buy", BuyQuantity)

\* Mutant: a SELL is for one share.
SellOne == WantsSell /\ Order("sell", 1)

Sell == WantsSell /\ Order("sell", held[symbol])

Skip ==
    /\ pc = "decide" /\ ~WantsBuy /\ ~WantsSell
    /\ ForgetSymbol
    /\ pc' = "for"
    /\ UNCHANGED <<brokerVars, next_index, all_actions, actions_log, config, history,
                   running, iteration>>

-----------------------------------------------------------------------------
(* The end of an iteration of run_loop *)

\* Mutant: the limit only holds when it is hit exactly.
LimitHit == MaxIterations # NoLimit /\ iteration = MaxIterations

LimitReached == MaxIterations # NoLimit /\ iteration >= MaxIterations

CheckLimit ==
    /\ pc = "limit"
    /\ IF LimitReached THEN pc' = "done" /\ running' = FALSE
                       ELSE pc' = "sleep" /\ UNCHANGED running
    /\ UNCHANGED <<brokerVars, locals, actions_log, config, history, iteration>>

Wake ==
    /\ pc = "sleep"
    /\ pc' = "while"
    /\ UNCHANGED <<brokerVars, locals, actions_log, config, history, running, iteration>>

-----------------------------------------------------------------------------
(* The other thread *)

Stop ==
    /\ running' = FALSE
    /\ UNCHANGED <<brokerVars, pc, locals, actions_log, config, history, iteration>>

Edit ==
    /\ edits < MaxEdits
    /\ edits' = edits + 1
    /\ UNCHANGED <<brokerVars, pc, locals, actions_log, history, running, iteration>>

AddSymbol(s) ==
    /\ Edit
    /\ s \notin ToSet(symbols)
    /\ symbols' = Append(symbols, s)
    /\ UNCHANGED strategy

RemoveSymbol(s) ==
    /\ Edit
    /\ \E i \in 1 .. Len(symbols) :
          /\ symbols[i] = s
          /\ \A j \in 1 .. (i - 1) : symbols[j] # s
          /\ symbols' = RemoveAt(symbols, i)
    /\ UNCHANGED strategy

SetStrategy(name) ==
    /\ Edit
    /\ strategy' = name
    /\ UNCHANGED symbols

-----------------------------------------------------------------------------
LoopStep ==
    \/ CheckRunning \/ NextSymbol \/ EndIteration
    \/ FetchEnough \/ FetchShort \/ FetchEmpty \/ FetchRaises
    \/ MarkToMarket \/ GenerateSignals \/ TakeSnapshot
    \/ Buy \/ Sell \/ Skip
    \/ CheckLimit \/ Wake

OtherThread ==
    \/ Stop
    \/ \E s \in Symbols : AddSymbol(s) \/ RemoveSymbol(s)
    \/ \E name \in DOMAIN Strategies : SetStrategy(name)

Next == EnterLoop \/ LoopStep \/ OtherThread

Spec == Init /\ [][Next]_vars

\* Every call the loop makes returns: fetch_yahoo has a timeout, time.sleep
\* ends, the broker and the strategies compute.
FairSpec == Spec /\ WF_vars(LoopStep)
=============================================================================
