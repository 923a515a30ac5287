------------------------------ MODULE Workbench ------------------------------
(***************************************************************************)
(* gui/: the dashboard with its DataBridge and the auto-trader page with   *)
(* its worker, in one window.  The window's thread serves one event at a   *)
(* time and is blocked while it waits for the broker or for the worker;    *)
(* the worker is a thread of its own, and Alpaca an external service.      *)
(* Time is counted in ticks; who has nothing to wait for acts before time  *)
(* goes on.                                                                *)
(***************************************************************************)
EXTENDS Integers, Sequences, FiniteSets

CONSTANTS
    Symbols,         \* the tickers the account may hold
    Holdings,        \* what the account may hold when the window opens
    CacheTtl,        \* DataBridge._cache_ttl
    RefreshPeriod,   \* the dashboard's timer
    Latency,         \* bound: ticks that a request takes
    WaitLimit,       \* the ticks that Stop waits for the worker
    Interval,        \* the worker's pause, in sleeps of one tick
    Work,            \* bound: ticks that one of the worker's symbols takes
    SymbolCount,     \* the symbols of the worker
    Slots,           \* bound: workers at a time
    MaxTrades        \* bound: trades of other programs

ASSUME HoldingsAssumption == Holdings \subseteq [Symbols -> Int]

ASSUME TimingAssumption ==
    /\ CacheTtl \in Nat \ {0} /\ RefreshPeriod \in Nat \ {0}
    /\ {Latency, WaitLimit, Interval, Work, SymbolCount, MaxTrades} \subseteq Nat
    /\ Work < WaitLimit /\ 1 < WaitLimit    \* a symbol is a random choice, a sleep one second

VARIABLES
    shares,      \* what the account holds, below 0 when short: at Alpaca
    live,        \* the bridge has a broker
    cache,       \* DataBridge._cache
    shown,       \* what the dashboard shows
    timer,       \* ticks since the refresh timer went off, at most its period
    gui,         \* what the window's thread does
    closing,     \* flatten_all: the positions it has not come to yet
    announced,   \* what the last of the two buttons did, until the next refresh
    page,        \* the auto-trader page: running or not, and its worker
    workers,     \* the worker threads
    trades       \* trades of other programs so far

bridgeVars == <<live, cache, shown, timer, closing, announced>>
pageVars == <<page, workers>>
vars == <<shares, bridgeVars, gui, pageVars, trades>>

Keys == {"account", "positions"}
Old == CacheTtl + RefreshPeriod

\* What is served under a key: the ticks since it was cached and (history)
\* whether the dashboard has ordered anything since.  Figures of the demo, of a
\* bridge without a broker or after a failed request, are cached and shown
\* exactly like those of the account.
Figures(there, age) == [there |-> there, age |-> age, outdated |-> FALSE]
NoCache == [k \in Keys |-> Figures(FALSE, CacheTtl)]

Doing(task, key, left) == [task |-> task, key |-> key, left |-> left, waited |-> 0]

Idle == Doing("idle", "none", 0)
Get(key) == Doing("get", key, 0)
Ask(key, left) == Doing("ask", key, left)
Flatten(button) == Doing("flatten", button, 0)
Close(button) == Doing("close", button, 0)
Join == Doing("join", "none", 0)

NoPositions == [s \in {} |-> 0]
\* Which button, how many positions it says were closed; and (history) its
\* orders, what the account held when it was asked, and whether it failed.
Activity(button) ==
    [button |-> button, done |-> FALSE, count |-> 0, orders |-> <<>>, held |-> NoPositions, failed |-> FALSE]

NoWorker == [at |-> "none", running |-> FALSE, symbol |-> 0, elapsed |-> 0, spent |-> 0]
NewWorker == [at |-> "symbols", running |-> TRUE, symbol |-> 1, elapsed |-> 0, spent |-> 0]
Alive == {w \in Slots : workers[w].at # "none"}

Init ==
    /\ shares \in Holdings
    /\ live \in BOOLEAN
    /\ cache = NoCache /\ timer = 0
    /\ shown = [k \in Keys |-> Figures(FALSE, Old)]
    /\ gui = Get("account") /\ closing = NoPositions /\ announced = Activity("none")
    /\ page = [running |-> FALSE, worker |-> 0]
    /\ workers = [w \in Slots |-> NoWorker]
    /\ trades = 0

-----------------------------------------------------------------------------
(* DataBridge: get_account, then get_positions, as _load_data asks for them *)

\* Mutant: what is cached is served for ever.
FreshOnceCached(key) == cache[key].there

Fresh(key) == cache[key].there /\ cache[key].age < CacheTtl

Requests(key) == IF key = "account" THEN 2 ELSE 1
After(key) == IF key = "account" THEN Get("positions") ELSE Idle

Show(key, figures) ==
    /\ shown' = [shown EXCEPT ![key] = figures]
    /\ gui' = After(key)

Fetched(key) ==
    /\ cache' = [cache EXCEPT ![key] = Figures(TRUE, 0)]
    /\ Show(key, Figures(TRUE, 0))

GetFigures ==
    /\ gui.task = "get"
    /\ LET key == gui.key
       IN  \/ Fresh(key) /\ Show(key, cache[key]) /\ UNCHANGED cache
           \/ ~Fresh(key) /\ ~live /\ Fetched(key)
           \/ ~Fresh(key) /\ live /\ gui' = Ask(key, Requests(key)) /\ UNCHANGED <<cache, shown>>
    /\ UNCHANGED <<shares, live, timer, closing, announced, pageVars, trades>>

\* The last answer is what is shown, or the demo as soon as a request fails.
Answered ==
    /\ gui.task = "ask"
    /\ \/ gui.left > 1 /\ gui' = Ask(gui.key, gui.left - 1) /\ UNCHANGED <<cache, shown>>
       \/ Fetched(gui.key)
    /\ UNCHANGED <<shares, live, timer, closing, announced, pageVars, trades>>

\* The dashboard's timer.
Timeout ==
    /\ gui = Idle /\ timer = RefreshPeriod
    /\ gui' = Get("account") /\ timer' = 0
    /\ announced' = Activity("none")
    /\ UNCHANGED <<shares, live, cache, shown, closing, pageVars, trades>>

Refresh ==
    /\ gui = Idle
    /\ cache' = NoCache /\ gui' = Get("account")
    /\ announced' = Activity("none")
    /\ UNCHANGED <<shares, live, shown, timer, closing, pageVars, trades>>

-----------------------------------------------------------------------------
(* Flatten All and Emergency Stop *)

Click(button) ==
    /\ gui = Idle
    /\ announced' = Activity(button)
    /\ gui' = Flatten(button)
    /\ UNCHANGED <<shares, live, cache, shown, timer, closing, pageVars, trades>>

\* Mutant: the emptied cache is forgotten.
CacheAfterAny(button, cached) == cached

\* Flatten All empties the cache before it shows the figures again; Emergency
\* Stop does not.
CacheAfter(button, cached) == IF button = "flatten" THEN NoCache ELSE cached

FlattenReturns(activity, failed, cached) ==
    /\ announced' = [activity EXCEPT !.done = TRUE, !.failed = failed]
    /\ cache' = CacheAfter(activity.button, cached)
    /\ gui' = Get("account")
    /\ closing' = NoPositions

FlattenDemo ==
    /\ gui.task = "flatten" /\ ~live
    /\ FlattenReturns(announced, FALSE, cache)
    /\ UNCHANGED <<shares, live, shown, timer, pageVars, trades>>

\* GET /v2/positions: the symbols held, long or short.
PositionsReply == [s \in {t \in Symbols : shares[t] # 0} |-> shares[s]]

\* Mutant: short positions are sold, too.
ToSellOfAnySign(positions) == DOMAIN positions

ToSell(positions) == {s \in DOMAIN positions : positions[s] > 0}

FlattenReads ==
    /\ gui.task = "flatten" /\ live
    /\ \/ /\ closing' = [s \in ToSell(PositionsReply) |-> PositionsReply[s]]
          /\ gui' = Close(gui.key)
          /\ announced' = [announced EXCEPT !.held = PositionsReply]
          /\ UNCHANGED cache
       \/ FlattenReturns(announced, TRUE, cache)
    /\ UNCHANGED <<shares, live, shown, timer, pageVars, trades>>

Outdated(figures) ==
    [k \in Keys |-> [figures[k] EXCEPT !.outdated = @ \/ figures[k].there]]

\* POST /v2/orders, accepted: the shares are sold, sooner or later.
Accepted(symbol) ==
    /\ shares' = [shares EXCEPT ![symbol] = @ - closing[symbol]]
    /\ shown' = Outdated(shown)

WithOrder(symbol) ==
    [announced EXCEPT !.orders = Append(@, [symbol |-> symbol, quantity |-> closing[symbol]])]

\* An order is answered, or it fails: refused, or the reply was lost.
FlattenOrders ==
    /\ gui.task = "close"
    /\ \E s \in DOMAIN closing :
          \/ /\ Accepted(s)
             /\ closing' = [t \in DOMAIN closing \ {s} |-> closing[t]]
             /\ announced' = [WithOrder(s) EXCEPT !.count = @ + 1]
             /\ gui' = Close(gui.key)
             /\ cache' = Outdated(cache)
          \/ Accepted(s) /\ FlattenReturns(WithOrder(s), TRUE, Outdated(cache))
          \/ FlattenReturns(announced, TRUE, cache) /\ UNCHANGED <<shares, shown>>
    /\ UNCHANGED <<live, timer, pageVars, trades>>

FlattenFinishes ==
    /\ gui.task = "close" /\ DOMAIN closing = {}
    /\ FlattenReturns(announced, FALSE, cache)
    /\ UNCHANGED <<shares, live, shown, timer, pageVars, trades>>

-----------------------------------------------------------------------------
(* The auto-trader page and its worker *)

StartTrading ==
    /\ gui = Idle /\ ~page.running
    /\ \E w \in Slots \ Alive :
          /\ page' = [running |-> TRUE, worker |-> w]
          /\ workers' = [workers EXCEPT ![w] = NewWorker]
    /\ announced' = Activity("none")
    /\ UNCHANGED <<shares, live, cache, shown, timer, closing, gui, trades>>

StopTrading ==
    /\ gui = Idle /\ page.running
    /\ workers' = [workers EXCEPT ![page.worker].running = FALSE]
    /\ gui' = Join
    /\ UNCHANGED <<shares, bridgeVars, page, trades>>

\* wait(3000) returns; the worker is forgotten in any case.
StopReturns ==
    /\ gui.task = "join"
    /\ page.worker \notin Alive \/ gui.waited = WaitLimit
    /\ page' = [running |-> FALSE, worker |-> 0]
    /\ gui' = Idle
    /\ UNCHANGED <<shares, bridgeVars, workers, trades>>

\* Mutant: the pause is not cut short.
PauseInFull(w) == workers[w].elapsed >= Interval

PauseIsOver(w) == workers[w].elapsed >= Interval \/ ~workers[w].running

Becomes(w, worker) ==
    /\ workers' = [workers EXCEPT ![w] = worker]
    /\ UNCHANGED <<shares, bridgeVars, gui, page, trades>>

\* The loop over the symbols, which a stop ends before its next one.
NextSymbol(w) ==
    /\ workers[w].at = "symbols"
    /\ Becomes(w, IF workers[w].running /\ workers[w].symbol <= SymbolCount
                  THEN [workers[w] EXCEPT !.at = "working", !.spent = 0]
                  ELSE [workers[w] EXCEPT !.at = "pause", !.elapsed = 0])

SymbolDone(w) ==
    /\ workers[w].at = "working"
    /\ Becomes(w, [workers[w] EXCEPT !.at = "symbols", !.symbol = @ + 1])

Pause(w) ==
    /\ workers[w].at = "pause"
    /\ Becomes(w, IF ~PauseIsOver(w) THEN [workers[w] EXCEPT !.at = "sleeping", !.spent = 0]
                  ELSE IF workers[w].running THEN [workers[w] EXCEPT !.at = "symbols", !.symbol = 1]
                  ELSE NoWorker)

Wake(w) ==
    /\ workers[w].at = "sleeping" /\ workers[w].spent = 1
    /\ Becomes(w, [workers[w] EXCEPT !.at = "pause", !.elapsed = @ + 1])

-----------------------------------------------------------------------------

Aged(figures, most) == [k \in Keys |-> [figures[k] EXCEPT !.age = IF @ < most THEN @ + 1 ELSE most]]

WorkerMayWait(w) ==
    \/ workers[w].at = "working" /\ workers[w].spent < Work
    \/ workers[w].at = "sleeping" /\ workers[w].spent = 0

WindowMayWait ==
    \/ gui = Idle /\ timer < RefreshPeriod
    \/ gui.task = "join" /\ gui.waited < WaitLimit /\ page.worker \in Alive
    \/ live /\ gui.waited < Latency /\ \/ gui.task \in {"ask", "flatten"}
                                       \/ gui.task = "close" /\ DOMAIN closing # {}

Tick ==
    /\ WindowMayWait /\ \A w \in Alive : WorkerMayWait(w)
    /\ cache' = Aged(cache, CacheTtl) /\ shown' = Aged(shown, Old)
    /\ timer' = IF timer < RefreshPeriod THEN timer + 1 ELSE timer
    /\ gui' = IF gui = Idle THEN gui ELSE [gui EXCEPT !.waited = @ + 1]
    /\ workers' = [w \in Slots |-> IF w \in Alive THEN [workers[w] EXCEPT !.spent = @ + 1] ELSE NoWorker]
    /\ UNCHANGED <<shares, live, closing, announced, page, trades>>

\* Other programs trade on the account.
OtherTrade ==
    /\ trades < MaxTrades
    /\ \E s \in Symbols, more \in {-1, 1} : shares' = [shares EXCEPT ![s] = @ + more]
    /\ trades' = trades + 1
    /\ UNCHANGED <<bridgeVars, gui, pageVars>>

Next ==
    \/ GetFigures \/ Answered \/ Timeout \/ Refresh
    \/ Click("flatten") \/ Click("emergency")
    \/ FlattenDemo \/ FlattenReads \/ FlattenOrders \/ FlattenFinishes
    \/ StartTrading \/ StopTrading \/ StopReturns
    \/ \E w \in Slots : NextSymbol(w) \/ SymbolDone(w) \/ Pause(w) \/ Wake(w)
    \/ Tick \/ OtherTrade

Spec == Init /\ [][Next]_vars

-----------------------------------------------------------------------------
(* Properties *)

(***************************************************************************)
(* Whatever is cached, by whatever was loaded and refreshed before         *)
(* (data_bridge.py:261-270) and however long the window was blocked, what  *)
(* the dashboard shows was fetched no longer ago than a time to live       *)
(* before its last timeout, demo figures of a failed request included.     *)
(***************************************************************************)
ShownIsRecent ==
    gui = Idle /\ timer < RefreshPeriod => \A k \in Keys : shown[k].age < timer + CacheTtl

(***************************************************************************)
(* A flatten_all (data_bridge.py:397-416) never sells what is not held     *)
(* long, which would open or add to a short position, and goes by what the *)
(* account held when it was asked, not by what is cached or shown: every   *)
(* long position once and whole, or up to the first failure.  It reports   *)
(* every order but the one whose answer was lost.  These are not "all open *)
(* positions (sell everything)" (398): what was short has no order, and    *)
(* stays open though no request failed.                                    *)
(***************************************************************************)
FlattenSellsTheLongs ==
    announced.done =>
        LET orders == announced.orders
            long == {s \in DOMAIN announced.held : announced.held[s] > 0}
            sold == {orders[i].symbol : i \in DOMAIN orders}
        IN  /\ Cardinality(sold) = Len(orders) /\ sold \subseteq long
            /\ \A i \in DOMAIN orders : orders[i].quantity = announced.held[orders[i].symbol]
            /\ announced.failed \/ sold = long
            /\ Len(orders) - announced.count \in IF announced.failed THEN {0, 1} ELSE {0}

(***************************************************************************)
(* After Flatten All (dashboard.py:415) nothing is on show, and nothing    *)
(* will be, that was fetched before its orders.                            *)
(***************************************************************************)
FlattenShowsTheResult ==
    announced.done /\ announced.button = "flatten" =>
        \A k \in Keys : ~cache[k].outdated /\ (gui = Idle => ~shown[k].outdated)

(***************************************************************************)
(* A page that says "Stopped" has no worker left (autotrader_page.py:603), *)
(* and there are never two: the three seconds are longer than any sleep    *)
(* and any symbol, and every loop of the worker looks at its flag.         *)
(***************************************************************************)
StoppedMeansStopped ==
    Cardinality(Alive) <= 1 /\ (~page.running => Alive = {})

(***************************************************************************)
(* dashboard.py:419: "Emergency stop: flatten + stop auto-trader."  Once   *)
(* it is announced, a worker that was not started since is told to stop.   *)
(***************************************************************************)
EmergencyStops ==
    announced.done /\ announced.button = "emergency" => \A w \in Alive : ~workers[w].running
=============================================================================
