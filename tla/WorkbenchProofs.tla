--------------------------- MODULE WorkbenchProofs ---------------------------
(***************************************************************************)
(* What the window shows, sells and stops, for any symbols, holdings,      *)
(* periods and latencies.  Each property is an invariant once it also says *)
(* what holds while the window is busy: between two loads, between two     *)
(* orders of a flatten, and while Stop waits.                              *)
(***************************************************************************)
EXTENDS Workbench, FiniteSetTheorems, TLAPS

Shown == [there : BOOLEAN, age : Nat, outdated : BOOLEAN]
Positions == UNION {[S -> Int] : S \in SUBSET Symbols}
Orders == [symbol : Symbols, quantity : Int]

GuiStates ==
    [task : {"idle", "get", "ask", "flatten", "close", "join"},
     key : Keys \cup {"none", "flatten", "emergency"}, left : Nat, waited : Nat]
Activities ==
    [button : {"none", "flatten", "emergency"}, done : BOOLEAN, count : Nat,
     orders : Seq(Orders), held : Positions, failed : BOOLEAN]
Workers ==
    [at : {"none", "symbols", "working", "pause", "sleeping"},
     running : BOOLEAN, symbol : Nat, elapsed : Nat, spent : Nat]

WindowTypeOK ==
    /\ live \in BOOLEAN
    /\ cache \in [Keys -> Shown] /\ shown \in [Keys -> Shown]
    /\ timer \in 0 .. RefreshPeriod
    /\ gui \in GuiStates

FlattenTypeOK ==
    /\ shares \in [Symbols -> Int]
    /\ closing \in Positions
    /\ announced \in Activities
    /\ trades \in Nat

PageTypeOK ==
    /\ page \in [running : BOOLEAN, worker : Slots \cup {0}]
    /\ workers \in [Slots -> Workers]

\* Every variable keeps its type; nothing that is bought or sold and no key
\* of the cache is ever one that the account or the dashboard does not have.
TypeOK == WindowTypeOK /\ FlattenTypeOK /\ PageTypeOK

\* The key of a load is one of the two, and the idle window waits for nothing.
Tasks ==
    /\ gui.task = "idle" => gui = Idle
    /\ gui.task \in {"get", "ask"} => gui.key \in Keys

-----------------------------------------------------------------------------
(* What is shown *)

\* Fetched within a time to live of the last timeout.
Recent(key) == timer < RefreshPeriod => shown[key].age < timer + CacheTtl

\* A load shows the account first, then the positions.
LoadedRecent ==
    /\ gui.task \in {"get", "ask"} /\ gui.key = "positions" => Recent("account")
    /\ gui.task \in {"idle", "join"} => Recent("account") /\ Recent("positions")

\* From the end of a Flatten All on, the cache holds nothing older, and what was
\* loaded since is not older either.
ResultShown ==
    /\ gui.task \in {"flatten", "close"} => ~announced.done
    /\ announced.done /\ announced.button = "flatten" =>
          /\ \A k \in Keys : ~cache[k].outdated
          /\ gui.task \in {"get", "ask"} /\ gui.key = "positions" => ~shown["account"].outdated
          /\ gui.task \in {"idle", "join"} => \A k \in Keys : ~shown[k].outdated

-----------------------------------------------------------------------------
(* What is sold *)

SymbolsIn(orders) == {orders[i].symbol : i \in DOMAIN orders}
Long(activity) == {s \in DOMAIN activity.held : activity.held[s] > 0}
Sold(activity) == SymbolsIn(activity.orders)

\* The orders are for different long positions, and whole ones.
Whole(activity) ==
    /\ IsFiniteSet(Sold(activity)) /\ Cardinality(Sold(activity)) = Len(activity.orders)
    /\ Sold(activity) \subseteq Long(activity)
    /\ \A i \in DOMAIN activity.orders :
          activity.orders[i].quantity = activity.held[activity.orders[i].symbol]

OrdersWhole == Whole(announced)

\* Before its positions are read, a flatten has ordered nothing; then what was
\* ordered and what is left to close make up the long positions.
FlattenOnTheWay ==
    /\ gui.task = "flatten" =>
          /\ announced.orders = <<>> /\ announced.count = 0
          /\ announced.held = NoPositions /\ ~announced.failed
    /\ gui.task = "close" =>
          /\ ~announced.failed /\ announced.count = Len(announced.orders)
          /\ Sold(announced) \cup DOMAIN closing = Long(announced)
          /\ Sold(announced) \cap DOMAIN closing = {}
          /\ \A s \in DOMAIN closing : closing[s] = announced.held[s]
    /\ announced.done =>
          /\ announced.failed \/ Sold(announced) = Long(announced)
          /\ Len(announced.orders) - announced.count \in IF announced.failed THEN {0, 1} ELSE {0}

-----------------------------------------------------------------------------
(* What is stopped *)

\* How many ticks a worker that was told to stop may still take.
Rest(worker) ==
    IF worker.at = "working" THEN Work - worker.spent
    ELSE IF worker.at = "sleeping" THEN 1 - worker.spent
    ELSE 0

\* Only the page's worker is alive, and while Stop waits for it, it has been
\* told to stop and will end before the wait does.
WorkerInv ==
    /\ page.running => page.worker \in Slots /\ Alive \subseteq {page.worker}
    /\ ~page.running => Alive = {}
    /\ \A w \in Alive : Rest(workers[w]) >= 0
    /\ gui.task = "join" =>
          /\ page.running
          /\ page.worker \in Alive =>
                ~workers[page.worker].running /\ gui.waited + Rest(workers[page.worker]) < WaitLimit

Inv == TypeOK /\ Tasks /\ LoadedRecent /\ ResultShown /\ OrdersWhole /\ FlattenOnTheWay /\ WorkerInv

-----------------------------------------------------------------------------
(* Types *)

\* A function on some of the symbols is a set of positions, and the other way.
LEMMA PositionsType ==
    /\ \A S \in SUBSET Symbols : \A f \in [S -> Int] : f \in Positions
    /\ \A f \in Positions : DOMAIN f \in SUBSET Symbols /\ f \in [DOMAIN f -> Int]
    /\ NoPositions \in Positions
<1>1. ASSUME NEW S \in SUBSET Symbols, NEW f \in [S -> Int] PROVE f \in Positions
  BY DEF Positions
<1>2. ASSUME NEW f \in Positions PROVE DOMAIN f \in SUBSET Symbols /\ f \in [DOMAIN f -> Int]
  BY DEF Positions
<1>3. NoPositions \in [{} -> Int] /\ {} \in SUBSET Symbols
  BY DEF NoPositions
<1> QED BY <1>1, <1>2, <1>3

LEMMA InitTypes == Init => TypeOK
<1> SUFFICES ASSUME Init PROVE TypeOK
  OBVIOUS
<1>1. NoPositions \in Positions /\ shares \in [Symbols -> Int]
  BY HoldingsAssumption, PositionsType DEF Init
<1>2. WindowTypeOK
  BY TimingAssumption DEF Init, WindowTypeOK, NoCache, Figures, Shown, Keys, Old, Get, Doing, GuiStates
<1>3. FlattenTypeOK
  BY <1>1 DEF Init, FlattenTypeOK, Activity, Activities, Orders
<1>4. PageTypeOK
  BY DEF Init, PageTypeOK, NoWorker, Workers
<1> QED BY <1>2, <1>3, <1>4 DEF TypeOK

\* What FlattenReturns leaves behind has its type.
LEMMA ReturnTypes ==
    ASSUME NEW activity, NEW failed \in BOOLEAN, NEW cached \in [Keys -> Shown],
           activity \in Activities,
           FlattenReturns(activity, failed, cached)
    PROVE  /\ cache' \in [Keys -> Shown]
           /\ closing' \in Positions
           /\ announced' \in Activities
           /\ gui' \in GuiStates
<1>1. NoPositions \in Positions
  BY PositionsType
<1>2. NoCache \in [Keys -> Shown]
  BY TimingAssumption DEF NoCache, Figures, Shown
<1> QED BY <1>1, <1>2 DEF FlattenReturns, CacheAfter, Get, Doing, Keys, GuiStates, Activities

\* Growing older and being outdated are no change of type.
LEMMA FiguresTypes ==
    ASSUME NEW figures \in [Keys -> Shown]
    PROVE  /\ \A most \in Nat : Aged(figures, most) \in [Keys -> Shown]
           /\ Outdated(figures) \in [Keys -> Shown]
<1>1. ASSUME NEW most \in Nat PROVE Aged(figures, most) \in [Keys -> Shown]
  BY DEF Aged, Shown
<1>2. Outdated(figures) \in [Keys -> Shown]
  BY DEF Outdated, Shown
<1> QED BY <1>1, <1>2

\* A count of a worker or of the window goes up by one.
LEMMA CountsUp ==
    /\ \A worker \in Workers :
          /\ [worker EXCEPT !.at = "symbols", !.symbol = @ + 1] \in Workers
          /\ [worker EXCEPT !.at = "pause", !.elapsed = @ + 1] \in Workers
          /\ [worker EXCEPT !.spent = @ + 1] \in Workers
    /\ \A state \in GuiStates : [state EXCEPT !.waited = @ + 1] \in GuiStates
<1>1. ASSUME NEW worker \in Workers
      PROVE  worker.symbol + 1 \in Nat /\ worker.elapsed + 1 \in Nat /\ worker.spent + 1 \in Nat
  BY DEF Workers
<1>2. ASSUME NEW state \in GuiStates PROVE state.waited + 1 \in Nat
  BY DEF GuiStates
<1>3. ASSUME NEW worker \in Workers
      PROVE  /\ [worker EXCEPT !.at = "symbols", !.symbol = @ + 1] \in Workers
             /\ [worker EXCEPT !.at = "pause", !.elapsed = @ + 1] \in Workers
             /\ [worker EXCEPT !.spent = @ + 1] \in Workers
  BY <1>1 DEF Workers
<1>4. ASSUME NEW state \in GuiStates PROVE [state EXCEPT !.waited = @ + 1] \in GuiStates
  BY <1>2 DEF GuiStates
<1> QED BY <1>3, <1>4

LEMMA NextTypes == TypeOK /\ Tasks /\ [Next]_vars => TypeOK'
<1> SUFFICES ASSUME TypeOK, Tasks, [Next]_vars PROVE TypeOK'
  OBVIOUS
<1> USE DEF TypeOK, WindowTypeOK, FlattenTypeOK, PageTypeOK, GuiStates, Activities, Workers
<1>0. NoPositions \in Positions /\ NoCache \in [Keys -> Shown] /\ Old \in Nat /\ CacheTtl \in Nat
  <2>1. CacheTtl \in Nat /\ Old \in Nat
    BY TimingAssumption DEF Old
  <2>2. NoCache \in [Keys -> Shown]
    BY <2>1 DEF NoCache, Figures, Shown
  <2> QED BY ONLY <2>1, <2>2, PositionsType
<1>1. CASE GetFigures
  <2>1. gui.key \in Keys /\ After(gui.key) \in {Get("positions"), Idle}
    BY <1>1 DEF GetFigures, Tasks, After
  <2>2. Figures(TRUE, 0) \in Shown /\ cache[gui.key] \in Shown
    BY <2>1 DEF Figures, Shown
  <2>3. CASE Show(gui.key, cache[gui.key]) /\ UNCHANGED cache
    BY <1>1, <2>1, <2>2, <2>3 DEF GetFigures, Show, Get, Idle, Doing, Keys, pageVars
  <2>4. CASE Fetched(gui.key)
    <3>1. cache' \in [Keys -> Shown] /\ Show(gui.key, Figures(TRUE, 0))
      BY <2>2, <2>4 DEF Fetched
    <3>2. shown' \in [Keys -> Shown] /\ gui' = After(gui.key)
      BY <2>1, <2>2, <3>1 DEF Show
    <3>3. gui' \in GuiStates
      BY <2>1, <3>2 DEF Get, Idle, Doing, Keys
    <3> QED BY <1>1, <3>1, <3>2, <3>3 DEF GetFigures, pageVars
  <2>5. CASE gui' = Ask(gui.key, Requests(gui.key)) /\ UNCHANGED <<cache, shown>>
    BY <1>1, <2>1, <2>5 DEF GetFigures, Ask, Requests, Doing, pageVars
  <2> QED BY <1>1, <2>3, <2>4, <2>5 DEF GetFigures
<1>2. CASE Answered
  <2>1. gui.key \in Keys /\ After(gui.key) \in {Get("positions"), Idle}
    BY <1>2 DEF Answered, Tasks, After
  <2>2. Figures(TRUE, 0) \in Shown
    BY DEF Figures, Shown
  <2>3. CASE Fetched(gui.key)
    <3>1. cache' \in [Keys -> Shown] /\ Show(gui.key, Figures(TRUE, 0))
      BY <2>2, <2>3 DEF Fetched
    <3>2. shown' \in [Keys -> Shown] /\ gui' = After(gui.key)
      BY <2>1, <2>2, <3>1 DEF Show
    <3>3. gui' \in GuiStates
      BY <2>1, <3>2 DEF Get, Idle, Doing, Keys
    <3> QED BY <1>2, <3>1, <3>2, <3>3 DEF Answered, pageVars
  <2>4. CASE gui.left > 1 /\ gui' = Ask(gui.key, gui.left - 1) /\ UNCHANGED <<cache, shown>>
    BY <1>2, <2>1, <2>4 DEF Answered, Ask, Doing, pageVars
  <2> QED BY <1>2, <2>3, <2>4 DEF Answered
<1>3. CASE Timeout
  BY <1>0, <1>3, TimingAssumption DEF Timeout, Get, Idle, Doing, Keys, Activity, pageVars
<1>4. CASE Refresh
  BY <1>0, <1>4 DEF Refresh, Get, Idle, Doing, Keys, Activity, pageVars
<1>5. ASSUME NEW button \in {"flatten", "emergency"}, Click(button) PROVE TypeOK'
  BY <1>0, <1>5 DEF Click, Flatten, Idle, Doing, Activity, pageVars
<1>6. CASE FlattenDemo
  <2>1. FlattenReturns(announced, FALSE, cache)
    BY <1>6 DEF FlattenDemo
  <2> QED BY <1>6, <2>1, ReturnTypes DEF FlattenDemo, pageVars
<1>7. CASE FlattenReads
  <2>1. PositionsReply \in Positions
    <3>1. PositionsReply \in [{t \in Symbols : shares[t] # 0} -> Int]
      BY DEF PositionsReply
    <3> QED BY <3>1, PositionsType
  <2>2. [s \in ToSell(PositionsReply) |-> PositionsReply[s]] \in Positions
    <3>1. DOMAIN PositionsReply \in SUBSET Symbols /\ PositionsReply \in [DOMAIN PositionsReply -> Int]
      BY <2>1, PositionsType
    <3>2. ToSell(PositionsReply) \in SUBSET Symbols
      BY <3>1 DEF ToSell
    <3>3. [s \in ToSell(PositionsReply) |-> PositionsReply[s]] \in [ToSell(PositionsReply) -> Int]
      BY <3>1 DEF ToSell
    <3> QED BY <3>2, <3>3, PositionsType
  <2>3. CASE FlattenReturns(announced, TRUE, cache)
    BY <1>7, <2>3, ReturnTypes DEF FlattenReads, pageVars
  <2>4. CASE /\ closing' = [s \in ToSell(PositionsReply) |-> PositionsReply[s]]
             /\ gui' = Close(gui.key)
             /\ announced' = [announced EXCEPT !.held = PositionsReply]
             /\ UNCHANGED cache
    <3>1. FlattenTypeOK'
      BY <1>7, <2>1, <2>2, <2>4 DEF FlattenReads
    <3>2. WindowTypeOK' /\ PageTypeOK'
      BY <1>7, <2>4 DEF FlattenReads, Close, Doing, pageVars
    <3> QED BY <3>1, <3>2
  <2> QED BY <1>7, <2>3, <2>4 DEF FlattenReads
<1>8. CASE FlattenOrders
  <2>1. PICK s \in DOMAIN closing : FlattenOrders!2!(s)
    BY <1>8 DEF FlattenOrders
  <2>2. s \in Symbols /\ closing[s] \in Int
    BY <2>1, PositionsType
  <2>3. Accepted(s) => shares' \in [Symbols -> Int] /\ shown' \in [Keys -> Shown]
    <3>1. [shares EXCEPT ![s] = @ - closing[s]] \in [Symbols -> Int]
      BY <2>2
    <3> QED BY <3>1, FiguresTypes DEF Accepted
  <2>4. WithOrder(s) \in Activities
    <3>1. [symbol |-> s, quantity |-> closing[s]] \in Orders
      BY <2>2 DEF Orders
    <3>2. Append(announced.orders, [symbol |-> s, quantity |-> closing[s]])
             \in Seq(Orders)
      BY <3>1
    <3> QED BY <3>2 DEF WithOrder
  <2>5. Outdated(cache) \in [Keys -> Shown]
    BY <1>0, FiguresTypes
  <2>6. [t \in DOMAIN closing \ {s} |-> closing[t]] \in Positions
    <3>1. DOMAIN closing \in SUBSET Symbols /\ closing \in [DOMAIN closing -> Int]
      BY PositionsType
    <3>2. [t \in DOMAIN closing \ {s} |-> closing[t]] \in [DOMAIN closing \ {s} -> Int]
      BY <3>1
    <3> QED BY <3>1, <3>2, PositionsType
  <2>7. CASE /\ Accepted(s)
             /\ closing' = [t \in DOMAIN closing \ {s} |-> closing[t]]
             /\ announced' = [WithOrder(s) EXCEPT !.count = @ + 1]
             /\ gui' = Close(gui.key)
             /\ cache' = Outdated(cache)
    <3>1. FlattenTypeOK'
      <4>1. WithOrder(s).count + 1 \in Nat
        BY <2>4
      <4>2. announced' \in Activities
        BY <2>4, <2>7, <4>1
      <4> QED BY <1>8, <2>3, <2>6, <2>7, <4>2 DEF FlattenOrders
    <3>2. WindowTypeOK' /\ PageTypeOK'
      BY <1>8, <2>3, <2>5, <2>7 DEF FlattenOrders, Close, Doing, pageVars
    <3> QED BY <3>1, <3>2
  <2>8. CASE Accepted(s) /\ FlattenReturns(WithOrder(s), TRUE, Outdated(cache))
    BY <1>8, <2>3, <2>4, <2>5, <2>8, ReturnTypes DEF FlattenOrders, pageVars
  <2>9. CASE FlattenReturns(announced, TRUE, cache) /\ UNCHANGED <<shares, shown>>
    BY <1>8, <2>9, ReturnTypes DEF FlattenOrders, pageVars
  <2> QED BY <2>1, <2>7, <2>8, <2>9
<1>9. CASE FlattenFinishes
  <2>1. FlattenReturns(announced, FALSE, cache)
    BY <1>9 DEF FlattenFinishes
  <2> QED BY <1>9, <2>1, ReturnTypes DEF FlattenFinishes, pageVars
<1>10. CASE StartTrading
  <2>1. NewWorker \in Workers
    BY DEF NewWorker
  <2>2. WindowTypeOK'
    BY <1>10 DEF StartTrading
  <2>3. FlattenTypeOK'
    BY <1>0, <1>10 DEF StartTrading, Activity
  <2>4. PageTypeOK'
    BY <1>10, <2>1 DEF StartTrading
  <2> QED BY <2>2, <2>3, <2>4
<1>11. CASE StopTrading
  <2>1. WindowTypeOK'
    BY <1>11 DEF StopTrading, Join, Doing, bridgeVars
  <2>2. FlattenTypeOK'
    BY <1>11 DEF StopTrading, bridgeVars
  <2>3. workers' = [workers EXCEPT ![page.worker] = [@ EXCEPT !.running = FALSE]] /\ page' = page
    BY <1>11 DEF StopTrading
  <2>4. \A w \in Slots : [workers[w] EXCEPT !.running = FALSE] \in Workers
    <3>1. \A r \in Workers : [r EXCEPT !.running = FALSE] \in Workers
      BY ONLY DEF Workers
    <3>2. \A w \in Slots : workers[w] \in Workers
      OBVIOUS
    <3> QED BY ONLY <3>1, <3>2
  <2>5. PageTypeOK'
    BY <2>3, <2>4
  <2> QED BY <2>1, <2>2, <2>5
<1>12. CASE StopReturns
  BY <1>12 DEF StopReturns, Idle, Doing, bridgeVars
<1>13. ASSUME NEW w \in Slots, NextSymbol(w) \/ SymbolDone(w) \/ Pause(w) \/ Wake(w) PROVE TypeOK'
  <2>0. workers[w] \in Workers
    OBVIOUS
  <2>1. NoWorker \in Workers
    BY DEF NoWorker
  <2>2. PICK worker \in Workers : Becomes(w, worker)
    <3>1. CASE NextSymbol(w)
      BY <3>1 DEF NextSymbol
    <3>2. CASE SymbolDone(w)
      <4>1. [workers[w] EXCEPT !.at = "symbols", !.symbol = @ + 1] \in Workers
        BY <2>0, CountsUp
      <4> QED BY <3>2, <4>1 DEF SymbolDone
    <3>3. CASE Pause(w)
      BY <2>1, <3>3 DEF Pause
    <3>4. CASE Wake(w)
      <4>1. [workers[w] EXCEPT !.at = "pause", !.elapsed = @ + 1] \in Workers
        BY <2>0, CountsUp
      <4> QED BY <3>4, <4>1 DEF Wake
    <3> QED BY <1>13, <3>1, <3>2, <3>3, <3>4
  <2> QED BY <2>2 DEF Becomes, bridgeVars
<1>14. CASE Tick
  <2>1. cache' \in [Keys -> Shown] /\ shown' \in [Keys -> Shown]
    BY <1>0, <1>14, FiguresTypes DEF Tick
  <2>2. timer' \in 0 .. RefreshPeriod
    BY <1>14, TimingAssumption DEF Tick
  <2>3. PageTypeOK'
    <3>1. \A w \in Slots : workers'[w] \in Workers
      <4>1. \A w \in Slots : [workers[w] EXCEPT !.spent = @ + 1] \in Workers /\ NoWorker \in Workers
        <5>1. NoWorker \in Workers
          BY DEF NoWorker
        <5>2. \A w \in Slots : workers[w] \in Workers
          OBVIOUS
        <5> QED BY <5>1, <5>2, CountsUp
      <4> QED BY <1>14, <4>1 DEF Tick
    <3> QED BY <1>14, <3>1 DEF Tick
  <2>4. gui' \in GuiStates
    <3>1. [gui EXCEPT !.waited = @ + 1] \in GuiStates
      BY CountsUp
    <3> QED BY <1>14, <3>1 DEF Tick
  <2> QED BY <1>14, <2>1, <2>2, <2>3, <2>4 DEF Tick
<1>15. CASE OtherTrade
  BY <1>15 DEF OtherTrade, bridgeVars, pageVars
<1>16. CASE UNCHANGED vars
  BY <1>16 DEF vars, bridgeVars, pageVars
<1> QED
  BY <1>1, <1>2, <1>3, <1>4, <1>5, <1>6, <1>7, <1>8, <1>9, <1>10, <1>11, <1>12, <1>13, <1>14, <1>15, <1>16
  DEF Next

-----------------------------------------------------------------------------
(* What is shown *)

\* What growing older and being outdated do to one figure.
LEMMA FiguresChange ==
    ASSUME NEW figures \in [Keys -> Shown], NEW key \in Keys
    PROVE  /\ \A most \in Nat :
                 /\ Aged(figures, most)[key].age <= figures[key].age + 1
                 /\ Aged(figures, most)[key].outdated = figures[key].outdated
           /\ Outdated(figures)[key].age = figures[key].age
<1>1. figures[key] \in Shown
  OBVIOUS
<1>2. ASSUME NEW most \in Nat
      PROVE  /\ Aged(figures, most)[key].age <= figures[key].age + 1
             /\ Aged(figures, most)[key].outdated = figures[key].outdated
  BY <1>1 DEF Aged, Shown
<1>3. Outdated(figures)[key].age = figures[key].age
  BY <1>1 DEF Outdated, Shown
<1> QED BY <1>2, <1>3

LEMMA NextTasks == TypeOK /\ Tasks /\ [Next]_vars => Tasks'
<1> SUFFICES ASSUME TypeOK, Tasks, [Next]_vars PROVE Tasks'
  OBVIOUS
<1>1. CASE GetFigures
  <2>1. gui.key \in Keys /\ gui' \in {Get("positions"), Idle, Ask(gui.key, Requests(gui.key))}
    BY <1>1 DEF GetFigures, Show, Fetched, After, Tasks
  <2> QED BY <2>1 DEF Tasks, Get, Ask, Idle, Doing, Keys
<1>2. CASE Answered
  <2>1. gui.key \in Keys /\ gui' \in {Get("positions"), Idle, Ask(gui.key, gui.left - 1)}
    BY <1>2 DEF Answered, Show, Fetched, After, Tasks
  <2> QED BY <2>1 DEF Tasks, Get, Ask, Idle, Doing, Keys
<1>3. CASE Timeout \/ Refresh \/ Click("flatten") \/ Click("emergency") \/ StopTrading \/ StopReturns
  <2>1. gui' \in {Get("account"), Flatten("flatten"), Flatten("emergency"), Join, Idle}
    BY <1>3 DEF Timeout, Refresh, Click, StopTrading, StopReturns
  <2> QED BY <2>1 DEF Tasks, Get, Flatten, Join, Idle, Doing, Keys
<1>4. CASE FlattenDemo \/ FlattenReads \/ FlattenOrders \/ FlattenFinishes
  <2>1. gui' \in {Get("account"), Close(gui.key)}
    BY <1>4 DEF FlattenDemo, FlattenReads, FlattenOrders, FlattenFinishes, FlattenReturns
  <2> QED BY <2>1 DEF Tasks, Get, Close, Doing, Keys
<1>5. CASE Tick
  <2>1. gui \in GuiStates
    BY DEF TypeOK, WindowTypeOK
  <2>2. CASE gui # Idle
    <3>1. gui'.task = gui.task /\ gui'.key = gui.key
      BY <1>5, <2>1, <2>2 DEF Tick, GuiStates
    <3> QED BY <2>2, <3>1 DEF Tasks
  <2> QED BY <1>5, <2>2 DEF Tick, Tasks
<1>6. CASE StartTrading \/ (\E w \in Slots : NextSymbol(w) \/ SymbolDone(w) \/ Pause(w) \/ Wake(w))
  BY <1>6 DEF StartTrading, NextSymbol, SymbolDone, Pause, Wake, Becomes, Tasks, Idle, Doing
<1>7. CASE OtherTrade \/ UNCHANGED vars
  BY <1>7 DEF OtherTrade, vars, Tasks, Idle, Doing
<1> QED BY <1>1, <1>2, <1>3, <1>4, <1>5, <1>6, <1>7 DEF Next

\* A load comes from what is shown next: the account, the positions, nothing.
LEMMA NextRecent == TypeOK /\ Tasks /\ LoadedRecent /\ [Next]_vars => LoadedRecent'
<1> SUFFICES ASSUME TypeOK, Tasks, LoadedRecent, [Next]_vars PROVE LoadedRecent'
  OBVIOUS
<1>0. /\ cache \in [Keys -> Shown] /\ shown \in [Keys -> Shown] /\ timer \in 0 .. RefreshPeriod
      /\ gui \in GuiStates /\ CacheTtl \in Nat \ {0} /\ RefreshPeriod \in Nat \ {0}
      /\ "account" \in Keys /\ "positions" \in Keys /\ Keys = {"account", "positions"}
  BY TimingAssumption DEF TypeOK, WindowTypeOK, Keys
<1>1. ASSUME gui.task \in {"get", "ask"}, NEW figures \in Shown, figures.age < CacheTtl,
             Show(gui.key, figures), timer' = timer
      PROVE  LoadedRecent'
  <2>1. gui.key \in Keys
    BY <1>1 DEF Tasks
  <2>2. shown' = [shown EXCEPT ![gui.key] = figures] /\ shown'[gui.key].age < timer + CacheTtl
    BY <1>0, <1>1, <2>1 DEF Show, Shown
  <2>3. CASE gui.key = "account"
    BY <1>1, <2>2, <2>3 DEF Recent, LoadedRecent, Show, After, Get, Doing
  <2>4. CASE gui.key = "positions"
    <3>1. Recent("account")'
      BY <1>0, <1>1, <2>2, <2>4 DEF LoadedRecent, Recent
    <3> QED BY <1>1, <2>2, <2>4, <3>1 DEF Recent, LoadedRecent, Show, After, Idle, Doing
  <2> QED BY <1>0, <2>1, <2>3, <2>4
<1>2. Figures(TRUE, 0) \in Shown /\ Figures(TRUE, 0).age < CacheTtl
  BY <1>0 DEF Figures, Shown
<1>3. ASSUME gui' = Ask(gui.key, gui'.left), gui.task \in {"get", "ask"}, UNCHANGED <<shown, timer>>
      PROVE  LoadedRecent'
  BY <1>3 DEF LoadedRecent, Recent, Ask, Doing
<1>4. CASE GetFigures
  <2>1. CASE Fresh(gui.key) /\ Show(gui.key, cache[gui.key])
    <3>1. gui.key \in Keys
      BY <1>4 DEF GetFigures, Tasks
    <3>2. cache[gui.key] \in Shown /\ cache[gui.key].age < CacheTtl
      BY <1>0, <2>1, <3>1 DEF Fresh
    <3> QED BY <1>1, <1>4, <2>1, <3>2 DEF GetFigures
  <2>2. CASE Fetched(gui.key)
    BY <1>1, <1>2, <1>4, <2>2 DEF GetFigures, Fetched
  <2>3. CASE gui' = Ask(gui.key, Requests(gui.key)) /\ UNCHANGED <<cache, shown>>
    BY <1>3, <1>4, <2>3 DEF GetFigures, Ask, Doing
  <2> QED BY <1>4, <2>1, <2>2, <2>3 DEF GetFigures
<1>5. CASE Answered
  <2>1. CASE Fetched(gui.key)
    BY <1>1, <1>2, <1>5, <2>1 DEF Answered, Fetched
  <2>2. CASE gui' = Ask(gui.key, gui.left - 1) /\ UNCHANGED <<cache, shown>>
    BY <1>3, <1>5, <2>2 DEF Answered, Ask, Doing
  <2> QED BY <1>5, <2>1, <2>2 DEF Answered
<1>6. ASSUME gui' \in {Get("account"), Flatten("flatten"), Flatten("emergency"), Close(gui.key)}
      PROVE  LoadedRecent'
  BY <1>6 DEF LoadedRecent, Get, Flatten, Close, Doing
<1>7. CASE Timeout \/ Refresh \/ Click("flatten") \/ Click("emergency")
  BY <1>6, <1>7 DEF Timeout, Refresh, Click
<1>8. CASE FlattenDemo \/ FlattenReads \/ FlattenOrders \/ FlattenFinishes
  BY <1>6, <1>8 DEF FlattenDemo, FlattenReads, FlattenOrders, FlattenFinishes, FlattenReturns
<1>9. ASSUME UNCHANGED <<shown, timer>>,
             \/ gui' = gui
             \/ gui.task \in {"idle", "join"} /\ gui' \in {Join, Idle}
      PROVE  LoadedRecent'
  <2>1. CASE gui' = gui
    BY <1>9, <2>1 DEF LoadedRecent, Recent
  <2>2. CASE gui.task \in {"idle", "join"}
    BY <1>9, <2>2 DEF LoadedRecent, Recent
  <2> QED BY <1>9, <2>1, <2>2
<1>10. CASE StopTrading \/ StopReturns
  BY <1>9, <1>10 DEF StopTrading, StopReturns, Idle, Doing, bridgeVars
<1>11. CASE StartTrading \/ OtherTrade \/ UNCHANGED vars
  BY <1>9, <1>11 DEF StartTrading, OtherTrade, vars, bridgeVars
<1>12. ASSUME NEW w \in Slots, NextSymbol(w) \/ SymbolDone(w) \/ Pause(w) \/ Wake(w) PROVE LoadedRecent'
  BY <1>9, <1>12 DEF NextSymbol, SymbolDone, Pause, Wake, Becomes, bridgeVars
<1>13. CASE Tick
  <2>1. gui'.task = gui.task /\ gui'.key = gui.key
    BY <1>0, <1>13 DEF Tick, GuiStates
  <2>2. ASSUME NEW key \in Keys, Recent(key) PROVE Recent(key)'
    <3>1. shown'[key].age <= shown[key].age + 1
      BY <1>0, <1>13, FiguresChange DEF Tick, Old
    <3>2. shown[key].age \in Nat /\ shown'[key].age \in Nat
      <4>1. shown' \in [Keys -> Shown]
        <5>1. Old \in Nat
          BY <1>0 DEF Old
        <5> QED BY <1>0, <1>13, <5>1, FiguresTypes DEF Tick
      <4> QED BY <1>0, <4>1 DEF Shown
    <3>3. timer < RefreshPeriod => timer' = timer + 1
      BY <1>13 DEF Tick
    <3>4. timer >= RefreshPeriod => timer' = timer
      BY <1>0, <1>13 DEF Tick
    <3> QED BY <1>0, <2>2, <3>1, <3>2, <3>3, <3>4 DEF Recent
  <2> QED BY <1>0, <2>1, <2>2 DEF LoadedRecent
<1> QED
  BY <1>4, <1>5, <1>7, <1>8, <1>10, <1>11, <1>12, <1>13 DEF Next

\* A Flatten All that is over has emptied the cache, and a load that began
\* since shows what was cached since.
LEMMA NextResultShown == TypeOK /\ Tasks /\ ResultShown /\ [Next]_vars => ResultShown'
<1> SUFFICES ASSUME TypeOK, Tasks, ResultShown, [Next]_vars PROVE ResultShown'
  OBVIOUS
<1>0. /\ cache \in [Keys -> Shown] /\ shown \in [Keys -> Shown] /\ gui \in GuiStates
      /\ announced \in Activities
      /\ "account" \in Keys /\ "positions" \in Keys /\ Keys = {"account", "positions"}
  BY DEF TypeOK, WindowTypeOK, FlattenTypeOK, Keys
<1>1. ASSUME gui.task \in {"get", "ask"}, NEW figures \in Shown, Show(gui.key, figures),
             announced' = announced, \A k \in Keys : ~cache[k].outdated => ~cache'[k].outdated,
             (\A k \in Keys : ~cache[k].outdated) => ~figures.outdated
      PROVE  ResultShown'
  <2> SUFFICES ASSUME announced.done, announced.button = "flatten"
               PROVE  ResultShown'
    BY <1>0, <1>1 DEF ResultShown, Show, After, Get, Idle, Doing
  <2>1. gui.key \in Keys /\ ~figures.outdated /\ \A k \in Keys : ~cache'[k].outdated
    BY <1>1 DEF Tasks, ResultShown
  <2>2. ~shown'[gui.key].outdated
    BY <1>0, <1>1, <2>1 DEF Show
  <2>3. CASE gui.key = "account"
    BY <1>1, <2>1, <2>2, <2>3 DEF ResultShown, Show, After, Get, Doing
  <2>4. CASE gui.key = "positions"
    <3>1. ~shown'["account"].outdated
      BY <1>0, <1>1, <2>4 DEF ResultShown, Show
    <3> QED BY <1>0, <1>1, <2>1, <2>2, <2>4, <3>1 DEF ResultShown, Show, After, Idle, Doing
  <2> QED BY <1>0, <2>1, <2>3, <2>4
<1>2. Figures(TRUE, 0) \in Shown /\ ~Figures(TRUE, 0).outdated
  BY DEF Figures, Shown
<1>3. ASSUME gui' = Ask(gui.key, gui'.left), gui.task \in {"get", "ask"},
             UNCHANGED <<cache, shown, announced>>
      PROVE  ResultShown'
  BY <1>3 DEF ResultShown, Ask, Doing
<1>4. CASE GetFigures
  <2>0. gui.key \in Keys /\ announced' = announced
    BY <1>4 DEF GetFigures, Tasks
  <2>1. CASE Show(gui.key, cache[gui.key]) /\ UNCHANGED cache
    BY <1>0, <1>1, <1>4, <2>0, <2>1 DEF GetFigures
  <2>2. CASE Fetched(gui.key)
    <3>1. \A k \in Keys : ~cache[k].outdated => ~cache'[k].outdated
      BY <1>0, <1>2, <2>0, <2>2 DEF Fetched
    <3> QED BY <1>1, <1>2, <1>4, <2>0, <2>2, <3>1 DEF GetFigures, Fetched
  <2>3. CASE gui' = Ask(gui.key, Requests(gui.key)) /\ UNCHANGED <<cache, shown>>
    BY <1>3, <1>4, <2>0, <2>3 DEF GetFigures, Ask, Doing
  <2> QED BY <1>4, <2>1, <2>2, <2>3 DEF GetFigures
<1>5. CASE Answered
  <2>0. gui.key \in Keys /\ announced' = announced
    BY <1>5 DEF Answered, Tasks
  <2>1. CASE Fetched(gui.key)
    <3>1. \A k \in Keys : ~cache[k].outdated => ~cache'[k].outdated
      BY <1>0, <1>2, <2>0, <2>1 DEF Fetched
    <3> QED BY <1>1, <1>2, <1>5, <2>0, <2>1, <3>1 DEF Answered, Fetched
  <2>2. CASE gui' = Ask(gui.key, gui.left - 1) /\ UNCHANGED <<cache, shown>>
    BY <1>3, <1>5, <2>0, <2>2 DEF Answered, Ask, Doing
  <2> QED BY <1>5, <2>1, <2>2 DEF Answered
<1>6. ASSUME ~announced'.done PROVE ResultShown'
  BY <1>6 DEF ResultShown
<1>7. CASE Timeout \/ Refresh \/ Click("flatten") \/ Click("emergency") \/ StartTrading
  BY <1>6, <1>7 DEF Timeout, Refresh, Click, StartTrading, Activity
<1>8. ASSUME NEW activity, NEW failed, NEW cached, FlattenReturns(activity, failed, cached),
             activity \in Activities
      PROVE  ResultShown'
  <2>1. announced'.button = activity.button /\ gui' = Get("account")
    BY <1>8 DEF FlattenReturns, Activities
  <2>2. activity.button = "flatten" => \A k \in Keys : ~cache'[k].outdated
    BY <1>8 DEF FlattenReturns, CacheAfter, NoCache, Figures
  <2> QED BY <2>1, <2>2 DEF ResultShown, Get, Doing
<1>9. CASE FlattenDemo \/ FlattenFinishes
  BY <1>0, <1>8, <1>9 DEF FlattenDemo, FlattenFinishes
<1>10. CASE FlattenReads
  <2>1. CASE FlattenReturns(announced, TRUE, cache)
    BY <1>0, <1>8, <2>1
  <2>2. CASE announced' = [announced EXCEPT !.held = PositionsReply]
    BY <1>0, <1>6, <1>10, <2>2 DEF FlattenReads, ResultShown, Activities
  <2> QED BY <1>10, <2>1, <2>2 DEF FlattenReads
<1>11. CASE FlattenOrders
  <2>1. PICK s \in DOMAIN closing : FlattenOrders!2!(s)
    BY <1>11 DEF FlattenOrders
  <2>2. WithOrder(s) \in Activities /\ ~WithOrder(s).done
    <3>1. s \in Symbols /\ closing[s] \in Int
      BY <2>1, PositionsType DEF TypeOK, FlattenTypeOK
    <3>2. Append(announced.orders, [symbol |-> s, quantity |-> closing[s]]) \in Seq(Orders)
      BY <1>0, <3>1 DEF Activities, Orders
    <3> QED BY <1>0, <1>11, <3>2 DEF FlattenOrders, ResultShown, WithOrder, Activities
  <2>3. CASE announced' = [WithOrder(s) EXCEPT !.count = @ + 1]
    BY <1>6, <2>2, <2>3 DEF Activities
  <2>4. CASE FlattenReturns(WithOrder(s), TRUE, Outdated(cache)) \/ FlattenReturns(announced, TRUE, cache)
    BY <1>0, <1>8, <2>2, <2>4
  <2> QED BY <2>1, <2>3, <2>4
<1>12. ASSUME UNCHANGED <<cache, shown, announced>>,
             \/ gui' = gui
             \/ gui.task \in {"idle", "join"} /\ gui' \in {Join, Idle}
      PROVE  ResultShown'
  <2>1. CASE gui' = gui
    BY <1>12, <2>1 DEF ResultShown
  <2>2. CASE gui.task \in {"idle", "join"} /\ gui' \in {Join, Idle}
    BY <1>12, <2>2 DEF ResultShown, Join, Idle, Doing
  <2> QED BY <1>12, <2>1, <2>2
<1>13. CASE StopTrading \/ StopReturns
  BY <1>12, <1>13 DEF StopTrading, StopReturns, Idle, Doing, bridgeVars
<1>14. CASE OtherTrade \/ UNCHANGED vars
  BY <1>12, <1>14 DEF OtherTrade, vars, bridgeVars
<1>15. ASSUME NEW w \in Slots, NextSymbol(w) \/ SymbolDone(w) \/ Pause(w) \/ Wake(w) PROVE ResultShown'
  BY <1>12, <1>15 DEF NextSymbol, SymbolDone, Pause, Wake, Becomes, bridgeVars
<1>16. CASE Tick
  <2>1. gui'.task = gui.task /\ gui'.key = gui.key /\ announced' = announced
    BY <1>0, <1>16 DEF Tick, GuiStates
  <2>2. \A k \in Keys : cache'[k].outdated = cache[k].outdated /\ shown'[k].outdated = shown[k].outdated
    BY <1>0, <1>16, FiguresChange, TimingAssumption DEF Tick, Old
  <2> QED BY <1>0, <2>1, <2>2 DEF ResultShown
<1> QED
  BY <1>4, <1>5, <1>7, <1>9, <1>10, <1>11, <1>13, <1>14, <1>15, <1>16 DEF Next

-----------------------------------------------------------------------------
(* What is sold *)

\* A flatten that has ordered nothing yet, whatever is held.
LEMMA NothingOrdered ==
    ASSUME NEW activity, activity.orders = <<>>
    PROVE  Sold(activity) = {} /\ Len(activity.orders) = 0 /\ Whole(activity)
<1>1. Sold(activity) = {} /\ DOMAIN activity.orders = {} /\ Len(activity.orders) = 0
  BY DEF Sold, SymbolsIn
<1>2. IsFiniteSet({}) /\ Cardinality({}) = 0
  BY FS_EmptySet
<1> QED BY <1>1, <1>2 DEF Whole

\* How a flatten ends changes none of its orders.
LEMMA SameOrders ==
    ASSUME NEW one \in Activities, NEW other \in Activities,
           other.orders = one.orders, other.held = one.held
    PROVE  Sold(other) = Sold(one) /\ Long(other) = Long(one) /\ (Whole(one) => Whole(other))
BY DEF Sold, SymbolsIn, Long, Whole

\* One more order, for a long position that has none yet.
LEMMA OneMoreOrder ==
    ASSUME announced \in Activities, closing \in Positions, Whole(announced),
           NEW s \in DOMAIN closing, s \in Long(announced), s \notin Sold(announced),
           closing[s] = announced.held[s]
    PROVE  /\ WithOrder(s) \in Activities
           /\ Sold(WithOrder(s)) = Sold(announced) \cup {s}
           /\ Long(WithOrder(s)) = Long(announced)
           /\ Len(WithOrder(s).orders) = Len(announced.orders) + 1
           /\ Whole(WithOrder(s))
<1> DEFINE order == [symbol |-> s, quantity |-> closing[s]]
           orders == announced.orders
<1>1. order \in Orders /\ orders \in Seq(Orders)
  <2>1. s \in Symbols /\ closing[s] \in Int
    BY PositionsType
  <2> QED BY <2>1 DEF Orders, Activities
<1>2. Append(orders, order) \in Seq(Orders)
  BY <1>1
<1>3. WithOrder(s) = [announced EXCEPT !.orders = Append(orders, order)]
  BY DEF WithOrder
<1>4. /\ WithOrder(s) \in Activities
      /\ WithOrder(s).orders = Append(orders, order) /\ WithOrder(s).held = announced.held
  BY <1>2, <1>3 DEF Activities
<1>5. /\ Len(Append(orders, order)) = Len(orders) + 1
      /\ DOMAIN Append(orders, order) = DOMAIN orders \cup {Len(orders) + 1}
      /\ Append(orders, order)[Len(orders) + 1] = order
      /\ \A i \in DOMAIN orders : Append(orders, order)[i] = orders[i]
  BY <1>1
<1>6. Sold(WithOrder(s)) = Sold(announced) \cup {s}
  BY <1>4, <1>5 DEF Sold, SymbolsIn
<1>7. Long(WithOrder(s)) = Long(announced)
  BY <1>4 DEF Long
<1>8. Whole(WithOrder(s))
  <2>1. IsFiniteSet(Sold(WithOrder(s))) /\ Cardinality(Sold(WithOrder(s))) = Cardinality(Sold(announced)) + 1
    BY <1>6, FS_AddElement DEF Whole
  <2>2. \A i \in DOMAIN Append(orders, order) :
           Append(orders, order)[i].quantity = announced.held[Append(orders, order)[i].symbol]
    BY <1>5 DEF Whole
  <2> QED BY <1>4, <1>5, <1>6, <1>7, <2>1, <2>2 DEF Whole
<1> QED BY <1>4, <1>5, <1>6, <1>7, <1>8

\* Orders and what is left to close are the long positions that were read.
LEMMA NextOrders ==
    TypeOK /\ Tasks /\ ResultShown /\ OrdersWhole /\ FlattenOnTheWay /\ [Next]_vars
        => OrdersWhole' /\ FlattenOnTheWay'
<1> SUFFICES ASSUME TypeOK, Tasks, ResultShown, OrdersWhole, FlattenOnTheWay, [Next]_vars
             PROVE  OrdersWhole' /\ FlattenOnTheWay'
  OBVIOUS
<1>0. /\ announced \in Activities /\ closing \in Positions /\ gui \in GuiStates
      /\ Len(announced.orders) \in Nat /\ announced.count \in Nat
  BY DEF TypeOK, WindowTypeOK, FlattenTypeOK, Activities
<1>1. ASSUME announced' = announced, gui'.task \notin {"flatten", "close"}
      PROVE  OrdersWhole' /\ FlattenOnTheWay'
  BY <1>1 DEF OrdersWhole, FlattenOnTheWay
<1>2. CASE GetFigures \/ Answered \/ StopTrading \/ StopReturns
  <2>0. gui' \in {Get("positions"), Idle, Join, Ask(gui.key, Requests(gui.key)), Ask(gui.key, gui.left - 1)}
    BY <1>2 DEF GetFigures, Answered, StopTrading, StopReturns, Show, Fetched, After
  <2>1. gui'.task \notin {"flatten", "close"}
    BY <2>0 DEF Get, Ask, Idle, Join, Doing
  <2> QED BY <1>1, <1>2, <2>1 DEF GetFigures, Answered, StopTrading, StopReturns, bridgeVars
<1>3. ASSUME UNCHANGED <<announced, closing>>, gui'.task = gui.task
      PROVE  OrdersWhole' /\ FlattenOnTheWay'
  BY <1>3 DEF OrdersWhole, FlattenOnTheWay
<1>4. CASE OtherTrade \/ UNCHANGED vars
  BY <1>3, <1>4 DEF OtherTrade, vars, bridgeVars
<1>5. ASSUME NEW w \in Slots, NextSymbol(w) \/ SymbolDone(w) \/ Pause(w) \/ Wake(w)
      PROVE  OrdersWhole' /\ FlattenOnTheWay'
  BY <1>3, <1>5 DEF NextSymbol, SymbolDone, Pause, Wake, Becomes, bridgeVars
<1>6. CASE Tick
  BY <1>0, <1>3, <1>6 DEF Tick, GuiStates
<1>7. ASSUME NEW button, announced' = Activity(button), gui'.task # "close"
      PROVE  OrdersWhole' /\ FlattenOnTheWay'
  <2>1. /\ announced'.orders = <<>> /\ announced'.count = 0 /\ announced'.held = NoPositions
        /\ ~announced'.failed /\ ~announced'.done
    BY <1>7 DEF Activity
  <2>2. Whole(announced')
    BY <2>1, NothingOrdered
  <2> QED BY <1>7, <2>1, <2>2 DEF OrdersWhole, FlattenOnTheWay, Whole, Sold, SymbolsIn, Long
<1>8. CASE Timeout \/ Refresh \/ Click("flatten") \/ Click("emergency") \/ StartTrading
  <2>1. gui'.task # "close"
    BY <1>8 DEF Timeout, Refresh, Click, StartTrading, Get, Flatten, Idle, Doing
  <2> QED BY <1>7, <1>8, <2>1 DEF Timeout, Refresh, Click, StartTrading
<1>9. ASSUME NEW activity \in Activities, NEW failed \in BOOLEAN, NEW cached,
             FlattenReturns(activity, failed, cached), Whole(activity),
             failed \/ Sold(activity) = Long(activity),
             Len(activity.orders) - activity.count \in IF failed THEN {0, 1} ELSE {0}
      PROVE  OrdersWhole' /\ FlattenOnTheWay'
  <2>1. /\ announced' = [activity EXCEPT !.done = TRUE, !.failed = failed]
        /\ gui'.task = "get"
    BY <1>9 DEF FlattenReturns, Get, Doing
  <2>2. /\ announced' \in Activities /\ announced'.orders = activity.orders
        /\ announced'.held = activity.held /\ announced'.count = activity.count
        /\ announced'.failed = failed
    BY <2>1 DEF Activities
  <2>3. Sold(announced') = Sold(activity) /\ Long(announced') = Long(activity) /\ Whole(announced')
    BY <1>9, <2>2, SameOrders
  <2> QED BY <1>9, <2>1, <2>2, <2>3 DEF OrdersWhole, FlattenOnTheWay, Whole, Sold, Long
<1>10. CASE FlattenDemo
  <2>1. announced.orders = <<>> /\ announced.count = 0 /\ announced.held = NoPositions
    BY <1>10 DEF FlattenDemo, FlattenOnTheWay
  <2>2. Sold(announced) = {} /\ Len(announced.orders) = 0
    BY <2>1, NothingOrdered
  <2>3. Long(announced) = {}
    BY <2>1 DEF Long, NoPositions
  <2>4. Len(announced.orders) - announced.count \in {0}
    BY <2>1, <2>2
  <2> QED BY <1>0, <1>9, <1>10, <2>2, <2>3, <2>4 DEF FlattenDemo, OrdersWhole
<1>11. CASE FlattenReads
  <2>1. announced.orders = <<>> /\ announced.count = 0 /\ ~announced.failed /\ ~announced.done
    BY <1>11 DEF FlattenReads, FlattenOnTheWay, ResultShown
  <2>2. CASE FlattenReturns(announced, TRUE, cache)
    <3>1. Whole(announced) /\ Len(announced.orders) - announced.count \in {0, 1}
      BY <2>1, NothingOrdered
    <3> QED BY <1>0, <1>9, <2>2, <3>1
  <2>3. CASE /\ closing' = [s \in ToSell(PositionsReply) |-> PositionsReply[s]]
             /\ gui' = Close(gui.key)
             /\ announced' = [announced EXCEPT !.held = PositionsReply]
    <3>1. /\ announced'.orders = <<>> /\ announced'.count = 0 /\ ~announced'.failed /\ ~announced'.done
          /\ announced'.held = PositionsReply
      BY <1>0, <2>1, <2>3 DEF Activities
    <3>2. Sold(announced') = {} /\ Whole(announced') /\ Len(announced'.orders) = 0
      BY <3>1, NothingOrdered
    <3>3. Long(announced') = DOMAIN closing' /\ \A s \in DOMAIN closing' : closing'[s] = announced'.held[s]
      BY <2>3, <3>1 DEF Long, ToSell
    <3>4. gui'.task = "close"
      BY <2>3 DEF Close, Doing
    <3> QED BY <3>1, <3>2, <3>3, <3>4 DEF OrdersWhole, FlattenOnTheWay, Whole, Sold, Long
  <2> QED BY <1>11, <2>2, <2>3 DEF FlattenReads
<1>12. CASE FlattenOrders
  <2>1. PICK s \in DOMAIN closing : FlattenOrders!2!(s)
    BY <1>12 DEF FlattenOrders
  <2>2. /\ Sold(announced) \cup DOMAIN closing = Long(announced)
        /\ Sold(announced) \cap DOMAIN closing = {}
        /\ \A t \in DOMAIN closing : closing[t] = announced.held[t]
        /\ announced.count = Len(announced.orders) /\ ~announced.failed /\ ~announced.done
    BY <1>12 DEF FlattenOrders, FlattenOnTheWay, ResultShown
  <2>3. s \in Long(announced) /\ s \notin Sold(announced) /\ closing[s] = announced.held[s]
    BY <2>1, <2>2
  <2>4. /\ WithOrder(s) \in Activities
        /\ Sold(WithOrder(s)) = Sold(announced) \cup {s}
        /\ Long(WithOrder(s)) = Long(announced)
        /\ Len(WithOrder(s).orders) = Len(announced.orders) + 1
        /\ Whole(WithOrder(s))
    BY <1>0, <2>1, <2>3, OneMoreOrder DEF OrdersWhole
  <2>5. /\ WithOrder(s).held = announced.held /\ WithOrder(s).count = announced.count
        /\ ~WithOrder(s).failed /\ ~WithOrder(s).done
    BY <1>0, <2>2 DEF WithOrder, Activities
  <2>6. CASE /\ closing' = [t \in DOMAIN closing \ {s} |-> closing[t]]
             /\ announced' = [WithOrder(s) EXCEPT !.count = @ + 1]
             /\ gui' = Close(gui.key)
    <3>1. WithOrder(s).count + 1 \in Nat
      BY <1>0, <2>5
    <3>2. /\ announced' \in Activities /\ announced'.orders = WithOrder(s).orders
          /\ announced'.held = WithOrder(s).held /\ announced'.count = announced.count + 1
          /\ ~announced'.failed /\ ~announced'.done
      BY <2>4, <2>5, <2>6, <3>1 DEF Activities
    <3>3. Sold(announced') = Sold(WithOrder(s)) /\ Long(announced') = Long(WithOrder(s)) /\ Whole(announced')
      BY <2>4, <3>2, SameOrders
    <3>4. Sold(announced') \cup DOMAIN closing' = Long(announced') /\ Sold(announced') \cap DOMAIN closing' = {}
      BY <2>1, <2>2, <2>4, <2>6, <3>3
    <3>5. \A t \in DOMAIN closing' : closing'[t] = announced'.held[t]
      BY <2>2, <2>5, <2>6, <3>2
    <3>6. announced'.count = Len(announced'.orders)
      BY <2>2, <2>4, <3>2
    <3>7. gui'.task = "close"
      BY <2>6 DEF Close, Doing
    <3> QED BY <3>2, <3>3, <3>4, <3>5, <3>6, <3>7 DEF OrdersWhole, FlattenOnTheWay, Whole, Sold, Long
  <2>7. CASE FlattenReturns(WithOrder(s), TRUE, Outdated(cache))
    <3>1. Len(WithOrder(s).orders) - WithOrder(s).count \in {0, 1}
      BY <1>0, <2>2, <2>4, <2>5
    <3> QED BY <1>9, <2>4, <2>7, <3>1
  <2>8. CASE FlattenReturns(announced, TRUE, cache)
    <3>1. Len(announced.orders) - announced.count \in {0, 1}
      BY <1>0, <2>2
    <3> QED BY <1>0, <1>9, <2>8, <3>1 DEF OrdersWhole
  <2> QED BY <2>1, <2>6, <2>7, <2>8
<1>13. CASE FlattenFinishes
  <2>1. /\ Sold(announced) = Long(announced) /\ announced.count = Len(announced.orders)
    BY <1>13 DEF FlattenFinishes, FlattenOnTheWay
  <2>2. Len(announced.orders) - announced.count \in {0}
    BY <1>0, <2>1
  <2> QED BY <1>0, <1>9, <1>13, <2>1, <2>2 DEF FlattenFinishes, OrdersWhole
<1> QED
  BY <1>2, <1>4, <1>5, <1>6, <1>8, <1>10, <1>11, <1>12, <1>13 DEF Next

-----------------------------------------------------------------------------
(* What is stopped *)

\* A worker that is told to stop needs less time than Stop waits.
LEMMA RestBounds ==
    ASSUME NEW worker \in Workers
    PROVE  Rest(worker) \in Int /\ Rest(worker) < WaitLimit
BY TimingAssumption DEF Rest, Workers

\* A worker that neither works nor sleeps needs none.
LEMMA NoRest ==
    ASSUME NEW worker, worker.at \in {"none", "symbols", "pause"}
    PROVE  Rest(worker) = 0
BY DEF Rest

LEMMA NextWorkers == TypeOK /\ Tasks /\ WorkerInv /\ [Next]_vars => WorkerInv'
<1> SUFFICES ASSUME TypeOK, Tasks, WorkerInv, [Next]_vars PROVE WorkerInv'
  OBVIOUS
<1>0. /\ workers \in [Slots -> Workers] /\ gui \in GuiStates
      /\ page \in [running : BOOLEAN, worker : Slots \cup {0}] /\ Alive \subseteq Slots
      /\ Work \in Nat /\ WaitLimit \in Nat /\ 1 < WaitLimit
  BY TimingAssumption DEF TypeOK, WindowTypeOK, PageTypeOK, Alive
<1>1. ASSUME UNCHANGED <<page, workers>>, gui'.task # "join" PROVE WorkerInv'
  BY <1>1 DEF WorkerInv, Alive
<1>2. CASE GetFigures \/ Answered
  <2>1. gui' \in {Get("positions"), Idle, Ask(gui.key, Requests(gui.key)), Ask(gui.key, gui.left - 1)}
    BY <1>2 DEF GetFigures, Answered, Show, Fetched, After
  <2>2. gui'.task # "join"
    BY <2>1 DEF Get, Ask, Idle, Doing
  <2> QED BY <1>1, <1>2, <2>2 DEF GetFigures, Answered, pageVars
<1>3. CASE Timeout \/ Refresh \/ Click("flatten") \/ Click("emergency")
  BY <1>1, <1>3 DEF Timeout, Refresh, Click, Get, Flatten, Doing, pageVars
<1>4. CASE FlattenDemo \/ FlattenReads \/ FlattenOrders \/ FlattenFinishes
  <2>1. gui' \in {Get("account"), Close(gui.key)} /\ UNCHANGED pageVars
    BY <1>4 DEF FlattenDemo, FlattenReads, FlattenOrders, FlattenFinishes, FlattenReturns
  <2>2. gui'.task # "join"
    BY <2>1 DEF Get, Close, Doing
  <2> QED BY <1>1, <2>1, <2>2 DEF pageVars
<1>5. CASE StartTrading
  <2>1. PICK w \in Slots \ Alive :
           page' = [running |-> TRUE, worker |-> w] /\ workers' = [workers EXCEPT ![w] = NewWorker]
    BY <1>5 DEF StartTrading
  <2>2. Alive = {} /\ gui'.task = "idle"
    BY <1>5 DEF StartTrading, WorkerInv, Idle, Doing
  <2>3. Alive' = {w} /\ workers'[w] = NewWorker
    BY <1>0, <2>1, <2>2 DEF Alive, NewWorker
  <2>4. Rest(NewWorker) = 0
    BY DEF Rest, NewWorker
  <2> QED BY <2>1, <2>2, <2>3, <2>4 DEF WorkerInv
<1>6. CASE StopTrading
  <2>1. /\ page' = page /\ page.running /\ page.worker \in Slots /\ Alive \subseteq {page.worker}
        /\ gui'.waited = 0
    BY <1>6 DEF StopTrading, WorkerInv, Join, Doing
  <2>2. workers' = [workers EXCEPT ![page.worker] = [@ EXCEPT !.running = FALSE]]
    BY <1>6 DEF StopTrading
  <2>3. workers[page.worker] \in Workers
    BY <1>0, <2>1
  <2>4. /\ workers'[page.worker] = [workers[page.worker] EXCEPT !.running = FALSE]
        /\ ~workers'[page.worker].running
        /\ workers'[page.worker].at = workers[page.worker].at
        /\ workers'[page.worker].spent = workers[page.worker].spent
        /\ \A w \in Slots \ {page.worker} : workers'[w] = workers[w]
    BY <1>0, <2>1, <2>2, <2>3 DEF Workers
  <2>5. Rest(workers'[page.worker]) = Rest(workers[page.worker])
    BY <2>4 DEF Rest
  <2>6. Alive' = Alive
    BY <2>1, <2>4 DEF Alive
  <2>7. Rest(workers[page.worker]) < WaitLimit
    BY <2>3, RestBounds
  <2>8. Rest(workers[page.worker]) \in Int
    BY <2>3, RestBounds
  <2> QED BY <2>1, <2>4, <2>5, <2>6, <2>7, <2>8 DEF WorkerInv
<1>7. CASE StopReturns
  <2>1. page'.running = FALSE /\ gui'.task = "idle" /\ UNCHANGED workers /\ page.running
    BY <1>7 DEF StopReturns, Idle, Doing, WorkerInv
  <2>2. page.worker \notin Alive
    <3> SUFFICES ASSUME page.worker \in Alive PROVE FALSE
      OBVIOUS
    <3>1. gui.waited = WaitLimit
      BY <1>7 DEF StopReturns
    <3>2. gui.waited + Rest(workers[page.worker]) < WaitLimit /\ Rest(workers[page.worker]) >= 0
      BY <1>7 DEF StopReturns, WorkerInv
    <3>3. Rest(workers[page.worker]) \in Int
      BY <1>0, RestBounds
    <3> QED BY <1>0, <3>1, <3>2, <3>3
  <2>3. Alive' = {}
    BY <2>1, <2>2 DEF WorkerInv, Alive
  <2> QED BY <2>1, <2>3 DEF WorkerInv
<1>8. ASSUME NEW w \in Slots, NextSymbol(w) \/ SymbolDone(w) \/ Pause(w) \/ Wake(w) PROVE WorkerInv'
  <2>1. w \in Alive /\ page.running /\ page.worker = w /\ Alive = {w} /\ UNCHANGED <<gui, page>>
    BY <1>0, <1>8 DEF NextSymbol, SymbolDone, Pause, Wake, Becomes, WorkerInv, Alive
  <2>2. workers[w] \in Workers
    BY <1>0
  <2>3. ASSUME NEW worker, workers' = [workers EXCEPT ![w] = worker], Rest(worker) >= 0,
               gui.task = "join" => ~worker.running /\ Rest(worker) = 0
        PROVE  WorkerInv'
    <3>1. workers'[w] = worker /\ Alive' \subseteq {w}
      BY <1>0, <2>1, <2>3 DEF Alive
    <3>2. CASE gui.task = "join"
      <4>1. gui.waited + Rest(workers[w]) < WaitLimit /\ Rest(workers[w]) >= 0 /\ gui.waited \in Nat
        BY <1>0, <2>1, <3>2 DEF WorkerInv, GuiStates
      <4>2. Rest(workers[w]) \in Int
        BY <2>2, RestBounds
      <4>3. gui.waited + Rest(worker) < WaitLimit
        BY <1>0, <2>3, <3>2, <4>1, <4>2
      <4> QED BY <2>1, <2>3, <3>1, <3>2, <4>3 DEF WorkerInv
    <3> QED BY <2>1, <2>3, <3>1, <3>2 DEF WorkerInv
  <2>4. gui.task = "join" => ~workers[w].running
    BY <2>1 DEF WorkerInv
  <2>5. ASSUME NEW worker, workers' = [workers EXCEPT ![w] = worker],
               worker.at \in {"none", "symbols", "pause"}, workers[w].running \/ ~worker.running
        PROVE  WorkerInv'
    <3>1. Rest(worker) = 0
      BY <2>5, NoRest
    <3>2. gui.task = "join" => ~worker.running
      BY <2>4, <2>5
    <3>3. Rest(worker) >= 0
      BY <3>1
    <3> QED BY <2>3, <2>5, <3>1, <3>2, <3>3
  <2>6. CASE NextSymbol(w)
    <3>1. CASE workers' = [workers EXCEPT ![w] = [workers[w] EXCEPT !.at = "working", !.spent = 0]]
               /\ workers[w].running
      <4>1. Rest([workers[w] EXCEPT !.at = "working", !.spent = 0]) >= 0
        BY <1>0, <2>2 DEF Rest, Workers
      <4> QED BY <2>3, <2>4, <3>1, <4>1
    <3>2. CASE workers' = [workers EXCEPT ![w] = [workers[w] EXCEPT !.at = "pause", !.elapsed = 0]]
      <4>1. /\ [workers[w] EXCEPT !.at = "pause", !.elapsed = 0].at = "pause"
            /\ [workers[w] EXCEPT !.at = "pause", !.elapsed = 0].running = workers[w].running
        BY <2>2 DEF Workers
      <4> QED BY <2>5, <3>2, <4>1
    <3> QED BY <2>6, <3>1, <3>2 DEF NextSymbol, Becomes
  <2>7. CASE SymbolDone(w)
    <3>1. /\ [workers[w] EXCEPT !.at = "symbols", !.symbol = @ + 1].at = "symbols"
          /\ [workers[w] EXCEPT !.at = "symbols", !.symbol = @ + 1].running = workers[w].running
      BY <2>2 DEF Workers
    <3> QED BY <2>5, <2>7, <3>1 DEF SymbolDone, Becomes
  <2>8. CASE Pause(w)
    <3>1. CASE workers' = [workers EXCEPT ![w] = [workers[w] EXCEPT !.at = "sleeping", !.spent = 0]]
               /\ workers[w].running
      <4>1. Rest([workers[w] EXCEPT !.at = "sleeping", !.spent = 0]) >= 0
        BY <2>2 DEF Rest, Workers
      <4> QED BY <2>3, <2>4, <3>1, <4>1
    <3>2. CASE workers' = [workers EXCEPT ![w] = [workers[w] EXCEPT !.at = "symbols", !.symbol = 1]]
               /\ workers[w].running
      <4>1. [workers[w] EXCEPT !.at = "symbols", !.symbol = 1].at = "symbols"
        BY <2>2 DEF Workers
      <4> QED BY <2>5, <3>2, <4>1
    <3>3. CASE workers' = [workers EXCEPT ![w] = NoWorker]
      BY <2>5, <3>3 DEF NoWorker
    <3> QED BY <2>2, <2>8, <3>1, <3>2, <3>3 DEF Pause, PauseIsOver, Becomes, Workers
  <2>9. CASE Wake(w)
    <3>1. /\ [workers[w] EXCEPT !.at = "pause", !.elapsed = @ + 1].at = "pause"
          /\ [workers[w] EXCEPT !.at = "pause", !.elapsed = @ + 1].running = workers[w].running
      BY <2>2 DEF Workers
    <3> QED BY <2>5, <2>9, <3>1 DEF Wake, Becomes
  <2> QED BY <1>8, <2>6, <2>7, <2>8, <2>9
<1>9. CASE Tick
  <2>1. ASSUME NEW w \in Alive
        PROVE  /\ workers'[w].at = workers[w].at /\ workers'[w].running = workers[w].running
               /\ Rest(workers'[w]) = Rest(workers[w]) - 1 /\ Rest(workers'[w]) >= 0
    <3>1. w \in Slots /\ workers[w] \in Workers
      BY <1>0
    <3>2. workers'[w] = [workers[w] EXCEPT !.spent = @ + 1]
      BY <1>9, <3>1 DEF Tick
    <3>3. /\ workers'[w].at = workers[w].at /\ workers'[w].running = workers[w].running
          /\ workers'[w].spent = workers[w].spent + 1
      BY <3>1, <3>2 DEF Workers
    <3>4. WorkerMayWait(w) /\ workers[w].spent \in Nat
      BY <1>9, <3>1 DEF Tick, Workers
    <3> QED BY <1>0, <3>3, <3>4 DEF WorkerMayWait, Rest
  <2>2. Alive' = Alive
    <3>1. \A w \in Slots \ Alive : workers'[w] = NoWorker
      BY <1>9 DEF Tick
    <3> QED BY <1>0, <2>1, <3>1 DEF Alive, NoWorker
  <2>3. page' = page /\ gui'.task = gui.task
    BY <1>0, <1>9 DEF Tick, GuiStates
  <2>4. CASE gui.task = "join"
    <3>1. gui # Idle
      BY <2>4 DEF Idle, Doing
    <3>2. gui'.waited = gui.waited + 1 /\ gui.waited \in Nat
      BY <1>0, <1>9, <3>1 DEF Tick, GuiStates
    <3>3. \A w \in Alive : Rest(workers[w]) \in Int
      BY <1>0, RestBounds
    <3> QED BY <1>0, <2>1, <2>2, <2>3, <2>4, <3>2, <3>3 DEF WorkerInv
  <2> QED BY <2>1, <2>2, <2>3, <2>4 DEF WorkerInv
<1>10. CASE OtherTrade \/ UNCHANGED vars
  BY <1>10 DEF OtherTrade, vars, pageVars, WorkerInv, Alive
<1> QED
  BY <1>2, <1>3, <1>4, <1>5, <1>6, <1>7, <1>8, <1>9, <1>10 DEF Next

-----------------------------------------------------------------------------

LEMMA InitInv == Init => Inv
<1> SUFFICES ASSUME Init PROVE Inv
  OBVIOUS
<1>1. gui.task = "get" /\ gui.key = "account" /\ announced = Activity("none")
  BY DEF Init, Get, Doing
<1>2. announced.orders = <<>> /\ ~announced.done
  BY <1>1 DEF Activity
<1>3. Tasks /\ LoadedRecent /\ ResultShown /\ FlattenOnTheWay
  BY <1>1, <1>2 DEF Tasks, LoadedRecent, ResultShown, FlattenOnTheWay, Keys
<1>4. OrdersWhole
  BY <1>2, NothingOrdered DEF OrdersWhole
<1>5. WorkerInv
  <2>1. Alive = {} /\ ~page.running
    BY DEF Init, Alive, NoWorker
  <2> QED BY <1>1, <2>1 DEF WorkerInv
<1> QED BY <1>3, <1>4, <1>5, InitTypes DEF Inv

LEMMA Invariance == Spec => []Inv
<1>1. Init => Inv
  BY InitInv
<1>2. Inv /\ [Next]_vars => Inv'
  BY NextTypes, NextTasks, NextRecent, NextResultShown, NextOrders, NextWorkers DEF Inv
<1> QED BY <1>1, <1>2, PTL DEF Spec

\* Whatever the window, the worker and the account do, every variable keeps its
\* type: no position is of an unknown symbol and no figure of an unknown key.
THEOREM TypeCorrect == Spec => []TypeOK
<1>1. Inv => TypeOK
  BY DEF Inv
<1> QED BY <1>1, Invariance, PTL

\* For every time to live, period of the timer and latency: between two
\* timeouts the dashboard shows nothing that was fetched longer than a time to
\* live before the last one (data_bridge.py:261, dashboard.py:360).
THEOREM ShowsRecent == Spec => []ShownIsRecent
<1>1. Inv => ShownIsRecent
  <2> SUFFICES ASSUME Inv, gui = Idle, timer < RefreshPeriod, NEW k \in Keys
               PROVE  shown[k].age < timer + CacheTtl
    BY DEF ShownIsRecent
  <2>1. Recent("account") /\ Recent("positions")
    BY DEF Inv, LoadedRecent, Idle, Doing
  <2> QED BY <2>1 DEF Recent, Keys
<1> QED BY <1>1, Invariance, PTL

\* For every account and every latency, however often the others trade: after
\* Flatten All nothing that was fetched before its orders is shown
\* (dashboard.py:415).
THEOREM ShowsTheResult == Spec => []FlattenShowsTheResult
<1>1. Inv => FlattenShowsTheResult
  BY DEF Inv, ResultShown, FlattenShowsTheResult, Idle, Doing
<1> QED BY <1>1, Invariance, PTL

\* For every account and latency, whoever else trades: a flatten sells only what it
\* read as held long, each position once and whole, all of them unless a request
\* fails, and reports every order but one whose answer was lost (data_bridge.py:397).
\* Short positions it leaves open, which is not what data_bridge.py:398 says.
THEOREM SellsTheLongs == Spec => []FlattenSellsTheLongs
<1>1. Inv => FlattenSellsTheLongs
  BY DEF Inv, OrdersWhole, Whole, FlattenOnTheWay, Sold, Long, SymbolsIn, FlattenSellsTheLongs
<1> QED BY <1>1, Invariance, PTL

\* As long as a symbol takes less time than Stop waits, and that is more than a
\* second: no two workers, and none behind a page that says "Stopped"
\* (autotrader_page.py:603).
THEOREM StopStops == Spec => []StoppedMeansStopped
<1>1. Inv => StoppedMeansStopped
  <2> SUFFICES ASSUME WorkerInv PROVE StoppedMeansStopped
    BY DEF Inv
  <2>1. IsFiniteSet({page.worker}) /\ Cardinality({page.worker}) = 1 /\ Cardinality({}) = 0
    BY FS_Singleton, FS_EmptySet
  <2>2. CASE page.running
    BY <2>1, <2>2, FS_Subset DEF WorkerInv, StoppedMeansStopped
  <2> QED BY <2>1, <2>2 DEF WorkerInv, StoppedMeansStopped
<1> QED BY <1>1, Invariance, PTL
=============================================================================
