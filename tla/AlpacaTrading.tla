--------------------------- MODULE AlpacaTrading ---------------------------
(***************************************************************************)
(* Two programs on one Alpaca account: the AutoTrader's loop (autotrader.py*)
(* with an AlpacaBroker) and the dashboard's Flatten All / Emergency Stop  *)
(* (DataBridge.flatten_all).  Both read the positions, decide, and send    *)
(* orders; between a program's requests everything else may happen.        *)
(* Signals and sizes are left open; cash is what decides whether a wanted  *)
(* BUY is sent at all, so that is left open too.                           *)
(***************************************************************************)
EXTENDS AlpacaBroker

CONSTANTS
    SymbolList,    \* config.symbols, the order the loop visits them in
    MaxPositions,  \* config.max_positions
    Lots,          \* order sizes
    MaxOrders      \* bound: no decision starts once this many orders exist

Trader == "trader"
Dashboard == "dashboard"

ASSUME TradingAssumption ==
    /\ Clients = {Trader, Dashboard}
    /\ SymbolList \in Seq(Symbols)
    /\ MaxPositions \in Nat /\ Lots \subseteq Nat \ {0} /\ MaxOrders \in Nat

VARIABLES
    pc,          \* where each program is
    seen,        \* the positions each program read last
    sent,        \* the order each program waits for a reply to; 0 if refused
    log,         \* AlpacaBroker.trades of each program, as places in `orders`
    next_index,  \* the loop's place in SymbolList
    signal,      \* the signal in hand: [symbol, side]
    to_close,    \* flatten_all: the symbols it has not come to yet
    lost,        \* history: orders whose reply was lost
    overlapped   \* history: a program read the positions while an order was
                 \* pending or another program was between reading and ordering

vars == <<serviceVars, pc, seen, sent, log, next_index, signal, to_close, lost, overlapped>>

NoSignal == [symbol |-> "none", side |-> "none"]
NothingSeen == [s \in {} |-> 0]

Init ==
    /\ ServiceInit
    /\ pc = [c \in Clients |-> "idle"]
    /\ seen = [c \in Clients |-> NothingSeen]
    /\ sent = [c \in Clients |-> 0]
    /\ log = [c \in Clients |-> <<>>]
    /\ next_index = 1 /\ signal = NoSignal /\ to_close = {}
    /\ lost = {} /\ overlapped = FALSE

-----------------------------------------------------------------------------
(* Requests, as both programs make them *)

\* The bound on the run: no decision starts at MaxOrders orders.
Room == Len(orders) < MaxOrders

Deciding(c) == pc[c] \notin {"idle", "positions"}

ReadPositions(c, next) ==
    /\ pc[c] = "positions"
    /\ seen' = [seen EXCEPT ![c] = PositionsReply]
    /\ pc' = [pc EXCEPT ![c] = next]
    /\ overlapped' = (overlapped \/ Pending # {} \/ \E other \in Clients \ {c} : Deciding(other))
    /\ UNCHANGED <<serviceVars, sent, log, next_index, signal, lost>>

\* submit_order sends its request, which the service accepts or refuses.
Post(c, symbol, side, quantity) ==
    /\ pc' = [pc EXCEPT ![c] = "reply"]
    /\ \/ /\ Accept(c, symbol, side, quantity)
          /\ sent' = [sent EXCEPT ![c] = Len(orders) + 1]
       \/ /\ sent' = [sent EXCEPT ![c] = 0]
          /\ UNCHANGED serviceVars
    /\ UNCHANGED <<seen, log, lost, overlapped>>

\* The reply arrives, and the trade is recorded.
Answered(c) ==
    /\ pc[c] = "reply" /\ sent[c] # 0
    /\ log' = [log EXCEPT ![c] = Append(@, sent[c])]
    /\ UNCHANGED lost

\* Mutant: the trade is recorded even when submit_order raises.
FailedRecordingTrade(c) ==
    /\ pc[c] = "reply"
    /\ lost' = IF sent[c] = 0 THEN lost ELSE lost \cup {sent[c]}
    /\ log' = IF sent[c] = 0 THEN log ELSE [log EXCEPT ![c] = Append(@, sent[c])]

\* submit_order raises: the order was refused, or its reply was lost.
Failed(c) ==
    /\ pc[c] = "reply"
    /\ lost' = IF sent[c] = 0 THEN lost ELSE lost \cup {sent[c]}
    /\ UNCHANGED log

-----------------------------------------------------------------------------
(* The AutoTrader's loop *)

\* The loop comes to a symbol and its strategy has an opinion on it; symbols
\* without candles or signals are passed over.
TraderSignal ==
    /\ pc[Trader] = "idle" /\ Room
    /\ \E i \in next_index .. Len(SymbolList), side \in {"buy", "sell"} :
          /\ signal' = [symbol |-> SymbolList[i], side |-> side]
          /\ next_index' = i + 1
    /\ pc' = [pc EXCEPT ![Trader] = "positions"]
    /\ UNCHANGED <<serviceVars, seen, sent, log, to_close, lost, overlapped>>

\* The rest of the symbols is passed over; an iteration may come to nothing.
NewIteration ==
    /\ pc[Trader] = "idle"
    /\ next_index' = 1
    /\ UNCHANGED <<serviceVars, pc, seen, sent, log, signal, to_close, lost, overlapped>>

TraderReads == ReadPositions(Trader, "decide") /\ UNCHANGED to_close

\* get_account or get_positions raises: the exception ends run_once.
TraderReadFails ==
    /\ pc[Trader] = "positions"
    /\ pc' = [pc EXCEPT ![Trader] = "idle"]
    /\ next_index' = 1 /\ signal' = NoSignal
    /\ UNCHANGED <<serviceVars, seen, sent, log, to_close, lost, overlapped>>

\* Mutant: one position too many.
WantsBuyOneMore ==
    /\ signal.side = "buy"
    /\ signal.symbol \notin DOMAIN seen[Trader]
    /\ Cardinality(DOMAIN seen[Trader]) <= MaxPositions

WantsBuy ==
    /\ signal.side = "buy"
    /\ signal.symbol \notin DOMAIN seen[Trader]
    /\ Cardinality(DOMAIN seen[Trader]) < MaxPositions

WantsSell ==
    /\ signal.side = "sell"
    /\ signal.symbol \in DOMAIN seen[Trader]
    /\ seen[Trader][signal.symbol] > 0

TraderBuys ==
    /\ pc[Trader] = "decide" /\ WantsBuy
    /\ \E quantity \in Lots : Post(Trader, signal.symbol, "buy", quantity)
    /\ UNCHANGED <<next_index, signal, to_close>>

\* Mutant: a SELL of one share, whatever is held.
TraderSellsOne ==
    /\ pc[Trader] = "decide" /\ WantsSell
    /\ Post(Trader, signal.symbol, "sell", 1)
    /\ UNCHANGED <<next_index, signal, to_close>>

TraderSells ==
    /\ pc[Trader] = "decide" /\ WantsSell
    /\ Post(Trader, signal.symbol, "sell", seen[Trader][signal.symbol])
    /\ UNCHANGED <<next_index, signal, to_close>>

TraderDone ==
    /\ pc' = [pc EXCEPT ![Trader] = "idle"]
    /\ seen' = [seen EXCEPT ![Trader] = NothingSeen]
    /\ sent' = [sent EXCEPT ![Trader] = 0]
    /\ signal' = NoSignal
    /\ UNCHANGED <<serviceVars, next_index, to_close, overlapped>>

\* No order: nothing wanted, or not enough cash for a BUY.
TraderSkips ==
    /\ pc[Trader] = "decide" /\ ~WantsSell
    /\ TraderDone
    /\ UNCHANGED <<log, lost>>

\* An order that failed is logged as such and the loop goes on.
TraderHears == (Answered(Trader) \/ Failed(Trader)) /\ TraderDone

-----------------------------------------------------------------------------
(* The dashboard: flatten_all *)

Click ==
    /\ pc[Dashboard] = "idle" /\ Room
    /\ pc' = [pc EXCEPT ![Dashboard] = "positions"]
    /\ UNCHANGED <<serviceVars, seen, sent, log, next_index, signal, to_close, lost, overlapped>>

\* Short positions (quantity <= 0) are passed over.
DashboardReads ==
    /\ ReadPositions(Dashboard, "close")
    /\ to_close' = { s \in OpenPositions : shares[s] > 0 }

DashboardCloses ==
    /\ pc[Dashboard] = "close"
    /\ \E s \in to_close :
          /\ Post(Dashboard, s, "sell", seen[Dashboard][s])
          /\ to_close' = to_close \ {s}
    /\ UNCHANGED <<next_index, signal>>

FlattenReturns ==
    /\ pc' = [pc EXCEPT ![Dashboard] = "idle"]
    /\ seen' = [seen EXCEPT ![Dashboard] = NothingSeen]
    /\ to_close' = {}

DashboardFinishes ==
    /\ pc[Dashboard] = "close" /\ to_close = {}
    /\ FlattenReturns
    /\ UNCHANGED <<serviceVars, sent, log, next_index, signal, lost, overlapped>>

DashboardReadFails ==
    /\ pc[Dashboard] = "positions"
    /\ FlattenReturns
    /\ UNCHANGED <<serviceVars, sent, log, next_index, signal, lost, overlapped>>

DashboardHears ==
    /\ Answered(Dashboard)
    /\ pc' = [pc EXCEPT ![Dashboard] = "close"]
    /\ sent' = [sent EXCEPT ![Dashboard] = 0]
    /\ UNCHANGED <<serviceVars, seen, next_index, signal, to_close, overlapped>>

\* One failed order ends the whole loop over the positions.
DashboardGivesUp ==
    /\ Failed(Dashboard)
    /\ FlattenReturns
    /\ sent' = [sent EXCEPT ![Dashboard] = 0]
    /\ UNCHANGED <<serviceVars, next_index, signal, overlapped>>

-----------------------------------------------------------------------------
ServiceStep ==
    /\ \E i \in Pending : Cancel(i) \/ \E n \in 1 .. Unfilled(i) : Fill(i, n)
    /\ UNCHANGED <<pc, seen, sent, log, next_index, signal, to_close, lost, overlapped>>

TraderStep ==
    \/ TraderSignal \/ NewIteration \/ TraderReads \/ TraderReadFails
    \/ TraderBuys \/ TraderSells \/ TraderSkips \/ TraderHears

DashboardStep ==
    \/ Click \/ DashboardReads \/ DashboardReadFails
    \/ DashboardCloses \/ DashboardFinishes \/ DashboardHears \/ DashboardGivesUp

Next == ServiceStep \/ TraderStep \/ DashboardStep

Spec == Init /\ [][Next]_vars

-----------------------------------------------------------------------------
(* Properties *)

OrderRecords ==
    [client : Clients, symbol : Symbols, side : {"buy", "sell"},
     quantity : Nat \ {0}, filled : Nat, status : {"new", "filled", "canceled"}]

Replies == UNION { [held -> Int] : held \in SUBSET Symbols }

\* Every variable has its type; in particular no order is ever sent for no
\* shares or a negative number of them (broker.py:436).
TypeOK ==
    /\ orders \in Seq(OrderRecords)
    /\ shares \in [Symbols -> Int]
    /\ pc \in [Clients -> {"idle", "positions", "decide", "close", "reply"}]
    /\ seen \in [Clients -> Replies]
    /\ sent \in [Clients -> 0 .. Len(orders)]
    /\ log \in [Clients -> Seq(DOMAIN orders)]
    /\ next_index \in 1 .. Len(SymbolList) + 1
    /\ signal \in [symbol : Symbols, side : {"buy", "sell"}] \cup {NoSignal}
    /\ to_close \subseteq Symbols
    /\ lost \subseteq DOMAIN orders
    /\ overlapped \in BOOLEAN

OrdersOf(c) == { i \in DOMAIN orders : orders[i].client = c }

Waiting(c) == IF pc[c] = "reply" /\ sent[c] # 0 THEN {sent[c]} ELSE {}

\* The local trade log of a program (broker.py:478) is exact up to lost replies:
\* it names every order of that program but those, once and in the order they
\* were accepted, and nothing the service refused.
LogIsExactUpToLoss ==
    \A c \in Clients :
        /\ OrdersOf(c) \ lost = ToSet(log[c]) \cup (Waiting(c) \ lost)
        /\ \A i, j \in DOMAIN log[c] : i < j => log[c][i] < log[c][j]

\* "Maximum number of simultaneous open positions" (autotrader.py:59): the
\* account never holds more, with a broker whose orders fill later.
PositionLimit == Cardinality(OpenPositions) <= MaxPositions

\* As long as nobody read the positions while an order was still pending or
\* the other program was deciding, the account is safe: below the limit and
\* short of nothing, whatever requests were refused and replies lost.
SafeWithoutOverlap ==
    ~overlapped => PositionLimit /\ \A s \in Symbols : shares[s] >= 0

Book == INSTANCE PositionBook WITH book <- PositionsReply

\* A part more of order i, whose symbol is open and stays open: of a buy all
\* its shares are from this order, of a sell what is left is left to this order.
GoesOn(i) ==
    LET s == orders[i].symbol IN
    /\ s \in OpenPositions /\ OpenPositions' = OpenPositions
    /\ \A t \in Symbols \ {s} : shares'[t] = shares[t]
    /\ shares'[s] = IF orders[i].side = "buy" THEN orders'[i].filled ELSE Unfilled(i)'

\* Until programs overlap the account follows the position book, order by
\* order: the first part of a buy opens a flat symbol below the limit, the last
\* of a sell leaves nothing, and between them a position changes only by further
\* parts of the one order that opened it or is to close it (autotrader.py:205).
FollowsTheBookInParts ==
    [][~overlapped' => [Book!BookNext \/ \E i \in Pending : GoesOn(i)]_PositionsReply]_vars
=============================================================================
