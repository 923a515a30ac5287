---------------------------- MODULE AlpacaProofs ----------------------------
(***************************************************************************)
(* What holds of the two programs on one Alpaca account for every list of  *)
(* symbols, limit and sequence of orders.                                  *)
(***************************************************************************)
EXTENDS AlpacaTrading, FiniteSetTheorems, TLAPS

-----------------------------------------------------------------------------
(* The inductive invariants *)

\* What flatten_all has still to sell it has seen, and seen held long.
ClosesWhatItSaw ==
    \A s \in to_close : s \in DOMAIN seen[Dashboard] /\ seen[Dashboard][s] > 0

\* A program has logged all its orders but the lost ones and the one whose
\* reply is on its way, which is later than everything in the log.
LogInv(c) ==
    /\ OrdersOf(c) \ lost = ToSet(log[c]) \cup (Waiting(c) \ lost)
    /\ \A i, j \in DOMAIN log[c] : i < j => log[c][i] < log[c][j]
    /\ \A k \in Waiting(c) :
          /\ orders[k].client = c /\ k \notin lost
          /\ \A i \in DOMAIN log[c] : log[c][i] < k

TypeInv == TypeOK /\ ClosesWhatItSaw

LogsInv == TypeInv /\ \A c \in Clients : LogInv(c)

\* The symbols some pending order would open.
Buying == { s \in Symbols : \E i \in Pending : orders[i].symbol = s /\ orders[i].side = "buy" }

\* Every pending order opens a flat symbol or closes one whole: a buy's symbol
\* holds what is filled of it, a sell's what is not; no two are for one symbol.
OrdersFit ==
    \A i \in Pending :
        /\ \A j \in Pending : orders[i].symbol = orders[j].symbol => i = j
        /\ shares[orders[i].symbol] =
              IF orders[i].side = "buy" THEN orders[i].filled ELSE Unfilled(i)

\* Only one program is between reading the positions and the reply to its last
\* order, and what it read is still so for the symbols it has yet to decide on.
OneDecides ==
    /\ ~(Deciding(Trader) /\ Deciding(Dashboard))
    /\ pc[Trader] = "decide" => Pending = {} /\ seen[Trader] = PositionsReply
    /\ Deciding(Dashboard) =>
          /\ \A i \in Pending : orders[i].side = "sell" /\ orders[i].symbol \notin to_close
          /\ \A s \in to_close : seen[Dashboard][s] = shares[s]

Undisturbed ==
    /\ \A s \in Symbols : shares[s] >= 0
    /\ Cardinality(OpenPositions \cup Buying) <= MaxPositions
    /\ OrdersFit
    /\ OneDecides

SafeInv == TypeInv /\ (~overlapped => Undisturbed)

-----------------------------------------------------------------------------
(* Types *)

\* What Append does, to a sequence and to the set of its elements.
LEMMA Appended ==
    ASSUME NEW S, NEW seq \in Seq(S), NEW e \in S
    PROVE  /\ Append(seq, e) \in Seq(S)
           /\ Len(Append(seq, e)) = Len(seq) + 1
           /\ DOMAIN Append(seq, e) = DOMAIN seq \cup {Len(seq) + 1}
           /\ \A i \in DOMAIN seq : Append(seq, e)[i] = seq[i]
           /\ Append(seq, e)[Len(seq) + 1] = e
           /\ ToSet(Append(seq, e)) = ToSet(seq) \cup {e}
<1>1. /\ Append(seq, e) \in Seq(S)
      /\ Len(Append(seq, e)) = Len(seq) + 1
      /\ DOMAIN Append(seq, e) = DOMAIN seq \cup {Len(seq) + 1}
      /\ \A i \in DOMAIN seq : Append(seq, e)[i] = seq[i]
      /\ Append(seq, e)[Len(seq) + 1] = e
  OBVIOUS
<1>2. ToSet(Append(seq, e)) = ToSet(seq) \cup {e}
  BY <1>1 DEF ToSet
<1> QED BY <1>1, <1>2

\* A log stays a log while orders are added.
LEMMA LogsStay ==
    ASSUME NEW S, NEW T, S \subseteq T, log \in [Clients -> Seq(S)]
    PROVE  log \in [Clients -> Seq(T)]
<1>1. ASSUME NEW c \in Clients
      PROVE  log[c] \in Seq(T)
  <2>1. log[c] \in Seq(S)
    OBVIOUS
  <2> QED BY <2>1
<1> QED BY <1>1

\* An accepted order is added at the end; a refused one leaves no trace.
LEMMA Posted ==
    ASSUME TypeInv, NEW c \in Clients, NEW s \in Symbols, NEW side \in {"buy", "sell"},
           NEW quantity \in Nat \ {0}, Post(c, s, side, quantity)
    PROVE  /\ orders' \in Seq(OrderRecords)
           /\ DOMAIN orders \subseteq DOMAIN orders'
           /\ sent' \in [Clients -> 0 .. Len(orders')]
           /\ log' \in [Clients -> Seq(DOMAIN orders')]
           /\ pc' \in [Clients -> {"idle", "positions", "decide", "close", "reply"}]
           /\ shares' = shares
<1> USE DEF TypeInv, TypeOK
<1>1. CASE /\ Accept(c, s, side, quantity)
           /\ sent' = [sent EXCEPT ![c] = Len(orders) + 1]
  <2> DEFINE new == [client |-> c, symbol |-> s, side |-> side,
                     quantity |-> quantity, filled |-> 0, status |-> "new"]
  <2>1. new \in OrderRecords
    BY DEF OrderRecords
  <2>2. orders' = Append(orders, new) /\ shares' = shares
    BY <1>1 DEF Accept
  <2> HIDE DEF new
  <2>3. /\ orders' \in Seq(OrderRecords) /\ Len(orders') = Len(orders) + 1
        /\ DOMAIN orders \subseteq DOMAIN orders'
    BY <2>1, <2>2, Appended
  <2>4. sent' \in [Clients -> 0 .. Len(orders')]
    BY <1>1, <2>3
  <2>5. log' \in [Clients -> Seq(DOMAIN orders')]
    BY <2>3, LogsStay DEF Post
  <2> QED BY <2>2, <2>3, <2>4, <2>5 DEF Post
<1>2. CASE sent' = [sent EXCEPT ![c] = 0] /\ UNCHANGED serviceVars
  BY <1>2 DEF Post, serviceVars
<1> QED BY <1>1, <1>2 DEF Post

\* A reply adds an order to the log of the program that waits for it, or is lost.
LEMMA Heard ==
    ASSUME TypeInv, NEW c \in Clients, Answered(c) \/ Failed(c), UNCHANGED orders
    PROVE  /\ log' \in [Clients -> Seq(DOMAIN orders')]
           /\ lost' \subseteq DOMAIN orders'
<1> USE DEF TypeInv, TypeOK
<1>1. sent[c] # 0 => sent[c] \in DOMAIN orders
  OBVIOUS
<1>2. CASE Answered(c)
  <2>1. Append(log[c], sent[c]) \in Seq(DOMAIN orders)
    BY <1>1, <1>2, Appended DEF Answered
  <2> QED BY <1>2, <2>1 DEF Answered
<1>3. CASE Failed(c)
  BY <1>1, <1>3 DEF Failed
<1> QED BY <1>2, <1>3

\* The positions a program reads are of the account's symbols.
LEMMA ReadsReplies ==
    ASSUME TypeInv, NEW c \in Clients
    PROVE  [seen EXCEPT ![c] = PositionsReply] \in [Clients -> Replies]
<1>1. OpenPositions \in SUBSET Symbols
  BY DEF OpenPositions
<1>2. PositionsReply \in [OpenPositions -> Int]
  BY <1>1 DEF PositionsReply, TypeInv, TypeOK
<1>3. PositionsReply \in Replies
  BY <1>1, <1>2 DEF Replies
<1> QED BY <1>3 DEF TypeInv, TypeOK

\* To have seen nothing is a reply too.
LEMMA NothingIsAReply == NothingSeen \in Replies
<1>1. NothingSeen \in [{} -> Int] /\ {} \in SUBSET Symbols
  BY DEF NothingSeen
<1> QED BY <1>1 DEF Replies

\* The service's step for one order: a part of it is filled, or it is over.
Moves(k) == Cancel(k) \/ \E n \in 1 .. Unfilled(k) : Fill(k, n)

\* Such a step leaves who ordered what as it is, and the other orders altogether.
LEMMA Moved ==
    ASSUME TypeInv, NEW k \in Pending, Moves(k)
    PROVE  /\ orders' \in Seq(OrderRecords)
           /\ Len(orders') = Len(orders) /\ DOMAIN orders' = DOMAIN orders
           /\ \A i \in DOMAIN orders :
                 /\ orders'[i].client = orders[i].client
                 /\ orders'[i].symbol = orders[i].symbol
                 /\ orders'[i].side = orders[i].side
                 /\ orders'[i].quantity = orders[i].quantity
           /\ \A i \in DOMAIN orders \ {k} : orders'[i] = orders[i]
           /\ Pending' \subseteq Pending
<1> USE DEF TypeInv, TypeOK
<1>1. k \in DOMAIN orders /\ orders[k] \in OrderRecords
  BY DEF Pending
<1>2. PICK filled \in Nat, status \in {"new", "filled", "canceled"} :
         orders' = [orders EXCEPT ![k].filled = filled, ![k].status = status]
  <2>1. CASE Cancel(k)
    <3>1. orders[k].filled \in Nat
      BY <1>1 DEF OrderRecords
    <3>2. orders' = [orders EXCEPT ![k].filled = orders[k].filled, ![k].status = "canceled"]
      BY <1>1, <2>1 DEF Cancel, OrderRecords
    <3> QED BY <3>1, <3>2
  <2>2. ASSUME NEW n \in 1 .. Unfilled(k), Fill(k, n)
        PROVE  \E filled \in Nat, status \in {"new", "filled", "canceled"} :
                  orders' = [orders EXCEPT ![k].filled = filled, ![k].status = status]
    <3> HIDE DEF TypeInv, TypeOK
    <3>0. /\ orders[k].quantity \in Nat /\ orders[k].filled \in Nat
          /\ orders[k].status \in {"new", "filled", "canceled"}
      BY <1>1 DEF OrderRecords
    <3>1. orders[k].filled + n \in Nat
      BY <3>0 DEF Unfilled
    <3>2. orders' = [orders EXCEPT ![k].filled = orders[k].filled + n,
                                   ![k].status = IF n = Unfilled(k) THEN "filled"
                                                 ELSE orders[k].status]
      BY <2>2 DEF Fill
    <3> QED BY <3>0, <3>1, <3>2
  <2> QED BY <2>1, <2>2 DEF Moves
<1>3. /\ DOMAIN orders' = DOMAIN orders
      /\ orders'[k] = [orders[k] EXCEPT !.filled = filled, !.status = status]
      /\ \A i \in DOMAIN orders \ {k} : orders'[i] = orders[i]
  BY <1>1, <1>2
<1>4. orders'[k] \in OrderRecords
  BY <1>1, <1>3 DEF OrderRecords
<1>5. orders' \in Seq(OrderRecords) /\ Len(orders') = Len(orders)
  <2> DEFINE part == [orders EXCEPT ![k].filled = filled]
  <2>1. /\ part \in Seq(OrderRecords) /\ Len(part) = Len(orders)
        /\ part[k] = [orders[k] EXCEPT !.filled = filled] /\ k \in DOMAIN part
    <3>1. [orders[k] EXCEPT !.filled = filled] \in OrderRecords
      BY <1>1 DEF OrderRecords
    <3> QED BY <1>1, <3>1
  <2>2. orders' = [part EXCEPT ![k].status = status]
    BY <1>2
  <2> HIDE DEF part
  <2>3. [part[k] EXCEPT !.status = status] \in OrderRecords
    BY <1>1, <2>1 DEF OrderRecords
  <2> QED BY <2>1, <2>2, <2>3
<1>6. \A i \in DOMAIN orders :
         /\ orders'[i].client = orders[i].client
         /\ orders'[i].symbol = orders[i].symbol
         /\ orders'[i].side = orders[i].side
         /\ orders'[i].quantity = orders[i].quantity
  BY <1>1, <1>3 DEF OrderRecords
<1>7. Pending' \subseteq Pending
  BY <1>3 DEF Pending
<1> QED BY <1>3, <1>5, <1>6, <1>7

LEMMA TypeInit == Init => TypeInv
<1> SUFFICES ASSUME Init PROVE TypeInv
  OBVIOUS
<1> USE TradingAssumption DEF Init, ServiceInit
<1>1. orders \in Seq(OrderRecords) /\ DOMAIN orders = {} /\ Len(orders) = 0
  OBVIOUS
<1>2. seen \in [Clients -> Replies]
  BY NothingIsAReply
<1>3. log \in [Clients -> Seq(DOMAIN orders)]
  BY <<>> \in Seq(DOMAIN orders)
<1>4. next_index \in 1 .. Len(SymbolList) + 1
  BY Len(SymbolList) \in Nat
<1>5. ClosesWhatItSaw
  BY DEF ClosesWhatItSaw
<1>6. /\ pc \in [Clients -> {"idle", "positions", "decide", "close", "reply"}]
      /\ sent \in [Clients -> 0 .. Len(orders)]
  BY <1>1
<1>7. shares \in [Symbols -> Int] /\ to_close \subseteq Symbols /\ lost \subseteq DOMAIN orders
  OBVIOUS
<1> HIDE DEF ServiceInit
<1> QED BY <1>1, <1>2, <1>3, <1>4, <1>5, <1>6, <1>7 DEF TypeInv, TypeOK

\* One step of the service, of the trader, or of the dashboard keeps the types.
LEMMA TypeService == TypeInv /\ ServiceStep => TypeInv'
<1> SUFFICES ASSUME TypeInv, ServiceStep PROVE TypeInv'
  OBVIOUS
<1>1. PICK k \in Pending : Moves(k)
  BY DEF ServiceStep, Moves
<1>2. /\ orders' \in Seq(OrderRecords)
      /\ Len(orders') = Len(orders) /\ DOMAIN orders' = DOMAIN orders
  BY <1>1, Moved
<1>3. shares' \in [Symbols -> Int]
  <2>1. k \in DOMAIN orders /\ orders[k] \in OrderRecords
    BY DEF TypeInv, TypeOK, Pending
  <2>2. orders[k].symbol \in Symbols /\ Unfilled(k) \in Int
    BY <2>1 DEF OrderRecords, Unfilled
  <2>3. shares[orders[k].symbol] \in Int
    BY <2>2 DEF TypeInv, TypeOK
  <2>4. ASSUME NEW n \in 1 .. Unfilled(k), Fill(k, n)
        PROVE  shares' \in [Symbols -> Int]
    BY <2>2, <2>3, <2>4 DEF Fill, TypeInv, TypeOK
  <2>5. CASE Cancel(k)
    BY <2>5 DEF Cancel, TypeInv, TypeOK
  <2> QED BY <1>1, <2>4, <2>5 DEF Moves
<1> QED BY <1>2, <1>3 DEF ServiceStep, TypeInv, TypeOK, ClosesWhatItSaw

\* The trader orders shares of a symbol of its account, and never of none.
LEMMA TraderOrders ==
    ASSUME TypeInv, TraderBuys \/ TraderSells
    PROVE  /\ signal.symbol \in Symbols /\ pc[Trader] = "decide"
           /\ \E side \in {"buy", "sell"}, quantity \in Nat \ {0} :
                 Post(Trader, signal.symbol, side, quantity)
<1> USE DEF TypeInv
<1>0. Trader \in Clients
  BY TradingAssumption
<1>1. signal \in [symbol : Symbols, side : {"buy", "sell"}]
  BY DEF TraderBuys, TraderSells, WantsBuy, WantsSell, TypeOK, NoSignal
<1>2. CASE TraderBuys
  BY <1>1, <1>2, TradingAssumption DEF TraderBuys
<1>3. CASE TraderSells
  <2>1. seen[Trader] \in Replies
    BY <1>0 DEF TypeOK
  <2>2. seen[Trader][signal.symbol] \in Nat \ {0}
    BY <1>3, <2>1 DEF TraderSells, WantsSell, Replies
  <2> QED BY <1>1, <1>3, <2>2 DEF TraderSells
<1> QED BY <1>2, <1>3

\* What the dashboard has to close it saw held long.
LEMMA SawToClose ==
    ASSUME TypeInv, NEW s \in to_close
    PROVE  s \in Symbols /\ seen[Dashboard][s] \in Nat \ {0}
<1>1. Dashboard \in Clients
  BY TradingAssumption
<1> QED BY <1>1 DEF TypeInv, TypeOK, ClosesWhatItSaw, Replies

LEMMA TypeTrader == TypeInv /\ TraderStep => TypeInv'
<1> SUFFICES ASSUME TypeInv, TraderStep PROVE TypeInv'
  OBVIOUS
<1> USE DEF TypeInv
<1>0. Trader \in Clients /\ Dashboard \in Clients /\ Trader # Dashboard /\ Len(SymbolList) \in Nat
  BY TradingAssumption DEF Trader, Dashboard
<1>1. CASE TraderSignal
  <2>1. PICK i \in next_index .. Len(SymbolList), side \in {"buy", "sell"} :
           signal' = [symbol |-> SymbolList[i], side |-> side] /\ next_index' = i + 1
    BY <1>1 DEF TraderSignal
  <2>2. i \in 1 .. Len(SymbolList)
    BY <1>0 DEF TypeOK
  <2>3. SymbolList[i] \in Symbols
    BY <2>2, TradingAssumption
  <2>4. next_index' \in 1 .. Len(SymbolList) + 1
    BY <1>0, <2>1, <2>2
  <2> QED BY <1>0, <1>1, <2>1, <2>3, <2>4 DEF TraderSignal, TypeOK, serviceVars, ClosesWhatItSaw
<1>2. CASE NewIteration
  BY <1>0, <1>2 DEF NewIteration, TypeOK, serviceVars, ClosesWhatItSaw
<1>3. CASE TraderReads
  <2>1. seen' \in [Clients -> Replies] /\ seen'[Dashboard] = seen[Dashboard]
    BY <1>0, <1>3, ReadsReplies DEF TraderReads, ReadPositions, TypeOK
  <2> QED BY <1>0, <1>3, <2>1 DEF TraderReads, ReadPositions, TypeOK, serviceVars, ClosesWhatItSaw
<1>4. CASE TraderReadFails
  BY <1>0, <1>4 DEF TraderReadFails, TypeOK, serviceVars, ClosesWhatItSaw
<1>5. CASE TraderBuys \/ TraderSells
  <2>1. signal.symbol \in Symbols
    BY <1>5, TraderOrders
  <2>2. PICK side \in {"buy", "sell"}, quantity \in Nat \ {0} :
           Post(Trader, signal.symbol, side, quantity)
    BY <1>5, TraderOrders
  <2>4. /\ orders' \in Seq(OrderRecords)
        /\ DOMAIN orders \subseteq DOMAIN orders'
        /\ sent' \in [Clients -> 0 .. Len(orders')]
        /\ log' \in [Clients -> Seq(DOMAIN orders')]
        /\ pc' \in [Clients -> {"idle", "positions", "decide", "close", "reply"}]
        /\ shares' = shares
    BY <1>0, <2>1, <2>2, Posted
  <2> QED BY <1>5, <2>2, <2>4 DEF TraderBuys, TraderSells, Post, TypeOK, ClosesWhatItSaw
<1>6. CASE TraderSkips \/ TraderHears
  <2>1. TraderDone
    BY <1>6 DEF TraderSkips, TraderHears
  <2>2. /\ seen' \in [Clients -> Replies] /\ seen'[Dashboard] = seen[Dashboard]
        /\ sent' \in [Clients -> 0 .. Len(orders)]
        /\ pc' \in [Clients -> {"idle", "positions", "decide", "close", "reply"}]
    BY <1>0, <2>1, NothingIsAReply DEF TraderDone, TypeOK
  <2>3. orders' = orders
    BY <2>1 DEF TraderDone, serviceVars
  <2>4. log' \in [Clients -> Seq(DOMAIN orders')] /\ lost' \subseteq DOMAIN orders'
    BY <1>0, <1>6, <2>3, Heard DEF TraderSkips, TraderHears, TypeOK
  <2> QED BY <2>1, <2>2, <2>3, <2>4 DEF TraderDone, TypeOK, serviceVars, ClosesWhatItSaw
<1> QED BY <1>1, <1>2, <1>3, <1>4, <1>5, <1>6 DEF TraderStep

LEMMA TypeDashboard == TypeInv /\ DashboardStep => TypeInv'
<1> SUFFICES ASSUME TypeInv, DashboardStep PROVE TypeInv'
  OBVIOUS
<1> USE DEF TypeInv
<1>0. Trader \in Clients /\ Dashboard \in Clients
  BY TradingAssumption DEF Trader, Dashboard
<1>1. CASE Click
  BY <1>0, <1>1 DEF Click, TypeOK, serviceVars, ClosesWhatItSaw
<1>2. CASE DashboardReads
  <2>1. seen' \in [Clients -> Replies] /\ seen'[Dashboard] = PositionsReply
    BY <1>0, <1>2, ReadsReplies DEF DashboardReads, ReadPositions, TypeOK
  <2>2. ClosesWhatItSaw'
    BY <1>2, <2>1 DEF DashboardReads, ReadPositions, serviceVars, ClosesWhatItSaw, PositionsReply, OpenPositions
  <2>3. to_close' \subseteq Symbols
    BY <1>2 DEF DashboardReads, OpenPositions
  <2> QED BY <1>0, <1>2, <2>1, <2>2, <2>3 DEF DashboardReads, ReadPositions, TypeOK, serviceVars
<1>3. CASE DashboardReadFails \/ DashboardFinishes
  <2>1. seen' \in [Clients -> Replies] /\ to_close' = {}
    BY <1>0, <1>3, NothingIsAReply DEF DashboardReadFails, DashboardFinishes, FlattenReturns, TypeOK
  <2> QED BY <1>0, <1>3, <2>1 DEF DashboardReadFails, DashboardFinishes, FlattenReturns, TypeOK,
                                  serviceVars, ClosesWhatItSaw
<1>4. CASE DashboardCloses
  <2>1. PICK s \in to_close :
           Post(Dashboard, s, "sell", seen[Dashboard][s]) /\ to_close' = to_close \ {s}
    BY <1>4 DEF DashboardCloses
  <2>2. s \in Symbols /\ seen[Dashboard][s] \in Nat \ {0}
    BY SawToClose
  <2>3. /\ orders' \in Seq(OrderRecords)
        /\ DOMAIN orders \subseteq DOMAIN orders'
        /\ sent' \in [Clients -> 0 .. Len(orders')]
        /\ log' \in [Clients -> Seq(DOMAIN orders')]
        /\ pc' \in [Clients -> {"idle", "positions", "decide", "close", "reply"}]
        /\ shares' = shares
    BY <1>0, <2>1, <2>2, Posted
  <2> QED BY <1>4, <2>1, <2>3 DEF DashboardCloses, Post, TypeOK, ClosesWhatItSaw
<1>5. CASE DashboardHears
  <2>1. orders' = orders
    BY <1>5 DEF DashboardHears, serviceVars
  <2>2. log' \in [Clients -> Seq(DOMAIN orders')] /\ lost' \subseteq DOMAIN orders'
    BY <1>0, <1>5, <2>1, Heard DEF DashboardHears
  <2>3. /\ pc' \in [Clients -> {"idle", "positions", "decide", "close", "reply"}]
        /\ sent' \in [Clients -> 0 .. Len(orders')]
    BY <1>0, <1>5, <2>1 DEF DashboardHears, TypeOK
  <2> QED BY <1>5, <2>1, <2>2, <2>3 DEF DashboardHears, TypeOK, serviceVars, ClosesWhatItSaw
<1>6. CASE DashboardGivesUp
  <2>1. orders' = orders
    BY <1>6 DEF DashboardGivesUp, serviceVars
  <2>2. log' \in [Clients -> Seq(DOMAIN orders')] /\ lost' \subseteq DOMAIN orders'
    BY <1>0, <1>6, <2>1, Heard DEF DashboardGivesUp
  <2>3. seen' \in [Clients -> Replies] /\ to_close' = {}
    BY <1>0, <1>6, NothingIsAReply DEF DashboardGivesUp, FlattenReturns, TypeOK
  <2> QED BY <1>0, <1>6, <2>1, <2>2, <2>3 DEF DashboardGivesUp, FlattenReturns, TypeOK,
                                              serviceVars, ClosesWhatItSaw
<1> QED BY <1>1, <1>2, <1>3, <1>4, <1>5, <1>6 DEF DashboardStep

LEMMA TypeStep == TypeInv /\ [Next]_vars => TypeInv'
<1>1. TypeInv /\ UNCHANGED vars => TypeInv'
  BY DEF vars, serviceVars, TypeInv, TypeOK, ClosesWhatItSaw
<1> QED BY <1>1, TypeService, TypeTrader, TypeDashboard DEF Next

\* Whatever the two programs and the service do, every variable keeps its type;
\* in particular no order is ever sent for no or for negative shares
\* (broker.py:436).
THEOREM TypeCorrect == Spec => []TypeOK
<1>1. TypeInv => TypeOK
  BY DEF TypeInv
<1> QED BY <1>1, TypeInit, TypeStep, PTL DEF Spec

-----------------------------------------------------------------------------
(* The logs *)

\* What a program waits for is one of its own orders.
LEMMA WaitsForItsOwn ==
    ASSUME TypeInv, NEW c \in Clients, LogInv(c)
    PROVE  Waiting(c) \subseteq OrdersOf(c) \ lost
BY DEF LogInv, Waiting, OrdersOf, TypeInv, TypeOK

\* A step that concerns neither the orders, the losses nor the log of a program
\* keeps its log exact.
LEMMA Untouched ==
    ASSUME TypeInv, NEW c \in Clients, LogInv(c),
           log'[c] = log[c], Waiting(c)' = Waiting(c), OrdersOf(c)' = OrdersOf(c),
           OrdersOf(c) \ lost' = OrdersOf(c) \ lost
    PROVE  LogInv(c)'
<1>1. Waiting(c) \subseteq OrdersOf(c) \ lost
  BY WaitsForItsOwn
<1>2. \A k \in Waiting(c)' :
         /\ orders'[k].client = c /\ k \notin lost'
         /\ \A i \in DOMAIN log'[c] : log'[c][i] < k
  <2>1. \A k \in OrdersOf(c)' : orders'[k].client = c
    BY DEF OrdersOf
  <2> QED BY <1>1, <2>1 DEF LogInv
<1>3. Waiting(c)' \ lost' = Waiting(c) \ lost
  BY <1>1
<1> QED BY <1>2, <1>3 DEF LogInv

\* An accepted order is awaited, later than all others and logged by nobody.
LEMMA PostKeepsLogs ==
    ASSUME LogsInv, NEW c \in Clients, NEW s \in Symbols, NEW side \in {"buy", "sell"},
           NEW quantity \in Nat \ {0}, Post(c, s, side, quantity), pc[c] # "reply"
    PROVE  \A d \in Clients : LogInv(d)'
<1> USE DEF LogsInv
<1>1. CASE /\ Accept(c, s, side, quantity)
           /\ sent' = [sent EXCEPT ![c] = Len(orders) + 1]
  <2> DEFINE new == Len(orders) + 1
  <2>1. /\ DOMAIN orders' = DOMAIN orders \cup {new}
        /\ orders'[new].client = c
        /\ \A i \in DOMAIN orders : orders'[i] = orders[i]
    <3>1. [client |-> c, symbol |-> s, side |-> side, quantity |-> quantity,
           filled |-> 0, status |-> "new"] \in OrderRecords
      BY DEF OrderRecords
    <3> QED BY <1>1, <3>1, Appended DEF Accept, TypeInv, TypeOK
  <2>2. new \notin DOMAIN orders /\ new \notin lost /\ new # 0 /\ new \in Nat
        /\ \A i \in DOMAIN orders : i < new
    BY DEF TypeInv, TypeOK
  <2> HIDE DEF new
  <2>3. sent'[c] = new /\ pc'[c] = "reply" /\ lost' = lost /\ log' = log
    BY <1>1 DEF new, Post, TypeInv, TypeOK
  <2>4. Waiting(c)' = {new} /\ Waiting(c) = {}
    BY <2>2, <2>3 DEF Waiting
  <2>5. OrdersOf(c)' = OrdersOf(c) \cup {new}
    BY <2>1, <2>2 DEF OrdersOf
  <2>6. LogInv(c)'
    <3>1. OrdersOf(c)' \ lost' = ToSet(log'[c]) \cup (Waiting(c)' \ lost')
      BY <2>2, <2>3, <2>4, <2>5 DEF LogInv
    <3>2. \A i \in DOMAIN log[c] : log[c][i] \in DOMAIN orders
      BY DEF TypeInv, TypeOK
    <3> QED BY <2>1, <2>2, <2>3, <2>4, <3>1, <3>2 DEF LogInv
  <2>7. ASSUME NEW d \in Clients \ {c}
        PROVE  LogInv(d)'
    <3>1. OrdersOf(d)' = OrdersOf(d)
      BY <2>1, <2>2 DEF OrdersOf
    <3>2. Waiting(d)' = Waiting(d)
      BY <1>1 DEF Waiting, Post, TypeInv, TypeOK
    <3> QED BY <2>3, <3>1, <3>2, Untouched
  <2> QED BY <2>6, <2>7
<1>2. CASE sent' = [sent EXCEPT ![c] = 0] /\ UNCHANGED serviceVars
  <2>1. ASSUME NEW d \in Clients
        PROVE  LogInv(d)'
    <3>1. Waiting(d)' = Waiting(d)
      BY <1>2 DEF Waiting, Post, TypeInv, TypeOK
    <3>2. OrdersOf(d)' = OrdersOf(d) /\ log' = log /\ lost' = lost
      BY <1>2 DEF OrdersOf, serviceVars, Post
    <3> QED BY <3>1, <3>2, Untouched
  <2> QED BY <2>1
<1> QED BY <1>1, <1>2 DEF Post

\* A reply moves an order from those awaited to the log, or to the lost ones.
LEMMA ReplyKeepsLogs ==
    ASSUME LogsInv, NEW c \in Clients, Answered(c) \/ Failed(c), UNCHANGED orders,
           sent' = [sent EXCEPT ![c] = 0],
           \A d \in Clients \ {c} : pc'[d] = pc[d]
    PROVE  \A d \in Clients : LogInv(d)'
<1> USE DEF LogsInv
<1>0. Waiting(c)' = {} /\ OrdersOf(c)' = OrdersOf(c)
  BY DEF Waiting, OrdersOf, TypeInv, TypeOK
<1>1. ASSUME Answered(c)
      PROVE  LogInv(c)'
  <2>1. Waiting(c) = {sent[c]} /\ sent[c] \in DOMAIN orders /\ sent[c] \notin lost
    BY <1>1 DEF Answered, Waiting, LogInv, TypeInv, TypeOK
  <2>2. /\ log[c] \in Seq(DOMAIN orders) /\ log'[c] = Append(log[c], sent[c])
        /\ lost' = lost
    BY <1>1 DEF Answered, TypeInv, TypeOK
  <2>3. /\ DOMAIN log'[c] = DOMAIN log[c] \cup {Len(log[c]) + 1}
        /\ \A i \in DOMAIN log[c] : log'[c][i] = log[c][i]
        /\ log'[c][Len(log[c]) + 1] = sent[c]
        /\ ToSet(log'[c]) = ToSet(log[c]) \cup {sent[c]}
    BY <2>1, <2>2, Appended
  <2>4. \A i, j \in DOMAIN log'[c] : i < j => log'[c][i] < log'[c][j]
    <3>1. \A i \in DOMAIN log[c] : i \in Nat /\ i < Len(log[c]) + 1 /\ log[c][i] < sent[c]
      BY <2>1, <2>2 DEF LogInv
    <3>2. \A i, j \in DOMAIN log[c] : i < j => log[c][i] < log[c][j]
      BY DEF LogInv
    <3>3. Len(log[c]) \in Nat
      BY <2>2
    <3> QED BY <2>3, <3>1, <3>2, <3>3
  <2>5. OrdersOf(c) \ lost = ToSet(log[c]) \cup {sent[c]}
    BY <2>1 DEF LogInv
  <2>6. OrdersOf(c)' \ lost' = ToSet(log'[c]) \cup (Waiting(c)' \ lost')
    BY <1>0, <2>2, <2>3, <2>5
  <2>7. \A k \in Waiting(c)' : FALSE
    BY <1>0
  <2> QED BY <2>4, <2>6, <2>7 DEF LogInv
<1>2. ASSUME Failed(c)
      PROVE  LogInv(c)'
  <2>1. /\ log' = log /\ lost' = lost \cup Waiting(c)
        /\ \A i \in DOMAIN log[c] : log[c][i] \notin Waiting(c)
    <3>1. \A i \in DOMAIN log[c] : log[c][i] \in Nat
      BY DEF TypeInv, TypeOK
    <3>2. lost' = lost \cup Waiting(c) /\ log' = log
      BY <1>2 DEF Failed, Waiting
    <3>3. \A k \in Waiting(c) : \A i \in DOMAIN log[c] : log[c][i] < k
      BY DEF LogInv
    <3> QED BY <3>1, <3>2, <3>3
  <2>2. OrdersOf(c)' \ lost' = ToSet(log'[c]) \cup (Waiting(c)' \ lost')
    <3>1. OrdersOf(c) \ lost = ToSet(log[c]) \cup (Waiting(c) \ lost)
      BY DEF LogInv
    <3>2. ToSet(log[c]) \cap Waiting(c) = {}
      BY <2>1 DEF ToSet
    <3> QED BY <1>0, <2>1, <3>1, <3>2
  <2>3. \A i, j \in DOMAIN log'[c] : i < j => log'[c][i] < log'[c][j]
    BY <2>1 DEF LogInv
  <2>4. \A k \in Waiting(c)' : FALSE
    BY <1>0
  <2> QED BY <2>2, <2>3, <2>4 DEF LogInv
<1>3. ASSUME NEW d \in Clients \ {c}
      PROVE  LogInv(d)'
  <2>1. Waiting(c) \subseteq OrdersOf(c) /\ OrdersOf(c) \cap OrdersOf(d) = {}
    BY WaitsForItsOwn DEF OrdersOf
  <2>2. log'[d] = log[d] /\ lost' \subseteq lost \cup Waiting(c) /\ lost \subseteq lost'
    BY DEF Answered, Failed, Waiting, TypeInv, TypeOK
  <2>3. Waiting(d)' = Waiting(d) /\ OrdersOf(d)' = OrdersOf(d)
    BY DEF Waiting, OrdersOf, TypeInv, TypeOK
  <2>4. OrdersOf(d) \ lost' = OrdersOf(d) \ lost
    BY <2>1, <2>2
  <2> QED BY <2>2, <2>3, <2>4, Untouched
<1> QED BY <1>1, <1>2, <1>3

\* All other steps touch no log: no program that waits for a reply is stopped.
LEMMA OthersKeepLogs ==
    ASSUME LogsInv, UNCHANGED <<log, lost>>,
           DOMAIN orders' = DOMAIN orders,
           \A i \in DOMAIN orders : orders'[i].client = orders[i].client,
           \A c \in Clients :
              /\ pc[c] = "reply" <=> pc'[c] = "reply"
              /\ pc[c] = "reply" => sent'[c] = sent[c]
    PROVE  \A c \in Clients : LogInv(c)'
<1>1. ASSUME NEW c \in Clients
      PROVE  LogInv(c)'
  <2>0. /\ pc[c] = "reply" <=> pc'[c] = "reply"
        /\ pc[c] = "reply" => sent'[c] = sent[c]
    OBVIOUS
  <2>1. Waiting(c)' = Waiting(c)
    BY <2>0 DEF Waiting
  <2>2. OrdersOf(c)' = OrdersOf(c)
    BY DEF OrdersOf
  <2> QED BY <2>1, <2>2, Untouched DEF LogsInv
<1> QED BY <1>1

\* Leaving "idle", "positions", "decide" or "close" for another of them is no reply.
LEMMA NoReply ==
    ASSUME TypeInv, NEW c \in Clients, NEW from, NEW to,
           pc[c] = from, from # "reply", to # "reply", pc' = [pc EXCEPT ![c] = to]
    PROVE  \A d \in Clients : pc[d] = "reply" <=> pc'[d] = "reply"
BY DEF TypeInv, TypeOK

LEMMA LogsInit == Init => LogsInv
<1> SUFFICES ASSUME Init PROVE LogsInv
  OBVIOUS
<1>1. ASSUME NEW c \in Clients
      PROVE  LogInv(c)
  <2>1. OrdersOf(c) = {} /\ Waiting(c) = {} /\ log[c] = <<>>
    BY DEF Init, ServiceInit, OrdersOf, Waiting
  <2> QED BY <2>1 DEF LogInv, ToSet
<1> QED BY <1>1, TypeInit DEF LogsInv

LEMMA LogsService == LogsInv /\ ServiceStep => \A c \in Clients : LogInv(c)'
<1> SUFFICES ASSUME LogsInv, ServiceStep PROVE \A c \in Clients : LogInv(c)'
  OBVIOUS
<1>1. PICK k \in Pending : Moves(k)
  BY DEF ServiceStep, Moves
<1>2. /\ DOMAIN orders' = DOMAIN orders
      /\ \A i \in DOMAIN orders : orders'[i].client = orders[i].client
  BY <1>1, Moved DEF LogsInv
<1> QED BY <1>2, OthersKeepLogs DEF ServiceStep

LEMMA LogsTrader == LogsInv /\ TraderStep => \A c \in Clients : LogInv(c)'
<1> SUFFICES ASSUME LogsInv, TraderStep PROVE \A c \in Clients : LogInv(c)'
  OBVIOUS
<1>0. Trader \in Clients /\ TypeInv
  BY TradingAssumption DEF LogsInv
<1>1. CASE TraderSignal \/ TraderReads \/ TraderReadFails
  <2>1. \A c \in Clients : pc[c] = "reply" <=> pc'[c] = "reply"
    BY <1>0, <1>1, NoReply DEF TraderSignal, TraderReads, TraderReadFails, ReadPositions
  <2> QED BY <1>1, <2>1, OthersKeepLogs
          DEF TraderSignal, TraderReads, TraderReadFails, ReadPositions, serviceVars
<1>2. CASE NewIteration
  BY <1>2, OthersKeepLogs DEF NewIteration, serviceVars
<1>3. CASE TraderBuys \/ TraderSells
  <2>1. /\ signal.symbol \in Symbols /\ pc[Trader] # "reply"
        /\ \E side \in {"buy", "sell"}, quantity \in Nat \ {0} :
              Post(Trader, signal.symbol, side, quantity)
    BY <1>0, <1>3, TraderOrders
  <2> QED BY <1>0, <2>1, PostKeepsLogs
<1>4. CASE TraderSkips
  <2>1. pc' = [pc EXCEPT ![Trader] = "idle"] /\ pc[Trader] = "decide"
    BY <1>4 DEF TraderSkips, TraderDone
  <2>2. \A c \in Clients : pc[c] = "reply" => sent'[c] = sent[c]
    BY <1>0, <1>4, <2>1 DEF TraderSkips, TraderDone, TypeInv, TypeOK
  <2> QED BY <1>0, <1>4, <2>1, <2>2, NoReply, OthersKeepLogs DEF TraderSkips, TraderDone, serviceVars
<1>5. CASE TraderHears
  BY <1>0, <1>5, ReplyKeepsLogs DEF TraderHears, TraderDone, serviceVars, TypeInv, TypeOK
<1> QED BY <1>1, <1>2, <1>3, <1>4, <1>5 DEF TraderStep

LEMMA LogsDashboard == LogsInv /\ DashboardStep => \A c \in Clients : LogInv(c)'
<1> SUFFICES ASSUME LogsInv, DashboardStep PROVE \A c \in Clients : LogInv(c)'
  OBVIOUS
<1>0. Dashboard \in Clients /\ TypeInv
  BY TradingAssumption DEF LogsInv
<1>1. CASE Click \/ DashboardReads \/ DashboardReadFails \/ DashboardFinishes
  <2>1. \A c \in Clients : pc[c] = "reply" <=> pc'[c] = "reply"
    BY <1>0, <1>1, NoReply
       DEF Click, DashboardReads, DashboardReadFails, DashboardFinishes, ReadPositions, FlattenReturns
  <2> QED BY <1>1, <2>1, OthersKeepLogs
          DEF Click, DashboardReads, DashboardReadFails, DashboardFinishes, ReadPositions, serviceVars
<1>2. CASE DashboardCloses
  <2>1. PICK s \in to_close : Post(Dashboard, s, "sell", seen[Dashboard][s])
    BY <1>2 DEF DashboardCloses
  <2>2. s \in Symbols /\ seen[Dashboard][s] \in Nat \ {0}
    BY <1>0, SawToClose
  <2> QED BY <1>0, <1>2, <2>1, <2>2, PostKeepsLogs DEF DashboardCloses
<1>3. CASE DashboardHears
  BY <1>0, <1>3, ReplyKeepsLogs DEF DashboardHears, serviceVars, TypeInv, TypeOK
<1>4. CASE DashboardGivesUp
  BY <1>0, <1>4, ReplyKeepsLogs DEF DashboardGivesUp, FlattenReturns, serviceVars, TypeInv, TypeOK
<1> QED BY <1>1, <1>2, <1>3, <1>4 DEF DashboardStep

LEMMA LogsStep == LogsInv /\ [Next]_vars => LogsInv'
<1>1. LogsInv /\ UNCHANGED vars => \A c \in Clients : LogInv(c)'
  BY DEF LogsInv, LogInv, vars, serviceVars, OrdersOf, Waiting
<1>2. LogsInv /\ [Next]_vars => \A c \in Clients : LogInv(c)'
  BY <1>1, LogsService, LogsTrader, LogsDashboard DEF Next
<1> QED BY <1>2, TypeStep DEF LogsInv

\* For every number of orders, refusals and lost replies: a program's trade log
\* names exactly the orders the service accepted from it, in their order, but
\* for those whose reply was lost (broker.py:478).
THEOREM LogsAreExact == Spec => []LogIsExactUpToLoss
<1>1. LogsInv => LogIsExactUpToLoss
  BY DEF LogsInv, LogInv, LogIsExactUpToLoss
<1> QED BY <1>1, LogsInit, LogsStep, PTL DEF Spec

-----------------------------------------------------------------------------
(* The positions *)

\* The part of Undisturbed that is about the account alone.
AccountFits ==
    /\ \A s \in Symbols : shares[s] >= 0
    /\ Cardinality(OpenPositions \cup Buying) <= MaxPositions
    /\ OrdersFit

\* Both sides of a subset of the account's symbols can be counted.
LEMMA Counted ==
    ASSUME NEW S \in SUBSET Symbols, NEW T \in SUBSET S
    PROVE  /\ IsFiniteSet(S) /\ Cardinality(S) \in Nat /\ Cardinality(T) \in Nat
           /\ Cardinality(T) <= Cardinality(S)
           /\ T # S => Cardinality(T) < Cardinality(S)
<1>1. IsFiniteSet(S)
  BY ServiceAssumption, FS_Subset
<1>2. IsFiniteSet(T) /\ Cardinality(T) <= Cardinality(S)
      /\ (Cardinality(S) = Cardinality(T) => S = T)
  BY <1>1, FS_Subset
<1>3. Cardinality(S) \in Nat /\ Cardinality(T) \in Nat
  BY <1>1, <1>2, FS_CardinalityType
<1> QED BY <1>1, <1>2, <1>3

\* A part filled opens a flat symbol below the limit, leaves nothing of an open
\* one, or goes on with a symbol that was open and stays so.
LEMMA FillFits ==
    ASSUME TypeInv, AccountFits, NEW k \in Pending, NEW n \in 1 .. Unfilled(k), Fill(k, n)
    PROVE  LET s == orders[k].symbol
           IN  /\ s \in Symbols /\ shares[s] \in Nat /\ shares'[s] \in Nat
               /\ \A t \in Symbols \ {s} : shares'[t] = shares[t]
               /\ shares'[s] = IF orders[k].side = "buy" THEN orders'[k].filled ELSE Unfilled(k)'
               /\ \/ /\ orders[k].side = "buy" /\ shares[s] = 0 /\ shares'[s] > 0
                     /\ Cardinality(OpenPositions) < MaxPositions
                  \/ shares[s] > 0 /\ shares'[s] = 0
                  \/ shares[s] > 0 /\ shares'[s] > 0
<1> DEFINE s == orders[k].symbol
<1>1. k \in DOMAIN orders /\ orders[k] \in OrderRecords
  BY DEF TypeInv, TypeOK, Pending
<1>2. /\ s \in Symbols /\ orders[k].side \in {"buy", "sell"}
      /\ orders[k].quantity \in Nat /\ orders[k].filled \in Nat
  BY <1>1 DEF OrderRecords
<1>3. shares \in [Symbols -> Int]
  BY DEF TypeInv, TypeOK
<1>4. \A t \in Symbols \ {s} : shares'[t] = shares[t]
  BY <1>3 DEF Fill
<1>5. shares[s] = IF orders[k].side = "buy" THEN orders[k].filled
                                            ELSE orders[k].quantity - orders[k].filled
  BY DEF AccountFits, OrdersFit, Unfilled
<1>6. shares'[s] = IF orders[k].side = "buy" THEN shares[s] + n ELSE shares[s] - n
  BY <1>2, <1>3 DEF Fill
<1>7. orders'[k].filled = orders[k].filled + n /\ orders'[k].quantity = orders[k].quantity
  BY <1>1 DEF Fill, OrderRecords
<1>8. n \in Nat /\ n > 0 /\ n <= orders[k].quantity - orders[k].filled
  BY <1>2 DEF Unfilled
<1>9. shares'[s] = IF orders[k].side = "buy" THEN orders'[k].filled ELSE Unfilled(k)'
  BY <1>2, <1>5, <1>6, <1>7, <1>8 DEF Unfilled
<1>10. shares[s] \in Nat /\ shares'[s] \in Nat
  BY <1>2, <1>5, <1>6, <1>8
<1>11. CASE shares[s] = 0
  <2>1. orders[k].side = "buy" /\ shares'[s] > 0
    BY <1>2, <1>5, <1>6, <1>8, <1>11
  <2>2. s \in Buying /\ s \notin OpenPositions
    BY <1>2, <1>11, <2>1 DEF Buying, OpenPositions
  <2>3. /\ OpenPositions \cup Buying \in SUBSET Symbols
        /\ OpenPositions \in SUBSET (OpenPositions \cup Buying)
        /\ OpenPositions # OpenPositions \cup Buying
    BY <2>2 DEF OpenPositions, Buying
  <2> HIDE DEF s
  <2>4. /\ Cardinality(OpenPositions) < Cardinality(OpenPositions \cup Buying)
        /\ Cardinality(OpenPositions) \in Nat /\ Cardinality(OpenPositions \cup Buying) \in Nat
    BY <2>3, Counted
  <2>5. Cardinality(OpenPositions) < MaxPositions
    BY <2>4, TradingAssumption DEF AccountFits
  <2> QED BY <1>2, <1>4, <1>9, <1>10, <1>11, <2>1, <2>5 DEF s
<1>12. CASE shares[s] # 0
  <2> HIDE DEF s
  <2>1. shares[s] > 0 /\ (shares'[s] = 0 \/ shares'[s] > 0)
    BY <1>10, <1>12
  <2> QED BY <1>2, <1>4, <1>9, <1>10, <2>1 DEF s
<1> QED BY <1>11, <1>12

\* The account still fits its pending orders when one of them has moved.
LEMMA MoveKeepsFit ==
    ASSUME TypeInv, AccountFits, NEW k \in Pending, Moves(k)
    PROVE  AccountFits' /\ \A t \in Symbols \ {orders[k].symbol} : shares'[t] = shares[t]
<1> DEFINE s == orders[k].symbol
<1>1. /\ Pending' \subseteq Pending
      /\ \A i \in DOMAIN orders \ {k} : orders'[i] = orders[i]
      /\ \A i \in DOMAIN orders :
            /\ orders'[i].symbol = orders[i].symbol
            /\ orders'[i].side = orders[i].side
            /\ orders'[i].quantity = orders[i].quantity
  BY Moved
<1>2. Pending \subseteq DOMAIN orders
  BY DEF Pending
<1>3. k \in DOMAIN orders /\ orders[k] \in OrderRecords
  BY DEF TypeInv, TypeOK, Pending
<1>4. s \in Symbols
  BY <1>3 DEF OrderRecords
<1>5. \A i \in Pending \ {k} : orders[i].symbol \in Symbols \ {s}
  <2>1. \A i \in Pending : orders[i] \in OrderRecords
    BY <1>2 DEF TypeInv, TypeOK
  <2> QED BY <2>1 DEF AccountFits, OrdersFit, OrderRecords
<1>6. /\ \A t \in Symbols \ {s} : shares'[t] = shares[t]
      /\ shares'[s] >= 0 /\ (shares'[s] # 0 => s \in OpenPositions \cup Buying)
      /\ k \in Pending' =>
            shares'[s] = IF orders[k].side = "buy" THEN orders'[k].filled ELSE Unfilled(k)'
  <2>1. ASSUME NEW n \in 1 .. Unfilled(k), Fill(k, n)
        PROVE  <1>6!1 /\ <1>6!2 /\ <1>6!3
    <3>1. /\ \A t \in Symbols \ {s} : shares'[t] = shares[t]
          /\ shares'[s] \in Nat
          /\ shares'[s] = IF orders[k].side = "buy" THEN orders'[k].filled ELSE Unfilled(k)'
          /\ orders[k].side = "buy" \/ shares[s] # 0
      BY <2>1, FillFits
    <3>2. s \in OpenPositions \cup Buying
      BY <1>4, <3>1 DEF Buying, OpenPositions
    <3> QED BY <3>1, <3>2
  <2>2. CASE Cancel(k)
    <3>1. shares' = shares
      BY <2>2 DEF Cancel
    <3>2. k \notin Pending'
      BY <1>3, <2>2 DEF Cancel, Pending
    <3> QED BY <1>4, <3>1, <3>2 DEF AccountFits, OpenPositions
  <2> QED BY <2>1, <2>2 DEF Moves
<1> HIDE DEF s
<1>7. \A t \in Symbols : shares'[t] >= 0
  BY <1>6 DEF AccountFits
<1>8. Cardinality((OpenPositions \cup Buying)') <= MaxPositions
  <2>1. OpenPositions' \subseteq OpenPositions \cup Buying
    BY <1>6 DEF OpenPositions
  <2>2. Buying' \subseteq Buying
    BY <1>1, <1>2 DEF Buying
  <2>3. /\ OpenPositions \cup Buying \in SUBSET Symbols
        /\ (OpenPositions \cup Buying)' \in SUBSET (OpenPositions \cup Buying)
    BY <2>1, <2>2 DEF OpenPositions, Buying
  <2>4. /\ Cardinality((OpenPositions \cup Buying)') <= Cardinality(OpenPositions \cup Buying)
        /\ Cardinality((OpenPositions \cup Buying)') \in Nat
        /\ Cardinality(OpenPositions \cup Buying) \in Nat
    BY <2>3, Counted
  <2> QED BY <2>4, TradingAssumption DEF AccountFits
<1>9. OrdersFit'
  <2>1. ASSUME NEW i \in Pending', NEW j \in Pending', orders'[i].symbol = orders'[j].symbol
        PROVE  i = j
    BY <1>1, <1>2, <2>1 DEF AccountFits, OrdersFit
  <2>2. ASSUME NEW i \in Pending'
        PROVE  shares'[orders'[i].symbol] =
                  IF orders'[i].side = "buy" THEN orders'[i].filled ELSE Unfilled(i)'
    <3>1. CASE i = k
      BY <1>1, <1>3, <1>6, <3>1 DEF s
    <3>2. CASE i # k
      <4>1. i \in Pending \ {k} /\ orders'[i] = orders[i]
        BY <1>1, <1>2, <3>2
      <4>2. shares'[orders[i].symbol] = shares[orders[i].symbol]
        BY <1>5, <1>6, <4>1
      <4> QED BY <4>1, <4>2 DEF AccountFits, OrdersFit, Unfilled
    <3> QED BY <3>1, <3>2
  <2> QED BY <2>1, <2>2 DEF OrdersFit
<1> QED BY <1>6, <1>7, <1>8, <1>9 DEF AccountFits, s

\* An order for a symbol nobody else orders, which opens it flat below the limit
\* or closes it whole, fits the account; a refused one changes nothing.
LEMMA OrderFits ==
    ASSUME TypeInv, AccountFits, NEW c \in Clients, NEW s \in Symbols,
           NEW side \in {"buy", "sell"}, NEW quantity \in Nat \ {0},
           Post(c, s, side, quantity),
           \A i \in Pending : orders[i].symbol # s,
           shares[s] = (IF side = "buy" THEN 0 ELSE quantity),
           side = "buy" => Pending = {} /\ Cardinality(OpenPositions) < MaxPositions
    PROVE  /\ AccountFits' /\ shares' = shares
           /\ \A i \in Pending' :
                 \/ /\ i \in Pending /\ orders'[i].symbol = orders[i].symbol
                    /\ orders'[i].side = orders[i].side
                 \/ orders'[i].symbol = s /\ orders'[i].side = side
<1>1. CASE Accept(c, s, side, quantity)
  <2> DEFINE new == Len(orders) + 1
  <2>1. /\ DOMAIN orders' = DOMAIN orders \cup {new}
        /\ orders'[new] = [client |-> c, symbol |-> s, side |-> side,
                          quantity |-> quantity, filled |-> 0, status |-> "new"]
        /\ \A i \in DOMAIN orders : orders'[i] = orders[i]
    <3>1. [client |-> c, symbol |-> s, side |-> side, quantity |-> quantity,
           filled |-> 0, status |-> "new"] \in OrderRecords
      BY DEF OrderRecords
    <3> QED BY <1>1, <3>1, Appended DEF Accept, TypeInv, TypeOK
  <2>2. new \notin DOMAIN orders
    BY DEF TypeInv, TypeOK
  <2> HIDE DEF new
  <2>3. /\ orders'[new].symbol = s /\ orders'[new].side = side
        /\ orders'[new].filled = 0 /\ orders'[new].quantity = quantity
    BY <2>1
  <2>4. Pending' = Pending \cup {new} /\ Pending \subseteq DOMAIN orders
    BY <2>1, <2>2 DEF Pending
  <2>5. shares' = shares /\ OpenPositions' = OpenPositions
    BY <1>1 DEF Accept, OpenPositions
  <2>6. OrdersFit'
    <3>1. ASSUME NEW i \in Pending', NEW j \in Pending', orders'[i].symbol = orders'[j].symbol
          PROVE  i = j
      BY <3>1, <2>1, <2>3, <2>4 DEF AccountFits, OrdersFit
    <3>2. ASSUME NEW i \in Pending'
          PROVE  shares'[orders'[i].symbol] =
                    IF orders'[i].side = "buy" THEN orders'[i].filled ELSE Unfilled(i)'
      <4>1. CASE i = new
        <5>1. Unfilled(i)' = quantity
          BY <4>1, <2>3 DEF Unfilled
        <5> QED BY <4>1, <2>3, <2>5, <5>1
      <4>2. CASE i \in Pending
        BY <4>2, <2>1, <2>4, <2>5 DEF AccountFits, OrdersFit, Unfilled
      <4> QED BY <4>1, <4>2, <2>4
    <3> QED BY <3>1, <3>2 DEF OrdersFit
  <2>7. Cardinality((OpenPositions \cup Buying)') <= MaxPositions
    <3>1. CASE side = "buy"
      <4>1. Buying' = {s}
        BY <3>1, <2>3, <2>4 DEF Buying
      <4>2. IsFiniteSet(OpenPositions) /\ Cardinality(OpenPositions) \in Nat
        BY Counted DEF OpenPositions
      <4>3. Cardinality(OpenPositions \cup {s}) <= Cardinality(OpenPositions) + 1
            /\ Cardinality(OpenPositions \cup {s}) \in Nat
        BY <4>2, FS_AddElement
      <4>4. Cardinality(OpenPositions) + 1 <= MaxPositions
        BY <3>1, <4>2, TradingAssumption
      <4>5. (OpenPositions \cup Buying)' = OpenPositions \cup {s}
        BY <2>5, <4>1
      <4>6. Cardinality(OpenPositions \cup {s}) <= MaxPositions
        BY <4>2, <4>3, <4>4, TradingAssumption
      <4> QED BY <4>5, <4>6
    <3>2. CASE side = "sell"
      <4>1. Buying' = Buying
        BY <3>2, <2>1, <2>3, <2>4 DEF Buying
      <4> QED BY <2>5, <4>1 DEF AccountFits
    <3> QED BY <3>1, <3>2
  <2>8. AccountFits'
    BY <2>5, <2>6, <2>7 DEF AccountFits
  <2>9. \A i \in Pending' :
           \/ /\ i \in Pending /\ orders'[i].symbol = orders[i].symbol
              /\ orders'[i].side = orders[i].side
           \/ orders'[i].symbol = s /\ orders'[i].side = side
    BY <2>1, <2>3, <2>4
  <2> QED BY <2>5, <2>8, <2>9
<1>2. CASE UNCHANGED serviceVars
  <2>1. orders' = orders /\ shares' = shares
    BY <1>2 DEF serviceVars
  <2>2. OpenPositions' = OpenPositions /\ Buying' = Buying /\ Pending' = Pending
    BY <2>1 DEF OpenPositions, Buying, Pending
  <2>3. OrdersFit'
    BY <2>1, <2>2 DEF AccountFits, OrdersFit, Unfilled
  <2> QED BY <2>1, <2>2, <2>3 DEF AccountFits
<1> QED BY <1>1, <1>2 DEF Post

\* A step that neither trades nor lets a program begin to decide.
LEMMA CalmStep ==
    ASSUME Undisturbed, UNCHANGED <<orders, shares>>,
           Deciding(Trader)' => Deciding(Trader),
           pc'[Trader] = "decide" => pc[Trader] = "decide" /\ seen'[Trader] = seen[Trader],
           Deciding(Dashboard)' =>
              Deciding(Dashboard) /\ to_close' = to_close /\ seen'[Dashboard] = seen[Dashboard]
    PROVE  Undisturbed'
<1>1. /\ OpenPositions' = OpenPositions /\ Buying' = Buying /\ Pending' = Pending
      /\ PositionsReply' = PositionsReply
  BY DEF OpenPositions, Buying, Pending, PositionsReply
<1>2. OrdersFit'
  BY <1>1 DEF Undisturbed, OrdersFit, Unfilled
<1>3. OneDecides'
  BY <1>1 DEF Undisturbed, OneDecides
<1> QED BY <1>1, <1>2, <1>3 DEF Undisturbed

\* What undisturbed means, in its two parts.
LEMMA Parts == Undisturbed <=> AccountFits /\ OneDecides
BY DEF Undisturbed, AccountFits

LEMMA SafeInit == Init => Undisturbed
<1> SUFFICES ASSUME Init PROVE Undisturbed
  OBVIOUS
<1>1. Pending = {} /\ OpenPositions = {} /\ Buying = {} /\ (\A s \in Symbols : shares[s] = 0)
  BY DEF Init, ServiceInit, Pending, OpenPositions, Buying
<1>2. Cardinality(OpenPositions \cup Buying) <= MaxPositions
  BY <1>1, FS_EmptySet, TradingAssumption
<1>3. OneDecides
  BY TradingAssumption DEF Init, OneDecides, Deciding
<1>4. OrdersFit
  BY <1>1 DEF OrdersFit
<1> QED BY <1>1, <1>2, <1>3, <1>4 DEF Undisturbed

LEMMA SafeService ==
    ASSUME TypeInv, Undisturbed, ServiceStep
    PROVE  Undisturbed'
<1>1. PICK k \in Pending : Moves(k)
  BY DEF ServiceStep, Moves
<1>2. AccountFits' /\ \A t \in Symbols \ {orders[k].symbol} : shares'[t] = shares[t]
  BY <1>1, Parts, MoveKeepsFit
<1>3. /\ Pending' \subseteq Pending
      /\ \A i \in Pending :
            orders'[i].symbol = orders[i].symbol /\ orders'[i].side = orders[i].side
  BY <1>1, Moved DEF Pending
<1>4. OneDecides'
  BY <1>2, <1>3 DEF Undisturbed, OneDecides, ServiceStep, Deciding, TypeInv, TypeOK
<1> QED BY <1>2, <1>4 DEF Undisturbed, AccountFits

LEMMA SafeTrader ==
    ASSUME TypeInv, Undisturbed, TraderStep, ~overlapped'
    PROVE  Undisturbed'
<1>0. /\ Trader \in Clients /\ Dashboard \in Clients /\ Trader # Dashboard
      /\ pc \in [Clients -> {"idle", "positions", "decide", "close", "reply"}]
      /\ seen \in [Clients -> Replies]
  BY TradingAssumption DEF Trader, Dashboard, TypeInv, TypeOK
<1>1. CASE TraderSignal \/ NewIteration \/ TraderReadFails \/ TraderSkips \/ TraderHears
  <2>1. orders' = orders /\ shares' = shares /\ to_close' = to_close
    BY <1>1 DEF TraderSignal, NewIteration, TraderReadFails, TraderSkips, TraderHears, TraderDone,
                serviceVars
  <2>2. /\ pc'[Dashboard] = pc[Dashboard] /\ seen'[Dashboard] = seen[Dashboard]
        /\ \/ pc'[Trader] \in {"idle", "positions"}
           \/ pc'[Trader] = pc[Trader] /\ seen'[Trader] = seen[Trader]
    BY <1>0, <1>1 DEF TraderSignal, NewIteration, TraderReadFails, TraderSkips, TraderHears, TraderDone
  <2> QED BY <2>1, <2>2, CalmStep DEF Deciding
<1>2. CASE TraderReads
  <2>1. /\ Pending = {} /\ ~Deciding(Dashboard)
        /\ pc'[Trader] = "decide" /\ pc'[Dashboard] = pc[Dashboard]
        /\ seen'[Trader] = PositionsReply /\ orders' = orders /\ shares' = shares
    BY <1>0, <1>2 DEF TraderReads, ReadPositions, serviceVars
  <2>2. /\ Pending' = {} /\ PositionsReply' = PositionsReply /\ OpenPositions' = OpenPositions
        /\ Buying' = Buying
    BY <2>1 DEF Pending, PositionsReply, OpenPositions, Buying
  <2>3. OneDecides'
    BY <2>1, <2>2 DEF OneDecides, Deciding
  <2>4. OrdersFit'
    BY <2>2 DEF OrdersFit, Unfilled
  <2> QED BY <2>1, <2>2, <2>3, <2>4 DEF Undisturbed
<1>3. CASE TraderBuys \/ TraderSells
  <2>1. /\ pc[Trader] = "decide" /\ signal.symbol \in Symbols
        /\ Pending = {} /\ seen[Trader] = PositionsReply /\ ~Deciding(Dashboard)
    BY <1>3, TraderOrders DEF Undisturbed, OneDecides, Deciding
  <2>2. DOMAIN seen[Trader] = OpenPositions
    BY <2>1 DEF PositionsReply
  <2>3. AccountFits' /\ pc' = [pc EXCEPT ![Trader] = "reply"]
    <3>1. CASE TraderBuys
      <4>1. PICK quantity \in Nat \ {0} : Post(Trader, signal.symbol, "buy", quantity)
        BY <3>1, TradingAssumption DEF TraderBuys
      <4>2. shares[signal.symbol] = 0 /\ Cardinality(OpenPositions) < MaxPositions
        BY <2>1, <2>2, <3>1 DEF TraderBuys, WantsBuy, OpenPositions
      <4> QED BY <1>0, <2>1, <4>1, <4>2, Parts, OrderFits DEF Post
    <3>2. CASE TraderSells
      <4>1. /\ signal.symbol \in OpenPositions
            /\ seen[Trader][signal.symbol] = shares[signal.symbol]
            /\ shares[signal.symbol] \in Nat \ {0}
        BY <2>1, <2>2, <3>2 DEF TraderSells, WantsSell, PositionsReply, TypeInv, TypeOK
      <4>2. Post(Trader, signal.symbol, "sell", shares[signal.symbol])
        BY <3>2, <4>1 DEF TraderSells
      <4> QED BY <1>0, <2>1, <4>1, <4>2, Parts, OrderFits DEF Post
    <3> QED BY <1>3, <3>1, <3>2
  <2>4. OneDecides'
    BY <1>0, <2>1, <2>3 DEF OneDecides, Deciding
  <2> QED BY <2>3, <2>4 DEF Undisturbed, AccountFits
<1> QED BY <1>1, <1>2, <1>3 DEF TraderStep

LEMMA SafeDashboard ==
    ASSUME TypeInv, Undisturbed, DashboardStep, ~overlapped'
    PROVE  Undisturbed'
<1>0. /\ Trader \in Clients /\ Dashboard \in Clients /\ Trader # Dashboard
      /\ pc \in [Clients -> {"idle", "positions", "decide", "close", "reply"}]
      /\ seen \in [Clients -> Replies]
  BY TradingAssumption DEF Trader, Dashboard, TypeInv, TypeOK
<1>1. CASE Click \/ DashboardReadFails \/ DashboardFinishes \/ DashboardHears \/ DashboardGivesUp
  <2>1. orders' = orders /\ shares' = shares
    BY <1>1 DEF Click, DashboardReadFails, DashboardFinishes, DashboardHears, DashboardGivesUp, serviceVars
  <2>2. /\ pc'[Trader] = pc[Trader] /\ seen'[Trader] = seen[Trader]
        /\ \/ pc'[Dashboard] \in {"idle", "positions"}
           \/ /\ pc[Dashboard] = "reply" /\ pc'[Dashboard] = "close"
              /\ to_close' = to_close /\ seen'[Dashboard] = seen[Dashboard]
    BY <1>0, <1>1 DEF Click, DashboardReadFails, DashboardFinishes, DashboardHears, DashboardGivesUp,
                      FlattenReturns, Answered
  <2> QED BY <2>1, <2>2, CalmStep DEF Deciding
<1>2. CASE DashboardReads
  <2>1. /\ Pending = {} /\ ~Deciding(Trader)
        /\ pc'[Dashboard] = "close" /\ pc'[Trader] = pc[Trader]
        /\ seen'[Dashboard] = PositionsReply /\ orders' = orders /\ shares' = shares
        /\ to_close' \subseteq OpenPositions
    BY <1>0, <1>2 DEF DashboardReads, ReadPositions, serviceVars
  <2>2. /\ Pending' = {} /\ PositionsReply' = PositionsReply /\ OpenPositions' = OpenPositions
        /\ Buying' = Buying
    BY <2>1 DEF Pending, PositionsReply, OpenPositions, Buying
  <2>3. \A s \in to_close' : seen'[Dashboard][s] = shares'[s]
    BY <2>1 DEF PositionsReply
  <2>4. OneDecides'
    BY <2>1, <2>2, <2>3 DEF OneDecides, Deciding
  <2>5. OrdersFit'
    BY <2>2 DEF OrdersFit, Unfilled
  <2> QED BY <2>1, <2>2, <2>4, <2>5 DEF Undisturbed
<1>3. CASE DashboardCloses
  <2>1. PICK s \in to_close :
           Post(Dashboard, s, "sell", seen[Dashboard][s]) /\ to_close' = to_close \ {s}
    BY <1>3 DEF DashboardCloses
  <2>2. /\ pc[Dashboard] = "close" /\ ~Deciding(Trader)
        /\ \A i \in Pending : orders[i].side = "sell" /\ orders[i].symbol \notin to_close
        /\ \A t \in to_close : seen[Dashboard][t] = shares[t]
    BY <1>3 DEF DashboardCloses, Undisturbed, OneDecides, Deciding
  <2>3. s \in Symbols /\ shares[s] \in Nat \ {0} /\ Post(Dashboard, s, "sell", shares[s])
    BY <2>1, <2>2, SawToClose
  <2>4. /\ AccountFits' /\ shares' = shares
        /\ \A i \in Pending' :
              \/ /\ i \in Pending /\ orders'[i].symbol = orders[i].symbol
                 /\ orders'[i].side = orders[i].side
              \/ orders'[i].symbol = s /\ orders'[i].side = "sell"
    BY <1>0, <2>1, <2>2, <2>3, Parts, OrderFits
  <2>5. pc'[Trader] = pc[Trader] /\ seen' = seen /\ pc'[Dashboard] = "reply"
    BY <1>0, <2>3 DEF Post
  <2>6. \A i \in Pending' : orders'[i].side = "sell" /\ orders'[i].symbol \notin to_close'
    BY <2>1, <2>2, <2>4
  <2>7. OneDecides'
    BY <2>1, <2>2, <2>4, <2>5, <2>6 DEF OneDecides, Deciding
  <2> QED BY <2>4, <2>7 DEF Undisturbed, AccountFits
<1> QED BY <1>1, <1>2, <1>3 DEF DashboardStep

\* Once programs overlapped they did for ever.
LEMMA NotYet == [Next]_vars /\ ~overlapped' => ~overlapped
BY DEF Next, vars, ServiceStep, TraderStep, DashboardStep, TraderSignal, NewIteration, TraderReads,
       TraderReadFails, TraderBuys, TraderSells, TraderSkips, TraderHears, TraderDone, Click,
       DashboardReads, DashboardReadFails, DashboardCloses, DashboardFinishes, DashboardHears,
       DashboardGivesUp, ReadPositions, Post

LEMMA SafeStep == SafeInv /\ [Next]_vars => SafeInv'
<1> SUFFICES ASSUME SafeInv, [Next]_vars, ~overlapped' PROVE Undisturbed'
  BY TypeStep DEF SafeInv
<1>1. ~overlapped
  BY NotYet
<1>2. CASE UNCHANGED vars
  BY <1>1, <1>2, CalmStep DEF SafeInv, vars, serviceVars, Deciding
<1> QED BY <1>1, <1>2, SafeService, SafeTrader, SafeDashboard DEF SafeInv, Next

\* For every list of symbols and limit: as long as no program reads the
\* positions over a pending order or another's decision, the account is below
\* the limit and short of nothing (autotrader.py:209, data_bridge.py:406).
THEOREM SafeUntilOverlap == Spec => []SafeWithoutOverlap
<1>1. SafeInv => SafeWithoutOverlap
  <2> SUFFICES ASSUME SafeInv, ~overlapped PROVE PositionLimit /\ \A s \in Symbols : shares[s] >= 0
    BY DEF SafeWithoutOverlap
  <2>1. /\ OpenPositions \cup Buying \in SUBSET Symbols
        /\ OpenPositions \in SUBSET (OpenPositions \cup Buying)
    BY DEF OpenPositions, Buying
  <2>2. /\ Cardinality(OpenPositions) <= Cardinality(OpenPositions \cup Buying)
        /\ Cardinality(OpenPositions) \in Nat /\ Cardinality(OpenPositions \cup Buying) \in Nat
    BY <2>1, Counted
  <2> QED BY <2>2, TradingAssumption DEF SafeInv, Undisturbed, PositionLimit
<1>2. Init => SafeInv
  BY TypeInit, SafeInit DEF SafeInv
<1> QED BY <1>1, <1>2, SafeStep, PTL DEF Spec

-----------------------------------------------------------------------------
(* The position book *)

\* Only a fill changes the shares.
LEMMA OnlyFillsTrade ==
    Next => shares' = shares \/ \E k \in Pending : \E n \in 1 .. Unfilled(k) : Fill(k, n)
BY DEF Next, ServiceStep, TraderStep, DashboardStep, TraderSignal, NewIteration, TraderReads,
       TraderReadFails, TraderBuys, TraderSells, TraderSkips, TraderHears, TraderDone, Click,
       DashboardReads, DashboardReadFails, DashboardCloses, DashboardFinishes, DashboardHears,
       DashboardGivesUp, ReadPositions, Post, Accept, Cancel, serviceVars

\* For every list of symbols, limit and division of orders into fills: until
\* programs overlap, a fill opens a flat symbol below the limit, leaves nothing of
\* an open one, or is a part more of the one order that opened its symbol or is
\* to close it (autotrader.py:205).
THEOREM Refinement == Spec => FollowsTheBookInParts
<1> DEFINE BookStep == Book!BookNext \/ (\E i \in Pending : GoesOn(i)) \/ PositionsReply' = PositionsReply
<1>1. SafeInv /\ [Next]_vars /\ ~overlapped' => BookStep
  <2> SUFFICES ASSUME SafeInv, [Next]_vars, ~overlapped' PROVE BookStep
    OBVIOUS
  <2>1. CASE shares' = shares
    BY <2>1 DEF PositionsReply, OpenPositions
  <2>2. ASSUME NEW k \in Pending, NEW n \in 1 .. Unfilled(k), Fill(k, n)
        PROVE  Book!BookNext \/ GoesOn(k)
    <3> DEFINE s == orders[k].symbol
    <3>1. TypeInv /\ AccountFits
      BY NotYet DEF SafeInv, Undisturbed, AccountFits
    <3>2. /\ s \in Symbols /\ shares[s] \in Nat /\ shares'[s] \in Nat
          /\ \A t \in Symbols \ {s} : shares'[t] = shares[t]
          /\ shares'[s] = IF orders[k].side = "buy" THEN orders'[k].filled ELSE Unfilled(k)'
          /\ \/ shares[s] = 0 /\ shares'[s] > 0 /\ Cardinality(OpenPositions) < MaxPositions
             \/ shares[s] > 0 /\ shares'[s] = 0
             \/ shares[s] > 0 /\ shares'[s] > 0
      BY <2>2, <3>1, FillFits
    <3> HIDE DEF s
    <3>3. CASE shares[s] = 0 /\ shares'[s] > 0 /\ Cardinality(OpenPositions) < MaxPositions
      <4>1. OpenPositions' = OpenPositions \cup {s} /\ s \notin OpenPositions
        BY <3>2, <3>3 DEF OpenPositions
      <4>2. /\ DOMAIN PositionsReply = OpenPositions
            /\ DOMAIN PositionsReply' = OpenPositions \cup {s}
            /\ PositionsReply'[s] > 0
            /\ \A t \in OpenPositions : PositionsReply'[t] = PositionsReply[t]
        <5>1. PositionsReply' = [t \in OpenPositions \cup {s} |-> shares'[t]]
          BY <4>1 DEF PositionsReply
        <5>2. \A t \in OpenPositions : t \in Symbols \ {s}
          BY <4>1 DEF OpenPositions
        <5> QED BY <3>2, <3>3, <5>1, <5>2 DEF PositionsReply
      <4>3. Cardinality(OpenPositions) = Book!Cardinality(OpenPositions)
        BY DEF Cardinality, Book!Cardinality
      <4>4. Book!Open(s)
        BY <3>3, <4>1, <4>2, <4>3 DEF Book!Open
      <4> QED BY <3>2, <4>4 DEF Book!BookNext
    <3>4. CASE shares[s] > 0 /\ shares'[s] = 0
      <4>1. OpenPositions' = OpenPositions \ {s} /\ s \in OpenPositions
        BY <3>2, <3>4 DEF OpenPositions
      <4>2. PositionsReply' = [t \in OpenPositions \ {s} |-> PositionsReply[t]]
        <5>1. PositionsReply' = [t \in OpenPositions \ {s} |-> shares'[t]]
          BY <4>1 DEF PositionsReply
        <5>2. \A t \in OpenPositions \ {s} : shares'[t] = PositionsReply[t]
          BY <3>2 DEF PositionsReply, OpenPositions
        <5> QED BY <5>1, <5>2
      <4>3. DOMAIN PositionsReply = OpenPositions
        BY DEF PositionsReply
      <4>4. Book!Close(s)
        BY <4>1, <4>2, <4>3 DEF Book!Close, Book!Restrict
      <4> QED BY <3>2, <4>4 DEF Book!BookNext
    <3>5. CASE shares[s] > 0 /\ shares'[s] > 0
      <4>1. OpenPositions' = OpenPositions /\ s \in OpenPositions
        BY <3>2, <3>5 DEF OpenPositions
      <4> QED BY <3>2, <4>1 DEF GoesOn, s
    <3> QED BY <3>2, <3>3, <3>4, <3>5
  <2>3. CASE UNCHANGED vars
    BY <2>1, <2>3 DEF vars, serviceVars
  <2> QED BY <2>1, <2>2, <2>3, OnlyFillsTrade
<1>2. SafeInv /\ [Next]_vars =>
         [~overlapped' => [Book!BookNext \/ \E i \in Pending : GoesOn(i)]_PositionsReply]_vars
  BY <1>1
<1>3. Init => SafeInv
  BY TypeInit, SafeInit DEF SafeInv
<1> QED BY <1>2, <1>3, SafeStep, PTL DEF Spec, FollowsTheBookInParts
=============================================================================
