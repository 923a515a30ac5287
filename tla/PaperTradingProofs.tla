------------------------- MODULE PaperTradingProofs -------------------------
(***************************************************************************)
(* Trading on the simulated broker, for any symbols, prices and costs and  *)
(* any number of orders.                                                   *)
(*                                                                         *)
(* The broker's books: the trade log accounts for every share, and for the *)
(* cash as far as its rounding goes; an average cost lies among the fills  *)
(* it averages.  The log is read back by folds; what a fold over a         *)
(* sequence gives is proved by induction on the prefixes it goes through   *)
(* (`SameFold`), and what rounding moves by `RoundedNearby`.               *)
(*                                                                         *)
(* The auto-trader: it keeps its promises for any strategies and limits.   *)
(* What makes them inductive is what the loop's thread knows between two   *)
(* of its steps: the broker already carries the close in hand, and the     *)
(* account and positions it read are still current.  Its orders are orders *)
(* a client may place, so the books hold for it too.                       *)
(***************************************************************************)
EXTENDS PaperBrokerClient, AutoTraderProps, SequenceTheorems, FiniteSetTheorems,
        WellFoundedInduction, TLAPS

-----------------------------------------------------------------------------
(* Induction, and what a fold is *)

LEMMA Induction ==
    ASSUME NEW T, 0 \in T, \A n \in Nat : n \in T => n + 1 \in T
    PROVE  Nat \subseteq T
<1> DEFINE U == Nat \ T
<1>1. ASSUME U # {} PROVE FALSE
  <2>1. PICK x \in U : \A y \in U : ~(<<y, x>> \in OpToRel(<, Nat))
    BY <1>1, WFMin, NatLessThanWellFounded
  <2>2. x \in Nat /\ x # 0 /\ x \notin T
    BY <2>1
  <2>3. x - 1 \in Nat /\ x - 1 < x /\ x - 1 + 1 = x
    BY <2>2
  <2>4. x - 1 \in U
    BY <2>2, <2>3
  <2> QED BY <2>1, <2>2, <2>3, <2>4 DEF OpToRel
<1> QED BY <1>1

\* A set of the numbers up to n has a greatest.
LEMMA Greatest ==
    ASSUME NEW n \in Nat, NEW T \in SUBSET (1 .. n), T # {}
    PROVE  Max(T) \in T /\ \A y \in T : Max(T) >= y
<1> DEFINE Q == {k \in Nat : \A U \in SUBSET (1 .. k) : U # {} => \E x \in U : \A y \in U : x >= y}
<1>1. 0 \in Q
  <2>1. \A U \in SUBSET (1 .. 0) : U = {}
    OBVIOUS
  <2> QED BY <2>1
<1>2. ASSUME NEW k \in Nat, k \in Q PROVE k + 1 \in Q
  <2> SUFFICES ASSUME NEW U \in SUBSET (1 .. (k + 1)), U # {} PROVE \E x \in U : \A y \in U : x >= y
    OBVIOUS
  <2>1. CASE k + 1 \in U
    BY <2>1
  <2>2. CASE k + 1 \notin U
    <3>1. U \in SUBSET (1 .. k)
      BY <2>2
    <3> QED BY <1>2, <3>1
  <2> QED BY <2>1, <2>2
<1>3. n \in Q
  <2> HIDE DEF Q
  <2> QED BY <1>1, <1>2, Induction
<1>4. \E x \in T : \A y \in T : x >= y
  BY <1>3
<1> QED BY <1>4 DEF Max

LEMMA Prefix ==
    ASSUME NEW k \in Nat \ {0}
    PROVE  Max(1 .. k) = k /\ (1 .. k) \ {k} = 1 .. (k - 1) /\ 1 .. k # {}
<1>1. 1 .. k # {} /\ k \in 1 .. k
  OBVIOUS
<1>2. Max(1 .. k) \in 1 .. k /\ Max(1 .. k) >= k
  BY <1>1, Greatest
<1> QED BY <1>1, <1>2

\* The sets a fold over 1 .. n goes through, and the value of each.
FoldEquation(f, n, base, step) ==
    f = [T \in SUBSET (1 .. n) |-> IF T = {} THEN base ELSE step[Max(T)][f[T \ {Max(T)}]]]

LEMMA FoldExists ==
    ASSUME NEW S, NEW base \in S, NEW N \in Nat, NEW step \in [1 .. N -> [S -> S]]
    PROVE  \E f \in [SUBSET (1 .. N) -> S] : FoldEquation(f, N, base, step)
<1> DEFINE Q == {n \in Nat : n <= N => \E f \in [SUBSET (1 .. n) -> S] : FoldEquation(f, n, base, step)}
<1>1. 0 \in Q
  <2> DEFINE f == [T \in SUBSET (1 .. 0) |-> base]
  <2>1. \A T \in SUBSET (1 .. 0) : T = {}
    OBVIOUS
  <2>2. f \in [SUBSET (1 .. 0) -> S] /\ FoldEquation(f, 0, base, step)
    BY <2>1 DEF FoldEquation
  <2> QED BY <2>2
<1>2. ASSUME NEW n \in Nat, n \in Q PROVE n + 1 \in Q
  <2>9. n + 1 \in Nat
    OBVIOUS
  <2> SUFFICES ASSUME n + 1 <= N
               PROVE  \E f \in [SUBSET (1 .. (n + 1)) -> S] : FoldEquation(f, n + 1, base, step)
    BY <2>9, Zenon
  <2>0. n <= N
    OBVIOUS
  <2>1. PICK f \in [SUBSET (1 .. n) -> S] : FoldEquation(f, n, base, step)
    BY <1>2, <2>0, Zenon
  <2> DEFINE m == n + 1
             g == [T \in SUBSET (1 .. m) |-> IF m \in T THEN step[m][f[T \ {m}]] ELSE f[T]]
  <2>2. \A T \in SUBSET (1 .. m) : /\ m \in T => T \ {m} \in SUBSET (1 .. n)
                                   /\ m \notin T => T \in SUBSET (1 .. n)
    OBVIOUS
  <2>3. step[m] \in [S -> S]
    OBVIOUS
  <2>4. g \in [SUBSET (1 .. m) -> S]
    BY <2>1, <2>2, <2>3
  <2>5. ASSUME NEW T \in SUBSET (1 .. m)
        PROVE  g[T] = IF T = {} THEN base ELSE step[Max(T)][g[T \ {Max(T)}]]
    <3>1. CASE T = {}
      BY <2>1, <3>1 DEF FoldEquation
    <3>2. CASE T # {} /\ m \in T
      <4>1. Max(T) = m
        <5>1. \A U \in SUBSET (1 .. m) : U # {} => Max(U) \in U /\ \A y \in U : Max(U) >= y
          BY <2>9, Greatest, Zenon
        <5>2. Max(T) \in T /\ Max(T) >= m
          BY <3>2, <5>1, Zenon
        <5>3. PICK x : x = Max(T)
          OBVIOUS
        <5>4. x \in 1 .. (n + 1) /\ x >= n + 1
          BY <5>2, <5>3
        <5> QED BY <5>3, <5>4
      <4>2. g[T \ {m}] = f[T \ {m}]
        BY <2>2, <3>2
      <4> QED BY <3>2, <4>1, <4>2
    <3>3. CASE T # {} /\ m \notin T
      <4>1. T \in SUBSET (1 .. n)
        BY <2>2, <3>3
      <4>2. Max(T) \in T
        BY <3>3, <4>1, Greatest
      <4>3. g[T] = f[T] /\ g[T \ {Max(T)}] = f[T \ {Max(T)}]
        BY <3>3, <4>1, <4>2
      <4> QED BY <2>1, <3>3, <4>1, <4>3 DEF FoldEquation
    <3> QED BY <3>1, <3>2, <3>3
  <2>6. FoldEquation(g, m, base, step)
    BY <2>4, <2>5 DEF FoldEquation
  <2> QED BY <2>4, <2>6
<1>3. N \in Q
  <2> HIDE DEF Q
  <2> QED BY <1>1, <1>2, Induction
<1>4. N <= N
  OBVIOUS
<1> QED BY <1>3, <1>4, Zenon

\* Two folds that do the same on 1 .. n have the same value there.
LEMMA SameFold ==
    ASSUME NEW n \in Nat, NEW f, NEW g, f[1 .. 0] = g[1 .. 0],
           \A k \in 1 .. n : f[1 .. (k - 1)] = g[1 .. (k - 1)] => f[1 .. k] = g[1 .. k]
    PROVE  f[1 .. n] = g[1 .. n]
<1> DEFINE Q == {k \in Nat : k <= n => f[1 .. k] = g[1 .. k]}
<1>1. 0 \in Q
  OBVIOUS
<1>2. ASSUME NEW k \in Nat, k \in Q PROVE k + 1 \in Q
  <2>1. (k + 1) - 1 = k
    OBVIOUS
  <2> QED BY <1>2, <2>1
<1>3. n \in Q
  <2> HIDE DEF Q
  <2> QED BY <1>1, <1>2, Induction
<1> QED BY <1>3

LEMMA FoldIn ==
    ASSUME NEW S, NEW n \in Nat, NEW f, f[1 .. 0] \in S,
           \A k \in 1 .. n : f[1 .. (k - 1)] \in S => f[1 .. k] \in S
    PROVE  \A k \in 0 .. n : f[1 .. k] \in S
<1> DEFINE Q == {k \in Nat : k <= n => f[1 .. k] \in S}
<1>1. 0 \in Q
  OBVIOUS
<1>2. ASSUME NEW k \in Nat, k \in Q PROVE k + 1 \in Q
  <2>1. (k + 1) - 1 = k
    OBVIOUS
  <2> QED BY <1>2, <2>1
<1>3. \A k \in 0 .. n : k \in Q
  <2> HIDE DEF Q
  <2> QED BY <1>1, <1>2, Induction
<1> QED BY <1>3

-----------------------------------------------------------------------------
(* Rounding *)

\* A rounded amount is half a grain away at most, and no amount is rounded below 0.
LEMMA RoundedNearby ==
    ASSUME NEW amount \in Int, NEW grain \in Nat \ {0}
    PROVE  /\ Rounded(amount, grain) \in Int
           /\ -grain <= 2 * (Rounded(amount, grain) - amount)
           /\ 2 * (Rounded(amount, grain) - amount) <= grain
           /\ amount \in Nat => Rounded(amount, grain) \in Nat
<1> DEFINE whole == amount \div grain
           rest == amount % grain
<1>1. whole \in Int /\ rest \in 0 .. (grain - 1) /\ amount = grain * whole + rest
  OBVIOUS
<1>2. amount \in Nat => whole \in Nat
  OBVIOUS
<1>3. Rounded(amount, grain) = IF 2 * rest > grain \/ (2 * rest = grain /\ whole % 2 = 1)
                                 THEN grain * (whole + 1) ELSE grain * whole
  BY DEF Rounded
<1> HIDE DEF whole, rest
<1>4. PICK low : low = grain * whole
  OBVIOUS
<1>5. low \in Int /\ grain * (whole + 1) = low + grain /\ amount = low + rest
  BY <1>1, <1>4
<1>6. amount \in Nat => low \in Nat
  BY <1>2, <1>4
<1>7. \/ Rounded(amount, grain) = low + grain /\ 2 * rest >= grain
      \/ Rounded(amount, grain) = low /\ 2 * rest <= grain
  BY <1>1, <1>3, <1>4, <1>5
<1> QED BY <1>1, <1>5, <1>6, <1>7

\* The log's entry of an order that fills at a price.
Entry(ticker, side, quantity, price) ==
    [symbol |-> ticker, side |-> side, quantity |-> quantity,
     filled_price |-> Rounded(price, PriceGrain),
     commission   |-> Rounded(CommissionPerShare * quantity, PriceGrain),
     notional     |-> Rounded(price * quantity, CentGrain)]

LEMMA EntryIsTrade ==
    ASSUME NEW ticker \in Symbols, NEW side \in Sides, NEW quantity \in Nat \ {0}, NEW price \in Nat
    PROVE  Entry(ticker, side, quantity, price) \in Trade
<1>1. PICK commission, notional : commission = CommissionPerShare * quantity /\ notional = price * quantity
  OBVIOUS
<1>2. commission \in Nat /\ notional \in Nat
  BY <1>1, CostsAssumption
<1>3. /\ Rounded(price, PriceGrain) \in Nat
      /\ Rounded(commission, PriceGrain) \in Nat
      /\ Rounded(notional, CentGrain) \in Nat
  BY <1>2, GrainsAssumption, RoundedNearby
<1> QED BY <1>1, <1>3 DEF Entry, Trade

-----------------------------------------------------------------------------
(* Reading the log back *)

\* What one trade adds to the cash, and what it leaves of a holding.
Flow(t) == (IF t.side = "buy" THEN -t.notional ELSE t.notional) - t.commission

Kept(ticker, shares, t) ==
    IF t.symbol # ticker THEN shares
    ELSE IF t.side = "buy" THEN shares + t.quantity
    ELSE IF t.quantity < shares THEN shares - t.quantity ELSE 0

\* How the replay of the cash adds a trade.
Paid(money, t) == money + (IF t.side = "buy" THEN -t.notional ELSE t.notional) - t.commission

LEMMA PaidIsFlow ==
    ASSUME NEW money \in Int, NEW t \in Trade PROVE Paid(money, t) = money + Flow(t)
<1>1. t.notional \in Nat /\ t.commission \in Nat
  BY DEF Trade
<1> QED BY <1>1 DEF Paid, Flow

\* What the folds choose.
CashEquation(f, log) ==
    f = [T \in SUBSET DOMAIN log |->
            IF T = {} THEN InitialCapital ELSE Paid(f[T \ {Max(T)}], log[Max(T)])]

HoldingEquation(f, ticker, log) ==
    f = [T \in SUBSET DOMAIN log |->
            IF T = {} THEN 0 ELSE Kept(ticker, f[T \ {Max(T)}], log[Max(T)])]

LEMMA TradeTypes ==
    ASSUME NEW t \in Trade
    PROVE  /\ Flow(t) \in Int
           /\ \A ticker : \A shares \in Nat : Kept(ticker, shares, t) \in Nat
<1>1. t.quantity \in Nat /\ t.notional \in Nat /\ t.commission \in Nat
  BY DEF Trade
<1>2. Flow(t) \in Int
  BY <1>1 DEF Flow
<1> QED BY <1>1, <1>2 DEF Kept

\* The values a replay of the cash goes through.
LEMMA CashFold ==
    ASSUME NEW log \in Seq(Trade)
    PROVE  \E f : /\ ReplayedCash(log) = f[1 .. Len(log)] /\ f[1 .. 0] = InitialCapital
                  /\ \A k \in 1 .. Len(log) : f[1 .. k] = f[1 .. (k - 1)] + Flow(log[k])
                  /\ \A k \in 0 .. Len(log) : f[1 .. k] \in Int
<1> DEFINE n == Len(log)
           step == [k \in 1 .. n |-> [money \in Int |-> money + Flow(log[k])]]
<1>1. n \in Nat /\ DOMAIN log = 1 .. n /\ \A k \in 1 .. n : log[k] \in Trade
  OBVIOUS
<1>2. InitialCapital \in Int
  BY CostsAssumption
<1>3. step \in [1 .. n -> [Int -> Int]]
  BY <1>1, TradeTypes
<1>4. PICK g \in [SUBSET (1 .. n) -> Int] : FoldEquation(g, n, InitialCapital, step)
  BY <1>1, <1>2, <1>3, FoldExists
<1>5. CashEquation(g, log)
  <2>1. ASSUME NEW T \in SUBSET (1 .. n)
        PROVE  g[T] = IF T = {} THEN InitialCapital ELSE Paid(g[T \ {Max(T)}], log[Max(T)])
    <3>1. CASE T = {}
      BY <1>4, <3>1 DEF FoldEquation
    <3>2. CASE T # {}
      <4>1. PICK m : m = Max(T)
        OBVIOUS
      <4>2. m \in 1 .. n /\ T \ {m} \in SUBSET (1 .. n)
        BY <1>1, <3>2, <4>1, Greatest
      <4>3. g[T] = step[m][g[T \ {m}]] /\ g[T \ {m}] \in Int
        BY <1>4, <3>2, <4>1, <4>2 DEF FoldEquation
      <4>4. g[T] = Paid(g[T \ {m}], log[m])
        BY <1>1, <4>2, <4>3, PaidIsFlow
      <4> QED BY <3>2, <4>1, <4>4
    <3> QED BY <3>1, <3>2
  <2> QED BY <1>1, <1>4, <2>1 DEF CashEquation
<1> HIDE DEF step
<1>6. PICK f : f = CHOOSE h : CashEquation(h, log)
  OBVIOUS
<1>7. CashEquation(f, log)
  BY <1>5, <1>6
<1>8. ReplayedCash(log) = f[DOMAIN log]
  BY <1>6 DEF ReplayedCash, FoldLeft, MapThenFoldSet, CashEquation, Paid
<1>9. f[1 .. 0] = InitialCapital
  <2>1. 1 .. 0 = {} /\ {} \in SUBSET DOMAIN log
    OBVIOUS
  <2> QED BY <1>7, <2>1 DEF CashEquation
<1>10. ASSUME NEW k \in 1 .. n, f[1 .. (k - 1)] \in Int
       PROVE  f[1 .. k] = f[1 .. (k - 1)] + Flow(log[k])
  <2>1. Max(1 .. k) = k /\ (1 .. k) \ {k} = 1 .. (k - 1) /\ 1 .. k # {}
    BY Prefix
  <2>2. 1 .. k \in SUBSET DOMAIN log
    BY <1>1
  <2>3. f[1 .. k] = Paid(f[(1 .. k) \ {Max(1 .. k)}], log[Max(1 .. k)])
    BY <1>7, <2>1, <2>2 DEF CashEquation
  <2> QED BY <1>1, <1>10, <2>1, <2>3, PaidIsFlow
<1>11. \A k \in 1 .. n : f[1 .. (k - 1)] \in Int => f[1 .. k] \in Int
  BY <1>1, <1>10, TradeTypes
<1>12. \A k \in 0 .. n : f[1 .. k] \in Int
  BY <1>1, <1>2, <1>9, <1>11, FoldIn
<1>13. \A k \in 1 .. n : k - 1 \in 0 .. n
  BY <1>1
<1> QED BY <1>1, <1>8, <1>9, <1>10, <1>12, <1>13

\* The values a replay of one holding goes through.
LEMMA HoldingFold ==
    ASSUME NEW log \in Seq(Trade), NEW ticker
    PROVE  \E f : /\ ReplayedHolding(ticker, log) = f[1 .. Len(log)] /\ f[1 .. 0] = 0
                  /\ \A k \in 1 .. Len(log) : f[1 .. k] = Kept(ticker, f[1 .. (k - 1)], log[k])
                  /\ \A k \in 0 .. Len(log) : f[1 .. k] \in Nat
<1> DEFINE n == Len(log)
           step == [k \in 1 .. n |-> [shares \in Nat |-> Kept(ticker, shares, log[k])]]
<1>1. n \in Nat /\ DOMAIN log = 1 .. n /\ \A k \in 1 .. n : log[k] \in Trade
  OBVIOUS
<1>2. 0 \in Nat
  OBVIOUS
<1>3. step \in [1 .. n -> [Nat -> Nat]]
  BY <1>1, TradeTypes
<1>4. PICK g \in [SUBSET (1 .. n) -> Nat] : FoldEquation(g, n, 0, step)
  BY <1>1, <1>2, <1>3, FoldExists
<1>5. HoldingEquation(g, ticker, log)
  <2>1. ASSUME NEW T \in SUBSET (1 .. n)
        PROVE  g[T] = IF T = {} THEN 0 ELSE Kept(ticker, g[T \ {Max(T)}], log[Max(T)])
    <3>1. CASE T = {}
      BY <1>4, <3>1 DEF FoldEquation
    <3>2. CASE T # {}
      <4>1. PICK m : m = Max(T)
        OBVIOUS
      <4>2. m \in 1 .. n /\ T \ {m} \in SUBSET (1 .. n)
        BY <1>1, <3>2, <4>1, Greatest
      <4>3. g[T] = step[m][g[T \ {m}]] /\ g[T \ {m}] \in Nat
        BY <1>4, <3>2, <4>1, <4>2 DEF FoldEquation
      <4> QED BY <3>2, <4>1, <4>2, <4>3
    <3> QED BY <3>1, <3>2
  <2> QED BY <1>1, <1>4, <2>1 DEF HoldingEquation
<1> HIDE DEF step
<1>6. PICK f : f = CHOOSE h : HoldingEquation(h, ticker, log)
  OBVIOUS
<1>7. HoldingEquation(f, ticker, log)
  BY <1>5, <1>6
<1>8. ReplayedHolding(ticker, log) = f[DOMAIN log]
  BY <1>6 DEF ReplayedHolding, FoldLeft, MapThenFoldSet, HoldingEquation, Kept
<1>9. f[1 .. 0] = 0
  <2>1. 1 .. 0 = {} /\ {} \in SUBSET DOMAIN log
    OBVIOUS
  <2> QED BY <1>7, <2>1 DEF HoldingEquation
<1>10. ASSUME NEW k \in 1 .. n PROVE f[1 .. k] = Kept(ticker, f[1 .. (k - 1)], log[k])
  <2>1. Max(1 .. k) = k /\ (1 .. k) \ {k} = 1 .. (k - 1) /\ 1 .. k # {}
    BY Prefix
  <2>2. 1 .. k \in SUBSET DOMAIN log
    BY <1>1
  <2>3. f[1 .. k] = Kept(ticker, f[(1 .. k) \ {Max(1 .. k)}], log[Max(1 .. k)])
    BY <1>7, <2>1, <2>2 DEF HoldingEquation
  <2> QED BY <2>1, <2>3
<1>11. \A k \in 1 .. n : f[1 .. (k - 1)] \in Nat => f[1 .. k] \in Nat
  BY <1>1, <1>10, TradeTypes
<1>12. \A k \in 0 .. n : f[1 .. k] \in Nat
  BY <1>1, <1>2, <1>9, <1>11, FoldIn
<1> QED BY <1>1, <1>8, <1>9, <1>10, <1>12

\* One more trade in the log.
LEMMA OneMoreTrade ==
    ASSUME NEW log \in Seq(Trade), NEW t \in Trade
    PROVE  /\ ReplayedCash(Append(log, t)) = ReplayedCash(log) + Flow(t)
           /\ \A ticker : /\ ReplayedHolding(ticker, Append(log, t)) = Kept(ticker, ReplayedHolding(ticker, log), t)
                         /\ ReplayedHolding(ticker, log) \in Nat
<1> DEFINE n == Len(log)
           more == Append(log, t)
<1>1. /\ n \in Nat /\ more \in Seq(Trade) /\ Len(more) = n + 1 /\ more[n + 1] = t
      /\ \A k \in 1 .. n : more[k] = log[k] /\ k \in 1 .. (n + 1)
      /\ (n + 1) - 1 = n /\ n + 1 \in 1 .. (n + 1)
  OBVIOUS
<1> HIDE DEF more
<1>2. ReplayedCash(more) = ReplayedCash(log) + Flow(t)
  <2>1. PICK f : /\ ReplayedCash(log) = f[1 .. n] /\ f[1 .. 0] = InitialCapital
                 /\ \A k \in 1 .. n : f[1 .. k] = f[1 .. (k - 1)] + Flow(log[k])
    BY CashFold
  <2>2. PICK g : /\ ReplayedCash(more) = g[1 .. Len(more)] /\ g[1 .. 0] = InitialCapital
                 /\ \A k \in 1 .. Len(more) : g[1 .. k] = g[1 .. (k - 1)] + Flow(more[k])
    BY <1>1, CashFold
  <2>3. f[1 .. n] = g[1 .. n]
    <3>1. f[1 .. 0] = g[1 .. 0] /\ \A k \in 1 .. n : f[1 .. (k - 1)] = g[1 .. (k - 1)] => f[1 .. k] = g[1 .. k]
      BY <1>1, <2>1, <2>2
    <3> QED BY <1>1, <3>1, SameFold
  <2> QED BY <1>1, <2>1, <2>2, <2>3
<1>3. ASSUME NEW ticker
      PROVE  /\ ReplayedHolding(ticker, more) = Kept(ticker, ReplayedHolding(ticker, log), t)
             /\ ReplayedHolding(ticker, log) \in Nat
  <2>1. PICK f : /\ ReplayedHolding(ticker, log) = f[1 .. n] /\ f[1 .. 0] = 0
                 /\ \A k \in 1 .. n : f[1 .. k] = Kept(ticker, f[1 .. (k - 1)], log[k])
                 /\ \A k \in 0 .. n : f[1 .. k] \in Nat
    BY HoldingFold
  <2>2. PICK g : /\ ReplayedHolding(ticker, more) = g[1 .. Len(more)] /\ g[1 .. 0] = 0
                 /\ \A k \in 1 .. Len(more) : g[1 .. k] = Kept(ticker, g[1 .. (k - 1)], more[k])
    BY <1>1, HoldingFold
  <2>3. f[1 .. n] = g[1 .. n]
    <3>1. f[1 .. 0] = g[1 .. 0] /\ \A k \in 1 .. n : f[1 .. (k - 1)] = g[1 .. (k - 1)] => f[1 .. k] = g[1 .. k]
      BY <1>1, <2>1, <2>2
    <3> QED BY <1>1, <3>1, SameFold
  <2> QED BY <1>1, <2>1, <2>2, <2>3
<1> QED BY <1>2, <1>3 DEF more

LEMMA CashType == ASSUME NEW log \in Seq(Trade) PROVE ReplayedCash(log) \in Int
<1>1. PICK f : /\ ReplayedCash(log) = f[1 .. Len(log)]
               /\ \A k \in 0 .. Len(log) : f[1 .. k] \in Int
  BY CashFold
<1>2. Len(log) \in 0 .. Len(log)
  OBVIOUS
<1> QED BY <1>1, <1>2

LEMMA EmptyLog ==
    ReplayedCash(<<>>) = InitialCapital /\ \A ticker : ReplayedHolding(ticker, <<>>) = 0
<1>1. <<>> \in Seq(Trade) /\ Len(<<>>) = 0
  OBVIOUS
<1>2. ReplayedCash(<<>>) = InitialCapital
  <2>1. PICK log : log = <<>>
    OBVIOUS
  <2>2. PICK f : ReplayedCash(log) = f[1 .. Len(log)] /\ f[1 .. 0] = InitialCapital
    BY <1>1, <2>1, CashFold
  <2> QED BY <1>1, <2>1, <2>2
<1>3. ASSUME NEW ticker PROVE ReplayedHolding(ticker, <<>>) = 0
  <2>1. PICK log : log = <<>>
    OBVIOUS
  <2>2. log \in Seq(Trade)
    BY <1>1, <2>1
  <2>3. PICK f : ReplayedHolding(ticker, log) = f[1 .. Len(log)] /\ f[1 .. 0] = 0
    BY <2>2, HoldingFold, Zenon
  <2> QED BY <1>1, <2>1, <2>3
<1> QED BY <1>2, <1>3

\* What a replay holds after the first n trades does not depend on the others.
LEMMA HoldingsStay ==
    ASSUME trades \in Seq(Trade), NEW t \in Trade, trades' = Append(trades, t), NEW ticker,
           NEW n, n = Len(trades)
    PROVE  /\ \A k \in 1 .. n : HoldingAfter(ticker, k)' = HoldingAfter(ticker, k)
           /\ HoldingAfter(ticker, n) = ReplayedHolding(ticker, trades)
           /\ HoldingAfter(ticker, n + 1)' = ReplayedHolding(ticker, Append(trades, t))
<1>1. \A k : HoldingAfter(ticker, k) = ReplayedHolding(ticker, SubSeq(trades, 1, k))
  BY DEF HoldingAfter
<1>2. \A k : HoldingAfter(ticker, k)' = ReplayedHolding(ticker, SubSeq(trades', 1, k))
  BY DEF HoldingAfter
<1>3. SubSeq(trades, 1, n) = trades
  OBVIOUS
<1>4. SubSeq(Append(trades, t), 1, n + 1) = Append(trades, t)
  OBVIOUS
<1>5. \A k \in 1 .. n : SubSeq(Append(trades, t), 1, k) = SubSeq(trades, 1, k)
  OBVIOUS
<1> QED BY <1>1, <1>2, <1>3, <1>4, <1>5

-----------------------------------------------------------------------------
(* The inductive invariant *)

Costs == [num : Int, den : Nat \ {0}]
Positions == [quantity : Nat \ {0}, avg_cost : Costs, market_price : Nat]

\* Only open positions are kept, and each has a cost.
BooksOK ==
    /\ cash \in Int
    /\ positions \in [DOMAIN positions -> Positions] /\ DOMAIN positions \subseteq Symbols
    /\ latest_prices \in [DOMAIN latest_prices -> Nat]
    /\ trades \in Seq(Trade)

Books == BooksOK /\ TradeLogReplays /\ AvgCostWithinFills

LEMMA InitBooks == BrokerInit => Books
<1> SUFFICES ASSUME BrokerInit PROVE Books
  OBVIOUS
<1>1. BooksOK
  BY CostsAssumption DEF BrokerInit, BooksOK, NoFunction
<1>2. DOMAIN positions = {}
  BY DEF BrokerInit, NoFunction
<1>3. TradeLogReplays
  <2>1. cash - ReplayedCash(trades) = 0 /\ Len(trades) = 0
    BY EmptyLog, CostsAssumption DEF BrokerInit
  <2>2. CentGrain + PriceGrain \in Nat
    BY GrainsAssumption
  <2>3. \A s \in Symbols : Holding(s) = ReplayedHolding(s, trades)
    BY <1>2, EmptyLog DEF BrokerInit, Holding
  <2> QED BY <2>1, <2>2, <2>3 DEF TradeLogReplays
<1>4. AvgCostWithinFills
  BY <1>2 DEF AvgCostWithinFills
<1> QED BY <1>1, <1>3, <1>4 DEF Books

\* Whatever it trades at, a price is one.
LEMMA PriceTypes ==
    ASSUME BooksOK, NEW ticker \in Symbols, NEW side \in Sides, NEW order_type,
           NEW limit_price \in Nat \cup {NoPrice}
    PROVE  FilledPrice(side, BasePrice(ticker, order_type, limit_price)) \in Nat
<1>1. PICK base : base = BasePrice(ticker, order_type, limit_price)
  OBVIOUS
<1>2. base \in Nat
  BY <1>1 DEF BasePrice, BooksOK, Positions
<1>3. Slip(base) \in Int
  <2>1. PICK n \in Nat : n = base * SlippageBps
    BY <1>2, CostsAssumption
  <2> QED BY <2>1 DEF Slip
<1> QED BY <1>1, <1>2, <1>3 DEF FilledPrice

\* An order in the books: what it does to one holding is what its trade says.
LEMMA OrderEffect ==
    ASSUME BooksOK, NEW ticker \in Symbols, NEW side \in Sides, NEW quantity \in Nat \ {0},
           NEW order_type, NEW limit_price \in Nat \cup {NoPrice},
           SubmitOrder(ticker, side, quantity, order_type, limit_price)
    PROVE  \E t \in Trade, price \in Nat :
              /\ t = Entry(ticker, side, quantity, price)
              /\ trades' = Append(trades, t)
              /\ cash' = cash + CashFlow(side, quantity, price)
              /\ \A s \in Symbols : Holding(s)' = Kept(s, Holding(s), t)
              /\ \A s \in DOMAIN positions' \ {ticker} : s \in DOMAIN positions /\ positions'[s] = positions[s]
              /\ ticker \in DOMAIN positions' =>
                    LET pos == positions[ticker] IN
                    IF ticker \notin DOMAIN positions
                      THEN side = "buy" /\ positions'[ticker].avg_cost = Whole(price)
                    ELSE positions'[ticker].avg_cost = IF side = "buy" THEN BlendedCost(pos, quantity, price)
                                                                       ELSE pos.avg_cost
              /\ BooksOK'
<1> DEFINE price == FilledPrice(side, BasePrice(ticker, order_type, limit_price))
           pos == PositionOf(ticker, price)
           t == Entry(ticker, side, quantity, price)
           new == IF side = "buy" THEN Bought(pos, quantity, price) ELSE Sold(pos, quantity, price)
<1>1. price \in Nat
  BY PriceTypes
<1>2. t \in Trade /\ t.symbol = ticker /\ t.side = side /\ t.quantity = quantity
  <2> HIDE DEF price
  <2>1. t \in Trade
    BY <1>1, EntryIsTrade
  <2> QED BY <2>1 DEF Entry
<1>3. /\ trades' = Append(trades, t) /\ cash' = cash + CashFlow(side, quantity, price)
      /\ positions' = Settled(ticker, new) /\ UNCHANGED latest_prices
  BY DEF SubmitOrder, Entry
<1> HIDE DEF price
<1>4. /\ pos.quantity \in Nat /\ pos.quantity = Holding(ticker) /\ pos.avg_cost \in Costs
      /\ ticker \in DOMAIN positions => pos = positions[ticker] /\ pos.quantity > 0
      /\ ticker \notin DOMAIN positions => pos.quantity = 0
  BY DEF PositionOf, Holding, BooksOK, Positions, Costs, Whole
<1> HIDE DEF pos
<1>5. Bought(pos, quantity, price) \in Positions
  <2>1. BlendedCost(pos, quantity, price) \in Costs
    <3>1. CASE pos.quantity > 0
      <4>1. pos.avg_cost.num \in Int /\ pos.avg_cost.den \in Nat \ {0}
        BY <1>4 DEF Costs
      <4>2. PICK num, den, shares : num = pos.avg_cost.num /\ den = pos.avg_cost.den /\ shares = pos.quantity
        OBVIOUS
      <4>3. num * shares + price * quantity * den \in Int /\ den * (shares + quantity) \in Nat \ {0}
        <5>1. num * shares \in Int /\ price * quantity \in Nat /\ shares + quantity \in Nat \ {0}
          BY <1>1, <1>4, <4>1, <4>2
        <5>2. \A a, b \in Nat \ {0} : a * b \in Nat \ {0}
          OBVIOUS
        <5>3. den * (shares + quantity) \in Nat \ {0}
          BY <4>1, <4>2, <5>1, <5>2
        <5>4. price * quantity * den \in Int
          BY <4>1, <4>2, <5>1
        <5> QED BY <5>1, <5>3, <5>4
      <4> QED BY <3>1, <4>2, <4>3 DEF BlendedCost, Costs
    <3>2. CASE ~(pos.quantity > 0)
      BY <1>1, <3>2 DEF BlendedCost, Costs, Whole
    <3> QED BY <3>1, <3>2
  <2> QED BY <1>1, <1>4, <2>1 DEF Bought, Positions
<1>6. /\ new.quantity = Kept(ticker, Holding(ticker), t) /\ new.quantity \in Nat
      /\ new.quantity # 0 => new \in Positions
  <2>1. CASE side = "buy"
    <3>1. new = Bought(pos, quantity, price)
      BY <2>1
    <3> QED BY <1>2, <1>4, <1>5, <2>1, <3>1 DEF Bought, Kept, Positions
  <2>2. CASE side = "sell"
    <3>1. new = Sold(pos, quantity, price)
      BY <2>2
    <3>2. CASE pos.quantity - quantity <= 0
      BY <1>2, <1>4, <2>2, <3>1, <3>2 DEF Sold, Kept
    <3>3. CASE pos.quantity - quantity > 0
      BY <1>1, <1>2, <1>4, <2>2, <3>1, <3>3 DEF Sold, Kept, Positions
    <3> QED BY <1>4, <3>2, <3>3
  <2> QED BY <2>1, <2>2 DEF Sides
<1> HIDE DEF new
<1>7. /\ DOMAIN positions' = IF new.quantity = 0 THEN DOMAIN positions \ {ticker} ELSE DOMAIN positions \cup {ticker}
      /\ \A s \in DOMAIN positions' : positions'[s] = IF s = ticker THEN new ELSE positions[s]
      /\ positions' \in [DOMAIN positions' -> Positions]
  <2>1. CASE new.quantity = 0
    BY <1>3, <2>1 DEF Settled, Restrict, BooksOK
  <2>2. CASE new.quantity # 0
    BY <1>3, <1>6, <2>2 DEF Settled, With, BooksOK
  <2> QED BY <2>1, <2>2
<1>8. \A s \in Symbols : Holding(s)' = Kept(s, Holding(s), t)
  <2>1. Holding(ticker)' = Kept(ticker, Holding(ticker), t)
    BY <1>6, <1>7 DEF Holding
  <2>2. \A s \in Symbols \ {ticker} : Holding(s)' = Holding(s)
    BY <1>7 DEF Holding
  <2> QED BY <1>2, <2>1, <2>2 DEF Kept
<1>9. cash' \in Int
  <2>1. price * quantity \in Int /\ CommissionPerShare * quantity \in Int
    BY <1>1, CostsAssumption
  <2>2. CashFlow(side, quantity, price) \in Int
    BY <2>1 DEF CashFlow
  <2> QED BY <1>3, <2>2 DEF BooksOK
<1>10. BooksOK'
  BY <1>2, <1>3, <1>7, <1>9 DEF BooksOK
<1>11. ticker \in DOMAIN positions' =>
          IF ticker \notin DOMAIN positions
            THEN side = "buy" /\ positions'[ticker].avg_cost = Whole(price)
          ELSE positions'[ticker].avg_cost = IF side = "buy" THEN BlendedCost(positions[ticker], quantity, price)
                                                             ELSE positions[ticker].avg_cost
  <2> SUFFICES ASSUME ticker \in DOMAIN positions'
               PROVE  IF ticker \notin DOMAIN positions
                        THEN side = "buy" /\ new.avg_cost = Whole(price)
                      ELSE new.avg_cost = IF side = "buy" THEN BlendedCost(positions[ticker], quantity, price)
                                                          ELSE positions[ticker].avg_cost
    BY <1>7
  <2>1. new.quantity # 0
    BY <1>7
  <2>2. CASE side = "buy"
    BY <1>4, <2>2 DEF new, Bought, BlendedCost
  <2>3. CASE side = "sell"
    <3>1. new = Sold(pos, quantity, price)
      BY <2>3 DEF new
    <3>2. pos.quantity - quantity > 0 /\ new.avg_cost = pos.avg_cost
      BY <1>4, <2>1, <3>1 DEF Sold
    <3> QED BY <1>4, <2>3, <3>2
  <2> QED BY <2>2, <2>3 DEF Sides
<1>12. \A s \in DOMAIN positions' \ {ticker} : s \in DOMAIN positions /\ positions'[s] = positions[s]
  BY <1>7
<1>13. t = Entry(ticker, side, quantity, price)
  OBVIOUS
<1> HIDE DEF t
<1> QED BY <1>1, <1>2, <1>3, <1>8, <1>10, <1>11, <1>12, <1>13

\* An order moves the cash by what its entry says, to half a cent and half a
\* ten-thousandth.
LEMMA EntryNearby ==
    ASSUME NEW ticker \in Symbols, NEW side \in Sides, NEW quantity \in Nat \ {0}, NEW price \in Nat
    PROVE  LET moved == CashFlow(side, quantity, price) - Flow(Entry(ticker, side, quantity, price))
           IN  /\ -(CentGrain + PriceGrain) <= 2 * moved /\ 2 * moved <= CentGrain + PriceGrain
               /\ CashFlow(side, quantity, price) \in Int
<1>1. PICK notional, commission : notional = price * quantity /\ commission = CommissionPerShare * quantity
  OBVIOUS
<1>2. notional \in Int /\ commission \in Int
  BY <1>1, CostsAssumption
<1>3. PICK n, c : n = Rounded(notional, CentGrain) /\ c = Rounded(commission, PriceGrain)
  OBVIOUS
<1>4. /\ n \in Int /\ -CentGrain <= 2 * (n - notional) /\ 2 * (n - notional) <= CentGrain
      /\ c \in Int /\ -PriceGrain <= 2 * (c - commission) /\ 2 * (c - commission) <= PriceGrain
  BY <1>2, <1>3, GrainsAssumption, RoundedNearby
<1>5. /\ CashFlow(side, quantity, price) = IF side = "buy" THEN -(notional + commission) ELSE notional - commission
      /\ Flow(Entry(ticker, side, quantity, price)) = (IF side = "buy" THEN -n ELSE n) - c
  BY <1>1, <1>3 DEF CashFlow, Flow, Entry
<1> QED BY <1>2, <1>4, <1>5, GrainsAssumption

-----------------------------------------------------------------------------
(* Average costs *)

LEMMA Scaled == \A a, b \in Int : \A c \in Nat : a <= b => a * c <= b * c
<1> SUFFICES ASSUME NEW a \in Int, NEW b \in Int, NEW c \in Nat, a <= b PROVE a * c <= b * c
  OBVIOUS
<1>1. PICK d \in Nat : b = a + d
  BY b - a \in Nat
<1>2. b * c = a * c + d * c /\ d * c \in Nat /\ a * c \in Int
  BY <1>1
<1> QED BY <1>2

\* A blend lies between what it blends.
LEMMA Blend ==
    ASSUME NEW num \in Int, NEW den \in Nat \ {0}, NEW shares \in Nat \ {0}, NEW quantity \in Nat \ {0},
           NEW price \in Int, NEW p \in Int
    PROVE  LET sum == num * shares + price * quantity * den
               all == den * (shares + quantity)
           IN  /\ p * den <= num /\ p <= price => p * all <= sum
               /\ p * den <= num /\ price <= p => price * all <= sum
               /\ num <= p * den /\ price <= p => sum <= p * all
               /\ num <= p * den /\ p <= price => sum <= price * all
<1> DEFINE sum == num * shares + price * quantity * den
           all == den * (shares + quantity)
           c == quantity * den
<1>1. c \in Nat /\ p * den \in Int /\ price * den \in Int
  OBVIOUS
<1>2. sum = num * shares + price * c
  OBVIOUS
<1>3. p * all = (p * den) * shares + p * c /\ price * all = (price * den) * shares + price * c
  OBVIOUS
<1>4. num * shares \in Int /\ price * c \in Int /\ p * c \in Int /\ (p * den) * shares \in Int /\ (price * den) * shares \in Int
  BY <1>1
<1> HIDE DEF sum, all, c
<1>5. ASSUME p * den <= num PROVE (p * den) * shares <= num * shares
  BY <1>1, <1>5, Scaled
<1>6. ASSUME num <= p * den PROVE num * shares <= (p * den) * shares
  BY <1>1, <1>6, Scaled
<1>7. ASSUME p <= price PROVE p * c <= price * c /\ (p * den) * shares <= (price * den) * shares
  <2>1. p * c <= price * c /\ p * den <= price * den
    BY <1>1, <1>7, Scaled
  <2> QED BY <1>1, <2>1, Scaled
<1>8. ASSUME price <= p PROVE price * c <= p * c /\ (price * den) * shares <= (p * den) * shares
  <2>1. price * c <= p * c /\ price * den <= p * den
    BY <1>1, <1>8, Scaled
  <2> QED BY <1>1, <2>1, Scaled
<1>9. p * den <= num /\ p <= price => p * all <= sum
  BY <1>2, <1>3, <1>4, <1>5, <1>7
<1>10. p * den <= num /\ price <= p => price * all <= sum
  BY <1>2, <1>3, <1>4, <1>5, <1>8
<1>11. num <= p * den /\ price <= p => sum <= p * all
  BY <1>2, <1>3, <1>4, <1>6, <1>8
<1>12. num <= p * den /\ p <= price => sum <= price * all
  BY <1>2, <1>3, <1>4, <1>6, <1>7
<1> QED BY <1>9, <1>10, <1>11, <1>12 DEF sum, all

\* While a position stays open its opening fills are kept, and a buy adds one.
LEMMA OpeningFillsGrow ==
    ASSUME BooksOK, NEW t \in Trade, trades' = Append(trades, t), NEW s,
           ReplayedHolding(s, Append(trades, t)) > 0
    PROVE  /\ OpeningFills(s) \subseteq OpeningFills(s)' /\ OpeningFills(s) \subseteq Nat
           /\ t.symbol = s /\ t.side = "buy" => t.filled_price \in OpeningFills(s)'
<1>1. PICK n : n = Len(trades)
  OBVIOUS
<1>2. /\ n \in Nat /\ trades \in Seq(Trade) /\ DOMAIN trades = 1 .. n
      /\ DOMAIN trades' = 1 .. (n + 1) /\ Len(trades') = n + 1
      /\ trades'[n + 1] = t /\ \A i \in 1 .. n : trades'[i] = trades[i]
  BY <1>1 DEF BooksOK
<1>3. /\ \A k \in 1 .. n : HoldingAfter(s, k)' = HoldingAfter(s, k)
      /\ HoldingAfter(s, n + 1)' > 0
  BY <1>1, <1>2, HoldingsStay
<1>4. OpeningFills(s) \subseteq Nat
  <2>1. \A i \in DOMAIN trades : trades[i] \in Trade
    BY <1>2
  <2>2. \A i \in DOMAIN trades : trades[i].filled_price \in Nat
    BY <2>1 DEF Trade
  <2> QED BY <2>2 DEF OpeningFills
<1>5. ASSUME NEW j \in DOMAIN trades, trades[j].symbol = s, trades[j].side = "buy",
             \A k \in j .. Len(trades) : HoldingAfter(s, k) > 0
      PROVE  trades[j].filled_price \in OpeningFills(s)'
  <2>1. j \in DOMAIN trades' /\ trades'[j] = trades[j]
    BY <1>2
  <2>2. \A k \in j .. Len(trades') : HoldingAfter(s, k)' > 0
    BY <1>1, <1>2, <1>3, <1>5
  <2> QED BY <1>5, <2>1, <2>2 DEF OpeningFills
<1>6. OpeningFills(s) \subseteq OpeningFills(s)'
  BY <1>5 DEF OpeningFills
<1>7. ASSUME t.symbol = s, t.side = "buy" PROVE t.filled_price \in OpeningFills(s)'
  <2>1. n + 1 \in DOMAIN trades' /\ trades'[n + 1] = t /\ \A k \in (n + 1) .. Len(trades') : HoldingAfter(s, k)' > 0
    BY <1>2, <1>3
  <2> QED BY <1>7, <2>1 DEF OpeningFills
<1> QED BY <1>4, <1>6, <1>7

\* Whoever places it, an order keeps the books.
LEMMA OrderKeepsBooks ==
    ASSUME Books, NEW ticker \in Symbols, NEW side \in Sides, NEW quantity \in Nat \ {0},
           NEW order_type, NEW limit_price \in Nat \cup {NoPrice},
           SubmitOrder(ticker, side, quantity, order_type, limit_price)
    PROVE  Books'
<1>1. SubmitOrder(ticker, side, quantity, order_type, limit_price)
  OBVIOUS
<1>2. quantity \in Nat \ {0} /\ limit_price \in Nat \cup {NoPrice}
  OBVIOUS
<1>3. BooksOK /\ TradeLogReplays /\ AvgCostWithinFills
  BY DEF Books
<1>4. PICK t \in Trade, price \in Nat :
              /\ t = Entry(ticker, side, quantity, price)
              /\ trades' = Append(trades, t)
              /\ cash' = cash + CashFlow(side, quantity, price)
              /\ \A s \in Symbols : Holding(s)' = Kept(s, Holding(s), t)
              /\ \A s \in DOMAIN positions' \ {ticker} : s \in DOMAIN positions /\ positions'[s] = positions[s]
              /\ ticker \in DOMAIN positions' =>
                    LET pos == positions[ticker] IN
                    IF ticker \notin DOMAIN positions
                      THEN side = "buy" /\ positions'[ticker].avg_cost = Whole(price)
                    ELSE positions'[ticker].avg_cost = IF side = "buy" THEN BlendedCost(pos, quantity, price)
                                                                       ELSE pos.avg_cost
              /\ BooksOK'
  BY <1>1, <1>2, <1>3, OrderEffect
<1>5. TradeLogReplays'
  <2>1. ReplayedCash(Append(trades, t)) = ReplayedCash(trades) + Flow(t)
    BY <1>3, OneMoreTrade DEF BooksOK
  <2>2. \A s : ReplayedHolding(s, Append(trades, t)) = Kept(s, ReplayedHolding(s, trades), t)
    BY <1>3, OneMoreTrade DEF BooksOK
  <2>3. LET drift == 2 * (cash' - ReplayedCash(trades'))
            most  == Len(trades') * (CentGrain + PriceGrain)
        IN  -most <= drift /\ drift <= most
    <3>1. PICK moved, grain, replayed, n :
             /\ moved = CashFlow(side, quantity, price) - Flow(t) /\ grain = CentGrain + PriceGrain
             /\ replayed = ReplayedCash(trades) /\ n = Len(trades)
      OBVIOUS
    <3>2. /\ -grain <= 2 * moved /\ 2 * moved <= grain /\ grain \in Nat
          /\ CashFlow(side, quantity, price) \in Int /\ Flow(t) \in Int
      BY <1>4, <3>1, EntryNearby, TradeTypes, GrainsAssumption
    <3>3. cash \in Int /\ replayed \in Int /\ n \in Nat /\ Len(trades') = n + 1
      BY <1>3, <1>4, <3>1, CashType DEF BooksOK
    <3>4. -(n * grain) <= 2 * (cash - replayed) /\ 2 * (cash - replayed) <= n * grain
      BY <1>3, <3>1 DEF TradeLogReplays
    <3>5. (n + 1) * grain = n * grain + grain /\ n * grain \in Int
      BY <3>2, <3>3
    <3>6. /\ cash' = cash + CashFlow(side, quantity, price)
          /\ ReplayedCash(trades') = replayed + Flow(t)
      BY <1>4, <2>1, <3>1
    <3>7. cash' - ReplayedCash(trades') = (cash - replayed) + moved /\ moved \in Int
      <4>1. PICK flow, entry : flow = CashFlow(side, quantity, price) /\ entry = Flow(t)
        OBVIOUS
      <4>2. PICK now, read : now = cash' /\ read = ReplayedCash(trades')
        OBVIOUS
      <4>3. now = cash + flow /\ read = replayed + entry /\ moved = flow - entry
        BY <3>1, <3>6, <4>1, <4>2
      <4>4. flow \in Int /\ entry \in Int
        BY <3>2, <4>1
      <4>5. now - read = (cash - replayed) + moved /\ moved \in Int
        BY <3>3, <4>3, <4>4
      <4> QED BY <4>2, <4>5
    <3>8. PICK gap : gap = cash - replayed
      OBVIOUS
    <3>9. PICK all : all = n * grain
      OBVIOUS
    <3>10. -(all + grain) <= 2 * (gap + moved) /\ 2 * (gap + moved) <= all + grain
      BY <3>2, <3>3, <3>4, <3>5, <3>7, <3>8, <3>9
    <3> QED BY <3>1, <3>3, <3>5, <3>7, <3>8, <3>9, <3>10
  <2>4. \A s \in Symbols : Holding(s)' = ReplayedHolding(s, trades')
    BY <1>3, <1>4, <2>2 DEF TradeLogReplays
  <2> QED BY <2>3, <2>4 DEF TradeLogReplays
<1>6. ASSUME NEW s \in DOMAIN positions'
      PROVE  /\ \E p \in OpeningFills(s)' : (2 * p - PriceGrain) * positions'[s].avg_cost.den <= 2 * positions'[s].avg_cost.num
             /\ \E p \in OpeningFills(s)' : 2 * positions'[s].avg_cost.num <= (2 * p + PriceGrain) * positions'[s].avg_cost.den
  <2>1. s \in Symbols /\ Holding(s)' > 0
    BY <1>4 DEF BooksOK, Holding, Positions
  <2>2. ReplayedHolding(s, Append(trades, t)) > 0
    BY <1>4, <1>5, <2>1 DEF TradeLogReplays
  <2>3. /\ OpeningFills(s) \subseteq OpeningFills(s)' /\ OpeningFills(s) \subseteq Nat
        /\ t.symbol = s /\ t.side = "buy" => t.filled_price \in OpeningFills(s)'
    BY <1>3, <1>4, <2>2, OpeningFillsGrow
  <2>4. CASE s \in DOMAIN positions /\ positions'[s].avg_cost = positions[s].avg_cost
    BY <1>3, <2>3, <2>4 DEF AvgCostWithinFills
  <2>5. PICK logged : logged = Rounded(price, PriceGrain)
    OBVIOUS
  <2>6. /\ logged \in Int /\ PriceGrain \in Nat
        /\ 2 * logged - PriceGrain <= 2 * price /\ 2 * price <= 2 * logged + PriceGrain
    <3>1. price \in Int
      BY <1>4
    <3>2. /\ logged \in Int /\ -PriceGrain <= 2 * (logged - price)
          /\ 2 * (logged - price) <= PriceGrain /\ PriceGrain \in Nat
      BY <2>5, <3>1, GrainsAssumption, RoundedNearby
    <3> QED BY <3>1, <3>2
  <2>7. ASSUME s = ticker, side = "buy" PROVE logged \in OpeningFills(s)'
    BY <1>4, <2>3, <2>5, <2>7 DEF Entry
  <2>8. CASE s = ticker /\ side = "buy" /\ s \notin DOMAIN positions
    <3>1. positions'[s].avg_cost.num = price /\ positions'[s].avg_cost.den = 1
      BY <1>4, <2>8 DEF Whole
    <3>2. (2 * logged - PriceGrain) * 1 = 2 * logged - PriceGrain /\ (2 * logged + PriceGrain) * 1 = 2 * logged + PriceGrain
      BY <2>6
    <3> QED BY <2>6, <2>7, <2>8, <3>1, <3>2
  <2>9. CASE s = ticker /\ side = "buy" /\ s \in DOMAIN positions
    <3>1. PICK num, den, shares : num = positions[s].avg_cost.num /\ den = positions[s].avg_cost.den /\ shares = positions[s].quantity
      OBVIOUS
    <3>2. num \in Int /\ den \in Nat \ {0} /\ shares \in Nat \ {0}
      BY <1>3, <2>9, <3>1 DEF BooksOK, Positions, Costs
    <3>3. PICK sum, all : sum = num * shares + price * quantity * den /\ all = den * (shares + quantity)
      OBVIOUS
    <3>4. positions'[s].avg_cost.num = sum /\ positions'[s].avg_cost.den = all
      <4>1. positions'[s].avg_cost = BlendedCost(positions[s], quantity, price) /\ positions[s].quantity > 0
        BY <1>4, <2>9, <3>1, <3>2
      <4> QED BY <3>1, <3>3, <4>1 DEF BlendedCost
    <3>5. PICK low \in OpeningFills(s), high \in OpeningFills(s) :
             (2 * low - PriceGrain) * den <= 2 * num /\ 2 * num <= (2 * high + PriceGrain) * den
      BY <1>3, <2>9, <3>1 DEF AvgCostWithinFills
    <3>6. low \in Nat /\ high \in Nat /\ {low, high, logged} \subseteq OpeningFills(s)'
      BY <2>3, <2>7, <2>9
    <3>7. PICK floor, roof, twice : floor = 2 * low - PriceGrain /\ roof = 2 * high + PriceGrain /\ twice = 2 * price
      OBVIOUS
    <3>8. floor \in Int /\ roof \in Int /\ twice \in Int /\ 2 * num \in Int
      BY <2>6, <3>2, <3>6, <3>7
    <3>9. (2 * num) * shares + twice * quantity * den = 2 * sum
      <4>1. PICK a, b, c : a = num * shares /\ b = quantity * den /\ c = price * b
        OBVIOUS
      <4>2. a \in Int /\ b \in Int /\ c \in Int /\ (2 * num) * shares = 2 * a /\ twice * b = 2 * c
        BY <3>2, <3>7, <4>1
      <4>3. price * quantity * den = c /\ twice * quantity * den = twice * b
        BY <3>2, <3>8, <4>1
      <4> QED BY <3>3, <4>1, <4>2, <4>3
    <3>10. /\ floor <= twice => floor * all <= 2 * sum
           /\ twice <= floor => twice * all <= 2 * sum
           /\ twice <= roof => 2 * sum <= roof * all
           /\ roof <= twice => 2 * sum <= twice * all
      BY <1>2, <3>2, <3>3, <3>5, <3>7, <3>8, <3>9, Blend
    <3>11. all \in Nat /\ sum \in Int
      <4>1. all \in Nat
        BY <1>2, <3>2, <3>3
      <4>2. num * shares \in Int /\ price * quantity \in Int
        BY <3>2
      <4> QED BY <3>2, <3>3, <4>1, <4>2
    <3>12. (2 * logged - PriceGrain) * all <= twice * all /\ twice * all <= (2 * logged + PriceGrain) * all
      BY <2>6, <3>7, <3>8, <3>11, Scaled
    <3>13. \/ floor * all <= 2 * sum
           \/ (2 * logged - PriceGrain) * all <= 2 * sum
      <4>1. CASE floor <= twice
        BY <3>10, <4>1
      <4>2. CASE twice <= floor
        <5>1. PICK x, y : x = (2 * logged - PriceGrain) * all /\ y = twice * all
          OBVIOUS
        <5>2. x \in Int /\ y \in Int
          BY <2>6, <3>8, <3>11, <5>1
        <5> QED BY <3>10, <3>11, <3>12, <4>2, <5>1, <5>2
      <4> QED BY <3>8, <4>1, <4>2
    <3>14. \/ 2 * sum <= roof * all
           \/ 2 * sum <= (2 * logged + PriceGrain) * all
      <4>1. CASE twice <= roof
        BY <3>10, <4>1
      <4>2. CASE roof <= twice
        <5>1. PICK x, y : x = (2 * logged + PriceGrain) * all /\ y = twice * all
          OBVIOUS
        <5>2. x \in Int /\ y \in Int
          BY <2>6, <3>8, <3>11, <5>1
        <5> QED BY <3>10, <3>11, <3>12, <4>2, <5>1, <5>2
      <4> QED BY <3>8, <4>1, <4>2
    <3> QED BY <3>4, <3>6, <3>7, <3>13, <3>14
  <2>10. \/ s \in DOMAIN positions /\ positions'[s].avg_cost = positions[s].avg_cost
         \/ s = ticker /\ side = "buy"
    BY <1>4 DEF Sides
  <2> QED BY <2>4, <2>8, <2>9, <2>10
<1>7. AvgCostWithinFills'
  BY <1>6 DEF AvgCostWithinFills
<1> QED BY <1>4, <1>5, <1>7 DEF Books

LEMMA PlaceOrderStep == ASSUME Books, PlaceOrder PROVE Books'
BY ClientAssumption, OrderKeepsBooks DEF PlaceOrder

\* And so does a mark.
LEMMA MarkKeepsBooks ==
    ASSUME Books, NEW ticker \in Symbols, NEW price \in Nat, UpdatePrices(ticker, price)
    PROVE  Books'
<1>1. UpdatePrices(ticker, price)
  OBVIOUS
<1>2. price \in Nat /\ BooksOK /\ TradeLogReplays /\ AvgCostWithinFills
  BY DEF Books
<1>3. /\ DOMAIN positions' = DOMAIN positions /\ UNCHANGED <<cash, trades>>
      /\ positions' \in [DOMAIN positions -> Positions]
      /\ \A s \in DOMAIN positions : /\ positions'[s].quantity = positions[s].quantity
                                     /\ positions'[s].avg_cost = positions[s].avg_cost
  BY <1>1, <1>2 DEF UpdatePrices, BooksOK, Positions
<1>4. latest_prices' \in [DOMAIN latest_prices' -> Nat]
  BY <1>1, <1>2 DEF UpdatePrices, With, BooksOK
<1>5. BooksOK'
  BY <1>2, <1>3, <1>4 DEF BooksOK
<1>6. TradeLogReplays'
  BY <1>2, <1>3 DEF TradeLogReplays, Holding
<1>7. \A s : OpeningFills(s)' = OpeningFills(s)
  <2>1. \A s, k : HoldingAfter(s, k)' = HoldingAfter(s, k)
    BY <1>3 DEF HoldingAfter
  <2> QED BY <1>3, <2>1 DEF OpeningFills
<1>8. AvgCostWithinFills'
  BY <1>2, <1>3, <1>7 DEF AvgCostWithinFills
<1> QED BY <1>5, <1>6, <1>8 DEF Books

LEMMA MarkSymbolStep == ASSUME Books, MarkSymbol PROVE Books'
BY ClientAssumption, MarkKeepsBooks DEF MarkSymbol

LEMMA BooksAlone == ASSUME Books, UNCHANGED brokerVars PROVE Books'
<1>1. UNCHANGED <<cash, positions, latest_prices, trades>>
  BY DEF brokerVars
<1>2. \A s : OpeningFills(s)' = OpeningFills(s)
  <2>1. \A s, k : HoldingAfter(s, k)' = HoldingAfter(s, k)
    BY <1>1 DEF HoldingAfter
  <2> QED BY <1>1, <2>1 DEF OpeningFills
<1>3. BooksOK' /\ TradeLogReplays'
  BY <1>1 DEF Books, BooksOK, TradeLogReplays, Holding
<1>4. AvgCostWithinFills'
  BY <1>1, <1>2 DEF Books, AvgCostWithinFills
<1> QED BY <1>3, <1>4 DEF Books

LEMMA StepBooks == Books /\ [ClientNext]_brokerVars => Books'
BY PlaceOrderStep, MarkSymbolStep, BooksAlone DEF ClientNext

-----------------------------------------------------------------------------
(* The books, whatever a client does *)

LEMMA BooksAlways == ClientSpec => []Books
<1> QED BY InitBooks, StepBooks, PTL DEF ClientSpec

\* No position is short or empty, and none is at a cost without a denominator,
\* whatever is ordered and however it is marked (broker.py:161-330).
THEOREM BooksWellFormed == ClientSpec => []BooksOK
<1>1. Books => BooksOK
  BY DEF Books
<1> QED BY <1>1, BooksAlways, PTL

\* However long the log, every holding is what it says to the share, and the cash
\* differs from what it says by half a cent and half a ten-thousandth for each
\* order at most, the log's own rounding (broker.py:196-296).
THEOREM LogAccountsForTheBooks == ClientSpec => []TradeLogReplays
<1>1. Books => TradeLogReplays
  BY DEF Books
<1> QED BY <1>1, BooksAlways, PTL

\* The average cost of an open position is an average of its opening fills: it
\* is never below the cheapest or above the dearest (broker.py:215-275).
THEOREM CostsAreAverages == ClientSpec => []AvgCostWithinFills
<1>1. Books => AvgCostWithinFills
  BY DEF Books
<1> QED BY <1>1, BooksAlways, PTL

-----------------------------------------------------------------------------
(* The auto-trader: what its thread knows between two steps *)

\* The symbol and the close the thread has in hand are real ones.
InHand ==
    /\ pc \in {"fetch", "mark", "signals", "snapshot", "decide"} => symbol \in Symbols
    /\ pc \in {"mark", "signals", "snapshot", "decide"} => close \in Prices

\* From the mark to the order, the broker's price of the symbol is that close.
Marked ==
    pc \in {"signals", "snapshot", "decide"} =>
        /\ symbol \in DOMAIN latest_prices /\ latest_prices[symbol] = close
        /\ symbol \in DOMAIN positions => positions[symbol].market_price = close

\* What _process_signals read of the broker is still so when it decides.
SnapshotCurrent ==
    pc = "decide" => held = Quantities(positions) /\ account.cash = Rounded(cash, CentGrain)

IndInv == TypeOK /\ InHand /\ Marked /\ SnapshotCurrent /\ PositionLimit

-----------------------------------------------------------------------------
(* The broker's arithmetic *)

\* Slippage keeps a price a natural number.
LEMMA FilledPriceType ==
    ASSUME NEW side \in Sides, NEW base \in Nat
    PROVE  FilledPrice(side, base) \in Nat
<1>1. Slip(base) \in Int
  BY CostsAssumption DEF Slip
<1> QED BY <1>1 DEF FilledPrice

\* An order's effect on cash is an integer.
LEMMA CashFlowType ==
    ASSUME NEW side \in Sides, NEW quantity \in Nat, NEW price \in Nat
    PROVE  CashFlow(side, quantity, price) \in Int
<1>1. price * quantity \in Int /\ CommissionPerShare * quantity \in Int
  BY CostsAssumption
<1> QED BY <1>1 DEF CashFlow

-----------------------------------------------------------------------------
(* What an order of the loop does to the broker *)

Fill(side) == FilledPrice(side, close)

\* When the loop decides, the broker's base price is the close in hand.
LEMMA BaseIsClose ==
    ASSUME IndInv, pc = "decide"
    PROVE  BasePrice(symbol, "market", NoPrice) = close
<1>1. /\ symbol \in DOMAIN latest_prices /\ latest_prices[symbol] = close
      /\ symbol \in DOMAIN positions => positions[symbol].market_price = close
  BY DEF IndInv, Marked
<1>2. close \in Prices
  BY DEF IndInv, InHand
<1>3. close > 0
  BY <1>2, PricesAssumption
<1> QED BY <1>1, <1>3 DEF BasePrice

\* A BUY opens a flat symbol below the limit, for a quantity the cash covers, to
\* half a cent.
LEMMA BuyOpens ==
    ASSUME IndInv, Buy
    PROVE  /\ pc = "decide" /\ symbol \in Symbols \ DOMAIN positions
           /\ Cardinality(DOMAIN positions) < MaxPositions
           /\ BuyQuantity \in Nat \ {0}
           /\ 2 * (close * BuyQuantity - cash) <= CentGrain
           /\ Fill("buy") \in Nat
           /\ positions' = With(positions, symbol,
                                [quantity |-> BuyQuantity, avg_cost |-> Whole(Fill("buy")),
                                 market_price |-> Fill("buy")])
           /\ cash' = cash + CashFlow("buy", BuyQuantity, Fill("buy"))
           /\ trades' = Append(trades, Entry(symbol, "buy", BuyQuantity, Fill("buy")))
<1>1. pc = "decide" /\ WantsBuy /\ MarketOrder(symbol, "buy", BuyQuantity)
  BY DEF Buy, Order
<1>2. held = Quantities(positions) /\ account.cash = Rounded(cash, CentGrain) /\ DOMAIN held = DOMAIN positions
  BY <1>1 DEF IndInv, SnapshotCurrent, Quantities
<1>3. /\ symbol \in Symbols \ DOMAIN positions
      /\ Cardinality(DOMAIN positions) < MaxPositions
      /\ BuyQuantity \in Nat \ {0}
  BY <1>1, <1>2 DEF WantsBuy, IndInv, InHand
<1>4. 2 * (close * BuyQuantity - cash) <= CentGrain
  <2>1. close * BuyQuantity <= account.cash
    BY <1>3 DEF BuyQuantity
  <2>2. cash \in Int /\ close \in Nat
    BY <1>1, PricesAssumption DEF IndInv, InHand, TypeOK, BrokerTypeOK
  <2>3. PICK shown, cost : shown = Rounded(cash, CentGrain) /\ cost = close * BuyQuantity
    OBVIOUS
  <2>4. shown \in Int /\ 2 * (shown - cash) <= CentGrain
    BY <2>2, <2>3, GrainsAssumption, RoundedNearby
  <2>5. cost <= shown /\ cost \in Int
    BY <1>2, <1>3, <2>1, <2>2, <2>3
  <2>6. 2 * (cost - cash) <= CentGrain
    BY <2>2, <2>4, <2>5, GrainsAssumption
  <2> QED BY <2>3, <2>6
<1>5. Fill("buy") \in Nat
  BY <1>1, FilledPriceType, PricesAssumption DEF IndInv, InHand, Fill, Sides
<1>6. FilledPrice("buy", BasePrice(symbol, "market", NoPrice)) = Fill("buy")
  BY <1>1, BaseIsClose DEF Fill
<1>7. /\ cash' = cash + CashFlow("buy", BuyQuantity, Fill("buy"))
      /\ positions' = Settled(symbol, Bought(PositionOf(symbol, Fill("buy")),
                                             BuyQuantity, Fill("buy")))
      /\ trades' = Append(trades, Entry(symbol, "buy", BuyQuantity, Fill("buy")))
  BY <1>1, <1>6 DEF MarketOrder, SubmitOrder, Entry
<1>8. Bought(PositionOf(symbol, Fill("buy")), BuyQuantity, Fill("buy"))
        = [quantity |-> BuyQuantity, avg_cost |-> Whole(Fill("buy")),
           market_price |-> Fill("buy")]
  BY <1>3, <1>5 DEF Bought, PositionOf, BlendedCost
<1> QED BY <1>1, <1>3, <1>4, <1>5, <1>7, <1>8 DEF Settled

\* A SELL closes an open symbol whole.
LEMMA SellCloses ==
    ASSUME IndInv, Sell
    PROVE  /\ pc = "decide" /\ symbol \in DOMAIN positions
           /\ Fill("sell") \in Nat
           /\ positions[symbol].quantity \in Nat \ {0}
           /\ positions' = Restrict(positions, DOMAIN positions \ {symbol})
           /\ cash' = cash + CashFlow("sell", positions[symbol].quantity, Fill("sell"))
           /\ trades' = Append(trades, Entry(symbol, "sell", positions[symbol].quantity, Fill("sell")))
<1> DEFINE quantity == positions[symbol].quantity
<1>1. pc = "decide" /\ WantsSell /\ MarketOrder(symbol, "sell", held[symbol])
  BY DEF Sell, Order
<1>2. symbol \in DOMAIN positions /\ held[symbol] = quantity
  BY <1>1 DEF IndInv, SnapshotCurrent, Quantities, WantsSell
<1>3. quantity \in Nat \ {0}
  BY <1>2 DEF IndInv, TypeOK, BrokerTypeOK, Position
<1>4. Fill("sell") \in Nat
  BY <1>1, FilledPriceType, PricesAssumption DEF IndInv, InHand, Fill, Sides
<1>5. FilledPrice("sell", BasePrice(symbol, "market", NoPrice)) = Fill("sell")
  BY <1>1, BaseIsClose DEF Fill
<1>6. /\ cash' = cash + CashFlow("sell", quantity, Fill("sell"))
      /\ positions' = Settled(symbol, Sold(positions[symbol], quantity, Fill("sell")))
      /\ trades' = Append(trades, Entry(symbol, "sell", quantity, Fill("sell")))
  BY <1>1, <1>2, <1>5 DEF MarketOrder, SubmitOrder, PositionOf, Entry
<1>7. Sold(positions[symbol], quantity, Fill("sell")).quantity = 0
  BY <1>3 DEF Sold
<1> QED BY <1>1, <1>2, <1>3, <1>4, <1>6, <1>7 DEF Settled

-----------------------------------------------------------------------------
(* What a mark does to the broker *)

\* Marking a symbol changes the price of a position, never its shares.
LEMMA MarkKeepsBook ==
    ASSUME BrokerTypeOK, PositionLimit, symbol \in Symbols, close \in Prices,
           UpdatePrices(symbol, close)
    PROVE  /\ BrokerTypeOK' /\ PositionLimit'
           /\ cash' = cash /\ trades' = trades
           /\ Quantities(positions)' = Quantities(positions)
           /\ symbol \in DOMAIN latest_prices' /\ latest_prices'[symbol] = close
           /\ symbol \in DOMAIN positions' => positions'[symbol].market_price = close
<1>1. close \in Nat
  BY PricesAssumption
<1>2. /\ cash' = cash /\ trades' = trades
      /\ latest_prices' = With(latest_prices, symbol, close)
      /\ positions' = IF symbol \in DOMAIN positions
                        THEN [positions EXCEPT ![symbol].market_price = close]
                        ELSE positions
  BY DEF UpdatePrices
<1>3. /\ DOMAIN positions' = DOMAIN positions
      /\ \A s \in DOMAIN positions :
            /\ positions'[s].quantity = positions[s].quantity
            /\ positions'[s] \in Position
      /\ symbol \in DOMAIN positions => positions'[symbol].market_price = close
  BY <1>1, <1>2 DEF BrokerTypeOK, Position
<1>4. /\ DOMAIN latest_prices' = DOMAIN latest_prices \cup {symbol}
      /\ latest_prices'[symbol] = close
      /\ \A s \in DOMAIN latest_prices' : latest_prices'[s] \in Prices
  BY <1>2 DEF With, BrokerTypeOK
<1>5. BrokerTypeOK'
  BY <1>2, <1>3, <1>4 DEF BrokerTypeOK
<1>6. Quantities(positions)' = Quantities(positions)
  BY <1>3 DEF Quantities
<1> QED BY <1>2, <1>3, <1>4, <1>5, <1>6 DEF PositionLimit

-----------------------------------------------------------------------------
(* The inductive invariant *)

LEMMA InitInd == Init => IndInv
<1> SUFFICES ASSUME Init PROVE IndInv
  OBVIOUS
<1>1. BrokerTypeOK
  BY CostsAssumption DEF Init, BrokerInit, BrokerTypeOK, NoFunction
<1>2. LoopTypeOK
  <2>1. symbols \in Seq(Symbols)
    BY InitialListsAssumption DEF Init
  <2>2. running \in BOOLEAN
    BY DEF Init
  <2> QED BY <2>1, <2>2 DEF Init, LoopTypeOK, Labels
<1>3. PositionLimit
  BY FS_EmptySet, LimitsAssumption DEF Init, BrokerInit, NoFunction, PositionLimit
<1> QED BY <1>1, <1>2, <1>3 DEF IndInv, TypeOK, InHand, Marked, SnapshotCurrent, Init

\* The set of open symbols, being a set of symbols, is finite.
LEMMA OpenIsFinite ==
    ASSUME BrokerTypeOK
    PROVE  IsFiniteSet(DOMAIN positions) /\ Cardinality(DOMAIN positions) \in Nat
BY SymbolsAssumption, FS_Subset, FS_CardinalityType DEF BrokerTypeOK

LEMMA BuyInd == IndInv /\ Buy => IndInv'
<1> SUFFICES ASSUME IndInv, Buy PROVE IndInv'
  OBVIOUS
<1> DEFINE price == Fill("buy")
           opened == [quantity |-> BuyQuantity, avg_cost |-> Whole(price),
                      market_price |-> price]
<1>1. /\ symbol \in Symbols \ DOMAIN positions
      /\ Cardinality(DOMAIN positions) < MaxPositions
      /\ BuyQuantity \in Nat \ {0} /\ price \in Nat
      /\ positions' = With(positions, symbol, opened)
      /\ cash' = cash + CashFlow("buy", BuyQuantity, price)
      /\ trades' = Append(trades, Entry(symbol, "buy", BuyQuantity, price))
  BY BuyOpens
<1>2. /\ latest_prices' = latest_prices /\ pc' = "for" /\ ForgetSymbol
      /\ all_actions' = Append(all_actions, Len(trades) + 1)
      /\ UNCHANGED <<next_index, actions_log, config, history, running, iteration>>
  BY DEF Buy, Order, MarketOrder, SubmitOrder
<1>3. opened \in Position
  BY <1>1 DEF Position, Whole
<1>4. /\ DOMAIN positions' = DOMAIN positions \cup {symbol}
      /\ \A s \in DOMAIN positions' : positions'[s] \in Position
  BY <1>1, <1>3 DEF With, IndInv, TypeOK, BrokerTypeOK
<1>5. cash' \in Int
  <2>1. CashFlow("buy", BuyQuantity, price) \in Int
    BY <1>1, CashFlowType DEF Sides
  <2> QED BY <1>1, <2>1 DEF IndInv, TypeOK, BrokerTypeOK
<1>6. trades' \in Seq(Trade)
  <2>1. Entry(symbol, "buy", BuyQuantity, price) \in Trade
    BY <1>1, EntryIsTrade DEF Sides
  <2> QED BY <1>1, <2>1 DEF IndInv, TypeOK, BrokerTypeOK
<1>7. BrokerTypeOK'
  BY <1>1, <1>2, <1>4, <1>5, <1>6 DEF BrokerTypeOK, IndInv, TypeOK
<1>8. LoopTypeOK'
  BY <1>2 DEF LoopTypeOK, IndInv, TypeOK, BrokerTypeOK, ForgetSymbol, Labels, config
<1>9. PositionLimit'
  <2>1. Cardinality(DOMAIN positions \cup {symbol}) = Cardinality(DOMAIN positions) + 1
    BY <1>1, OpenIsFinite, FS_AddElement DEF IndInv, TypeOK
  <2> QED BY <1>1, <1>4, <2>1, OpenIsFinite, LimitsAssumption
          DEF IndInv, TypeOK, PositionLimit
<1> QED BY <1>2, <1>7, <1>8, <1>9 DEF IndInv, TypeOK, InHand, Marked, SnapshotCurrent

LEMMA SellInd == IndInv /\ Sell => IndInv'
<1> SUFFICES ASSUME IndInv, Sell PROVE IndInv'
  OBVIOUS
<1> DEFINE price == Fill("sell")
           quantity == positions[symbol].quantity
<1>1. /\ symbol \in DOMAIN positions
      /\ quantity \in Nat \ {0} /\ price \in Nat
      /\ positions' = Restrict(positions, DOMAIN positions \ {symbol})
      /\ cash' = cash + CashFlow("sell", quantity, price)
      /\ trades' = Append(trades, Entry(symbol, "sell", quantity, price))
  BY SellCloses
<1>2. /\ latest_prices' = latest_prices /\ pc' = "for" /\ ForgetSymbol
      /\ all_actions' = Append(all_actions, Len(trades) + 1)
      /\ UNCHANGED <<next_index, actions_log, config, history, running, iteration>>
  BY DEF Sell, Order, MarketOrder, SubmitOrder
<1>3. /\ DOMAIN positions' = DOMAIN positions \ {symbol}
      /\ \A s \in DOMAIN positions' : positions'[s] \in Position
  BY <1>1 DEF Restrict, IndInv, TypeOK, BrokerTypeOK
<1>4. cash' \in Int
  <2>1. CashFlow("sell", quantity, price) \in Int
    BY <1>1, CashFlowType DEF Sides
  <2> QED BY <1>1, <2>1 DEF IndInv, TypeOK, BrokerTypeOK
<1>5. trades' \in Seq(Trade)
  <2>1. Entry(symbol, "sell", quantity, price) \in Trade
    BY <1>1, EntryIsTrade DEF Sides, IndInv, TypeOK, BrokerTypeOK
  <2> QED BY <1>1, <2>1 DEF IndInv, TypeOK, BrokerTypeOK
<1>6. BrokerTypeOK'
  BY <1>2, <1>3, <1>4, <1>5 DEF BrokerTypeOK, IndInv, TypeOK
<1>7. LoopTypeOK'
  BY <1>2 DEF LoopTypeOK, IndInv, TypeOK, BrokerTypeOK, ForgetSymbol, Labels, config
<1>8. PositionLimit'
  <2>1. Cardinality(DOMAIN positions \ {symbol}) = Cardinality(DOMAIN positions) - 1
    BY <1>1, OpenIsFinite, FS_RemoveElement DEF IndInv, TypeOK
  <2> QED BY <1>3, <2>1, OpenIsFinite, LimitsAssumption DEF IndInv, TypeOK, PositionLimit
<1> QED BY <1>2, <1>6, <1>7, <1>8 DEF IndInv, TypeOK, InHand, Marked, SnapshotCurrent

\* A step that marks the symbol in hand at the close in hand.
LEMMA MarkStepInd ==
    ASSUME IndInv, MarkToMarket \/ TakeSnapshot
    PROVE  IndInv'
<1>1. symbol \in Symbols /\ close \in Prices /\ UpdatePrices(symbol, close)
  BY DEF IndInv, InHand, MarkToMarket, TakeSnapshot
<1>2. /\ BrokerTypeOK' /\ PositionLimit'
      /\ cash' = cash /\ trades' = trades
      /\ Quantities(positions)' = Quantities(positions)
      /\ symbol \in DOMAIN latest_prices' /\ latest_prices'[symbol] = close
      /\ symbol \in DOMAIN positions' => positions'[symbol].market_price = close
  BY <1>1, MarkKeepsBook DEF IndInv, TypeOK
<1>3. /\ symbol' = symbol /\ close' = close
      /\ UNCHANGED <<next_index, signal, all_actions, actions_log, symbols, strategy,
                     edits, history, running, iteration>>
  BY DEF MarkToMarket, TakeSnapshot, locals, config
<1>4. pc' \in {"signals", "decide"}
  BY DEF MarkToMarket, TakeSnapshot
<1>5. LoopTypeOK'
  BY <1>3, <1>4 DEF IndInv, TypeOK, LoopTypeOK, Labels
<1>6. InHand' /\ Marked'
  BY <1>1, <1>2, <1>3, <1>4 DEF InHand, Marked
<1>7. SnapshotCurrent'
  <2>1. CASE MarkToMarket
    BY <2>1 DEF MarkToMarket, SnapshotCurrent
  <2>2. CASE TakeSnapshot
    <3>1. held' = Quantities(positions) /\ account'.cash = Rounded(cash, CentGrain)
      BY <2>2 DEF TakeSnapshot, GetAccount
    <3> QED BY <1>2, <3>1 DEF SnapshotCurrent
  <2> QED BY <2>1, <2>2
<1> QED BY <1>2, <1>5, <1>6, <1>7 DEF IndInv, TypeOK

\* A step that leaves the broker alone keeps what is known of the broker.
LEMMA BrokerAlone ==
    ASSUME IndInv, UNCHANGED brokerVars
    PROVE  BrokerTypeOK' /\ PositionLimit'
BY DEF IndInv, TypeOK, BrokerTypeOK, PositionLimit, brokerVars

\* A step of the loop that does not touch the broker.
LEMMA QuietStepInd ==
    ASSUME IndInv,
           \/ CheckRunning \/ NextSymbol \/ EndIteration
           \/ FetchEnough \/ FetchShort \/ FetchEmpty \/ FetchRaises
           \/ GenerateSignals \/ Skip \/ CheckLimit \/ Wake \/ EnterLoop
    PROVE  IndInv'
<1> USE DEF IndInv, TypeOK, LoopTypeOK, Labels, config, locals
<1>1. UNCHANGED brokerVars
  BY DEF CheckRunning, NextSymbol, EndIteration, FetchEnough, FetchShort, FetchEmpty,
         FetchRaises, GenerateSignals, Skip, CheckLimit, Wake, EnterLoop
<1>2. BrokerTypeOK' /\ PositionLimit'
  BY <1>1, BrokerAlone
<1>3. CASE CheckRunning
  <2>1. LoopTypeOK' BY <1>3 DEF CheckRunning
  <2> QED BY <1>2, <1>3, <2>1 DEF CheckRunning, InHand, Marked, SnapshotCurrent
<1>4. CASE NextSymbol
  <2>1. symbol' \in Symbols BY <1>4 DEF NextSymbol
  <2>2. LoopTypeOK' BY <1>4, <2>1 DEF NextSymbol
  <2> QED BY <1>2, <1>4, <2>1, <2>2 DEF NextSymbol, InHand, Marked, SnapshotCurrent
<1>5. CASE EndIteration
  <2>1. LoopTypeOK' BY <1>5 DEF EndIteration
  <2> QED BY <1>2, <1>5, <2>1 DEF EndIteration, InHand, Marked, SnapshotCurrent
<1>6. CASE FetchEnough
  <2>1. symbol \in Symbols BY <1>6 DEF FetchEnough, InHand
  <2>2. LoopTypeOK' BY <1>6, <2>1 DEF FetchEnough
  <2> QED BY <1>2, <1>6, <2>1, <2>2 DEF FetchEnough, InHand, Marked, SnapshotCurrent
<1>7. CASE FetchShort
  <2>1. symbol \in Symbols BY <1>7 DEF FetchShort, InHand
  <2>2. LoopTypeOK' BY <1>7, <2>1 DEF FetchShort, ForgetSymbol
  <2> QED BY <1>2, <1>7, <2>2 DEF FetchShort, InHand, Marked, SnapshotCurrent
<1>8. CASE FetchEmpty \/ Skip
  <2>1. LoopTypeOK' BY <1>8 DEF FetchEmpty, Skip, ForgetSymbol
  <2> QED BY <1>2, <1>8, <2>1 DEF FetchEmpty, Skip, InHand, Marked, SnapshotCurrent
<1>9. CASE FetchRaises
  <2>1. LoopTypeOK' BY <1>9 DEF FetchRaises, ForgetSymbol
  <2> QED BY <1>2, <1>9, <2>1 DEF FetchRaises, InHand, Marked, SnapshotCurrent
<1>10. CASE GenerateSignals
  <2>1. PICK generated \in Strategies[strategy] :
           IF generated \in {"buy", "sell"}
             THEN /\ signal' = generated
                  /\ pc' = "snapshot"
                  /\ UNCHANGED <<symbol, close, account, held>>
             ELSE /\ ForgetSymbol
                  /\ pc' = "for"
    BY <1>10 DEF GenerateSignals
  <2>2. /\ pc = "signals"
        /\ UNCHANGED <<brokerVars, next_index, all_actions, actions_log, config, history,
                       running, iteration>>
    BY <1>10 DEF GenerateSignals
  <2>3. CASE generated \in {"buy", "sell"}
    <3>1. LoopTypeOK' BY <2>1, <2>2, <2>3
    <3> QED BY <1>2, <2>1, <2>2, <2>3, <3>1
            DEF InHand, Marked, SnapshotCurrent, brokerVars
  <2>4. CASE generated \notin {"buy", "sell"}
    <3>1. LoopTypeOK' BY <2>1, <2>2, <2>4 DEF ForgetSymbol
    <3> QED BY <1>2, <2>1, <2>2, <2>4, <3>1 DEF InHand, Marked, SnapshotCurrent
  <2> QED BY <2>3, <2>4
<1>11. CASE CheckLimit \/ Wake \/ EnterLoop
  <2>1. running' \in BOOLEAN
    BY <1>11 DEF CheckLimit, Wake, EnterLoop
  <2>2. LoopTypeOK' BY <1>11, <2>1 DEF CheckLimit, Wake, EnterLoop
  <2> QED BY <1>2, <1>11, <2>2
          DEF CheckLimit, Wake, EnterLoop, InHand, Marked, SnapshotCurrent
<1> QED BY <1>3, <1>4, <1>5, <1>6, <1>7, <1>8, <1>9, <1>10, <1>11

\* The other thread changes the list, the strategy and the flag, and nothing
\* the loop has in hand.
LEMMA OtherThreadInd ==
    ASSUME IndInv, OtherThread
    PROVE  IndInv'
<1>1. /\ UNCHANGED <<brokerVars, pc, locals, actions_log, history, iteration>>
      /\ edits' \in Nat /\ strategy' \in DOMAIN Strategies
  BY DEF OtherThread, Stop, AddSymbol, RemoveSymbol, SetStrategy, Edit, config,
         IndInv, TypeOK, LoopTypeOK
<1>2. symbols' \in Seq(Symbols)
  <2>1. ASSUME NEW s \in Symbols, RemoveSymbol(s) PROVE symbols' \in Seq(Symbols)
    <3>1. PICK i \in 1 .. Len(symbols) : symbols' = RemoveAt(symbols, i)
      BY <2>1 DEF RemoveSymbol
    <3> QED BY <3>1 DEF RemoveAt, IndInv, TypeOK, LoopTypeOK
  <2>2. ASSUME NEW s \in Symbols, AddSymbol(s) PROVE symbols' \in Seq(Symbols)
    BY <2>2 DEF AddSymbol, IndInv, TypeOK, LoopTypeOK
  <2> QED BY <2>1, <2>2 DEF OtherThread, Stop, SetStrategy, config, IndInv, TypeOK, LoopTypeOK
<1>3. running' \in BOOLEAN
  BY DEF OtherThread, Stop, AddSymbol, RemoveSymbol, SetStrategy, Edit,
         IndInv, TypeOK, LoopTypeOK
<1>4. BrokerTypeOK' /\ PositionLimit'
  BY <1>1, BrokerAlone
<1>5. LoopTypeOK'
  BY <1>1, <1>2, <1>3 DEF locals, IndInv, TypeOK, LoopTypeOK
<1>6. InHand' /\ Marked' /\ SnapshotCurrent'
  BY <1>1 DEF locals, brokerVars, IndInv, InHand, Marked, SnapshotCurrent, Quantities
<1> QED BY <1>4, <1>5, <1>6 DEF IndInv, TypeOK

LEMMA NextInd == IndInv /\ [Next]_vars => IndInv'
<1> SUFFICES ASSUME IndInv, [Next]_vars PROVE IndInv'
  OBVIOUS
<1>1. CASE UNCHANGED vars
  BY <1>1 DEF vars, brokerVars, locals, config, IndInv, TypeOK, BrokerTypeOK, LoopTypeOK,
              InHand, Marked, SnapshotCurrent, PositionLimit, Quantities
<1>2. CASE OtherThread
  BY <1>2, OtherThreadInd
<1>3. CASE MarkToMarket \/ TakeSnapshot
  BY <1>3, MarkStepInd
<1>4. CASE Buy
  BY <1>4, BuyInd
<1>5. CASE Sell
  BY <1>5, SellInd
<1> QED BY <1>1, <1>2, <1>3, <1>4, <1>5, QuietStepInd DEF Next, LoopStep

THEOREM Invariance == Spec => []IndInv
BY InitInd, NextInd, PTL DEF Spec

-----------------------------------------------------------------------------
(* The theorems *)

\* Every variable of the trader and its broker keeps its type.
THEOREM TypeCorrect == Spec => []TypeOK
<1>1. IndInv => TypeOK
  BY DEF IndInv
<1> QED BY <1>1, Invariance, PTL

\* The trader never holds more positions than its configuration allows.
THEOREM LimitRespected == Spec => []PositionLimit
<1>1. IndInv => PositionLimit
  BY DEF IndInv
<1> QED BY <1>1, Invariance, PTL

\* Orders come from the loop's decisions and from nowhere else.
LEMMA OrdersAreDecided ==
    ASSUME IndInv, [Next]_vars, ~Buy, ~Sell
    PROVE  trades' = trades /\ Quantities(positions)' = Quantities(positions)
<1>1. CASE MarkToMarket \/ TakeSnapshot
  <2>1. symbol \in Symbols /\ close \in Prices /\ UpdatePrices(symbol, close)
    BY <1>1 DEF IndInv, InHand, MarkToMarket, TakeSnapshot
  <2> QED BY <2>1, MarkKeepsBook DEF IndInv, TypeOK
<1>2. CASE UNCHANGED brokerVars
  BY <1>2 DEF brokerVars, Quantities
<1>3. MarkToMarket \/ TakeSnapshot \/ UNCHANGED brokerVars
  BY DEF Next, LoopStep, OtherThread, vars, CheckRunning, NextSymbol, EndIteration,
         FetchEnough, FetchShort, FetchEmpty, FetchRaises, GenerateSignals, Skip,
         CheckLimit, Wake, EnterLoop, Stop, AddSymbol, RemoveSymbol, SetStrategy, Edit
<1> QED BY <1>1, <1>2, <1>3

LEMMA NewOrderIsDecided ==
    ASSUME IndInv, [Next]_vars, NewOrder
    PROVE  Buy \/ Sell
<1>1. trades \in Seq(Trade)
  BY DEF IndInv, TypeOK, BrokerTypeOK
<1>2. trades' # trades
  BY <1>1 DEF NewOrder
<1> QED BY <1>2, OrdersAreDecided

\* What the last trade of the log is after a decision.
LEMMA LastOrderOfDecision ==
    ASSUME IndInv
    PROVE  /\ Buy => /\ LastOrder.side = "buy" /\ LastOrder.quantity = BuyQuantity
                     /\ LastOrder.filled_price = Rounded(Fill("buy"), PriceGrain)
           /\ Sell => LastOrder.side = "sell" /\ LastOrder.filled_price = Rounded(Fill("sell"), PriceGrain)
<1>1. trades \in Seq(Trade)
  BY DEF IndInv, TypeOK, BrokerTypeOK
<1>2. ASSUME Buy
      PROVE  /\ LastOrder.side = "buy" /\ LastOrder.quantity = BuyQuantity
             /\ LastOrder.filled_price = Rounded(Fill("buy"), PriceGrain)
  <2>1. trades' = Append(trades, Entry(symbol, "buy", BuyQuantity, Fill("buy")))
    BY <1>2, BuyOpens
  <2> QED BY <1>1, <2>1 DEF LastOrder, Entry
<1>3. ASSUME Sell
      PROVE  LastOrder.side = "sell" /\ LastOrder.filled_price = Rounded(Fill("sell"), PriceGrain)
  <2>1. trades' = Append(trades, Entry(symbol, "sell", positions[symbol].quantity, Fill("sell")))
    BY <1>3, SellCloses
  <2> QED BY <1>1, <2>1 DEF LastOrder, Entry
<1> QED BY <1>2, <1>3

\* Every order fills one slippage away from the close the loop decided on: no
\* order trades at a mark left by an earlier fill or iteration.
THEOREM FreshFills == Spec => FillsAtFreshClose
<1>1. IndInv /\ [Next]_vars =>
        [NewOrder => LastOrder.filled_price
                         = Rounded(FilledPrice(LastOrder.side, close), PriceGrain)]_vars
  BY NewOrderIsDecided, LastOrderOfDecision DEF Fill
<1> QED BY <1>1, Invariance, PTL DEF Spec, FillsAtFreshClose

\* Every BUY is for shares whose price at that close the cash covers, to the half
\* cent by which the trader is told more than there is (broker.py:152-156).
THEOREM BuysAreCovered == Spec => BuysFitCash
<1>1. IndInv /\ [Next]_vars =>
        [NewOrder /\ LastOrder.side = "buy"
            => 2 * (close * LastOrder.quantity - cash) <= CentGrain]_vars
  <2> SUFFICES ASSUME IndInv, [Next]_vars, NewOrder, LastOrder.side = "buy"
               PROVE  2 * (close * LastOrder.quantity - cash) <= CentGrain
    OBVIOUS
  <2>1. Buy
    BY NewOrderIsDecided, LastOrderOfDecision
  <2>2. 2 * (close * BuyQuantity - cash) <= CentGrain
    BY <2>1, BuyOpens
  <2> QED BY <2>1, <2>2, LastOrderOfDecision
<1> QED BY <1>1, Invariance, PTL DEF Spec, BuysFitCash

\* Seen as a book of shares, the trader only opens flat symbols below the limit
\* and closes open ones whole.
THEOREM Refinement == Spec => ImplementsPositionBook
<1>1. Init => Book!BookInit
  BY DEF Init, BrokerInit, NoFunction, Book!BookInit, Quantities
<1>2. IndInv /\ [Next]_vars => [Book!BookNext]_(Quantities(positions))
  <2> SUFFICES ASSUME IndInv, [Next]_vars
               PROVE  Book!BookNext \/ Quantities(positions)' = Quantities(positions)
    OBVIOUS
  <2>1. CASE Buy
    <3>1. /\ symbol \in Symbols \ DOMAIN positions
          /\ Cardinality(DOMAIN positions) < MaxPositions
          /\ BuyQuantity \in Nat \ {0}
          /\ positions' = With(positions, symbol,
                               [quantity |-> BuyQuantity, avg_cost |-> Whole(Fill("buy")),
                                market_price |-> Fill("buy")])
      BY <2>1, BuyOpens
    <3>2. DOMAIN positions' = DOMAIN positions \cup {symbol}
      BY <3>1 DEF With
    <3>3. /\ positions'[symbol].quantity = BuyQuantity
          /\ \A t \in DOMAIN positions : positions'[t].quantity = positions[t].quantity
      BY <3>1 DEF With
    <3>4. Cardinality(DOMAIN positions) = Book!Cardinality(DOMAIN positions)
      BY DEF Cardinality, Book!Cardinality
    <3>5. Book!Open(symbol)
      BY <3>1, <3>2, <3>3, <3>4 DEF Book!Open, Quantities
    <3> QED BY <3>1, <3>5 DEF Book!BookNext
  <2>2. CASE Sell
    <3>1. /\ symbol \in DOMAIN positions
          /\ positions' = Restrict(positions, DOMAIN positions \ {symbol})
      BY <2>2, SellCloses
    <3>2. /\ DOMAIN positions' = DOMAIN positions \ {symbol}
          /\ \A t \in DOMAIN positions' : positions'[t].quantity = positions[t].quantity
      BY <3>1 DEF Restrict
    <3>3. Quantities(positions)'
            = Restrict(Quantities(positions), DOMAIN Quantities(positions) \ {symbol})
      BY <3>2 DEF Quantities, Restrict
    <3>4. Book!Close(symbol)
      BY <3>1, <3>3 DEF Book!Close, Quantities, Restrict, Book!Restrict
    <3> QED BY <3>1, <3>4 DEF Book!BookNext, IndInv, TypeOK, BrokerTypeOK
  <2> QED BY <2>1, <2>2, OrdersAreDecided
<1> QED BY <1>1, <1>2, Invariance, PTL DEF Spec, ImplementsPositionBook, Book!BookSpec

-----------------------------------------------------------------------------
(* The actions log *)

\* Numbers in order, none beyond the orders placed.
Orderly(log, n) ==
    /\ \A i \in DOMAIN log : log[i] \in 1 .. n
    /\ \A i, j \in DOMAIN log : i < j => log[i] < log[j]

\* What is in the log, and what this iteration will add to it.
Logged == actions_log \o all_actions

LEMMA OrderlyStays ==
    ASSUME NEW log, NEW n \in Nat, NEW m \in Nat, n <= m, Orderly(log, n)
    PROVE  Orderly(log, m)
BY DEF Orderly

\* The next order may be added to the end.
LEMMA OrderlyGrows ==
    ASSUME NEW log \in Seq(Nat), NEW n \in Nat, Orderly(log, n)
    PROVE  Orderly(Append(log, n + 1), n + 1)
BY DEF Orderly

\* An iteration that raised leaves what earlier ones logged.
LEMMA OrderlyBefore ==
    ASSUME NEW log \in Seq(Nat), NEW more \in Seq(Nat), NEW n \in Nat, Orderly(log \o more, n)
    PROVE  Orderly(log, n)
<1>1. DOMAIN log \subseteq DOMAIN (log \o more)
  OBVIOUS
<1>2. \A i \in DOMAIN log : (log \o more)[i] = log[i]
  OBVIOUS
<1> QED BY <1>1, <1>2 DEF Orderly

LEMMA AppendToConcat ==
    ASSUME NEW log \in Seq(Nat), NEW more \in Seq(Nat), NEW n \in Nat
    PROVE  log \o Append(more, n) = Append(log \o more, n)
OBVIOUS

LEMMA LogType == IndInv => /\ Len(trades) \in Nat /\ DOMAIN trades = 1 .. Len(trades)
                           /\ actions_log \in Seq(Nat) /\ all_actions \in Seq(Nat)
                           /\ Logged \in Seq(Nat)
BY DEF IndInv, TypeOK, BrokerTypeOK, LoopTypeOK, Logged

\* Every step keeps the log in order: an order is numbered after all before it,
\* and the only other change is that an iteration's part is lost.
LEMMA LogStep ==
    ASSUME IndInv, IndInv', [Next]_vars, Orderly(Logged, Len(trades))
    PROVE  Orderly(Logged, Len(trades))'
<1> DEFINE n == Len(trades)
<1>1. CASE Buy \/ Sell
  <2>1. /\ all_actions' = Append(all_actions, n + 1) /\ actions_log' = actions_log
        /\ \E trade : trades' = Append(trades, trade)
    BY <1>1 DEF Buy, Sell, Order, MarketOrder, SubmitOrder
  <2>2. Len(trades') = n + 1
    BY <2>1, LogType DEF IndInv, TypeOK, BrokerTypeOK
  <2>3. Logged' = Append(Logged, n + 1)
    BY <2>1, LogType, AppendToConcat DEF Logged
  <2>4. Orderly(Append(Logged, n + 1), n + 1)
    BY LogType, OrderlyGrows
  <2> QED BY <2>2, <2>3, <2>4 DEF Orderly
<1>2. CASE ~(Buy \/ Sell)
  <2>1. trades' = trades
    BY <1>2, OrdersAreDecided
  <2>2. \/ Logged' = Logged
        \/ Logged' = actions_log
    <3>1. CASE EndIteration
      BY <3>1, LogType DEF EndIteration, Logged
    <3>2. CASE CheckRunning \/ FetchRaises
      BY <3>2, LogType DEF CheckRunning, FetchRaises, Logged
    <3>3. CASE ~EndIteration /\ ~CheckRunning /\ ~FetchRaises
      <4>1. all_actions' = all_actions /\ actions_log' = actions_log
        BY <1>2, <3>3
           DEF Next, LoopStep, OtherThread, vars, locals, config, NextSymbol, FetchEnough,
               FetchShort, FetchEmpty, MarkToMarket, GenerateSignals, TakeSnapshot, Skip,
               CheckLimit, Wake, EnterLoop, Stop, AddSymbol, RemoveSymbol, SetStrategy, Edit
      <4> QED BY <4>1 DEF Logged
    <3> QED BY <3>1, <3>2, <3>3
  <2>3. Orderly(actions_log, n)
    BY LogType, OrderlyBefore DEF Logged
  <2> QED BY <2>1, <2>2, <2>3 DEF Orderly
<1> QED BY <1>1, <1>2

\* The actions log names every order at most once and in the order they were
\* placed, whatever iterations raised in between (autotrader.py:295-326, 347-359).
THEOREM LogOrdered == Spec => []LogInOrder
<1>1. Init => Orderly(Logged, Len(trades))
  BY DEF Init, BrokerInit, Logged, Orderly
<1>2. IndInv /\ Orderly(Logged, Len(trades)) /\ IndInv' /\ [Next]_vars
        => Orderly(Logged, Len(trades))'
  BY LogStep
<1>3. IndInv /\ Orderly(Logged, Len(trades)) => LogInOrder
  BY LogType DEF Orderly, Logged, LogInOrder
<1> QED BY <1>1, <1>2, <1>3, Invariance, PTL DEF Spec

-----------------------------------------------------------------------------
(* Sums over finite sets, by induction on their subsets *)

\* Induction over the subsets of a finite set, an element at a time.
LEMMA SubsetInduction ==
    ASSUME NEW D, IsFiniteSet(D), NEW Q, {} \in Q,
           \A T \in SUBSET D : (\A x \in T : T \ {x} \in Q) => T \in Q
    PROVE  SUBSET D \subseteq Q
<1> DEFINE N == {n \in Nat : \A T \in SUBSET D : Cardinality(T) = n => T \in Q}
<1>1. \A T \in SUBSET D : IsFiniteSet(T) /\ Cardinality(T) \in Nat
  BY FS_Subset, FS_CardinalityType
<1>2. 0 \in N
  BY <1>1, FS_EmptySet
<1>3. ASSUME NEW n \in Nat, n \in N PROVE n + 1 \in N
  <2>1. ASSUME NEW T \in SUBSET D, Cardinality(T) = n + 1 PROVE T \in Q
    <3>1. \A x \in T : Cardinality(T \ {x}) = n
      BY <1>1, <2>1, FS_RemoveElement
    <3>2. \A x \in T : T \ {x} \in Q
      BY <1>3, <3>1
    <3> QED BY <3>2
  <2> QED BY <2>1
<1>4. Nat \subseteq N
  <2> HIDE DEF N
  <2> QED BY <1>2, <1>3, Induction
<1> QED BY <1>1, <1>4

-----------------------------------------------------------------------------
(* What a sum over a finite set is *)

One(T) == CHOOSE x \in T : TRUE

\* What the library's sum chooses: its value on every subset.
SumEquation(h, f, D) ==
    h = [T \in SUBSET D |-> IF T = {} THEN 0 ELSE f[One(T)] + h[T \ {One(T)}]]

LEMMA SumExists ==
    ASSUME NEW D, IsFiniteSet(D), NEW f \in [D -> Int]
    PROVE  \E h \in [SUBSET D -> Int] : SumEquation(h, f, D)
<1> DEFINE Small(n) == {T \in SUBSET D : Cardinality(T) <= n}
           Fits(h, n) == \A T \in Small(n) :
                            h[T] = IF T = {} THEN 0 ELSE f[One(T)] + h[T \ {One(T)}]
           N == {n \in Nat : \E h \in [Small(n) -> Int] : Fits(h, n)}
<1>1. \A T \in SUBSET D : /\ IsFiniteSet(T) /\ Cardinality(T) \in Nat
                          /\ T # {} => One(T) \in T /\ Cardinality(T \ {One(T)}) = Cardinality(T) - 1
                          /\ Cardinality(T) = 0 <=> T = {}
  <2>1. \A T \in SUBSET D : T # {} => One(T) \in T
    BY DEF One
  <2> QED BY <2>1, FS_Subset, FS_CardinalityType, FS_RemoveElement, FS_EmptySet
<1>0. \A T \in SUBSET D : Cardinality(T) \in Nat
  BY <1>1
<1>2. 0 \in N
  <2> DEFINE h == [T \in Small(0) |-> 0]
  <2>1. ASSUME NEW T \in Small(0) PROVE T = {}
    <3>1. T \in SUBSET D /\ Cardinality(T) <= 0
      OBVIOUS
    <3>2. PICK c : c = Cardinality(T)
      OBVIOUS
    <3>3. c \in Nat /\ c <= 0
      BY <1>0, <3>1, <3>2
    <3>4. c = 0
      BY <3>3
    <3> QED BY <1>1, <3>1, <3>2, <3>4
  <2>2. h \in [Small(0) -> Int] /\ Fits(h, 0)
    BY <2>1
  <2> QED BY <2>2
<1>3. ASSUME NEW n \in Nat, n \in N PROVE n + 1 \in N
  <2>1. PICK h \in [Small(n) -> Int] : Fits(h, n)
    BY <1>3
  <2> DEFINE g == [T \in Small(n + 1) |-> IF T = {} THEN 0 ELSE f[One(T)] + h[T \ {One(T)}]]
  <2>2. \A T \in Small(n + 1) : T # {} => T \ {One(T)} \in Small(n) /\ T \ {One(T)} \in Small(n + 1)
    BY <1>1
  <2>3. g \in [Small(n + 1) -> Int]
    BY <1>1, <2>2
  <2>4. \A T \in Small(n) : T \in Small(n + 1) /\ g[T] = h[T]
    <3>1. ASSUME NEW T \in Small(n) PROVE T \in Small(n + 1)
      <4>1. T \in SUBSET D /\ Cardinality(T) <= n
        OBVIOUS
      <4>2. PICK c : c = Cardinality(T)
        OBVIOUS
      <4>3. c \in Nat /\ c <= n
        BY <1>0, <4>1, <4>2
      <4>4. c <= n + 1
        BY <4>3
      <4> QED BY <4>1, <4>2, <4>4
    <3> QED BY <2>1, <3>1
  <2>5. Fits(g, n + 1)
    <3> SUFFICES ASSUME NEW T \in Small(n + 1)
                 PROVE  g[T] = IF T = {} THEN 0 ELSE f[One(T)] + g[T \ {One(T)}]
      OBVIOUS
    <3>1. CASE T = {}
      BY <3>1
    <3>2. CASE T # {}
      <4>1. g[T \ {One(T)}] = h[T \ {One(T)}]
        BY <2>2, <2>4, <3>2
      <4>2. g[T] = f[One(T)] + h[T \ {One(T)}]
        BY <3>2
      <4> QED BY <3>2, <4>1, <4>2
    <3> QED BY <3>1, <3>2
  <2>6. n + 1 \in Nat
    OBVIOUS
  <2> HIDE DEF g, Fits, Small
  <2> QED BY <2>3, <2>5, <2>6
<1>4. Nat \subseteq N
  <2> HIDE DEF N
  <2> QED BY <1>2, <1>3, Induction
<1>5. PICK n \in Nat : n = Cardinality(D)
  BY <1>1
<1>6. Small(n) = SUBSET D
  BY <1>1, <1>5, FS_Subset
<1>7. PICK h \in [Small(n) -> Int] : Fits(h, n)
  BY <1>4
<1> QED BY <1>6, <1>7 DEF SumEquation

LEMMA SumsAreIntegers ==
    ASSUME NEW D, IsFiniteSet(D), NEW f \in [D -> Int], NEW h, SumEquation(h, f, D)
    PROVE  \A T \in SUBSET D : h[T] \in Int
<1> DEFINE Q == {T \in SUBSET D : h[T] \in Int}
<1>1. {} \in Q
  BY DEF SumEquation
<1>2. ASSUME NEW T \in SUBSET D, \A x \in T : T \ {x} \in Q PROVE T \in Q
  <2>1. CASE T = {}
    BY <1>1, <2>1
  <2>2. CASE T # {}
    <3>1. One(T) \in T
      BY <2>2 DEF One
    <3>2. h[T] = f[One(T)] + h[T \ {One(T)}]
      BY <2>2 DEF SumEquation
    <3> QED BY <1>2, <3>1, <3>2
  <2> QED BY <2>1, <2>2
<1>3. SUBSET D \subseteq Q
  <2> HIDE DEF Q
  <2> QED BY <1>1, <1>2, SubsetInduction
<1> QED BY <1>3

\* The order of the summands does not matter.
LEMMA AnyFirst ==
    ASSUME NEW D, IsFiniteSet(D), NEW f \in [D -> Int], NEW h, SumEquation(h, f, D)
    PROVE  \A T \in SUBSET D : \A x \in T : h[T] = f[x] + h[T \ {x}]
<1> DEFINE Q == {T \in SUBSET D : \A x \in T : h[T] = f[x] + h[T \ {x}]}
<1>0. \A T \in SUBSET D : h[T] \in Int
  BY SumsAreIntegers
<1>1. {} \in Q
  OBVIOUS
<1>2. ASSUME NEW T \in SUBSET D, \A x \in T : T \ {x} \in Q PROVE T \in Q
  <2>1. PICK c : c = One(T)
    OBVIOUS
  <2>2. ASSUME NEW x \in T PROVE h[T] = f[x] + h[T \ {x}]
    <3>1. c \in T
      BY <2>1 DEF One
    <3>2. h[T] = f[c] + h[T \ {c}]
      BY <2>1, <2>2 DEF SumEquation
    <3>3. CASE x # c
      <4>1. x \in T \ {c} /\ c \in T \ {x}
        BY <3>1, <3>3
      <4>2. h[T \ {c}] = f[x] + h[(T \ {c}) \ {x}] /\ h[T \ {x}] = f[c] + h[(T \ {x}) \ {c}]
        BY <1>2, <3>1, <4>1
      <4>3. (T \ {c}) \ {x} = (T \ {x}) \ {c}
        OBVIOUS
      <4>4. PICK r, a, b : r = h[(T \ {x}) \ {c}] /\ a = f[x] /\ b = f[c]
        OBVIOUS
      <4>5. r \in Int /\ a \in Int /\ b \in Int
        BY <1>0, <3>1, <4>4
      <4>6. h[T] = b + (a + r) /\ h[T \ {x}] = b + r
        BY <3>2, <4>2, <4>3, <4>4
      <4>7. b + (a + r) = a + (b + r)
        BY <4>5
      <4> QED BY <4>4, <4>6, <4>7
    <3> QED BY <3>2, <3>3
  <2> QED BY <2>2
<1>3. SUBSET D \subseteq Q
  <2> HIDE DEF Q
  <2> QED BY <1>1, <1>2, SubsetInduction
<1> QED BY <1>3

\* A sum is what its summands say, on every subset.
LEMMA SumValue ==
    ASSUME NEW D, IsFiniteSet(D), NEW f \in [D -> Int]
    PROVE  \E h : SumEquation(h, f, D) /\ SumFunction(f) = h[D]
<1>1. PICK h : h = CHOOSE g : SumEquation(g, f, D)
  OBVIOUS
<1>2. SumEquation(h, f, D)
  BY <1>1, SumExists
<1>3. SumFunction(f) = h[D]
  BY <1>1 DEF SumFunction, SumFunctionOnSet, FoldFunctionOnSet, MapThenFoldSet, SumEquation, One
<1> QED BY <1>2, <1>3

\* Nothing sums up to 0; a sum is any of its summands and the sum of the others.
LEMMA Sums ==
    ASSUME NEW D, IsFiniteSet(D), NEW f \in [D -> Int]
    PROVE  /\ SumFunction(f) \in Int
           /\ D = {} => SumFunction(f) = 0
           /\ \A x \in D :
                 SumFunction(f) = f[x] + SumFunction([y \in D \ {x} |-> f[y]])
<1>1. PICK h : SumEquation(h, f, D) /\ SumFunction(f) = h[D]
  BY SumValue
<1>2. SumFunction(f) \in Int
  BY <1>1, SumsAreIntegers
<1>3. D = {} => SumFunction(f) = 0
  BY <1>1 DEF SumEquation
<1>4. ASSUME NEW x \in D
      PROVE  SumFunction(f) = f[x] + SumFunction([y \in D \ {x} |-> f[y]])
  <2> DEFINE E == D \ {x}
             e == [y \in E |-> f[y]]
  <2>1. IsFiniteSet(E) /\ e \in [E -> Int] /\ \A y \in E : e[y] = f[y]
    BY FS_Subset
  <2>2. PICK k : SumEquation(k, e, E) /\ SumFunction(e) = k[E]
    BY <2>1, SumValue
  <2> DEFINE Q == {T \in SUBSET E : k[T] = h[T]}
  <2>3. {} \in Q
    BY <1>1, <2>2 DEF SumEquation
  <2>4. ASSUME NEW T \in SUBSET E, \A y \in T : T \ {y} \in Q PROVE T \in Q
    <3>1. CASE T # {}
      <4>1. One(T) \in T
        BY <3>1 DEF One
      <4>2. k[T] = e[One(T)] + k[T \ {One(T)}]
        BY <2>2, <3>1 DEF SumEquation
      <4>3. T \in SUBSET D /\ h[T] = f[One(T)] + h[T \ {One(T)}]
        BY <1>1, <3>1 DEF SumEquation
      <4>4. k[T \ {One(T)}] = h[T \ {One(T)}] /\ e[One(T)] = f[One(T)]
        BY <2>4, <4>1
      <4> QED BY <4>2, <4>3, <4>4
    <3> QED BY <2>3, <3>1
  <2>5. E \in Q
    <3>1. SUBSET E \subseteq Q
      <4> HIDE DEF Q, E
      <4> QED BY <2>1, <2>3, <2>4, SubsetInduction
    <3> QED BY <3>1
  <2>6. h[D] = f[x] + h[E]
    BY <1>1, AnyFirst
  <2> QED BY <1>1, <2>2, <2>5, <2>6
<1> QED BY <1>2, <1>3, <1>4

-----------------------------------------------------------------------------
(* Orders and equity *)

Value(position) == position.quantity * position.market_price

Worth(kept) == [s \in DOMAIN kept |-> Value(kept[s])]

LEMMA EquityIsSum ==
    ASSUME NEW money, NEW kept
    PROVE  Equity(money, kept) = money + SumFunction(Worth(kept))
BY DEF Equity, Worth, Value

LEMMA ValueType ==
    ASSUME NEW position \in Position
    PROVE  Value(position) \in Int
BY DEF Position, Value

\* Slippage is never in the client's favour.
LEMMA SlippageCosts ==
    ASSUME NEW price \in Nat
    PROVE  /\ FilledPrice("buy", price) \in Nat /\ FilledPrice("buy", price) >= price
           /\ FilledPrice("sell", price) \in Nat /\ FilledPrice("sell", price) <= price
<1>1. price * SlippageBps \in Nat
  BY CostsAssumption
<1>2. Slip(price) \in Nat
  BY <1>1 DEF Slip
<1> QED BY <1>2 DEF FilledPrice

\* What is bought is worth what was paid, less the commission.
LEMMA BuyCreatesNothing ==
    ASSUME IndInv, Buy
    PROVE  Equity(cash, positions)' <= Equity(cash, positions)
<1> DEFINE price == Fill("buy")
           opened == [quantity |-> BuyQuantity, avg_cost |-> Whole(price), market_price |-> price]
           before == SumFunction(Worth(positions))
<1>1. /\ symbol \in Symbols \ DOMAIN positions
      /\ BuyQuantity \in Nat \ {0} /\ price \in Nat
      /\ positions' = With(positions, symbol, opened)
      /\ cash' = cash + CashFlow("buy", BuyQuantity, price)
  BY BuyOpens
<1>2. PICK q, p, c, kept : /\ q = BuyQuantity /\ p = price /\ c = CommissionPerShare
                           /\ kept = With(positions, symbol, opened)
  OBVIOUS
<1>3. q \in Nat /\ p \in Nat /\ c \in Nat
  BY <1>1, <1>2, CostsAssumption
<1>4. /\ DOMAIN kept = DOMAIN positions \cup {symbol}
      /\ kept[symbol] = opened
      /\ \A s \in DOMAIN positions : kept[s] = positions[s]
  BY <1>1, <1>2 DEF With
<1>5. \A s \in DOMAIN kept : Value(kept[s]) \in Int
  <2>1. \A s \in DOMAIN positions : Value(positions[s]) \in Int
    BY ValueType DEF IndInv, TypeOK, BrokerTypeOK
  <2>2. Value(opened) = q * p
    BY <1>2 DEF Value
  <2>3. q * p \in Int
    BY <1>3
  <2> QED BY <1>4, <2>1, <2>2, <2>3
<1>6. IsFiniteSet(DOMAIN kept) /\ IsFiniteSet(DOMAIN positions)
  BY <1>1, <1>4, SymbolsAssumption, FS_Subset DEF IndInv, TypeOK, BrokerTypeOK
<1>7. SumFunction(Worth(kept)) = q * p + before
  <2>1. Worth(kept) \in [DOMAIN kept -> Int]
    BY <1>5 DEF Worth
  <2>2. Worth(kept)[symbol] = q * p
    BY <1>2, <1>4 DEF Worth, Value
  <2>3. [s \in DOMAIN kept \ {symbol} |-> Worth(kept)[s]] = Worth(positions)
    BY <1>1, <1>4 DEF Worth
  <2>4. symbol \in DOMAIN kept
    BY <1>4
  <2>5. SumFunction(Worth(kept))
          = Worth(kept)[symbol] + SumFunction([s \in DOMAIN kept \ {symbol} |-> Worth(kept)[s]])
    <3> HIDE DEF before
    <3> DEFINE D == DOMAIN kept
               f == Worth(kept)
    <3>1. IsFiniteSet(D) /\ f \in [D -> Int] /\ symbol \in D
      BY <1>6, <2>1, <2>4
    <3> HIDE DEF D, f
    <3>2. \A x \in D : SumFunction(f) = f[x] + SumFunction([y \in D \ {x} |-> f[y]])
      BY <3>1, Sums, Zenon
    <3> QED BY <3>1, <3>2, Zenon DEF D, f
  <2> QED BY <2>2, <2>3, <2>5
<1>8. before \in Int
  <2>1. Worth(positions) \in [DOMAIN positions -> Int]
    BY <1>4, <1>5 DEF Worth
  <2> QED BY <1>6, <2>1, Sums
<1>9. CashFlow("buy", q, p) = -(p * q + c * q) /\ p * q \in Nat /\ c * q \in Nat /\ q * p = p * q
  BY <1>2, <1>3 DEF CashFlow
<1>10. PICK m, n : m = p * q /\ n = c * q
  OBVIOUS
<1>11. cash \in Int
  BY DEF IndInv, TypeOK, BrokerTypeOK
<1>12. Equity(cash', positions') = (cash - (m + n)) + (m + before)
  BY <1>1, <1>2, <1>7, <1>9, <1>10, <1>11, EquityIsSum
<1>13. (cash - (m + n)) + (m + before) <= cash + before
  BY <1>8, <1>9, <1>10, <1>11
<1> QED BY <1>12, <1>13, EquityIsSum DEF Equity

\* What is sold leaves at its mark and comes in as no more, less the commission.
LEMMA SellCreatesNothing ==
    ASSUME IndInv, Sell
    PROVE  Equity(cash, positions)' <= Equity(cash, positions)
<1> DEFINE price == Fill("sell")
<1>1. /\ pc = "decide" /\ symbol \in DOMAIN positions
      /\ positions[symbol].quantity \in Nat \ {0}
      /\ positions' = Restrict(positions, DOMAIN positions \ {symbol})
      /\ cash' = cash + CashFlow("sell", positions[symbol].quantity, price)
  BY SellCloses
<1>2. close \in Nat /\ positions[symbol].market_price = close
  BY <1>1, PricesAssumption DEF IndInv, InHand, Marked
<1>3. PICK q, p, c, kept : /\ q = positions[symbol].quantity /\ p = price
                           /\ c = CommissionPerShare
                           /\ kept = Restrict(positions, DOMAIN positions \ {symbol})
  OBVIOUS
<1>4. q \in Nat /\ p \in Nat /\ c \in Nat /\ p <= close
  BY <1>1, <1>2, <1>3, CostsAssumption, SlippageCosts DEF Fill
<1>5. /\ Worth(positions) \in [DOMAIN positions -> Int]
      /\ IsFiniteSet(DOMAIN positions)
  <2>1. \A s \in DOMAIN positions : Value(positions[s]) \in Int
    BY ValueType DEF IndInv, TypeOK, BrokerTypeOK
  <2> QED BY <2>1, OpenIsFinite DEF Worth, IndInv, TypeOK
<1>6. SumFunction(Worth(positions)) = q * close + SumFunction(Worth(kept))
  <2>1. Worth(positions)[symbol] = q * close
    BY <1>1, <1>2, <1>3 DEF Worth, Value
  <2>2. [s \in DOMAIN positions \ {symbol} |-> Worth(positions)[s]] = Worth(kept)
    BY <1>3 DEF Worth, Restrict
  <2> QED BY <1>1, <1>5, <2>1, <2>2, Sums
<1>7. SumFunction(Worth(kept)) \in Int
  <2>1. Worth(kept) \in [DOMAIN positions \ {symbol} -> Int]
    <3>1. \A s \in DOMAIN positions : Value(positions[s]) \in Int
      BY <1>5 DEF Worth
    <3> QED BY <1>3, <3>1 DEF Worth, Restrict
  <2> QED BY <1>5, <2>1, FS_Subset, Sums
<1>8. CashFlow("sell", q, p) = p * q - c * q
  BY <1>3 DEF CashFlow
<1>9. p * q \in Nat /\ c * q \in Nat /\ q * close \in Nat /\ p * q <= q * close
  <2>1. p * q <= close * q
    BY <1>2, <1>4
  <2> QED BY <1>2, <1>4, <2>1
<1>10. PICK m, n, l, after : /\ m = p * q /\ n = c * q /\ l = q * close
                             /\ after = SumFunction(Worth(kept))
  OBVIOUS
<1>11. cash \in Int
  BY DEF IndInv, TypeOK, BrokerTypeOK
<1>12. Equity(cash', positions') = (cash + (m - n)) + after
  BY <1>1, <1>3, <1>8, <1>10, EquityIsSum
<1>13. Equity(cash, positions) = cash + (l + after)
  BY <1>6, <1>10, EquityIsSum
<1>14. (cash + (m - n)) + after <= cash + (l + after)
  BY <1>7, <1>9, <1>10, <1>11
<1> QED BY <1>12, <1>13, <1>14 DEF Equity

\* No order leaves the account worth more at the broker's own marks, although
\* each fill becomes the next mark (broker.py:196-297).
THEOREM NothingFromNothing == Spec => OrdersNeverCreateEquity
<1>1. IndInv /\ [Next]_vars
        => [NewOrder => Equity(cash, positions)' <= Equity(cash, positions)]_vars
  BY NewOrderIsDecided, BuyCreatesNothing, SellCreatesNothing
<1> QED BY <1>1, Invariance, PTL DEF Spec, OrdersNeverCreateEquity

-----------------------------------------------------------------------------
(* The auto-trader's books *)

\* The loop is a client of the broker: each of its steps places an order that a
\* client may place, marks a symbol, or leaves the broker alone.
LEMMA LoopIsAClient ==
    ASSUME IndInv, Books, [Next]_vars
    PROVE  Books'
<1>1. CASE Buy
  <2>1. BuyQuantity \in Nat \ {0} /\ symbol \in Symbols
    BY <1>1, BuyOpens
  <2>2. SubmitOrder(symbol, "buy", BuyQuantity, "market", NoPrice)
    BY <1>1 DEF Buy, Order, MarketOrder
  <2> QED BY <2>1, <2>2, OrderKeepsBooks DEF Sides
<1>2. CASE Sell
  <2>1. pc = "decide" /\ symbol \in DOMAIN held /\ held = Quantities(positions)
    BY <1>2 DEF Sell, WantsSell, Order, IndInv, SnapshotCurrent
  <2>2. symbol \in Symbols /\ held[symbol] \in Nat \ {0}
    BY <2>1 DEF Quantities, IndInv, TypeOK, BrokerTypeOK, Position
  <2>3. SubmitOrder(symbol, "sell", held[symbol], "market", NoPrice)
    BY <1>2 DEF Sell, Order, MarketOrder
  <2> QED BY <2>2, <2>3, OrderKeepsBooks DEF Sides
<1>3. CASE MarkToMarket \/ TakeSnapshot
  <2>1. symbol \in Symbols /\ close \in Prices /\ UpdatePrices(symbol, close)
    BY <1>3 DEF IndInv, InHand, MarkToMarket, TakeSnapshot
  <2> QED BY <2>1, PricesAssumption, MarkKeepsBooks
<1>4. Buy \/ Sell \/ MarkToMarket \/ TakeSnapshot \/ UNCHANGED brokerVars
  BY DEF Next, LoopStep, OtherThread, vars, CheckRunning, NextSymbol, EndIteration,
         FetchEnough, FetchShort, FetchEmpty, FetchRaises, GenerateSignals, Skip,
         CheckLimit, Wake, EnterLoop, Stop, AddSymbol, RemoveSymbol, SetStrategy, Edit
<1> QED BY <1>1, <1>2, <1>3, <1>4, BooksAlone

\* Whatever the loop did, in however many iterations, cut short by whatever
\* failure: its account is what its trade log says, up to the rounding of the
\* log's entries, and the cost of each position
\* lies among the fills that opened it (autotrader.py:183-326, broker.py:196-296).
THEOREM LoopKeepsTheBooks == Spec => [](TradeLogReplays /\ AvgCostWithinFills)
<1>1. Init => Books
  BY InitBooks DEF Init
<1>2. IndInv /\ Books /\ [Next]_vars => Books'
  BY LoopIsAClient
<1>3. Books => TradeLogReplays /\ AvgCostWithinFills
  BY DEF Books
<1> QED BY <1>1, <1>2, <1>3, Invariance, PTL DEF Spec
=============================================================================
