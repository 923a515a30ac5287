--------------------------- MODULE BacktestProofs ---------------------------
(***************************************************************************)
(* The backtester keeps its books for any bars, strategies, costs and      *)
(* folds: the curve is the equity of a bank account, a result flatters its *)
(* trades only by the liquidation, trades of one symbol do not overlap,    *)
(* shuffled trades end where the trades do, and positions follow the       *)
(* abstract book.                                                          *)
(***************************************************************************)
EXTENDS Backtest, FunctionTheorems, FiniteSetTheorems, WellFoundedInduction, TLAPS

-----------------------------------------------------------------------------
(* Types *)

Candle == [ts : Nat, close : Prices]

OpenPosition == [side : {"buy", "sell"}, quantity : Nat \ {0}, entry_price : Int,
                 entry_time : Nat, commission : Nat]

ClosedTrade == [symbol : Symbols, quantity : Nat \ {0}, entry_time : Nat, exit_time : Nat,
                pnl : Int, commission : Nat]

\* Bars of a symbol follow one another in time.
GoodCandles(data) ==
    /\ DOMAIN data \subseteq Symbols
    /\ \A s \in DOMAIN data :
          /\ data[s] \in Seq(Candle)
          /\ \A i, j \in DOMAIN data[s] : i < j => data[s][i].ts < data[s][j].ts

BookOK ==
    /\ DOMAIN positions \subseteq Symbols
    /\ \A s \in DOMAIN positions : positions[s] \in OpenPosition

TypeOK ==
    /\ pc \in {"call", "bar", "signals", "simulated"}
    /\ input \in Inputs /\ fold \in Nat
    /\ GoodCandles(candles)
    /\ next_event \in 1 .. (Len(Timeline) + 1)
    /\ bar_counts \in [DOMAIN candles -> Nat]
    /\ \A s \in DOMAIN candles : bar_counts[s] <= Len(candles[s])
    /\ signals \in Seq(Signals)
    /\ BookOK
    /\ completed_trades \in Seq(ClosedTrade) /\ all_trades \in Seq(ClosedTrade)
    /\ equity \in Int /\ equity_history \in Seq(Int) /\ equity_history # <<>>
    /\ prev_ts \in Nat \cup {NoTime}
    /\ all_equity \in Seq([fold : Nat, equity : Int])
    /\ bank \in Int

-----------------------------------------------------------------------------
(* What the run is at between two of its steps *)

\* No book is left when a run returns; signals and positions belong to events.
Placed ==
    /\ pc \in {"call", "simulated"} => DOMAIN positions = {}
    /\ pc = "signals" => next_event <= Len(Timeline)
    /\ DOMAIN positions # {} => pc = "signals" \/ next_event > 1

\* How many events have been counted.
Seen == IF pc = "signals" THEN next_event ELSE next_event - 1

Taken(s, n) == {k \in 1 .. n : Timeline[k].symbol = s}

\* The count of a symbol's bars is where the tape has got to.
CountsFollowTape ==
    \A s \in DOMAIN candles :
       /\ Taken(s, Seen) = {} => bar_counts[s] = 0
       /\ Taken(s, Seen) # {} => bar_counts[s] = Timeline[Max(Taken(s, Seen))].index

\* What a position has cost so far.
Cost(position) ==
    (IF position.side = "buy" THEN position.quantity ELSE -position.quantity)
        * position.entry_price + position.commission

Costs == [s \in DOMAIN positions |-> Cost(positions[s])]

BankBooks == bank = Initial + Realized(completed_trades) - SumFunction(Costs)

OpenAtEnd ==
    \E i \in DOMAIN completed_trades :
       completed_trades[i].exit_time = Timeline[Len(Timeline)].ts

\* One symbol, and no trade or position in another.
Alone ==
    /\ Cardinality(DOMAIN input.candles) = 1
    /\ \A i \in DOMAIN completed_trades : completed_trades[i].symbol \in DOMAIN input.candles
    /\ DOMAIN positions \subseteq DOMAIN input.candles

\* Between two events the equity is the marked one, until the liquidation costs.
EquityIsMarked ==
    pc = "bar" =>
       /\ equity # Marked => next_event > Len(Timeline) /\ OpenAtEnd
       /\ Alone => equity >= Marked

\* With one symbol every event is a point on the curve.
CurveIsCurrent ==
    /\ DOMAIN candles = DOMAIN input.candles
    /\ pc \in {"bar", "signals"} =>
          /\ prev_ts = IF next_event = 1 THEN NoTime ELSE Timeline[next_event - 1].ts
          /\ Cardinality(DOMAIN input.candles) = 1 =>
                equity_history[Len(equity_history)] = equity

ResultFlatters ==
    pc \in {"call", "simulated"} =>
       LET earned == Initial + Realized(completed_trades)
       IN  /\ result.gross_profit - result.gross_loss = Realized(completed_trades)
           /\ result.gross_profit \in Int /\ result.gross_loss \in Int
           /\ Alone => result.final_equity >= earned
           /\ Alone /\ result.final_equity > earned => OpenAtEnd

\* Now, in the time of the data.
NotAfterNow(t) ==
    IF pc = "signals" THEN t <= Event.ts
    ELSE next_event > 1 /\ t <= Timeline[next_event - 1].ts

\* Within a run, trades and positions of a symbol follow one another.
RunInOrder ==
    /\ \A i \in DOMAIN completed_trades :
          /\ pc \in {"bar", "signals"} => NotAfterNow(completed_trades[i].exit_time)
          /\ \A j \in DOMAIN completed_trades :
                i < j /\ completed_trades[i].symbol = completed_trades[j].symbol =>
                   completed_trades[i].exit_time <= completed_trades[j].entry_time
          /\ completed_trades[i].symbol \in DOMAIN positions =>
                completed_trades[i].exit_time
                   <= positions[completed_trades[i].symbol].entry_time
    /\ \A s \in DOMAIN positions : NotAfterNow(positions[s].entry_time)

Times(data) == {e.ts : e \in Bars(data)}

\* The times of a run are times of its bars.
Timely ==
    /\ \A i \in DOMAIN completed_trades :
          {completed_trades[i].entry_time, completed_trades[i].exit_time} \subseteq Times(candles)
    /\ \A s \in DOMAIN positions : positions[s].entry_time \in Times(candles)

FoldSize == Len(input.candles[SymbolOrder[1]]) \div input.n_splits

\* A run's bars are bars of its fold.
FromFold ==
    pc \in {"bar", "signals"} =>
       /\ fold > 0
       /\ input.n_splits > 0 =>
             \A s \in DOMAIN candles : \A i \in DOMAIN candles[s] :
                \E p \in DOMAIN input.candles[s] :
                   /\ candles[s][i] = input.candles[s][p]
                   /\ (fold - 1) * FoldSize < p /\ p <= fold * FoldSize

FoldsDone == IF pc \in {"bar", "signals"} THEN fold - 1 ELSE fold

\* What earlier folds traded is over before any later bar.
Past ==
    /\ \A i, j \in DOMAIN all_trades :
          i < j /\ all_trades[i].symbol = all_trades[j].symbol =>
             all_trades[i].exit_time <= all_trades[j].entry_time
    /\ input.n_splits = 0 /\ (fold = 0 \/ pc \in {"bar", "signals"}) => all_trades = <<>>
    /\ input.n_splits > 0 =>
          \A i \in DOMAIN all_trades :
             \A s \in DOMAIN input.candles : \A p \in DOMAIN input.candles[s] :
                p > FoldsDone * FoldSize => all_trades[i].exit_time <= input.candles[s][p].ts

FoldsFollow == SameTimes => Past

Money ==
    CountsFollowTape /\ BankBooks /\ EquityIsMarked /\ CurveIsCurrent /\ ResultFlatters

Chronology == RunInOrder /\ Timely /\ FromFold /\ FoldsFollow

-----------------------------------------------------------------------------
(* Induction *)

LEMMA Induction ==
    ASSUME NEW T, 0 \in T, \A n \in Nat : n \in T => n + 1 \in T
    PROVE  Nat \subseteq T
<1> DEFINE U == Nat \ T
<1>1. ASSUME U # {} PROVE FALSE
  <2>1. PICK x \in U : \A y \in U : ~(<<y, x>> \in OpToRel(<, Nat))
    BY <1>1, WFMin, NatLessThanWellFounded
  <2>2. x \in Nat /\ x # 0 /\ x \notin T
    BY <2>1
  <2>3. x - 1 \in Nat /\ x - 1 < x /\ x - 1 + 1 = x
    BY <2>2
  <2>4. x - 1 \in U
    BY <2>2, <2>3
  <2> QED BY <2>1, <2>2, <2>3, <2>4 DEF OpToRel
<1> QED BY <1>1

\* Induction over the subsets of a finite set, an element at a time.
LEMMA SubsetInduction ==
    ASSUME NEW D, IsFiniteSet(D), NEW Q, {} \in Q,
           \A T \in SUBSET D : (\A x \in T : T \ {x} \in Q) => T \in Q
    PROVE  SUBSET D \subseteq Q
<1> DEFINE N == {n \in Nat : \A T \in SUBSET D : Cardinality(T) = n => T \in Q}
<1>1. \A T \in SUBSET D : IsFiniteSet(T) /\ Cardinality(T) \in Nat
  BY FS_Subset, FS_CardinalityType
<1>2. 0 \in N
  BY <1>1, FS_EmptySet
<1>3. ASSUME NEW n \in Nat, n \in N PROVE n + 1 \in N
  <2>1. ASSUME NEW T \in SUBSET D, Cardinality(T) = n + 1 PROVE T \in Q
    <3>1. \A x \in T : Cardinality(T \ {x}) = n
      BY <1>1, <2>1, FS_RemoveElement
    <3>2. \A x \in T : T \ {x} \in Q
      BY <1>3, <3>1
    <3> QED BY <3>2
  <2> QED BY <2>1
<1>4. Nat \subseteq N
  <2> HIDE DEF N
  <2> QED BY <1>2, <1>3, Induction
<1> QED BY <1>1, <1>4

-----------------------------------------------------------------------------
(* What a sum over a finite set is *)

One(T) == CHOOSE x \in T : TRUE

\* What the library's sum chooses: its value on every subset.
SumEquation(h, f, D) ==
    h = [T \in SUBSET D |-> IF T = {} THEN 0 ELSE f[One(T)] + h[T \ {One(T)}]]

LEMMA SumExists ==
    ASSUME NEW D, IsFiniteSet(D), NEW f \in [D -> Int]
    PROVE  \E h \in [SUBSET D -> Int] : SumEquation(h, f, D)
<1> DEFINE Small(n) == {T \in SUBSET D : Cardinality(T) <= n}
           Fits(h, n) == \A T \in Small(n) :
                            h[T] = IF T = {} THEN 0 ELSE f[One(T)] + h[T \ {One(T)}]
           N == {n \in Nat : \E h \in [Small(n) -> Int] : Fits(h, n)}
<1>1. \A T \in SUBSET D : /\ IsFiniteSet(T) /\ Cardinality(T) \in Nat
                          /\ T # {} => One(T) \in T /\ Cardinality(T \ {One(T)}) = Cardinality(T) - 1
                          /\ Cardinality(T) = 0 <=> T = {}
  <2>1. \A T \in SUBSET D : T # {} => One(T) \in T
    BY DEF One
  <2> QED BY <2>1, FS_Subset, FS_CardinalityType, FS_RemoveElement, FS_EmptySet
<1>0. \A T \in SUBSET D : Cardinality(T) \in Nat
  BY <1>1
<1>2. 0 \in N
  <2> DEFINE h == [T \in Small(0) |-> 0]
  <2>1. ASSUME NEW T \in Small(0) PROVE T = {}
    <3>1. T \in SUBSET D /\ Cardinality(T) <= 0
      OBVIOUS
    <3>2. PICK c : c = Cardinality(T)
      OBVIOUS
    <3>3. c \in Nat /\ c <= 0
      BY <1>0, <3>1, <3>2
    <3>4. c = 0
      BY <3>3
    <3> QED BY <1>1, <3>1, <3>2, <3>4
  <2>2. h \in [Small(0) -> Int] /\ Fits(h, 0)
    BY <2>1
  <2> QED BY <2>2
<1>3. ASSUME NEW n \in Nat, n \in N PROVE n + 1 \in N
  <2>1. PICK h \in [Small(n) -> Int] : Fits(h, n)
    BY <1>3
  <2> DEFINE g == [T \in Small(n + 1) |-> IF T = {} THEN 0 ELSE f[One(T)] + h[T \ {One(T)}]]
  <2>2. \A T \in Small(n + 1) : T # {} => T \ {One(T)} \in Small(n) /\ T \ {One(T)} \in Small(n + 1)
    BY <1>1
  <2>3. g \in [Small(n + 1) -> Int]
    BY <1>1, <2>2
  <2>4. \A T \in Small(n) : T \in Small(n + 1) /\ g[T] = h[T]
    <3>1. ASSUME NEW T \in Small(n) PROVE T \in Small(n + 1)
      <4>1. T \in SUBSET D /\ Cardinality(T) <= n
        OBVIOUS
      <4>2. PICK c : c = Cardinality(T)
        OBVIOUS
      <4>3. c \in Nat /\ c <= n
        BY <1>0, <4>1, <4>2
      <4>4. c <= n + 1
        BY <4>3
      <4> QED BY <4>1, <4>2, <4>4
    <3> QED BY <2>1, <3>1
  <2>5. Fits(g, n + 1)
    <3> SUFFICES ASSUME NEW T \in Small(n + 1)
                 PROVE  g[T] = IF T = {} THEN 0 ELSE f[One(T)] + g[T \ {One(T)}]
      OBVIOUS
    <3>1. CASE T = {}
      BY <3>1
    <3>2. CASE T # {}
      <4>1. g[T \ {One(T)}] = h[T \ {One(T)}]
        BY <2>2, <2>4, <3>2
      <4>2. g[T] = f[One(T)] + h[T \ {One(T)}]
        BY <3>2
      <4> QED BY <3>2, <4>1, <4>2
    <3> QED BY <3>1, <3>2
  <2>6. n + 1 \in Nat
    OBVIOUS
  <2> HIDE DEF g, Fits, Small
  <2> QED BY <2>3, <2>5, <2>6
<1>4. Nat \subseteq N
  <2> HIDE DEF N
  <2> QED BY <1>2, <1>3, Induction
<1>5. PICK n \in Nat : n = Cardinality(D)
  BY <1>1
<1>6. Small(n) = SUBSET D
  BY <1>1, <1>5, FS_Subset
<1>7. PICK h \in [Small(n) -> Int] : Fits(h, n)
  BY <1>4
<1> QED BY <1>6, <1>7 DEF SumEquation

LEMMA SumsAreIntegers ==
    ASSUME NEW D, IsFiniteSet(D), NEW f \in [D -> Int], NEW h, SumEquation(h, f, D)
    PROVE  \A T \in SUBSET D : h[T] \in Int
<1> DEFINE Q == {T \in SUBSET D : h[T] \in Int}
<1>1. {} \in Q
  BY DEF SumEquation
<1>2. ASSUME NEW T \in SUBSET D, \A x \in T : T \ {x} \in Q PROVE T \in Q
  <2>1. CASE T = {}
    BY <1>1, <2>1
  <2>2. CASE T # {}
    <3>1. One(T) \in T
      BY <2>2 DEF One
    <3>2. h[T] = f[One(T)] + h[T \ {One(T)}]
      BY <2>2 DEF SumEquation
    <3> QED BY <1>2, <3>1, <3>2
  <2> QED BY <2>1, <2>2
<1>3. SUBSET D \subseteq Q
  <2> HIDE DEF Q
  <2> QED BY <1>1, <1>2, SubsetInduction
<1> QED BY <1>3

\* The order of the summands does not matter.
LEMMA AnyFirst ==
    ASSUME NEW D, IsFiniteSet(D), NEW f \in [D -> Int], NEW h, SumEquation(h, f, D)
    PROVE  \A T \in SUBSET D : \A x \in T : h[T] = f[x] + h[T \ {x}]
<1> DEFINE Q == {T \in SUBSET D : \A x \in T : h[T] = f[x] + h[T \ {x}]}
<1>0. \A T \in SUBSET D : h[T] \in Int
  BY SumsAreIntegers
<1>1. {} \in Q
  OBVIOUS
<1>2. ASSUME NEW T \in SUBSET D, \A x \in T : T \ {x} \in Q PROVE T \in Q
  <2>1. PICK c : c = One(T)
    OBVIOUS
  <2>2. ASSUME NEW x \in T PROVE h[T] = f[x] + h[T \ {x}]
    <3>1. c \in T
      BY <2>1 DEF One
    <3>2. h[T] = f[c] + h[T \ {c}]
      BY <2>1, <2>2 DEF SumEquation
    <3>3. CASE x # c
      <4>1. x \in T \ {c} /\ c \in T \ {x}
        BY <3>1, <3>3
      <4>2. h[T \ {c}] = f[x] + h[(T \ {c}) \ {x}] /\ h[T \ {x}] = f[c] + h[(T \ {x}) \ {c}]
        BY <1>2, <3>1, <4>1
      <4>3. (T \ {c}) \ {x} = (T \ {x}) \ {c}
        OBVIOUS
      <4>4. PICK r, a, b : r = h[(T \ {x}) \ {c}] /\ a = f[x] /\ b = f[c]
        OBVIOUS
      <4>5. r \in Int /\ a \in Int /\ b \in Int
        BY <1>0, <3>1, <4>4
      <4>6. h[T] = b + (a + r) /\ h[T \ {x}] = b + r
        BY <3>2, <4>2, <4>3, <4>4
      <4>7. b + (a + r) = a + (b + r)
        BY <4>5
      <4> QED BY <4>4, <4>6, <4>7
    <3> QED BY <3>2, <3>3
  <2> QED BY <2>2
<1>3. SUBSET D \subseteq Q
  <2> HIDE DEF Q
  <2> QED BY <1>1, <1>2, SubsetInduction
<1> QED BY <1>3

\* A sum is what its summands say, on every subset.
LEMMA SumValue ==
    ASSUME NEW D, IsFiniteSet(D), NEW f \in [D -> Int]
    PROVE  \E h : SumEquation(h, f, D) /\ SumFunction(f) = h[D]
<1>1. PICK h : h = CHOOSE g : SumEquation(g, f, D)
  OBVIOUS
<1>2. SumEquation(h, f, D)
  BY <1>1, SumExists
<1>3. SumFunction(f) = h[D]
  BY <1>1 DEF SumFunction, SumFunctionOnSet, FoldFunctionOnSet, MapThenFoldSet, SumEquation, One
<1> QED BY <1>2, <1>3

\* Nothing sums up to 0; a sum is any of its summands and the sum of the others.
LEMMA Sums ==
    ASSUME NEW D, IsFiniteSet(D), NEW f \in [D -> Int]
    PROVE  /\ SumFunction(f) \in Int
           /\ D = {} => SumFunction(f) = 0
           /\ \A x \in D :
                 SumFunction(f) = f[x] + SumFunction([y \in D \ {x} |-> f[y]])
<1>1. PICK h : SumEquation(h, f, D) /\ SumFunction(f) = h[D]
  BY SumValue
<1>2. SumFunction(f) \in Int
  BY <1>1, SumsAreIntegers
<1>3. D = {} => SumFunction(f) = 0
  BY <1>1 DEF SumEquation
<1>4. ASSUME NEW x \in D
      PROVE  SumFunction(f) = f[x] + SumFunction([y \in D \ {x} |-> f[y]])
  <2> DEFINE E == D \ {x}
             e == [y \in E |-> f[y]]
  <2>1. IsFiniteSet(E) /\ e \in [E -> Int] /\ \A y \in E : e[y] = f[y]
    BY FS_Subset
  <2>2. PICK k : SumEquation(k, e, E) /\ SumFunction(e) = k[E]
    BY <2>1, SumValue
  <2> DEFINE Q == {T \in SUBSET E : k[T] = h[T]}
  <2>3. {} \in Q
    BY <1>1, <2>2 DEF SumEquation
  <2>4. ASSUME NEW T \in SUBSET E, \A y \in T : T \ {y} \in Q PROVE T \in Q
    <3>1. CASE T # {}
      <4>1. One(T) \in T
        BY <3>1 DEF One
      <4>2. k[T] = e[One(T)] + k[T \ {One(T)}]
        BY <2>2, <3>1 DEF SumEquation
      <4>3. T \in SUBSET D /\ h[T] = f[One(T)] + h[T \ {One(T)}]
        BY <1>1, <3>1 DEF SumEquation
      <4>4. k[T \ {One(T)}] = h[T \ {One(T)}] /\ e[One(T)] = f[One(T)]
        BY <2>4, <4>1
      <4> QED BY <4>2, <4>3, <4>4
    <3> QED BY <2>3, <3>1
  <2>5. E \in Q
    <3>1. SUBSET E \subseteq Q
      <4> HIDE DEF Q, E
      <4> QED BY <2>1, <2>3, <2>4, SubsetInduction
    <3> QED BY <3>1
  <2>6. h[D] = f[x] + h[E]
    BY <1>1, AnyFirst
  <2> QED BY <1>1, <2>2, <2>5, <2>6
<1> QED BY <1>2, <1>3, <1>4

\* The part of a function, and of a sum, that belongs to a subset.
Part(f, T) == [x \in T |-> f[x]]

LEMMA Parts ==
    ASSUME NEW D, IsFiniteSet(D), NEW f \in [D -> Int], NEW T \in SUBSET D
    PROVE  /\ SumFunction(Part(f, T)) \in Int
           /\ T = {} => SumFunction(Part(f, T)) = 0
           /\ \A x \in T : SumFunction(Part(f, T)) = f[x] + SumFunction(Part(f, T \ {x}))
<1>1. IsFiniteSet(T) /\ Part(f, T) \in [T -> Int]
  BY FS_Subset DEF Part
<1>2. \A x \in T : /\ Part(f, T)[x] = f[x]
                   /\ [y \in T \ {x} |-> Part(f, T)[y]] = Part(f, T \ {x})
  BY DEF Part
<1>3. /\ SumFunction(Part(f, T)) \in Int
      /\ T = {} => SumFunction(Part(f, T)) = 0
      /\ \A x \in T : SumFunction(Part(f, T))
                        = Part(f, T)[x] + SumFunction([y \in T \ {x} |-> Part(f, T)[y]])
  BY <1>1, Sums, Zenon
<1> QED BY <1>2, <1>3, Zenon

\* Two summands for each element.
LEMMA SumPlus ==
    ASSUME NEW D, IsFiniteSet(D), NEW f \in [D -> Int], NEW g \in [D -> Int]
    PROVE  SumFunction([x \in D |-> f[x] + g[x]]) = SumFunction(f) + SumFunction(g)
<1> DEFINE both == [x \in D |-> f[x] + g[x]]
           Q == {T \in SUBSET D :
                    SumFunction(Part(both, T)) = SumFunction(Part(f, T)) + SumFunction(Part(g, T))}
<1>1. both \in [D -> Int]
  OBVIOUS
<1> HIDE DEF both
<1>3. {} \in Q
  BY <1>1, Parts
<1>4. ASSUME NEW T \in SUBSET D, \A x \in T : T \ {x} \in Q PROVE T \in Q
  <2>1. CASE T = {}
    BY <1>3, <2>1
  <2>2. CASE T # {}
    <3>1. PICK x \in T : TRUE
      BY <2>2
    <3>2. PICK U : U = T \ {x}
      OBVIOUS
    <3>3. PICK a, b, c : a = SumFunction(Part(f, U)) /\ b = SumFunction(Part(g, U))
                         /\ c = SumFunction(Part(both, U))
      OBVIOUS
    <3>4. a \in Int /\ b \in Int /\ c = a + b
      BY Parts, <1>4, <3>1, <3>2, <3>3
    <3>5. /\ SumFunction(Part(f, T)) = f[x] + a /\ SumFunction(Part(g, T)) = g[x] + b
          /\ SumFunction(Part(both, T)) = both[x] + c
      BY <1>1, Parts, <3>1, <3>2, <3>3
    <3>6. both[x] = f[x] + g[x] /\ f[x] \in Int /\ g[x] \in Int
      BY DEF both
    <3>7. both[x] + c = (f[x] + a) + (g[x] + b)
      BY <3>4, <3>6
    <3> QED BY <3>5, <3>7
  <2> QED BY <2>1, <2>2
<1>5. D \in Q
  <2>1. SUBSET D \subseteq Q
    <3> HIDE DEF Q
    <3> QED BY <1>3, <1>4, SubsetInduction
  <2> QED BY <2>1
<1>6. Part(both, D) = both /\ Part(f, D) = f /\ Part(g, D) = g
  BY DEF Part, both
<1> QED BY <1>5, <1>6 DEF both

\* A sum is that of its gains and that of its losses.
LEMMA SumSplit ==
    ASSUME NEW D, IsFiniteSet(D), NEW f \in [D -> Int]
    PROVE  SumFunction(f) = SumFunction(Part(f, {x \in D : f[x] > 0}))
                            + SumFunction(Part(f, {x \in D : f[x] < 0}))
<1> DEFINE W(T) == {x \in T : f[x] > 0}
           L(T) == {x \in T : f[x] < 0}
           Q == {T \in SUBSET D : SumFunction(Part(f, T))
                                    = SumFunction(Part(f, W(T))) + SumFunction(Part(f, L(T)))}
<1>1. \A T \in SUBSET D : W(T) \in SUBSET D /\ L(T) \in SUBSET D
  OBVIOUS
<1>2. W({}) = {} /\ L({}) = {} /\ {} \in SUBSET D
  OBVIOUS
<1>3. ASSUME NEW T \in SUBSET D, NEW x \in T
      PROVE  /\ f[x] > 0 => x \in W(T) /\ W(T \ {x}) = W(T) \ {x} /\ L(T \ {x}) = L(T)
             /\ f[x] < 0 => x \in L(T) /\ L(T \ {x}) = L(T) \ {x} /\ W(T \ {x}) = W(T)
             /\ f[x] = 0 => L(T \ {x}) = L(T) /\ W(T \ {x}) = W(T)
  OBVIOUS
<1> HIDE DEF W, L
<1>4. {} \in Q
  BY <1>2, Parts
<1>5. ASSUME NEW T \in SUBSET D, \A x \in T : T \ {x} \in Q PROVE T \in Q
  <2>1. CASE T = {}
    BY <1>4, <2>1
  <2>2. CASE T # {}
    <3>1. PICK x \in T : TRUE
      BY <2>2
    <3>2. PICK U : U = T \ {x}
      OBVIOUS
    <3>3. PICK a, b, c, y : /\ a = SumFunction(Part(f, W(U))) /\ b = SumFunction(Part(f, L(U)))
                            /\ c = SumFunction(Part(f, U)) /\ y = f[x]
      OBVIOUS
    <3>4. a \in Int /\ b \in Int /\ c = a + b /\ y \in Int
      BY <1>1, <1>5, <3>1, <3>2, <3>3, Parts
    <3>5. SumFunction(Part(f, T)) = y + c
      BY <3>1, <3>2, <3>3, Parts
    <3>6. /\ y > 0 => SumFunction(Part(f, W(T))) = y + a /\ SumFunction(Part(f, L(T))) = b
          /\ y < 0 => SumFunction(Part(f, L(T))) = y + b /\ SumFunction(Part(f, W(T))) = a
          /\ y = 0 => SumFunction(Part(f, L(T))) = b /\ SumFunction(Part(f, W(T))) = a
      <4>1. /\ y > 0 => x \in W(T) /\ W(U) = W(T) \ {x} /\ L(U) = L(T)
            /\ y < 0 => x \in L(T) /\ L(U) = L(T) \ {x} /\ W(U) = W(T)
            /\ y = 0 => L(U) = L(T) /\ W(U) = W(T)
        BY <1>3, <3>1, <3>2, <3>3
      <4>2. W(T) \in SUBSET D /\ L(T) \in SUBSET D
        BY <1>1
      <4> QED BY <3>3, <4>1, <4>2, Parts
    <3>7. SumFunction(Part(f, T))
            = SumFunction(Part(f, W(T))) + SumFunction(Part(f, L(T)))
      BY <3>4, <3>5, <3>6
    <3> QED BY <3>7
  <2> QED BY <2>1, <2>2
<1>6. D \in Q
  <2>1. SUBSET D \subseteq Q
    <3> HIDE DEF Q
    <3> QED BY <1>4, <1>5, SubsetInduction
  <2> QED BY <2>1
<1>7. Part(f, D) = f
  BY DEF Part
<1> QED BY <1>6, <1>7 DEF W, L

\* The sum along a sequence grows by its last element.
LEMMA SumAppend ==
    ASSUME NEW n \in Nat, NEW f \in [1 .. (n + 1) -> Int]
    PROVE  SumFunction(f) = SumFunction(Part(f, 1 .. n)) + f[n + 1]
<1>1. IsFiniteSet(1 .. (n + 1))
  BY FS_Interval
<1>2. (1 .. (n + 1)) \ {n + 1} = 1 .. n /\ n + 1 \in 1 .. (n + 1)
  OBVIOUS
<1>3. SumFunction(Part(f, 1 .. (n + 1))) = f[n + 1] + SumFunction(Part(f, 1 .. n))
  BY <1>1, <1>2, Parts
<1>4. Part(f, 1 .. (n + 1)) = f
  BY DEF Part
<1>5. SumFunction(Part(f, 1 .. n)) \in Int /\ f[n + 1] \in Int
  <2>1. 1 .. n \in SUBSET (1 .. (n + 1))
    OBVIOUS
  <2> QED BY <1>1, <1>2, <2>1, Parts
<1> QED BY <1>3, <1>4, <1>5

-----------------------------------------------------------------------------
(* Prices, fills and costs *)

LEMMA MoneyTypes ==
    /\ Unit \in Nat \ {0} /\ Initial \in Nat \ {0}
    /\ SlipDen \in Nat \ {0} /\ SlipNum \in Nat /\ SlipNum <= SlipDen
    /\ ImpactDen \in Nat \ {0} /\ ImpactNum \in Nat
    /\ CommissionPerShare \in Nat /\ CommissionMin \in Nat /\ CommissionMax \in Nat
<1>1. SlipDen \in Nat \ {0} /\ ImpactDen \in Nat \ {0} /\ InitialCapital \in Nat \ {0}
  BY MoneyAssumption
<1>2. \A m, n \in Nat \ {0} : m * n \in Nat \ {0}
  <2>1. \A m, n \in Nat \ {0} : m * n >= m
    OBVIOUS
  <2> QED BY <2>1
<1>3. Unit \in Nat \ {0}
  BY <1>1, <1>2 DEF Unit
<1>4. Initial \in Nat \ {0}
  BY <1>1, <1>2, <1>3 DEF Initial
<1> QED BY <1>1, <1>3, <1>4, MoneyAssumption

LEMMA PriceTypes ==
    ASSUME NEW price \in Prices
    PROVE  price \in Nat \ {0} /\ price \in Int
BY DEF Prices

LEMMA CommissionType ==
    ASSUME NEW quantity \in Nat
    PROVE  Commission(quantity) \in Nat
<1>1. quantity * CommissionPerShare \in Nat
  BY MoneyTypes
<1>2. PICK c : c = quantity * CommissionPerShare
  OBVIOUS
<1>3. AtMost(CommissionMax, c) \in Nat
  BY <1>1, <1>2, MoneyTypes DEF AtMost
<1>4. AtLeast(CommissionMin, AtMost(CommissionMax, c)) \in Nat
  BY <1>3, MoneyTypes DEF AtLeast
<1> QED BY <1>2, <1>4 DEF Commission

\* Products keep an order.
LEMMA Products ==
    ASSUME NEW a \in Nat, NEW x \in Int, NEW y \in Int, x <= y
    PROVE  a * x <= a * y /\ a * x \in Int /\ a * y \in Int
OBVIOUS

LEMMA FillTypes ==
    ASSUME NEW price \in Int, NEW quantity \in Nat, NEW side
    PROVE  Fill(price, quantity, side) \in Int
<1>1. PICK g, b, n : /\ g = IF side = "buy" THEN 1 ELSE -1
                     /\ b = g * SlipNum /\ n = g * quantity * ImpactNum
  OBVIOUS
<1>2. g \in Int
  BY <1>1
<1>3. g * quantity \in Int /\ b \in Int
  BY <1>1, <1>2, MoneyTypes
<1>4. n \in Int
  BY <1>1, <1>3, MoneyTypes
<1>5. SlipDen + b \in Int /\ ImpactDen + n \in Int
  BY <1>3, <1>4, MoneyTypes
<1>6. PICK x, y : x = SlipDen + b /\ y = ImpactDen + n
  OBVIOUS
<1>7. price * x \in Int
  BY <1>5, <1>6
<1>8. price * x * y \in Int
  BY <1>5, <1>6, <1>7
<1>9. (price * x * y) \div Unit \in Int
  BY <1>8, MoneyTypes
<1> QED BY <1>1, <1>6, <1>9 DEF Fill

\* A fill is a price; slippage and impact make buying dearer and selling cheaper.
LEMMA FillsCost ==
    ASSUME NEW price \in Nat, NEW quantity \in Nat
    PROVE  /\ Fill(price, quantity, "buy") \in Int /\ Fill(price, quantity, "buy") >= price
           /\ Fill(price, quantity, "sell") \in Int /\ Fill(price, quantity, "sell") <= price
<1>1. PICK p, s, n, d, m, i, q :
         /\ p = price /\ s = SlipDen /\ n = SlipNum /\ d = ImpactDen /\ m = ImpactNum
         /\ q = quantity /\ i = q * m
  OBVIOUS
<1>2. /\ p \in Nat /\ s \in Nat \ {0} /\ n \in Nat /\ n <= s /\ d \in Nat \ {0}
      /\ m \in Nat /\ q \in Nat
  BY <1>1, MoneyTypes
<1>3. i \in Nat
  BY <1>1, <1>2
<1>4. PICK u : u = s * d
  OBVIOUS
<1>5. u \in Nat \ {0} /\ u = Unit
  BY <1>1, <1>4, MoneyTypes DEF Unit
<1>6. /\ Fill(price, quantity, "buy") = (p * (s + 1 * n) * (d + 1 * q * m)) \div u
      /\ Fill(price, quantity, "sell") = (p * (s + (-1) * n) * (d + (-1) * q * m)) \div u
  BY <1>1, <1>5 DEF Fill
<1>7. /\ s + 1 * n = s + n /\ s + (-1) * n = s - n
      /\ d + 1 * q * m = d + i /\ d + (-1) * q * m = d - i
  BY <1>1, <1>2
<1>8. ASSUME NEW a \in Nat, NEW b \in Int
      PROVE  /\ p * a * b \in Int
             /\ a >= s /\ b >= d => p * a * b >= p * u
             /\ a <= s /\ b <= d => p * a * b <= p * u
  <2>1. p * a \in Nat /\ p * s \in Nat
    BY <1>2
  <2>2. PICK w, v : w = p * a /\ v = p * s
    OBVIOUS
  <2>3. w \in Nat /\ v \in Nat
    BY <2>1, <2>2
  <2>4. w * b \in Int /\ w * d \in Int /\ v * d \in Int
    BY <1>2, <2>3
  <2>5. ASSUME a >= s, b >= d PROVE w * b >= v * d
    <3>1. v <= w
      BY <1>2, <2>2, <2>5, Products
    <3>2. w * d <= w * b
      BY <1>2, <2>3, <2>5, Products
    <3>3. d * v <= d * w
      BY <1>2, <2>3, <3>1, Products
    <3>4. d * v = v * d /\ d * w = w * d
      BY <1>2, <2>3
    <3> QED BY <2>4, <3>2, <3>3, <3>4
  <2>6. ASSUME a <= s, b <= d PROVE w * b <= v * d
    <3>1. w <= v
      BY <1>2, <2>2, <2>6, Products
    <3>2. w * b <= w * d
      BY <1>2, <2>3, <2>6, Products
    <3>3. d * w <= d * v
      BY <1>2, <2>3, <3>1, Products
    <3>4. d * v = v * d /\ d * w = w * d
      BY <1>2, <2>3
    <3> QED BY <2>4, <3>2, <3>3, <3>4
  <2>7. v * d = p * u
    BY <1>2, <1>4, <2>2
  <2>8. p * a * b = w * b
    BY <2>2
  <2> QED BY <2>4, <2>5, <2>6, <2>7, <2>8
<1>9. PICK x, y : x = p * (s + n) * (d + i) /\ y = p * (s - n) * (d - i)
  OBVIOUS
<1>10. x \in Int /\ y \in Int /\ x >= p * u /\ y <= p * u
  <2>1. s + n \in Nat /\ s - n \in Nat /\ d + i \in Int /\ d - i \in Int
    BY <1>2, <1>3
  <2>2. s + n >= s /\ s - n <= s /\ d + i >= d /\ d - i <= d
    BY <1>2, <1>3
  <2> QED BY <1>8, <1>9, <2>1, <2>2
<1>11. x \div u \in Int /\ y \div u \in Int /\ p <= x \div u /\ y \div u <= p
  BY <1>2, <1>5, <1>10
<1> QED BY <1>1, <1>6, <1>7, <1>9, <1>11

\* What a position is worth beyond its cost, at any price.
LEMMA PnlIsWorthLessCost ==
    ASSUME NEW position \in OpenPosition, NEW price \in Int
    PROVE  /\ Pnl(position, price) \in Int /\ Cost(position) \in Int
           /\ Pnl(position, price)
                = (IF position.side = "buy" THEN position.quantity ELSE -position.quantity)
                      * price + position.commission - Cost(position)
<1>1. PICK q, e, c : q = position.quantity /\ e = position.entry_price /\ c = position.commission
  OBVIOUS
<1>2. q \in Nat /\ e \in Int /\ c \in Nat
  BY <1>1 DEF OpenPosition
<1>3. CASE position.side = "buy"
  <2>1. Pnl(position, price) = (price - e) * q /\ Cost(position) = q * e + c
    BY <1>1, <1>3 DEF Pnl, Cost
  <2>2. (price - e) * q = q * price + c - (q * e + c)
    BY <1>2
  <2>3. (price - e) * q \in Int /\ q * e + c \in Int
    BY <1>2
  <2> QED BY <1>1, <1>3, <2>1, <2>2, <2>3
<1>4. CASE position.side # "buy"
  <2>1. Pnl(position, price) = (e - price) * q /\ Cost(position) = (-q) * e + c
    BY <1>1, <1>4 DEF Pnl, Cost
  <2>2. (e - price) * q = (-q) * price + c - ((-q) * e + c)
    BY <1>2
  <2>3. (e - price) * q \in Int /\ (-q) * e + c \in Int
    BY <1>2
  <2> QED BY <1>1, <1>4, <2>1, <2>2, <2>3
<1> QED BY <1>3, <1>4

\* Closing a position: the bank settles what the trade says, and slippage,
\* impact and commissions make that no more than the position was marked at.
LEMMA ClosingBalances ==
    ASSUME NEW position \in OpenPosition, NEW price \in Int, NEW s \in Symbols, NEW ts \in Nat
    PROVE  /\ Trade(s, position, price, ts) \in ClosedTrade
           /\ NetPnl(Trade(s, position, price, ts)) \in Int
           /\ Settled(price, position.quantity, ExitSide(position)) \in Int
           /\ NetPnl(Trade(s, position, price, ts))
                = Settled(price, position.quantity, ExitSide(position)) - Cost(position)
           /\ price \in Nat => NetPnl(Trade(s, position, price, ts)) <= Pnl(position, price)
<1>1. PICK q, e, c, k, f, p :
         /\ q = position.quantity /\ e = position.entry_price /\ c = position.commission
         /\ k = Commission(q) /\ f = Fill(price, q, ExitSide(position)) /\ p = price
  OBVIOUS
<1>2. /\ q \in Nat \ {0} /\ e \in Int /\ c \in Nat /\ k \in Nat
      /\ position.side \in {"buy", "sell"} /\ p \in Int
  BY <1>1, CommissionType DEF OpenPosition
<1>3. f \in Int
  BY <1>1, <1>2, FillTypes
<1>4. PICK trade : trade = Trade(s, position, price, ts)
  OBVIOUS
<1>5. trade = [symbol |-> s, quantity |-> q, entry_time |-> position.entry_time,
               exit_time |-> ts, pnl |-> Pnl(position, f), commission |-> k + c]
  BY <1>1, <1>4 DEF Trade
<1>6. Pnl(position, f) \in Int /\ Cost(position) \in Int /\ Pnl(position, p) \in Int
  BY <1>2, <1>3, PnlIsWorthLessCost
<1>7. trade \in ClosedTrade
  BY <1>2, <1>5, <1>6 DEF ClosedTrade, OpenPosition
<1>8. NetPnl(trade) = Pnl(position, f) - (k + c) /\ NetPnl(trade) \in Int
  BY <1>2, <1>5, <1>6 DEF NetPnl
<1>9. CASE position.side = "buy"
  <2>1. /\ Pnl(position, f) = q * f + c - Cost(position)
        /\ Pnl(position, p) = q * p + c - Cost(position)
    BY <1>1, <1>2, <1>3, <1>9, PnlIsWorthLessCost
  <2>2. Settled(price, q, ExitSide(position)) = f * q - k
    BY <1>1, <1>9 DEF Settled, ExitSide
  <2>3. p \in Nat => f <= p
    BY <1>1, <1>2, <1>9, FillsCost DEF ExitSide
  <2>4. PICK x, y, z : x = f * q /\ y = q * p /\ z = Cost(position)
    OBVIOUS
  <2>5. x \in Int /\ y \in Int /\ z \in Int /\ q * f = x /\ (p \in Nat => x <= y)
    BY <1>2, <1>3, <1>6, <2>3, <2>4, Products
  <2>6. /\ NetPnl(trade) = x + c - z - (k + c) /\ Pnl(position, p) = y + c - z
        /\ Settled(price, q, ExitSide(position)) = x - k
    <3>1. Pnl(position, f) = x + c - z /\ Pnl(position, p) = y + c - z
      BY <2>1, <2>4, <2>5, Zenon
    <3>2. Settled(price, q, ExitSide(position)) = x - k
      BY <2>2, <2>4, Zenon
    <3>3. NetPnl(trade) = Pnl(position, f) - (k + c)
      BY <1>8
    <3>4. PICK v : v = Pnl(position, f)
      OBVIOUS
    <3>5. v = x + c - z /\ NetPnl(trade) = v - (k + c)
      <4>1. v = x + c - z
        BY <3>1, <3>4
      <4>2. NetPnl(trade) = v - (k + c)
        BY <3>3, <3>4
      <4> QED BY <4>1, <4>2
    <3>6. NetPnl(trade) = x + c - z - (k + c)
      BY <1>2, <2>5, <3>5
    <3> QED BY <3>1, <3>2, <3>6
  <2>7. /\ x - k \in Int /\ x + c - z - (k + c) = (x - k) - z 
        /\ p \in Nat => x + c - z - (k + c) <= y + c - z
    BY <1>2, <2>5
  <2> QED BY <1>1, <1>4, <1>7, <1>8, <2>4, <2>6, <2>7
<1>10. CASE position.side # "buy"
  <2>1. /\ Pnl(position, f) = (-q) * f + c - Cost(position)
        /\ Pnl(position, p) = (-q) * p + c - Cost(position)
    BY <1>1, <1>2, <1>3, <1>10, PnlIsWorthLessCost
  <2>2. Settled(price, q, ExitSide(position)) = (-f) * q - k
    BY <1>1, <1>10 DEF Settled, ExitSide
  <2>3. p \in Nat => p <= f
    BY <1>1, <1>2, <1>10, FillsCost DEF ExitSide
  <2>4. PICK x, y, z : x = (-f) * q /\ y = (-q) * p /\ z = Cost(position)
    OBVIOUS
  <2>5. x \in Int /\ y \in Int /\ z \in Int /\ (-q) * f = x /\ (p \in Nat => x <= y)
    <3>1. (p \in Nat => q * p <= q * f) /\ q * p \in Int /\ q * f \in Int
      BY <1>2, <1>3, <2>3, Products
    <3>2. (-f) * q = -(q * f) /\ (-q) * p = -(q * p) /\ (-q) * f = -(q * f)
      BY <1>2, <1>3
    <3> QED BY <1>6, <2>4, <3>1, <3>2
  <2>6. /\ NetPnl(trade) = x + c - z - (k + c) /\ Pnl(position, p) = y + c - z
        /\ Settled(price, q, ExitSide(position)) = x - k
    <3>1. Pnl(position, f) = x + c - z /\ Pnl(position, p) = y + c - z
      BY <2>1, <2>4, <2>5, Zenon
    <3>2. Settled(price, q, ExitSide(position)) = x - k
      BY <2>2, <2>4, Zenon
    <3>3. NetPnl(trade) = Pnl(position, f) - (k + c)
      BY <1>8
    <3>4. PICK v : v = Pnl(position, f)
      OBVIOUS
    <3>5. v = x + c - z /\ NetPnl(trade) = v - (k + c)
      <4>1. v = x + c - z
        BY <3>1, <3>4
      <4>2. NetPnl(trade) = v - (k + c)
        BY <3>3, <3>4
      <4> QED BY <4>1, <4>2
    <3>6. NetPnl(trade) = x + c - z - (k + c)
      BY <1>2, <2>5, <3>5
    <3> QED BY <3>1, <3>2, <3>6
  <2>7. /\ x - k \in Int /\ x + c - z - (k + c) = (x - k) - z 
        /\ p \in Nat => x + c - z - (k + c) <= y + c - z
    BY <1>2, <2>5
  <2> QED BY <1>1, <1>4, <1>7, <1>8, <2>4, <2>6, <2>7
<1> QED BY <1>9, <1>10

\* Opening one: the bank pays its cost.
LEMMA OpeningBalances ==
    ASSUME NEW price \in Prices, NEW quantity \in Nat \ {0}, NEW side \in {"buy", "sell"},
           NEW ts \in Nat, NEW position,
           position = [side |-> side, quantity |-> quantity,
                       entry_price |-> Fill(price, quantity, side), entry_time |-> ts,
                       commission |-> Commission(quantity)]
    PROVE  /\ position \in OpenPosition
           /\ Settled(price, quantity, side) = -Cost(position)
           /\ Cost(position) \in Int
<1>1. PICK q, k, f : q = quantity /\ k = Commission(quantity) /\ f = Fill(price, quantity, side)
  OBVIOUS
<1>2. q \in Nat \ {0} /\ k \in Nat /\ f \in Int
  BY <1>1, CommissionType, FillTypes, PriceTypes
<1>3. position \in OpenPosition
  BY <1>1, <1>2 DEF OpenPosition
<1>4. CASE side = "buy"
  <2>1. Settled(price, quantity, side) = (-f) * q - k /\ Cost(position) = q * f + k
    BY <1>1, <1>4 DEF Settled, Cost
  <2> QED BY <1>2, <1>3, <2>1
<1>5. CASE side = "sell"
  <2>1. Settled(price, quantity, side) = f * q - k /\ Cost(position) = (-q) * f + k
    BY <1>1, <1>5 DEF Settled, Cost
  <2> QED BY <1>2, <1>3, <2>1
<1> QED BY <1>4, <1>5

-----------------------------------------------------------------------------
(* Folds over the positions of a sequence *)

\* A set of the numbers up to n has a greatest.
LEMMA Greatest ==
    ASSUME NEW n \in Nat, NEW T \in SUBSET (1 .. n), T # {}
    PROVE  Max(T) \in T /\ \A y \in T : Max(T) >= y
<1> DEFINE Q == {k \in Nat : \A U \in SUBSET (1 .. k) : U # {} => \E x \in U : \A y \in U : x >= y}
<1>1. 0 \in Q
  <2>1. \A U \in SUBSET (1 .. 0) : U = {}
    OBVIOUS
  <2> QED BY <2>1
<1>2. ASSUME NEW k \in Nat, k \in Q PROVE k + 1 \in Q
  <2> SUFFICES ASSUME NEW U \in SUBSET (1 .. (k + 1)), U # {} PROVE \E x \in U : \A y \in U : x >= y
    OBVIOUS
  <2>1. CASE k + 1 \in U
    BY <2>1
  <2>2. CASE k + 1 \notin U
    <3>1. U \in SUBSET (1 .. k)
      BY <2>2
    <3> QED BY <1>2, <3>1
  <2> QED BY <2>1, <2>2
<1>3. n \in Q
  <2> HIDE DEF Q
  <2> QED BY <1>1, <1>2, Induction
<1>4. \E x \in T : \A y \in T : x >= y
  BY <1>3
<1> QED BY <1>4 DEF Max

LEMMA Prefix ==
    ASSUME NEW k \in Nat \ {0}
    PROVE  Max(1 .. k) = k /\ (1 .. k) \ {k} = 1 .. (k - 1) /\ 1 .. k # {}
<1>1. 1 .. k # {} /\ k \in 1 .. k
  OBVIOUS
<1>2. Max(1 .. k) \in 1 .. k /\ Max(1 .. k) >= k
  BY <1>1, Greatest
<1> QED BY <1>1, <1>2

\* The sets a fold over 1 .. n goes through, and the value of each.
FoldEquation(f, n, base, step) ==
    f = [T \in SUBSET (1 .. n) |-> IF T = {} THEN base ELSE step[Max(T)][f[T \ {Max(T)}]]]

LEMMA FoldExists ==
    ASSUME NEW S, NEW base \in S, NEW N \in Nat, NEW step \in [1 .. N -> [S -> S]]
    PROVE  \E f \in [SUBSET (1 .. N) -> S] : FoldEquation(f, N, base, step)
<1> DEFINE Q == {n \in Nat : n <= N => \E f \in [SUBSET (1 .. n) -> S] : FoldEquation(f, n, base, step)}
<1>1. 0 \in Q
  <2> DEFINE f == [T \in SUBSET (1 .. 0) |-> base]
  <2>1. \A T \in SUBSET (1 .. 0) : T = {}
    OBVIOUS
  <2>2. f \in [SUBSET (1 .. 0) -> S] /\ FoldEquation(f, 0, base, step)
    BY <2>1 DEF FoldEquation
  <2> QED BY <2>2
<1>2. ASSUME NEW n \in Nat, n \in Q PROVE n + 1 \in Q
  <2>9. n + 1 \in Nat
    OBVIOUS
  <2> SUFFICES ASSUME n + 1 <= N
               PROVE  \E f \in [SUBSET (1 .. (n + 1)) -> S] : FoldEquation(f, n + 1, base, step)
    BY <2>9, Zenon
  <2>0. n <= N
    OBVIOUS
  <2>1. PICK f \in [SUBSET (1 .. n) -> S] : FoldEquation(f, n, base, step)
    BY <1>2, <2>0, Zenon
  <2> DEFINE m == n + 1
             g == [T \in SUBSET (1 .. m) |-> IF m \in T THEN step[m][f[T \ {m}]] ELSE f[T]]
  <2>2. \A T \in SUBSET (1 .. m) : /\ m \in T => T \ {m} \in SUBSET (1 .. n)
                                   /\ m \notin T => T \in SUBSET (1 .. n)
    OBVIOUS
  <2>3. step[m] \in [S -> S]
    OBVIOUS
  <2>4. g \in [SUBSET (1 .. m) -> S]
    BY <2>1, <2>2, <2>3
  <2>5. ASSUME NEW T \in SUBSET (1 .. m)
        PROVE  g[T] = IF T = {} THEN base ELSE step[Max(T)][g[T \ {Max(T)}]]
    <3>1. CASE T = {}
      BY <2>1, <3>1 DEF FoldEquation
    <3>2. CASE T # {} /\ m \in T
      <4>1. Max(T) = m
        <5>1. \A U \in SUBSET (1 .. m) : U # {} => Max(U) \in U /\ \A y \in U : Max(U) >= y
          BY <2>9, Greatest, Zenon
        <5>2. Max(T) \in T /\ Max(T) >= m
          BY <3>2, <5>1, Zenon
        <5>3. PICK x : x = Max(T)
          OBVIOUS
        <5>4. x \in 1 .. (n + 1) /\ x >= n + 1
          BY <5>2, <5>3
        <5> QED BY <5>3, <5>4
      <4>2. g[T \ {m}] = f[T \ {m}]
        BY <2>2, <3>2
      <4> QED BY <3>2, <4>1, <4>2
    <3>3. CASE T # {} /\ m \notin T
      <4>1. T \in SUBSET (1 .. n)
        BY <2>2, <3>3
      <4>2. Max(T) \in T
        BY <3>3, <4>1, Greatest
      <4>3. g[T] = f[T] /\ g[T \ {Max(T)}] = f[T \ {Max(T)}]
        BY <3>3, <4>1, <4>2
      <4> QED BY <2>1, <3>3, <4>1, <4>3 DEF FoldEquation
    <3> QED BY <3>1, <3>2, <3>3
  <2>6. FoldEquation(g, m, base, step)
    BY <2>4, <2>5 DEF FoldEquation
  <2> QED BY <2>4, <2>6
<1>3. N \in Q
  <2> HIDE DEF Q
  <2> QED BY <1>1, <1>2, Induction
<1>4. N <= N
  OBVIOUS
<1> QED BY <1>3, <1>4, Zenon

LEMMA FoldIn ==
    ASSUME NEW S, NEW n \in Nat, NEW f, f[1 .. 0] \in S,
           \A k \in 1 .. n : f[1 .. (k - 1)] \in S => f[1 .. k] \in S
    PROVE  \A k \in 0 .. n : f[1 .. k] \in S
<1> DEFINE Q == {k \in Nat : k <= n => f[1 .. k] \in S}
<1>1. 0 \in Q
  OBVIOUS
<1>2. ASSUME NEW k \in Nat, k \in Q PROVE k + 1 \in Q
  <2>1. (k + 1) - 1 = k
    OBVIOUS
  <2> QED BY <1>2, <2>1
<1>3. \A k \in 0 .. n : k \in Q
  <2> HIDE DEF Q
  <2> QED BY <1>1, <1>2, Induction
<1> QED BY <1>3

-----------------------------------------------------------------------------
(* The timeline *)

\* In a strict total order of a finite set, one more than the number of smaller
\* elements numbers the set from 1 without a gap.
Ranked(T, R, rank) ==
    /\ IsFiniteSet(T) /\ rank \in [T -> Nat]
    /\ \A x \in T : rank[x] = 1 + Cardinality({y \in T : <<y, x>> \in R})
    /\ \A x \in T : <<x, x>> \notin R
    /\ \A x, y, z \in T : <<x, y>> \in R /\ <<y, z>> \in R => <<x, z>> \in R
    /\ \A x, y \in T : x = y \/ <<x, y>> \in R \/ <<y, x>> \in R

LEMMA Ranks ==
    ASSUME NEW T, NEW R, NEW rank, Ranked(T, R, rank)
    PROVE  /\ \A x, y \in T : <<x, y>> \in R => rank[x] < rank[y]
           /\ {rank[x] : x \in T} = 1 .. Cardinality(T)
<1> DEFINE Below(x) == {y \in T : <<y, x>> \in R}
<1> USE DEF Ranked
<1>0. Cardinality(T) \in Nat
  BY FS_CardinalityType
<1>1. ASSUME NEW x \in T PROVE IsFiniteSet(Below(x)) /\ Cardinality(Below(x)) \in Nat
  <2>1. Below(x) \in SUBSET T
    OBVIOUS
  <2> HIDE DEF Below
  <2> QED BY <2>1, FS_Subset, FS_CardinalityType
<1>2. \A x \in T : rank[x] = 1 + Cardinality(Below(x))
  OBVIOUS
<1>3. ASSUME NEW x \in T PROVE rank[x] \in 1 .. Cardinality(T)
  <2>1. Below(x) \in SUBSET T /\ x \notin Below(x)
    OBVIOUS
  <2>2. Cardinality(Below(x)) <= Cardinality(T) /\ Cardinality(T) # Cardinality(Below(x))
    <3> HIDE DEF Below
    <3> QED BY <2>1, FS_Subset
  <2>3. rank[x] = 1 + Cardinality(Below(x))
    OBVIOUS
  <2>4. Cardinality(Below(x)) \in Nat
    BY <1>1
  <2> HIDE DEF Below
  <2>5. Cardinality(Below(x)) < Cardinality(T)
    BY <1>0, <2>2, <2>4
  <2> QED BY <1>0, <2>3, <2>4, <2>5
<1>4. ASSUME NEW x \in T, NEW y \in T, <<x, y>> \in R PROVE rank[x] < rank[y]
  <2>1. Below(x) \in SUBSET Below(y) /\ x \in Below(y) /\ x \notin Below(x)
    BY <1>4
  <2>2. Cardinality(Below(x)) <= Cardinality(Below(y)) /\ Cardinality(Below(x)) # Cardinality(Below(y))
    <3> HIDE DEF Below
    <3> QED BY <1>1, <2>1, FS_Subset
  <2> HIDE DEF Below
  <2> QED BY <1>1, <1>2, <2>2
<1>5. rank \in Surjection(T, 1 .. Cardinality(T))
  <2>1. rank \in [T -> 1 .. Cardinality(T)]
    BY <1>3
  <2>2. ASSUME NEW x \in T, NEW y \in T, rank[x] = rank[y] PROVE x = y
    <3>1. rank[x] \in Nat /\ ~(rank[x] < rank[y]) /\ ~(rank[y] < rank[x])
      BY <2>2
    <3>2. <<x, y>> \notin R /\ <<y, x>> \notin R
      BY <1>4, <3>1
    <3> QED BY <3>2
  <2>3. rank \in Injection(T, 1 .. Cardinality(T))
    BY <2>1, <2>2, Fun_IsInj
  <2>4. IsFiniteSet(1 .. Cardinality(T)) /\ Cardinality(1 .. Cardinality(T)) = Cardinality(T)
    BY <1>0, FS_Interval
  <2> QED BY <2>3, <2>4, FS_Injection
<1>6. \A n \in 1 .. Cardinality(T) : \E x \in T : rank[x] = n
  BY <1>5 DEF Surjection
<1> QED BY <1>3, <1>4, <1>6


\* Bars in the order of the timeline, none left out.
IsTape(data, tape) ==
    /\ tape \in Seq(Bars(data))
    /\ \A m, n \in DOMAIN tape : m < n => Before(tape[m], tape[n])
    /\ \A e \in Bars(data) : \E n \in DOMAIN tape : tape[n] = e

LEMMA Positions ==
    /\ SymbolOrder \in Seq(Symbols)
    /\ \A s \in Symbols : Position(s) \in Nat /\ SymbolOrder[Position(s)] = s
<1>1. SymbolOrder \in Seq(Symbols)
  BY OrderAssumption
<1>2. ASSUME NEW s \in Symbols PROVE \E i \in DOMAIN SymbolOrder : SymbolOrder[i] = s
  BY DEF Symbols, ToSet
<1>3. ASSUME NEW s \in Symbols PROVE Position(s) \in DOMAIN SymbolOrder /\ SymbolOrder[Position(s)] = s
  BY <1>2 DEF Position
<1>4. DOMAIN SymbolOrder \subseteq Nat
  BY <1>1
<1> QED BY <1>1, <1>3, <1>4

LEMMA Image ==
    ASSUME NEW S, IsFiniteSet(S), NEW f
    PROVE  IsFiniteSet({f[x] : x \in S})
<1> DEFINE T == {f[x] : x \in S}
           g == [x \in S |-> f[x]]
<1>1. g \in [S -> T] /\ \A t \in T : \E x \in S : g[x] = t
  OBVIOUS
<1>2. g \in Surjection(S, T)
  <2> HIDE DEF g, T
  <2> QED BY <1>1, Fun_IsSurj
<1>3. IsFiniteSet(T)
  <2> HIDE DEF g, T
  <2> QED BY <1>2, FS_Surjection
<1> QED BY <1>3

LEMMA SymbolsFinite ==
    IsFiniteSet(Symbols)
<1>1. PICK n \in Nat : DOMAIN SymbolOrder = 1 .. n
  BY OrderAssumption
<1>2. IsFiniteSet(1 .. n)
  BY FS_Interval
<1>3. Symbols = {SymbolOrder[i] : i \in 1 .. n}
  BY <1>1 DEF Symbols, ToSet
<1> QED BY <1>2, <1>3, Image

\* What an event of the data is.
LEMMA BarTypes ==
    ASSUME NEW data, GoodCandles(data), NEW e \in Bars(data)
    PROVE  /\ e.symbol \in DOMAIN data /\ e.symbol \in Symbols
           /\ e.index \in DOMAIN data[e.symbol] /\ e.index \in Nat \ {0}
           /\ data[e.symbol][e.index] \in Candle
           /\ e.ts = data[e.symbol][e.index].ts /\ e.ts \in Nat
           /\ e = [ts |-> e.ts, symbol |-> e.symbol, index |-> e.index]
<1>1. PICK s \in DOMAIN data : e \in {[ts |-> data[s][i].ts, symbol |-> s, index |-> i] : i \in DOMAIN data[s]}
  BY DEF Bars
<1>2. PICK i \in DOMAIN data[s] : e = [ts |-> data[s][i].ts, symbol |-> s, index |-> i]
  BY <1>1
<1>3. s \in Symbols /\ data[s] \in Seq(Candle)
  BY DEF GoodCandles
<1>4. i \in Nat \ {0} /\ data[s][i] \in Candle
  BY <1>3
<1>5. data[s][i].ts \in Nat
  BY <1>4 DEF Candle
<1> QED BY <1>2, <1>3, <1>4, <1>5

LEMMA BarsFinite ==
    ASSUME NEW data, GoodCandles(data)
    PROVE  IsFiniteSet(Bars(data))
<1>1. IsFiniteSet(DOMAIN data)
  BY SymbolsFinite, FS_Subset DEF GoodCandles
<1> DEFINE Of(s) == {[ts |-> data[s][i].ts, symbol |-> s, index |-> i] : i \in DOMAIN data[s]}
           All == {Of(s) : s \in DOMAIN data}
<1>2. ASSUME NEW s \in DOMAIN data PROVE IsFiniteSet(Of(s))
  <2>1. data[s] \in Seq(Candle)
    BY DEF GoodCandles
  <2>2. PICK n \in Nat : DOMAIN data[s] = 1 .. n
    BY <2>1
  <2>3. IsFiniteSet(1 .. n)
    BY FS_Interval
  <2> DEFINE f == [i \in 1 .. n |-> [ts |-> data[s][i].ts, symbol |-> s, index |-> i]]
  <2>4. Of(s) = {f[i] : i \in 1 .. n}
    BY <2>2
  <2> HIDE DEF f, Of
  <2> QED BY <2>3, <2>4, Image
<1>3. Bars(data) = UNION All
  BY DEF Bars
<1>4. IsFiniteSet(All)
  <2> DEFINE f == [s \in DOMAIN data |-> Of(s)]
  <2>1. All = {f[s] : s \in DOMAIN data}
    OBVIOUS
  <2> HIDE DEF f, All
  <2> QED BY <1>1, <2>1, Image
<1>5. \A T \in All : IsFiniteSet(T)
  <2> HIDE DEF Of
  <2> QED BY <1>2
<1> HIDE DEF All
<1> QED BY <1>3, <1>4, <1>5, FS_UNION

\* Bars are in a strict total order.
LEMMA BeforeOrders ==
    ASSUME NEW data, GoodCandles(data)
    PROVE  /\ \A e \in Bars(data) : ~Before(e, e)
           /\ \A e, f, g \in Bars(data) : Before(e, f) /\ Before(f, g) => Before(e, g)
           /\ \A e, f \in Bars(data) : e = f \/ Before(e, f) \/ Before(f, e)
<1>1. ASSUME NEW e \in Bars(data) PROVE e.ts \in Nat /\ Position(e.symbol) \in Nat
  BY BarTypes, Positions
<1>2. \A e \in Bars(data) : ~Before(e, e)
  BY <1>1 DEF Before
<1>3. ASSUME NEW e \in Bars(data), NEW f \in Bars(data), NEW g \in Bars(data),
             Before(e, f), Before(f, g)
      PROVE  Before(e, g)
  BY <1>1, <1>3 DEF Before
<1>4. ASSUME NEW e \in Bars(data), NEW f \in Bars(data), ~Before(e, f), ~Before(f, e)
      PROVE  e = f
  <2>1. e.ts = f.ts /\ Position(e.symbol) = Position(f.symbol)
    BY <1>1, <1>4 DEF Before
  <2>2. e.symbol = f.symbol
    BY <2>1, BarTypes, Positions
  <2>3. /\ e.index \in DOMAIN data[e.symbol] /\ f.index \in DOMAIN data[e.symbol]
        /\ data[e.symbol][e.index].ts = data[e.symbol][f.index].ts
        /\ e.symbol \in DOMAIN data
    BY <2>1, <2>2, BarTypes
  <2>4. e.index \in Nat /\ f.index \in Nat /\ e.ts \in Nat
    BY BarTypes
  <2>5. ~(e.index < f.index) /\ ~(f.index < e.index)
    <3>1. \A i, j \in DOMAIN data[e.symbol] : i < j => data[e.symbol][i].ts < data[e.symbol][j].ts
      BY <2>3 DEF GoodCandles
    <3>2. data[e.symbol][e.index].ts \in Nat
      BY BarTypes
    <3> QED BY <2>3, <3>1, <3>2
  <2>6. e.index = f.index
    BY <2>4, <2>5
  <2> QED BY <2>1, <2>2, <2>6, BarTypes
<1> QED BY <1>2, <1>3, <1>4

LEMMA SortedIsTape ==
    ASSUME NEW data, GoodCandles(data)
    PROVE  IsTape(data, Sorted(Bars(data)))
<1> DEFINE T == Bars(data)
           R == {p \in T \X T : Before(p[1], p[2])}
           rank == [x \in T |-> 1 + Cardinality({y \in T : <<y, x>> \in R})]
<1>1. \A x, y \in T : <<x, y>> \in R <=> Before(x, y)
  OBVIOUS
<1>2. IsFiniteSet(T)
  BY BarsFinite
<1>3. PICK size \in Nat : size = Cardinality(T)
  BY <1>2, FS_CardinalityType
<1>4. \A x \in T : {y \in T : <<y, x>> \in R} = {y \in T : Before(y, x)}
  BY <1>1
<1>5. \A x \in T : Cardinality({y \in T : Before(y, x)}) \in Nat
  <2>1. \A x \in T : {y \in T : Before(y, x)} \in SUBSET T
    OBVIOUS
  <2> HIDE DEF T
  <2> QED BY <1>2, <2>1, FS_Subset, FS_CardinalityType
<1>6. \A x \in T : rank[x] = 1 + Cardinality({y \in T : Before(y, x)}) /\ rank[x] \in Nat
  <2>1. ASSUME NEW x \in T
        PROVE  rank[x] = 1 + Cardinality({y \in T : Before(y, x)}) /\ rank[x] \in Nat
    <3>1. rank[x] = 1 + Cardinality({y \in T : <<y, x>> \in R})
      OBVIOUS
    <3>2. PICK c \in Nat : c = Cardinality({y \in T : Before(y, x)})
      BY <1>5
    <3>3. Cardinality({y \in T : <<y, x>> \in R}) = c
      BY <1>4, <3>2, Zenon
    <3> HIDE DEF R, rank, T
    <3> QED BY <3>1, <3>2, <3>3
  <2> QED BY <2>1
<1>7. Ranked(T, R, rank)
  <2>1. rank \in [T -> Nat]
    BY <1>6
  <2>2. \A x \in T : rank[x] = 1 + Cardinality({y \in T : <<y, x>> \in R})
    OBVIOUS
  <2> HIDE DEF T, R, rank
  <2>3. /\ \A x \in T : ~Before(x, x)
        /\ \A x, y, z \in T : Before(x, y) /\ Before(y, z) => Before(x, z)
        /\ \A x, y \in T : x = y \/ Before(x, y) \/ Before(y, x)
    BY BeforeOrders DEF T
  <2> QED BY <1>1, <1>2, <2>1, <2>2, <2>3 DEF Ranked
<1> HIDE DEF rank, R
<1>8. /\ \A x, y \in T : Before(x, y) => rank[x] < rank[y]
      /\ {rank[x] : x \in T} = 1 .. size
  <2> HIDE DEF T
  <2> QED BY <1>1, <1>3, <1>7, Ranks
<1>9. PICK tape : tape = Sorted(T)
  OBVIOUS
<1> DEFINE Nth(n) == CHOOSE e \in T : Cardinality({f \in T : Before(f, e)}) = n - 1
<1>10. tape = [n \in 1 .. size |-> Nth(n)]
  BY <1>3, <1>9 DEF Sorted
<1>11. ASSUME NEW n \in 1 .. size PROVE tape[n] \in T /\ rank[tape[n]] = n
  <2>1. PICK x \in T : rank[x] = n
    BY <1>8
  <2>2. Cardinality({f \in T : Before(f, x)}) = n - 1
    BY <1>5, <1>6, <2>1
  <2>3. Nth(n) \in T /\ Cardinality({f \in T : Before(f, Nth(n))}) = n - 1
    <3> HIDE DEF T
    <3> QED BY <2>2
  <2> HIDE DEF Nth
  <2>4. tape[n] = Nth(n)
    BY <1>10
  <2> QED BY <1>6, <2>3, <2>4
<1> HIDE DEF Nth
<1>12. DOMAIN tape = 1 .. size /\ tape \in Seq(T)
  <2>1. tape \in [1 .. size -> T]
    BY <1>10, <1>11
  <2> QED BY <2>1
<1>13. \A m, n \in 1 .. size : m < n => Before(tape[m], tape[n])
  <2> SUFFICES ASSUME NEW m \in 1 .. size, NEW n \in 1 .. size, m < n
               PROVE  Before(tape[m], tape[n])
    OBVIOUS
  <2>1. tape[m] \in T /\ tape[n] \in T /\ rank[tape[m]] = m /\ rank[tape[n]] = n
    BY <1>11
  <2>2. tape[m] = tape[n] \/ Before(tape[m], tape[n]) \/ Before(tape[n], tape[m])
    BY <2>1, BeforeOrders
  <2> QED BY <1>8, <2>1, <2>2
<1>14. ASSUME NEW e \in T PROVE \E n \in 1 .. size : tape[n] = e
  <2>1. rank[e] \in 1 .. size
    BY <1>8
  <2>2. PICK n \in 1 .. size : n = rank[e]
    BY <2>1
  <2>3. tape[n] \in T /\ rank[tape[n]] = n
    BY <1>11
  <2>4. tape[n] = e \/ Before(tape[n], e) \/ Before(e, tape[n])
    BY <2>3, BeforeOrders
  <2> QED BY <1>8, <2>2, <2>3, <2>4
<1> QED BY <1>9, <1>12, <1>13, <1>14 DEF IsTape

\* Timestamps never go back along a tape; those of one symbol go forward.
LEMMA TapeInTime ==
    ASSUME NEW data, GoodCandles(data), NEW tape, IsTape(data, tape)
    PROVE  /\ \A n \in DOMAIN tape : tape[n] \in Bars(data) /\ tape[n].ts \in Nat
           /\ \A m, n \in DOMAIN tape : m <= n => tape[m].ts <= tape[n].ts
           /\ \A m, n \in DOMAIN tape :
                 m < n /\ tape[m].symbol = tape[n].symbol => tape[m].ts < tape[n].ts
<1>1. ASSUME NEW n \in DOMAIN tape
      PROVE  tape[n] \in Bars(data) /\ tape[n].ts \in Nat /\ Position(tape[n].symbol) \in Nat
  <2>1. tape[n] \in Bars(data)
    BY DEF IsTape
  <2> QED BY <2>1, BarTypes, Positions
<1>2. ASSUME NEW m \in DOMAIN tape, NEW n \in DOMAIN tape, m < n
      PROVE  /\ tape[m].ts <= tape[n].ts
             /\ tape[m].symbol = tape[n].symbol => tape[m].ts < tape[n].ts
  <2>1. Before(tape[m], tape[n])
    BY <1>2 DEF IsTape
  <2> QED BY <1>1, <2>1 DEF Before
<1>3. DOMAIN tape \subseteq Nat
  BY DEF IsTape
<1>4. \A m, n \in DOMAIN tape : m <= n => m < n \/ m = n
  BY <1>3
<1>5. \A m, n \in DOMAIN tape : m = n => tape[m].ts <= tape[n].ts
  BY <1>1
<1> QED BY <1>1, <1>2, <1>4, <1>5

-----------------------------------------------------------------------------
(* The inputs, and the bars of a fold *)

LEMMA InputTypes ==
    ASSUME NEW x \in Inputs
    PROVE  /\ GoodCandles(x.candles) /\ SymbolOrder[1] \in DOMAIN x.candles
           /\ x.n_splits \in Nat /\ x.batches \subseteq Seq(RawSignals \cup Signals)
<1>1. /\ DOMAIN x.candles \subseteq Symbols /\ SymbolOrder[1] \in DOMAIN x.candles
      /\ x.n_splits \in Nat /\ x.batches \subseteq Seq(RawSignals \cup Signals)
      /\ \A s \in DOMAIN x.candles :
            /\ x.candles[s] \in Seq(Candle)
            /\ \A i \in 2 .. Len(x.candles[s]) : x.candles[s][i - 1].ts < x.candles[s][i].ts
  BY InputsAssumption DEF Candle
<1>2. ASSUME NEW s \in DOMAIN x.candles
      PROVE  \A i, j \in DOMAIN x.candles[s] : i < j => x.candles[s][i].ts < x.candles[s][j].ts
  <2>1. PICK bars : bars = x.candles[s]
    OBVIOUS
  <2>2. bars \in Seq(Candle) /\ \A i \in 2 .. Len(bars) : bars[i - 1].ts < bars[i].ts
    BY <1>1, <2>1
  <2>3. PICK n \in Nat : n = Len(bars) /\ DOMAIN bars = 1 .. n
    BY <2>2
  <2>4. \A i \in 1 .. n : bars[i].ts \in Nat
    <3>1. \A i \in 1 .. n : bars[i] \in Candle
      BY <2>2, <2>3
    <3> QED BY <3>1 DEF Candle
  <2> DEFINE Q == {j \in Nat : j <= n => \A i \in 1 .. n : i < j => bars[i].ts < bars[j].ts}
  <2>5. 0 \in Q
    OBVIOUS
  <2>6. ASSUME NEW j \in Nat, j \in Q PROVE j + 1 \in Q
    <3> SUFFICES ASSUME j + 1 <= n, NEW i \in 1 .. n, i < j + 1
                 PROVE  bars[i].ts < bars[j + 1].ts
      OBVIOUS
    <3>1. j + 1 \in 2 .. n /\ (j + 1) - 1 = j /\ j \in 1 .. n
      OBVIOUS
    <3>2. bars[j].ts < bars[j + 1].ts
      BY <2>2, <2>3, <3>1
    <3>3. i < j => bars[i].ts < bars[j].ts
      BY <2>6, <3>1
    <3> QED BY <2>4, <3>1, <3>2, <3>3
  <2>7. Nat \subseteq Q
    <3> HIDE DEF Q
    <3> QED BY <2>5, <2>6, Induction
  <2> QED BY <2>1, <2>3, <2>7
<1> QED BY <1>1, <1>2 DEF GoodCandles

\* Where the bars of a fold are in the data.
LEMMA FoldTypes ==
    ASSUME input \in Inputs, input.n_splits # 0, NEW k \in Nat \ {0}
    PROVE  /\ GoodCandles(FoldBars(k)) /\ DOMAIN FoldBars(k) = DOMAIN input.candles
           /\ FoldSize \in Nat
           /\ \A s \in DOMAIN FoldBars(k) : \A i \in DOMAIN FoldBars(k)[s] :
                 \E p \in DOMAIN input.candles[s] :
                    /\ FoldBars(k)[s][i] = input.candles[s][p]
                    /\ (k - 1) * FoldSize < p /\ p <= k * FoldSize
<1>1. GoodCandles(input.candles) /\ SymbolOrder[1] \in DOMAIN input.candles /\ input.n_splits \in Nat \ {0}
  BY InputTypes
<1>2. PICK data : data = input.candles
  OBVIOUS
<1>3. PICK size : size = FoldSize
  OBVIOUS
<1>4. size \in Nat
  <2>1. Len(data[SymbolOrder[1]]) \in Nat
    BY <1>1, <1>2 DEF GoodCandles
  <2> QED BY <1>1, <1>2, <1>3, <2>1 DEF FoldSize
<1>5. PICK first, end : first = (k - 1) * size /\ end = k * size
  OBVIOUS
<1>6. first \in Nat /\ end \in Nat
  BY <1>4, <1>5
<1>7. PICK split : split = first + (size * RatioNum) \div RatioDen
  OBVIOUS
<1>8. split \in Nat /\ split >= first
  <2>1. PICK w : w = size * RatioNum
    OBVIOUS
  <2>2. w \in Nat /\ RatioDen \in Nat \ {0}
    BY <1>4, <2>1, MoneyAssumption
  <2>3. w \div RatioDen \in Nat
    BY <2>2
  <2> QED BY <1>6, <1>7, <2>1, <2>3
<1>9. FoldBars(k) = [s \in DOMAIN data |-> SubSeq(data[s], split + 1, AtMost(Len(data[s]), end))]
  BY <1>2, <1>3, <1>5, <1>7 DEF FoldBars, FoldSize
<1>10. ASSUME NEW s \in DOMAIN data, NEW sub, sub = FoldBars(k)[s]
       PROVE  /\ sub \in Seq(Candle)
              /\ \A i, j \in DOMAIN sub : i < j => sub[i].ts < sub[j].ts
              /\ \A i \in DOMAIN sub : \E p \in DOMAIN data[s] :
                    sub[i] = data[s][p] /\ first < p /\ p <= end
  <2>1. PICK bars, hi : bars = data[s] /\ hi = AtMost(Len(bars), end)
    OBVIOUS
  <2>2. /\ bars \in Seq(Candle) /\ Len(bars) \in Nat
        /\ \A i, j \in DOMAIN bars : i < j => bars[i].ts < bars[j].ts
    BY <1>1, <1>2, <2>1 DEF GoodCandles
  <2>3. hi \in Nat /\ hi <= Len(bars) /\ hi <= end
    BY <1>6, <2>1, <2>2 DEF AtMost
  <2>4. sub = SubSeq(bars, split + 1, hi)
    BY <1>9, <1>10, <2>1
  <2>5. /\ DOMAIN sub = 1 .. (hi - split) /\ sub \in Seq(Candle)
        /\ \A i \in 1 .. (hi - split) : sub[i] = bars[split + i] /\ split + i \in DOMAIN bars
    BY <1>8, <2>2, <2>3, <2>4
  <2>6. ASSUME NEW i \in DOMAIN sub, NEW j \in DOMAIN sub, i < j PROVE sub[i].ts < sub[j].ts
    <3>1. split + i < split + j
      BY <1>8, <2>3, <2>5, <2>6
    <3> QED BY <2>2, <2>5, <3>1
  <2>7. \A i \in DOMAIN sub : first < split + i /\ split + i <= end
    BY <1>6, <1>8, <2>3, <2>5
  <2> QED BY <2>1, <2>5, <2>6, <2>7
<1>11. DOMAIN FoldBars(k) = DOMAIN data /\ DOMAIN data \subseteq Symbols
  BY <1>1, <1>2, <1>9 DEF GoodCandles
<1>12. GoodCandles(FoldBars(k))
  BY <1>10, <1>11 DEF GoodCandles
<1>13. ASSUME NEW s \in DOMAIN FoldBars(k), NEW i \in DOMAIN FoldBars(k)[s]
       PROVE  \E p \in DOMAIN input.candles[s] :
                 /\ FoldBars(k)[s][i] = input.candles[s][p]
                 /\ (k - 1) * FoldSize < p /\ p <= k * FoldSize
  <2>1. s \in DOMAIN data
    BY <1>11
  <2>2. \E p \in DOMAIN data[s] : FoldBars(k)[s][i] = data[s][p] /\ first < p /\ p <= end
    <3>1. PICK sub : sub = FoldBars(k)[s]
      OBVIOUS
    <3>2. \E p \in DOMAIN data[s] : sub[i] = data[s][p] /\ first < p /\ p <= end
      <4>1. \A j \in DOMAIN sub : \E p \in DOMAIN data[s] : sub[j] = data[s][p] /\ first < p /\ p <= end
        BY ONLY <1>10, <2>1, <3>1
      <4> QED BY ONLY <1>13, <3>1, <4>1
    <3> QED BY ONLY <3>1, <3>2
  <2> QED BY <1>2, <1>3, <1>5, <2>2
<1> QED BY <1>2, <1>3, <1>4, <1>11, <1>12, <1>13

-----------------------------------------------------------------------------
(* An event, and the signals that come at it *)

LEMMA EventTypes ==
    ASSUME GoodCandles(candles), NEW n \in DOMAIN Timeline
    PROVE  /\ Timeline[n].symbol \in DOMAIN candles /\ Timeline[n].symbol \in Symbols
           /\ Timeline[n].index \in DOMAIN candles[Timeline[n].symbol]
           /\ Timeline[n].index \in Nat \ {0}
           /\ Timeline[n].index <= Len(candles[Timeline[n].symbol])
           /\ candles[Timeline[n].symbol][Timeline[n].index] \in Candle
           /\ Timeline[n].ts \in Nat /\ Timeline[n].ts \in Times(candles)
<1>1. Timeline[n] \in Bars(candles)
  BY SortedIsTape, TapeInTime DEF Timeline
<1>2. PICK e : e = Timeline[n]
  OBVIOUS
<1>3. /\ e.symbol \in DOMAIN candles /\ e.symbol \in Symbols
      /\ e.index \in DOMAIN candles[e.symbol] /\ e.index \in Nat \ {0}
      /\ candles[e.symbol][e.index] \in Candle /\ e.ts \in Nat
  BY <1>1, <1>2, BarTypes
<1>4. e.index <= Len(candles[e.symbol])
  <2>1. candles[e.symbol] \in Seq(Candle)
    BY <1>3 DEF GoodCandles
  <2> QED BY <1>3, <2>1
<1>5. e.ts \in Times(candles)
  BY <1>1, <1>2 DEF Times
<1> QED BY <1>2, <1>3, <1>4, <1>5

LEMMA TimelineLength ==
    ASSUME GoodCandles(candles)
    PROVE  Len(Timeline) \in Nat /\ DOMAIN Timeline = 1 .. Len(Timeline)
<1>1. IsTape(candles, Timeline)
  BY SortedIsTape DEF Timeline
<1> QED BY <1>1 DEF IsTape

LEMMA AdaptedTypes ==
    ASSUME GoodCandles(candles), next_event \in DOMAIN Timeline,
           NEW raw \in RawSignals \cup Signals
    PROVE  Adapted(raw) \in Signals
<1>1. Event.symbol \in Symbols /\ Bar \in Candle
  BY EventTypes DEF Event, Bar
<1>2. CASE raw \in Signals
  <2>1. "signal_type" \in DOMAIN raw
    BY <1>2 DEF Signals
  <2> QED BY <1>2, <2>1 DEF Adapted
<1>3. CASE raw \in RawSignals
  <2>1. "signal_type" \notin DOMAIN raw
    BY <1>3 DEF RawSignals
  <2>2. PICK type \in {"LONG", "SHORT", "CLOSE"} :
           Adapted(raw) = [signal_type |-> type, symbol |-> Event.symbol, price |-> Bar.close]
    BY <2>1 DEF Adapted
  <2>3. Bar.close \in Prices
    BY <1>1 DEF Candle
  <2> QED BY <1>1, <2>2, <2>3 DEF Signals
<1> QED BY <1>2, <1>3

\* What the fold over a batch chooses.
KeptEquation(f, batch) ==
    f = [T \in SUBSET DOMAIN batch |->
            IF T = {} THEN <<>>
            ELSE IF IsCurrent(batch[Max(T)]) THEN Append(f[T \ {Max(T)}], Adapted(batch[Max(T)]))
                                             ELSE f[T \ {Max(T)}]]

LEMMA KeptTypes ==
    ASSUME GoodCandles(candles), next_event \in DOMAIN Timeline,
           NEW batch \in Seq(RawSignals \cup Signals)
    PROVE  Kept(batch) \in Seq(Signals)
<1> DEFINE S == Seq(Signals)
           step == [k \in DOMAIN batch |-> [kept \in S |->
                       IF IsCurrent(batch[k]) THEN Append(kept, Adapted(batch[k])) ELSE kept]]
<1>1. PICK n \in Nat : n = Len(batch) /\ DOMAIN batch = 1 .. n
  OBVIOUS
<1>2. \A k \in 1 .. n : Adapted(batch[k]) \in Signals
  BY <1>1, AdaptedTypes
<1>3. <<>> \in S
  OBVIOUS
<1>4. step \in [1 .. n -> [S -> S]]
  <2>1. ASSUME NEW k \in 1 .. n, NEW kept \in S
        PROVE  (IF IsCurrent(batch[k]) THEN Append(kept, Adapted(batch[k])) ELSE kept) \in S
    BY <1>2
  <2> HIDE DEF S
  <2> QED BY <1>1, <2>1
<1>5. PICK g \in [SUBSET (1 .. n) -> S] : FoldEquation(g, n, <<>>, step)
  <2> HIDE DEF S, step
  <2> QED BY <1>3, <1>4, FoldExists
<1>6. ASSUME NEW T \in SUBSET (1 .. n), T # {}
      PROVE  /\ Max(T) \in 1 .. n /\ T \ {Max(T)} \in SUBSET (1 .. n)
             /\ g[T] = IF IsCurrent(batch[Max(T)])
                       THEN Append(g[T \ {Max(T)}], Adapted(batch[Max(T)])) ELSE g[T \ {Max(T)}]
  <2>1. PICK m : m = Max(T)
    OBVIOUS
  <2>2. m \in 1 .. n /\ T \ {m} \in SUBSET (1 .. n)
    BY <1>6, <2>1, Greatest
  <2>3. g[T] = step[m][g[T \ {m}]] /\ g[T \ {m}] \in S
    <3> HIDE DEF S, step
    <3> QED BY <1>5, <1>6, <2>1, <2>2 DEF FoldEquation
  <2>4. step[m] = [kept \in S |->
                      IF IsCurrent(batch[m]) THEN Append(kept, Adapted(batch[m])) ELSE kept]
    BY <1>1, <2>2
  <2> HIDE DEF step, S
  <2> QED BY <2>1, <2>2, <2>3, <2>4
<1>7. \E h : KeptEquation(h, batch)
  <2>1. g[{}] = <<>>
    BY <1>5 DEF FoldEquation
  <2> HIDE DEF S, step
  <2>2. g = [T \in SUBSET DOMAIN batch |-> g[T]]
    BY <1>1, <1>5
  <2> QED BY <1>1, <1>6, <2>1, <2>2 DEF KeptEquation
<1>8. PICK f : f = CHOOSE h : KeptEquation(h, batch)
  OBVIOUS
<1>9. KeptEquation(f, batch)
  BY <1>7, <1>8
<1>10. Kept(batch) = f[DOMAIN batch]
  BY <1>8 DEF Kept, FoldLeft, MapThenFoldSet, KeptEquation
<1>11. f[1 .. 0] \in S
  <2>1. 1 .. 0 = {} /\ {} \in SUBSET DOMAIN batch
    OBVIOUS
  <2> QED BY <1>3, <1>9, <2>1 DEF KeptEquation
<1>12. ASSUME NEW k \in 1 .. n, f[1 .. (k - 1)] \in S PROVE f[1 .. k] \in S
  <2>1. Max(1 .. k) = k /\ (1 .. k) \ {k} = 1 .. (k - 1) /\ 1 .. k # {}
    BY Prefix
  <2>2. 1 .. k \in SUBSET DOMAIN batch
    BY <1>1
  <2>3. f[1 .. k] = IF IsCurrent(batch[k]) THEN Append(f[1 .. (k - 1)], Adapted(batch[k]))
                                           ELSE f[1 .. (k - 1)]
    BY <1>9, <2>1, <2>2 DEF KeptEquation
  <2> QED BY <1>2, <1>12, <2>3
<1>13. f[1 .. n] \in S
  <2>1. \A k \in 0 .. n : f[1 .. k] \in S
    <3> HIDE DEF S
    <3> QED BY <1>11, <1>12, FoldIn
  <2> QED BY <2>1
<1> QED BY <1>1, <1>10, <1>13

-----------------------------------------------------------------------------
(* The books of a run *)

LEMMA TradeResults ==
    ASSUME NEW t \in ClosedTrade
    PROVE  NetPnl(t) \in Int
BY DEF ClosedTrade, NetPnl

LEMMA ResultTypes ==
    ASSUME NEW trades \in Seq(ClosedTrade)
    PROVE  /\ DOMAIN trades = 1 .. Len(trades) /\ Len(trades) \in Nat
           /\ IsFiniteSet(DOMAIN trades) /\ Results(trades) \in [DOMAIN trades -> Int]
           /\ \A i \in DOMAIN trades : Results(trades)[i] = NetPnl(trades[i])
<1>1. \A i \in DOMAIN trades : trades[i] \in ClosedTrade
  OBVIOUS
<1>2. \A i \in DOMAIN trades : NetPnl(trades[i]) \in Int
  BY <1>1, TradeResults
<1>3. DOMAIN trades = 1 .. Len(trades) /\ Len(trades) \in Nat
  OBVIOUS
<1>4. IsFiniteSet(DOMAIN trades)
  BY <1>3, FS_Interval
<1> QED BY <1>2, <1>3, <1>4 DEF Results

\* Every trade adds its result.
LEMMA RealizedTypes ==
    ASSUME NEW trades \in Seq(ClosedTrade)
    PROVE  /\ Realized(trades) \in Int /\ Realized(<<>>) = 0
           /\ \A t \in ClosedTrade : Realized(Append(trades, t)) = Realized(trades) + NetPnl(t)
<1>1. Realized(trades) \in Int
  BY ResultTypes, Sums DEF Realized
<1>2. Realized(<<>>) = 0
  <2>1. <<>> \in Seq(ClosedTrade) /\ DOMAIN <<>> = {}
    OBVIOUS
  <2>2. IsFiniteSet({}) /\ Results(<<>>) \in [{} -> Int]
    BY <2>1, ResultTypes
  <2> QED BY <2>2, Sums DEF Realized
<1>3. ASSUME NEW t \in ClosedTrade
      PROVE  Realized(Append(trades, t)) = Realized(trades) + NetPnl(t)
  <2>1. PICK n, more : n = Len(trades) /\ more = Append(trades, t)
    OBVIOUS
  <2>9. n \in Nat
    BY <2>1
  <2>2. /\ more \in Seq(ClosedTrade) /\ DOMAIN more = 1 .. (n + 1) /\ DOMAIN trades = 1 .. n
        /\ more[n + 1] = t /\ \A i \in 1 .. n : more[i] = trades[i]
    BY <2>1, <2>9
  <2>3. PICK f, g : f = Results(more) /\ g = Results(trades)
    OBVIOUS
  <2>4. f \in [1 .. (n + 1) -> Int] /\ g \in [1 .. n -> Int]
    BY <2>2, <2>3, ResultTypes
  <2>5. f[n + 1] = NetPnl(t)
    BY <2>2, <2>3, <2>9, ResultTypes
  <2>6. \A i \in 1 .. n : f[i] = g[i]
    <3>1. \A i \in 1 .. n : i \in DOMAIN more /\ i \in DOMAIN trades
      BY <2>2, <2>9
    <3> QED BY <2>2, <2>3, <3>1, ResultTypes
  <2>7. Part(f, 1 .. n) = g
    BY <2>4, <2>6 DEF Part
  <2>8. SumFunction(f) = SumFunction(g) + f[n + 1]
    BY <2>4, <2>7, <2>9, SumAppend
  <2> QED BY <2>1, <2>3, <2>5, <2>8 DEF Realized
<1> QED BY <1>1, <1>2, <1>3

Marks == [s \in DOMAIN positions |-> Pnl(positions[s], LastClose(s))]

LEMMA LastCloseTypes ==
    ASSUME TypeOK, NEW s \in DOMAIN positions
    PROVE  /\ LastClose(s) \in Int
           /\ s \in DOMAIN bar_counts /\ bar_counts[s] > 0 => LastClose(s) \in Nat
<1>1. positions[s].entry_price \in Int
  BY DEF TypeOK, BookOK, OpenPosition
<1>2. CASE s \in DOMAIN bar_counts /\ bar_counts[s] > 0
  <2>1. s \in DOMAIN candles /\ bar_counts[s] \in Nat /\ bar_counts[s] <= Len(candles[s])
    BY <1>2 DEF TypeOK
  <2>2. candles[s] \in Seq(Candle)
    BY <2>1 DEF TypeOK, GoodCandles
  <2>3. candles[s][bar_counts[s]] \in Candle
    BY <1>2, <2>1, <2>2
  <2>4. candles[s][bar_counts[s]].close \in Nat
    BY <2>3, PriceTypes DEF Candle
  <2> QED BY <1>2, <2>4 DEF LastClose
<1>3. CASE ~(s \in DOMAIN bar_counts /\ bar_counts[s] > 0)
  BY <1>1, <1>3 DEF LastClose
<1> QED BY <1>2, <1>3

\* What the positions cost and what they are marked at can be summed up.
LEMMA BookSums ==
    ASSUME TypeOK
    PROVE  /\ IsFiniteSet(DOMAIN positions)
           /\ Costs \in [DOMAIN positions -> Int] /\ Marks \in [DOMAIN positions -> Int]
           /\ Marked = Initial + Realized(completed_trades) + SumFunction(Marks)
           /\ Realized(completed_trades) \in Int /\ Initial \in Int /\ Marked \in Int
           /\ SumFunction(Costs) \in Int /\ SumFunction(Marks) \in Int
           /\ DOMAIN positions = {} => SumFunction(Costs) = 0 /\ SumFunction(Marks) = 0
<1>1. IsFiniteSet(DOMAIN positions)
  BY SymbolsFinite, FS_Subset DEF TypeOK, BookOK
<1>2. \A s \in DOMAIN positions : positions[s] \in OpenPosition
  BY DEF TypeOK, BookOK
<1>3. Costs \in [DOMAIN positions -> Int]
  <2>1. \A s \in DOMAIN positions : Cost(positions[s]) \in Int
    BY <1>2, PnlIsWorthLessCost
  <2> QED BY <2>1 DEF Costs
<1>4. Marks \in [DOMAIN positions -> Int]
  <2>1. \A s \in DOMAIN positions : Pnl(positions[s], LastClose(s)) \in Int
    BY <1>2, LastCloseTypes, PnlIsWorthLessCost
  <2> QED BY <2>1 DEF Marks
<1>5. Realized(completed_trades) \in Int /\ Initial \in Int
  BY RealizedTypes, MoneyTypes DEF TypeOK
<1>6. Marked = Initial + Realized(completed_trades) + SumFunction(Marks)
  BY DEF Marked, Marks
<1>7. SumFunction(Costs) \in Int /\ SumFunction(Marks) \in Int
  BY <1>1, <1>3, <1>4, Sums
<1>8. DOMAIN positions = {} => SumFunction(Costs) = 0 /\ SumFunction(Marks) = 0
  BY <1>1, <1>3, <1>4, Sums
<1>9. Marked \in Int
  BY <1>5, <1>6, <1>7
<1> QED BY <1>1, <1>3, <1>4, <1>5, <1>6, <1>7, <1>8, <1>9

\* Closing a position leaves the others, and its trade.
LEMMA ClosingTypes ==
    ASSUME TypeOK, NEW s \in DOMAIN positions, NEW price \in Int, NEW ts \in Nat,
           CloseAt(s, price, ts)
    PROVE  /\ DOMAIN positions' = DOMAIN positions \ {s} /\ BookOK'
           /\ \A t \in DOMAIN positions' : positions'[t] = positions[t]
           /\ Trade(s, positions[s], price, ts) \in ClosedTrade
           /\ completed_trades' \in Seq(ClosedTrade) /\ bank' \in Int
<1>1. positions[s] \in OpenPosition /\ s \in Symbols
  BY DEF TypeOK, BookOK
<1>2. /\ Trade(s, positions[s], price, ts) \in ClosedTrade
      /\ Settled(price, positions[s].quantity, ExitSide(positions[s])) \in Int
  BY <1>1, ClosingBalances
<1>3. completed_trades' \in Seq(ClosedTrade) /\ bank' \in Int
  BY <1>2 DEF CloseAt, TypeOK
<1>4. /\ DOMAIN positions' = DOMAIN positions \ {s}
      /\ \A t \in DOMAIN positions' : positions'[t] = positions[t]
  BY DEF CloseAt, Restrict
<1>5. BookOK'
  BY <1>4 DEF TypeOK, BookOK
<1> QED BY <1>2, <1>3, <1>4, <1>5

\* The bank gains what the trade says and the position had cost.
LEMMA ClosingBooks ==
    ASSUME TypeOK, NEW s \in DOMAIN positions, NEW price \in Int, NEW ts \in Nat,
           CloseAt(s, price, ts), BankBooks
    PROVE  BankBooks'
<1>1. positions[s] \in OpenPosition /\ s \in Symbols
  BY DEF TypeOK, BookOK
<1>2. PICK trade, settled, cost, net :
         /\ trade = Trade(s, positions[s], price, ts) /\ cost = Cost(positions[s])
         /\ settled = Settled(price, positions[s].quantity, ExitSide(positions[s]))
         /\ net = NetPnl(trade)
  OBVIOUS
<1>3. /\ trade \in ClosedTrade /\ settled \in Int /\ net = settled - cost
      /\ cost \in Int
  BY <1>1, <1>2, ClosingBalances, PnlIsWorthLessCost
<1>4. completed_trades' = Append(completed_trades, trade) /\ bank' = bank + settled
  BY <1>2 DEF CloseAt
<1>5. Realized(completed_trades') = Realized(completed_trades) + net
  BY <1>2, <1>3, <1>4, RealizedTypes DEF TypeOK
<1>6. Costs' = [t \in DOMAIN positions \ {s} |-> Costs[t]]
  BY ClosingTypes DEF Costs
<1>7. Costs[s] = cost
  BY <1>2 DEF Costs
<1>8. SumFunction(Costs) = cost + SumFunction(Costs')
  <2>0. PICK D, f : D = DOMAIN positions /\ f = Costs
    OBVIOUS
  <2>1. SumFunction(f) = f[s] + SumFunction([t \in D \ {s} |-> f[t]])
    <3>1. IsFiniteSet(D) /\ f \in [D -> Int] /\ s \in D
      BY <2>0, BookSums
    <3>2. \A x \in D : SumFunction(f) = f[x] + SumFunction([t \in D \ {x} |-> f[t]])
      BY ONLY <3>1, Sums, Zenon
    <3> QED BY ONLY <3>1, <3>2, Zenon
  <2> QED BY <1>6, <1>7, <2>0, <2>1, Zenon
<1>9. PICK r, a, b : r = Realized(completed_trades) /\ a = SumFunction(Costs) /\ b = SumFunction(Costs')
  OBVIOUS
<1>10. SumFunction(Costs') \in Int
  <2>1. IsFiniteSet(DOMAIN positions \ {s})
    BY BookSums, FS_Subset
  <2>2. [t \in DOMAIN positions \ {s} |-> Costs[t]] \in [DOMAIN positions \ {s} -> Int]
    BY BookSums
  <2> QED BY <1>6, <2>1, <2>2, Sums
<1>11. /\ r \in Int /\ a \in Int /\ b \in Int /\ Initial \in Int /\ bank \in Int
       /\ a = cost + b /\ bank = Initial + r - a
  BY <1>8, <1>9, <1>10, BookSums DEF BankBooks, TypeOK
<1>12. Initial + (r + net) - b = bank + settled
  BY <1>3, <1>11
<1>13. bank' = Initial + Realized(completed_trades') - SumFunction(Costs')
  BY <1>4, <1>5, <1>9, <1>12
<1> QED BY <1>13 DEF BankBooks

\* A position that was not in the book.
Opened(s, position) ==
    /\ s \in Symbols /\ s \notin DOMAIN positions /\ position \in OpenPosition
    /\ Cardinality(DOMAIN positions) < MaxPositions
    /\ position.entry_time = Event.ts
    /\ positions' = [t \in DOMAIN positions \cup {s} |-> IF t # s THEN positions[t] ELSE position]
    /\ bank' = bank - Cost(position) /\ Cost(position) \in Int

LEMMA OpeningTypes ==
    ASSUME TypeOK, Placed, Open
    PROVE  \E s, position : Opened(s, position)
<1>1. next_event \in DOMAIN Timeline
  BY TimelineLength DEF TypeOK, Placed, Open
<1>2. Event.ts \in Nat
  BY <1>1, EventTypes DEF TypeOK, Event
<1>3. PICK signal : signal = signals[1]
  OBVIOUS
<1>4. signal \in Signals /\ CanOpen(signal)
  BY <1>3 DEF Open, TypeOK
<1>5. signal.price \in Prices /\ signal.symbol \in Symbols
  BY <1>4 DEF Signals
<1>6. PICK side, fill : side = Side(signal) /\ fill = Fill(signal.price, 1, side)
  OBVIOUS
<1>7. side \in {"buy", "sell"} /\ fill \in Int /\ fill > 0
  BY <1>4, <1>5, <1>6, FillTypes, PriceTypes DEF Side, CanOpen
<1>8. PICK quantity : quantity = AtLeast(1, (RiskNum * equity) \div (RiskDen * fill))
  OBVIOUS
<1>9. quantity \in Nat \ {0}
  <2>1. PICK x, y : x = RiskNum * equity /\ y = RiskDen * fill
    OBVIOUS
  <2>2. x \in Int /\ y \in Nat \ {0}
    <3>1. RiskNum \in Nat /\ RiskDen \in Nat \ {0} /\ equity \in Int
      BY MoneyAssumption DEF TypeOK
    <3>2. RiskDen * fill >= fill
      <4>1. 1 <= RiskDen /\ fill \in Nat
        BY <1>7, <3>1
      <4>2. fill * 1 <= fill * RiskDen
        BY <3>1, <4>1, Products
      <4>3. fill * 1 = fill /\ fill * RiskDen = RiskDen * fill
        BY <3>1, <4>1
      <4> QED BY <4>2, <4>3
    <3>3. RiskDen * fill \in Int /\ RiskNum * equity \in Int
      BY <1>7, <3>1
    <3> QED BY <1>7, <2>1, <3>2, <3>3
  <2>3. x \div y \in Int
    BY <2>2
  <2> QED BY <1>8, <2>1, <2>3 DEF AtLeast
<1>10. PICK position : position = [side |-> side, quantity |-> quantity,
                                   entry_price |-> Fill(signal.price, quantity, side),
                                   entry_time |-> Event.ts, commission |-> Commission(quantity)]
  OBVIOUS
<1>11. /\ position \in OpenPosition /\ Cost(position) \in Int
       /\ Settled(signal.price, quantity, side) = -Cost(position)
  BY <1>2, <1>5, <1>7, <1>9, <1>10, OpeningBalances
<1>12. /\ positions' = [t \in DOMAIN positions \cup {signal.symbol} |->
                           IF t # signal.symbol THEN positions[t] ELSE position]
       /\ bank' = bank + Settled(signal.price, quantity, side)
  BY <1>3, <1>6, <1>8, <1>10 DEF Open
<1>13. bank' = bank - Cost(position)
  BY <1>11, <1>12 DEF TypeOK
<1>14. position.entry_time = Event.ts
  BY <1>10
<1>15. signal.symbol \notin DOMAIN positions /\ Cardinality(DOMAIN positions) < MaxPositions
  BY <1>4 DEF CanOpen
<1> QED BY <1>5, <1>11, <1>12, <1>13, <1>14, <1>15 DEF Opened

LEMMA OpeningBooks ==
    ASSUME TypeOK, NEW s, NEW position, Opened(s, position),
           completed_trades' = completed_trades, BankBooks
    PROVE  BankBooks'
<1>1. PICK D, cost : D = DOMAIN positions \cup {s} /\ cost = Cost(position)
  OBVIOUS
<1>2. DOMAIN positions' = D /\ IsFiniteSet(D) /\ D \ {s} = DOMAIN positions /\ s \in D
  <2>1. DOMAIN positions' = D /\ s \notin DOMAIN positions
    BY <1>1 DEF Opened
  <2>2. IsFiniteSet(DOMAIN positions)
    BY BookSums
  <2>3. IsFiniteSet(D)
    BY ONLY <1>1, <2>2, FS_AddElement
  <2> QED BY ONLY <1>1, <2>1, <2>3
<1>3. cost \in Int /\ bank' = bank - cost
  BY <1>1 DEF Opened
<1>4. /\ Costs' \in [D -> Int] /\ Costs'[s] = cost
      /\ [t \in DOMAIN positions |-> Costs'[t]] = Costs
  <2>1. Costs' = [t \in D |-> IF t = s THEN cost ELSE Costs[t]]
    BY <1>1, <1>2 DEF Opened, Costs
  <2> QED BY <1>2, <1>3, <2>1, BookSums
<1>5. SumFunction(Costs') = cost + SumFunction(Costs)
  BY <1>2, <1>4, Sums
<1>6. PICK r, a, b : r = Realized(completed_trades) /\ a = SumFunction(Costs) /\ b = SumFunction(Costs')
  OBVIOUS
<1>7. r \in Int /\ a \in Int /\ Initial \in Int /\ bank \in Int /\ b = cost + a /\ bank = Initial + r - a
  BY <1>5, <1>6, BookSums DEF BankBooks, TypeOK
<1>8. bank' = Initial + r - b
  BY <1>3, <1>7
<1>9. bank' = Initial + Realized(completed_trades') - SumFunction(Costs')
  BY <1>6, <1>8
<1> QED BY <1>9 DEF BankBooks

-----------------------------------------------------------------------------
(* Type correctness *)

\* The candles a run may start with.
LEMMA Starts ==
    ASSUME TypeOK, StartRun \/ StartFold
    PROVE  \E bars : GoodCandles(bars) /\ DOMAIN bars = DOMAIN input.candles /\ FreshRun(bars)
<1>1. CASE StartRun
  BY <1>1, InputTypes DEF StartRun, TypeOK
<1>2. CASE StartFold
  <2>1. input.n_splits # 0 /\ fold + 1 \in Nat \ {0} /\ FreshRun(FoldBars(fold + 1))
    BY <1>2, InputTypes DEF StartFold, TypeOK
  <2>2. PICK k : k = fold + 1
    OBVIOUS
  <2>3. GoodCandles(FoldBars(k)) /\ DOMAIN FoldBars(k) = DOMAIN input.candles
    BY <2>1, <2>2, FoldTypes DEF TypeOK
  <2> QED BY <2>1, <2>2, <2>3
<1> QED BY <1>1, <1>2

LEMMA TypesInit ==
    Init => TypeOK /\ Placed
<1> SUFFICES ASSUME Init PROVE TypeOK /\ Placed
  OBVIOUS
<1>1. input \in Inputs /\ GoodCandles(candles) /\ candles = input.candles
  BY InputTypes DEF Init
<1>2. Len(Timeline) \in Nat
  BY <1>1, TimelineLength
<1>3. next_event \in 1 .. (Len(Timeline) + 1)
  BY <1>2 DEF Init
<1>4. /\ bar_counts \in [DOMAIN candles -> Nat]
      /\ \A s \in DOMAIN candles : bar_counts[s] <= Len(candles[s])
  <2>1. \A s \in DOMAIN candles : Len(candles[s]) \in Nat
    BY <1>1 DEF GoodCandles
  <2> QED BY <2>1 DEF Init
<1>5. /\ pc = "call" /\ fold = 0 /\ signals = <<>> /\ DOMAIN positions = {}
      /\ completed_trades = <<>> /\ all_trades = <<>> /\ equity = Initial
      /\ equity_history = <<Initial>> /\ prev_ts = NoTime /\ bank = Initial
      /\ all_equity = <<[fold |-> 0, equity |-> Initial]>>
  BY DEF Init
<1>6. Initial \in Int /\ 0 \in Nat
  BY MoneyTypes
<1>7. BookOK
  BY <1>5 DEF BookOK
<1>8. equity_history \in Seq(Int) /\ equity_history # <<>>
  BY <1>5, <1>6
<1>9. all_equity \in Seq([fold : Nat, equity : Int])
  BY <1>5, <1>6
<1> QED BY <1>1, <1>3, <1>4, <1>5, <1>6, <1>7, <1>8, <1>9 DEF TypeOK, Placed

LEMMA TypesStart ==
    ASSUME TypeOK, Placed, StartRun \/ StartFold
    PROVE  TypeOK' /\ Placed'
<1>1. PICK bars : GoodCandles(bars) /\ DOMAIN bars = DOMAIN input.candles /\ FreshRun(bars)
  BY Starts
<1>2. /\ fold' \in Nat
      /\ UNCHANGED <<input, all_trades, all_equity, result, sim>>
  BY DEF StartRun, StartFold, TypeOK
<1>3. IsTape(bars, Sorted(Bars(bars))) /\ candles' = bars /\ Timeline' = Sorted(Bars(bars))
  BY <1>1, SortedIsTape DEF FreshRun, Timeline
<1>4. Len(Timeline') \in Nat
  BY <1>3 DEF IsTape
<1>5. next_event' \in 1 .. (Len(Timeline') + 1)
  BY <1>1, <1>4 DEF FreshRun
<1>6. /\ bar_counts' \in [DOMAIN candles' -> Nat]
      /\ \A s \in DOMAIN candles' : bar_counts'[s] <= Len(candles'[s])
  <2>1. \A s \in DOMAIN bars : Len(bars[s]) \in Nat
    BY <1>1 DEF GoodCandles
  <2> QED BY <1>1, <2>1 DEF FreshRun
<1>7. /\ pc' = "bar" /\ signals' = <<>> /\ DOMAIN positions' = {}
      /\ completed_trades' = <<>> /\ equity' = Initial
      /\ equity_history' = <<Initial>> /\ prev_ts' = NoTime /\ bank' = Initial
  BY <1>1 DEF FreshRun
<1>8. Initial \in Int
  BY MoneyTypes
<1>9. BookOK'
  BY <1>7 DEF BookOK
<1>10. GoodCandles(candles')
  BY <1>1, <1>3
<1>11. equity_history' \in Seq(Int) /\ equity_history' # <<>>
  BY <1>7, <1>8
<1> QED BY <1>2, <1>5, <1>6, <1>7, <1>8, <1>9, <1>10, <1>11 DEF TypeOK, Placed

LEMMA TypesNextBar ==
    ASSUME TypeOK, Placed, NextBar
    PROVE  TypeOK' /\ Placed'
<1>1. next_event \in DOMAIN Timeline
  BY TimelineLength DEF TypeOK, NextBar
<1>2. /\ Event.symbol \in DOMAIN candles /\ Event.index \in Nat
      /\ Event.index <= Len(candles[Event.symbol])
  BY <1>1, EventTypes DEF TypeOK, Event
<1>3. bar_counts' = [bar_counts EXCEPT ![Event.symbol] = Event.index]
  BY DEF NextBar
<1>4. /\ bar_counts' \in [DOMAIN candles -> Nat]
      /\ \A s \in DOMAIN candles : bar_counts'[s] <= Len(candles[s])
  BY <1>2, <1>3 DEF TypeOK
<1>5. signals' \in Seq(Signals)
  <2>1. PICK batch \in input.batches : signals' = Kept(batch)
    BY DEF NextBar
  <2>2. batch \in Seq(RawSignals \cup Signals)
    BY InputTypes DEF TypeOK
  <2> QED BY <1>1, <2>1, <2>2, KeptTypes DEF TypeOK
<1>6. /\ pc' = "signals" /\ next_event <= Len(Timeline)
      /\ UNCHANGED <<input, fold, candles, next_event, positions, completed_trades, equity,
                     equity_history, prev_ts, bank, all_trades, all_equity, result, sim>>
  BY DEF NextBar
<1>7. Timeline' = Timeline
  BY <1>6 DEF Timeline
<1>8. BookOK'
  BY <1>6 DEF TypeOK, BookOK
<1> QED BY <1>4, <1>5, <1>6, <1>7, <1>8 DEF TypeOK, Placed

LEMMA TypesClose ==
    ASSUME TypeOK, Placed, Close
    PROVE  TypeOK' /\ Placed'
<1>1. next_event \in DOMAIN Timeline
  BY TimelineLength DEF TypeOK, Placed, Close
<1>2. Event.ts \in Nat
  BY <1>1, EventTypes DEF TypeOK, Event
<1>3. PICK s, price : s = signals[1].symbol /\ price = signals[1].price
  OBVIOUS
<1>4. signals[1] \in Signals
  BY DEF TypeOK, Close
<1>5. s \in DOMAIN positions /\ price \in Int /\ CloseAt(s, price, Event.ts)
  BY <1>3, <1>4, PriceTypes DEF Close, Signals
<1>6. /\ DOMAIN positions' = DOMAIN positions \ {s} /\ BookOK'
      /\ completed_trades' \in Seq(ClosedTrade) /\ bank' \in Int
  BY <1>2, <1>5, ClosingTypes
<1>7. signals' \in Seq(Signals)
  BY DEF TypeOK, Close
<1>8. /\ UNCHANGED <<pc, input, fold, candles, next_event, bar_counts, equity,
                     equity_history, prev_ts, all_trades, all_equity, result, sim>>
      /\ pc = "signals"
  BY DEF Close
<1>9. Timeline' = Timeline
  BY <1>8 DEF Timeline
<1> QED BY <1>6, <1>7, <1>8, <1>9 DEF TypeOK, Placed

LEMMA TypesOpen ==
    ASSUME TypeOK, Placed, Open
    PROVE  TypeOK' /\ Placed'
<1>1. PICK s, position : Opened(s, position)
  BY OpeningTypes
<1>2. BookOK' /\ bank' \in Int
  BY <1>1 DEF Opened, TypeOK, BookOK
<1>3. signals' \in Seq(Signals)
  BY DEF TypeOK, Open
<1>4. /\ UNCHANGED <<pc, input, fold, candles, next_event, bar_counts, completed_trades,
                     equity, equity_history, prev_ts, all_trades, all_equity, result, sim>>
      /\ pc = "signals"
  BY DEF Open
<1>5. Timeline' = Timeline
  BY <1>4 DEF Timeline
<1> QED BY <1>2, <1>3, <1>4, <1>5 DEF TypeOK, Placed

LEMMA TypesIgnoreSignal ==
    ASSUME TypeOK, Placed, IgnoreSignal
    PROVE  TypeOK' /\ Placed'
<1>1. signals' \in Seq(Signals)
  BY DEF TypeOK, IgnoreSignal
<1>2. /\ UNCHANGED <<pc, input, fold, candles, next_event, bar_counts, positions,
                     completed_trades, equity, equity_history, prev_ts, bank, all_trades,
                     all_equity, result, sim>>
      /\ pc = "signals"
  BY DEF IgnoreSignal
<1>3. Timeline' = Timeline /\ BookOK'
  BY <1>2 DEF Timeline, TypeOK, BookOK
<1> QED BY <1>1, <1>2, <1>3 DEF TypeOK, Placed

LEMMA TypesMarkToMarket ==
    ASSUME TypeOK, Placed, MarkToMarket
    PROVE  TypeOK' /\ Placed'
<1>1. next_event \in DOMAIN Timeline /\ Len(Timeline) \in Nat /\ next_event <= Len(Timeline)
  BY TimelineLength DEF TypeOK, Placed, MarkToMarket
<1>2. Event.ts \in Nat
  BY <1>1, EventTypes DEF TypeOK, Event
<1>3. equity' \in Int
  BY BookSums DEF MarkToMarket
<1>4. equity_history' \in Seq(Int) /\ equity_history' # <<>>
  <2>1. equity_history \in Seq(Int) /\ equity_history # <<>>
    BY DEF TypeOK
  <2>2. PICK now : now = equity'
    OBVIOUS
  <2>3. equity_history' \in {Append(equity_history, now), equity_history}
    BY <2>2 DEF MarkToMarket
  <2>4. Append(equity_history, now) \in Seq(Int) /\ Append(equity_history, now) # <<>>
    BY <1>3, <2>1, <2>2
  <2> QED BY <2>1, <2>3, <2>4
<1>5. /\ UNCHANGED <<input, fold, candles, bar_counts, signals, positions,
                     completed_trades, bank, all_trades, all_equity, result, sim>>
      /\ pc' = "bar" /\ prev_ts' = Event.ts /\ next_event' = next_event + 1
  BY DEF MarkToMarket
<1>6. Timeline' = Timeline /\ BookOK'
  BY <1>5 DEF Timeline, TypeOK, BookOK
<1>7. next_event' \in 1 .. (Len(Timeline') + 1) /\ next_event' > 1
  BY <1>1, <1>5, <1>6 DEF TypeOK
<1> QED BY <1>2, <1>3, <1>4, <1>5, <1>6, <1>7 DEF TypeOK, Placed

\* The liquidation has a last event to happen at.
LEMMA Liquidations ==
    ASSUME TypeOK, Placed, CloseRemaining
    PROVE  \E s \in DOMAIN positions :
              /\ Len(Timeline) \in DOMAIN Timeline /\ next_event = Len(Timeline) + 1
              /\ CloseAt(s, LastClose(s), Timeline[Len(Timeline)].ts)
              /\ LastClose(s) \in Int /\ Timeline[Len(Timeline)].ts \in Nat
<1>1. PICK s \in DOMAIN positions : CloseAt(s, LastClose(s), Timeline[Len(Timeline)].ts)
  BY DEF CloseRemaining
<1>2. next_event > 1 /\ next_event \in 1 .. (Len(Timeline) + 1) /\ next_event > Len(Timeline)
  BY DEF CloseRemaining, TypeOK, Placed
<1>3. Len(Timeline) \in Nat /\ DOMAIN Timeline = 1 .. Len(Timeline)
  BY TimelineLength DEF TypeOK
<1>4. Len(Timeline) \in DOMAIN Timeline /\ next_event = Len(Timeline) + 1
  BY <1>2, <1>3
<1>5. Timeline[Len(Timeline)].ts \in Nat
  BY <1>4, EventTypes DEF TypeOK
<1>6. LastClose(s) \in Int
  BY LastCloseTypes
<1> QED BY <1>1, <1>4, <1>5, <1>6

LEMMA TypesCloseRemaining ==
    ASSUME TypeOK, Placed, CloseRemaining
    PROVE  TypeOK' /\ Placed'
<1>1. PICK s \in DOMAIN positions :
         /\ Len(Timeline) \in DOMAIN Timeline /\ next_event = Len(Timeline) + 1
         /\ CloseAt(s, LastClose(s), Timeline[Len(Timeline)].ts)
         /\ LastClose(s) \in Int /\ Timeline[Len(Timeline)].ts \in Nat
  BY Liquidations
<1>2. /\ DOMAIN positions' = DOMAIN positions \ {s} /\ BookOK'
      /\ completed_trades' \in Seq(ClosedTrade) /\ bank' \in Int
  BY <1>1, ClosingTypes
<1>3. /\ UNCHANGED <<pc, input, fold, candles, next_event, bar_counts, signals, equity,
                     equity_history, prev_ts, all_trades, all_equity, result, sim>>
      /\ pc = "bar"
  BY DEF CloseRemaining
<1>4. Timeline' = Timeline
  BY <1>3 DEF Timeline
<1> QED BY <1>2, <1>3, <1>4 DEF TypeOK, Placed

LEMMA TypesEndRun ==
    ASSUME TypeOK, Placed, EndRun
    PROVE  TypeOK' /\ Placed'
<1>1. /\ UNCHANGED <<input, fold, candles, next_event, bar_counts, signals, positions,
                     completed_trades, equity, equity_history, prev_ts, bank, sim>>
      /\ pc' = "call" /\ DOMAIN positions = {}
  BY DEF EndRun, run
<1>2. Timeline' = Timeline /\ BookOK'
  BY <1>1 DEF Timeline, TypeOK, BookOK
<1>3. all_trades' \in Seq(ClosedTrade)
  BY DEF EndRun, TypeOK
<1>4. all_equity' \in Seq([fold : Nat, equity : Int])
  <2>1. PICK points : points = [i \in 1 .. (Len(equity_history) - 1) |->
                                   [fold |-> fold, equity |-> equity_history[i + 1]]]
    OBVIOUS
  <2>2. Len(equity_history) \in Nat /\ fold \in Nat
    BY DEF TypeOK
  <2>3. PICK n : n = Len(equity_history) - 1
    OBVIOUS
  <2>4. n \in Nat /\ \A i \in 1 .. n : equity_history[i + 1] \in Int
    BY <2>2, <2>3 DEF TypeOK
  <2>5. points \in [1 .. n -> [fold : Nat, equity : Int]]
    BY <2>1, <2>2, <2>3, <2>4
  <2>6. points \in Seq([fold : Nat, equity : Int])
    <3> DEFINE S == [fold : Nat, equity : Int]
    <3>1. n \in Nat /\ points \in [1 .. n -> S]
      BY <2>4, <2>5
    <3> HIDE DEF S
    <3>2. points \in Seq(S)
      BY <3>1
    <3> QED BY <3>2 DEF S
  <2> QED BY <2>1, <2>6 DEF EndRun, TypeOK
<1> QED BY <1>1, <1>2, <1>3, <1>4 DEF TypeOK, Placed

LEMMA TypesElsewhere ==
    ASSUME TypeOK, Placed, SkipFold \/ MonteCarlo \/ UNCHANGED vars
    PROVE  TypeOK' /\ Placed'
<1>1. /\ UNCHANGED <<input, candles, next_event, bar_counts, signals, positions,
                     completed_trades, equity, equity_history, prev_ts, bank, all_trades,
                     all_equity>>
      /\ fold' \in Nat
      /\ \/ pc' = pc
         \/ pc = "call" /\ pc' = "simulated"
  BY DEF SkipFold, MonteCarlo, Finished, run, vars, TypeOK
<1>2. Timeline' = Timeline /\ BookOK'
  BY <1>1 DEF Timeline, TypeOK, BookOK
<1> QED BY <1>1, <1>2 DEF TypeOK, Placed

LEMMA TypesStep ==
    TypeOK /\ Placed /\ [Next]_vars => TypeOK' /\ Placed'
BY TypesStart, TypesNextBar, TypesClose, TypesOpen, TypesIgnoreSignal, TypesMarkToMarket,
   TypesCloseRemaining, TypesEndRun, TypesElsewhere DEF Next

\* The variables of a run, of a walk-forward and of the bank have their types.
THEOREM TypeCorrect ==
    Spec => [](TypeOK /\ Placed)
<1>1. Init => TypeOK /\ Placed
  BY TypesInit
<1>2. TypeOK /\ Placed /\ [Next]_vars => TypeOK' /\ Placed'
  BY TypesStep
<1> QED BY <1>1, <1>2, PTL DEF Spec

-----------------------------------------------------------------------------
(* The count of the bars, and the closes on the tape *)

LEMMA CountsStay ==
    ASSUME CountsFollowTape,
           UNCHANGED <<candles, bar_counts>>, Seen' = Seen
    PROVE  CountsFollowTape'
BY DEF CountsFollowTape, Taken, Timeline


LEMMA CountsNextBar ==
    ASSUME TypeOK, CountsFollowTape, NextBar
    PROVE  CountsFollowTape'
<1>1. next_event \in DOMAIN Timeline /\ next_event \in Nat \ {0}
  BY TimelineLength DEF TypeOK, NextBar
<1>2. PICK n, e : n = next_event /\ e = Timeline[n]
  OBVIOUS
<1>3. e.symbol \in DOMAIN candles /\ n \in Nat \ {0}
  BY <1>1, <1>2, EventTypes DEF TypeOK
<1>4. /\ UNCHANGED <<candles, next_event>> /\ pc = "bar" /\ pc' = "signals"
      /\ bar_counts' = [bar_counts EXCEPT ![e.symbol] = e.index]
  BY <1>2 DEF NextBar, Event
<1>5. Seen = n - 1 /\ Seen' = n /\ Timeline' = Timeline
  BY <1>2, <1>4 DEF Seen, Timeline
<1>6. ASSUME NEW s \in DOMAIN candles
      PROVE  /\ Taken(s, n) = {} => bar_counts'[s] = 0
             /\ Taken(s, n) # {} => bar_counts'[s] = Timeline[Max(Taken(s, n))].index
  <2>1. CASE s = e.symbol
    <3>1. n \in Taken(s, n) /\ Taken(s, n) \in SUBSET (1 .. n)
      BY <1>2, <1>3, <2>1 DEF Taken
    <3>2. PICK m : m = Max(Taken(s, n))
      OBVIOUS
    <3>3. m \in 1 .. n /\ m >= n
      BY <1>3, <3>1, <3>2, Greatest
    <3>4. m = n
      BY <1>3, <3>3
    <3>5. bar_counts'[s] = e.index
      BY <1>3, <1>4, <2>1 DEF TypeOK
    <3> QED BY <1>2, <3>1, <3>2, <3>4, <3>5
  <2>2. CASE s # e.symbol
    <3>1. Taken(s, n) = Taken(s, n - 1)
      <4>1. 1 .. n = (1 .. (n - 1)) \cup {n}
        BY <1>3
      <4> QED BY <1>2, <2>2, <4>1 DEF Taken
    <3>2. bar_counts'[s] = bar_counts[s]
      BY <1>4, <2>2 DEF TypeOK
    <3> QED BY <1>5, <3>1, <3>2 DEF CountsFollowTape
  <2> QED BY <2>1, <2>2
<1> QED BY <1>4, <1>5, <1>6 DEF CountsFollowTape, Taken

LEMMA CountsStep ==
    ASSUME TypeOK, Placed, CountsFollowTape, [Next]_vars
    PROVE  CountsFollowTape'
<1>1. CASE StartRun \/ StartFold
  <2>1. PICK bars : FreshRun(bars)
    BY <1>1, Starts
  <2>2. Seen' = 0
    BY <2>1 DEF FreshRun, Seen
  <2>3. \A s \in DOMAIN candles' : bar_counts'[s] = 0
    BY <2>1 DEF FreshRun
  <2>4. \A s : Taken(s, 0)' = {}
    BY DEF Taken
  <2>5. 1 .. 0 = {}
    OBVIOUS
  <2> QED BY <2>2, <2>3, <2>5 DEF CountsFollowTape, Taken
<1>2. CASE NextBar
  BY <1>2, CountsNextBar
<1>3. CASE Close \/ Open \/ IgnoreSignal \/ CloseRemaining
  <2>1. UNCHANGED <<candles, bar_counts, next_event, pc>>
    BY <1>3 DEF Close, Open, IgnoreSignal, CloseRemaining
  <2> QED BY <2>1, CountsStay DEF Seen
<1>4. CASE MarkToMarket
  <2>1. /\ UNCHANGED <<candles, bar_counts>> /\ pc = "signals" /\ pc' = "bar"
        /\ next_event' = next_event + 1 /\ next_event \in Nat
    BY <1>4 DEF MarkToMarket, TypeOK
  <2>2. Seen' = Seen
    BY <2>1 DEF Seen
  <2> QED BY <2>1, <2>2, CountsStay
<1>5. CASE SkipFold \/ EndRun \/ MonteCarlo \/ UNCHANGED vars
  <2>1. UNCHANGED <<candles, bar_counts, next_event>> /\ (pc = "signals" <=> pc' = "signals")
    BY <1>5 DEF SkipFold, EndRun, MonteCarlo, Finished, run, vars
  <2>2. Seen' = Seen
    BY <2>1 DEF Seen
  <2> QED BY <2>1, <2>2, CountsStay
<1> QED BY <1>1, <1>2, <1>3, <1>4, <1>5 DEF Next

\* Between two events, the last close is the one on the tape.
LEMMA TapeCloses ==
    ASSUME TypeOK, CountsFollowTape, pc = "bar", NEW s \in DOMAIN positions
    PROVE  /\ CloseOnTheTape(s) = LastClose(s)
           /\ Taken(s, next_event - 1) # {} => LastClose(s) \in Nat
<1>1. PICK n \in Nat : n = next_event - 1 /\ Seen = n
  BY DEF TypeOK, Seen
<1>2. 1 .. n \subseteq DOMAIN Timeline
  BY <1>1, TimelineLength DEF TypeOK
<1>3. PICK taken : taken = Taken(s, n)
  OBVIOUS
<1>4. CloseOnTheTape(s) = IF taken = {} THEN positions[s].entry_price
                          ELSE candles[s][Timeline[Max(taken)].index].close
  BY <1>1, <1>3 DEF CloseOnTheTape, Taken
<1>5. CASE taken = {}
  <2>1. s \in DOMAIN bar_counts => bar_counts[s] = 0
    BY <1>1, <1>3, <1>5 DEF CountsFollowTape, TypeOK
  <2>2. LastClose(s) = positions[s].entry_price
    BY <2>1 DEF LastClose
  <2> QED BY <1>1, <1>3, <1>4, <1>5, <2>2
<1>6. CASE taken # {}
  <2>1. PICK m : m = Max(taken)
    OBVIOUS
  <2>2. m \in taken
    <3>1. taken \in SUBSET (1 .. n)
      BY <1>3 DEF Taken
    <3> QED BY <1>6, <2>1, <3>1, Greatest
  <2>3. m \in DOMAIN Timeline /\ Timeline[m].symbol = s
    BY <1>2, <1>3, <2>2 DEF Taken
  <2>4. s \in DOMAIN candles /\ Timeline[m].index \in Nat \ {0}
    BY <2>3, EventTypes DEF TypeOK
  <2>5. bar_counts[s] = Timeline[m].index /\ s \in DOMAIN bar_counts
    BY <1>1, <1>3, <1>6, <2>1, <2>4 DEF CountsFollowTape, TypeOK
  <2>6. LastClose(s) = candles[s][Timeline[m].index].close
    BY <2>4, <2>5 DEF LastClose
  <2>7. LastClose(s) \in Nat
    BY <2>4, <2>5, LastCloseTypes
  <2> QED BY <1>4, <1>6, <2>1, <2>6, <2>7
<1> QED BY <1>5, <1>6

\* The bank's view of an open position is its cost and what it is marked at.
LEMMA BankValue ==
    ASSUME TypeOK, CountsFollowTape, BankBooks, pc = "bar"
    PROVE  BankEquity = Marked
<1> DEFINE value == [s \in DOMAIN positions |-> Shares(s) * CloseOnTheTape(s) + positions[s].commission]
<1>1. ASSUME NEW s \in DOMAIN positions PROVE value[s] = Marks[s] + Costs[s]
  <2>1. positions[s] \in OpenPosition
    BY DEF TypeOK, BookOK
  <2>2. PICK p, close : p = positions[s] /\ close = LastClose(s)
    OBVIOUS
  <2>3. close \in Int /\ CloseOnTheTape(s) = close
    BY <2>2, LastCloseTypes, TapeCloses
  <2>4. PICK x : x = (IF p.side = "buy" THEN p.quantity ELSE -p.quantity) * close
    OBVIOUS
  <2>5. x \in Int /\ p.commission \in Int
    BY <2>1, <2>2, <2>3, <2>4 DEF OpenPosition
  <2>6. Pnl(p, close) = x + p.commission - Cost(p) /\ Cost(p) \in Int
    BY <2>1, <2>2, <2>3, <2>4, PnlIsWorthLessCost
  <2>7. value[s] = x + p.commission
    BY <2>2, <2>3, <2>4 DEF Shares
  <2>8. Marks[s] = Pnl(p, close) /\ Costs[s] = Cost(p)
    BY <2>2 DEF Marks, Costs
  <2>9. x + p.commission - Cost(p) + Cost(p) = x + p.commission
    BY <2>5, <2>6
  <2> HIDE DEF value
  <2> QED BY <2>6, <2>7, <2>8, <2>9
<1>2. value = [s \in DOMAIN positions |-> Marks[s] + Costs[s]]
  BY <1>1
<1>3. PICK D, f, g : D = DOMAIN positions /\ f = Marks /\ g = Costs
  OBVIOUS
<1>4. IsFiniteSet(D) /\ f \in [D -> Int] /\ g \in [D -> Int]
  BY <1>3, BookSums
<1>5. SumFunction(value) = SumFunction(f) + SumFunction(g)
  <2>1. value = [s \in D |-> f[s] + g[s]]
    BY <1>2, <1>3
  <2> HIDE DEF value
  <2> QED BY <1>4, <2>1, SumPlus
<1>6. BankEquity = bank + SumFunction(value)
  BY DEF BankEquity
<1> HIDE DEF value
<1>7. PICK r, a, b : r = Realized(completed_trades) /\ a = SumFunction(f) /\ b = SumFunction(g)
  OBVIOUS
<1>8. /\ r \in Int /\ a \in Int /\ b \in Int /\ Initial \in Int
      /\ bank = Initial + r - b /\ Marked = Initial + r + a
  BY <1>3, <1>7, BookSums DEF BankBooks
<1>9. BankEquity = Initial + r - b + (a + b)
  BY <1>5, <1>6, <1>7, <1>8
<1> QED BY <1>8, <1>9

-----------------------------------------------------------------------------
(* Marking to the market *)

LEMMA BankStep ==
    ASSUME TypeOK, Placed, BankBooks, [Next]_vars
    PROVE  BankBooks'
<1>1. CASE StartRun \/ StartFold
  <2>1. PICK bars : FreshRun(bars)
    BY <1>1, Starts
  <2>2. bank' = Initial /\ completed_trades' = <<>> /\ DOMAIN positions' = {}
    BY <2>1 DEF FreshRun
  <2>3. Realized(completed_trades') = 0
    BY <2>2, RealizedTypes DEF TypeOK
  <2>4. SumFunction(Costs') = 0
    <3>1. PICK f : f = Costs'
      OBVIOUS
    <3>2. f \in [{} -> Int] /\ IsFiniteSet({})
      BY <2>2, <3>1, FS_EmptySet DEF Costs
    <3> QED BY <3>1, <3>2, Sums
  <2>5. Initial = Initial + 0 - 0
    BY MoneyTypes
  <2> QED BY <2>2, <2>3, <2>4, <2>5 DEF BankBooks
<1>2. CASE Close
  <2>1. next_event \in DOMAIN Timeline
    BY <1>2, TimelineLength DEF TypeOK, Placed, Close
  <2>2. Event.ts \in Nat
    BY <2>1, EventTypes DEF TypeOK, Event
  <2>3. signals[1] \in Signals
    BY <1>2 DEF TypeOK, Close
  <2>4. PICK s, price : s = signals[1].symbol /\ price = signals[1].price
    OBVIOUS
  <2>5. s \in DOMAIN positions /\ price \in Int /\ CloseAt(s, price, Event.ts)
    BY <1>2, <2>3, <2>4, PriceTypes DEF Close, Signals
  <2> QED BY <2>2, <2>5, ClosingBooks
<1>3. CASE Open
  <2>1. PICK s, position : Opened(s, position)
    BY <1>3, OpeningTypes
  <2>2. completed_trades' = completed_trades
    BY <1>3 DEF Open
  <2> QED BY <2>1, <2>2, OpeningBooks
<1>4. CASE CloseRemaining
  BY <1>4, Liquidations, ClosingBooks
<1>5. CASE NextBar \/ IgnoreSignal \/ MarkToMarket \/ SkipFold \/ EndRun \/ MonteCarlo \/ UNCHANGED vars
  <2>1. UNCHANGED <<bank, completed_trades, positions>>
    BY <1>5 DEF NextBar, IgnoreSignal, MarkToMarket, SkipFold, EndRun, MonteCarlo, run, vars
  <2> QED BY <2>1 DEF BankBooks, Costs
<1> QED BY <1>1, <1>2, <1>3, <1>4, <1>5 DEF Next

LEMMA OneSymbol ==
    ASSUME TypeOK, Cardinality(DOMAIN input.candles) = 1
    PROVE  \A s, t \in DOMAIN input.candles : s = t
<1>1. DOMAIN input.candles \subseteq Symbols
  BY InputTypes DEF TypeOK, GoodCandles
<1>2. IsFiniteSet(DOMAIN input.candles)
  BY <1>1, SymbolsFinite, FS_Subset
<1>3. \E x : DOMAIN input.candles = {x}
  BY <1>2, FS_Singleton
<1> QED BY <1>3

LEMMA MarkedStays ==
    ASSUME UNCHANGED <<completed_trades, positions, candles, bar_counts>>
    PROVE  Marked' = Marked
BY DEF Marked, LastClose

\* Liquidating costs: it does not raise what is marked, where there was a close.
LEMMA LiquidationCosts ==
    ASSUME TypeOK, Placed, CountsFollowTape, CloseRemaining
    PROVE  /\ Marked' \in Int /\ OpenAtEnd'
           /\ DOMAIN candles = DOMAIN input.candles /\ Alone' => Alone /\ Marked' <= Marked
<1>1. PICK s \in DOMAIN positions :
         /\ Len(Timeline) \in DOMAIN Timeline /\ next_event = Len(Timeline) + 1
         /\ CloseAt(s, LastClose(s), Timeline[Len(Timeline)].ts)
         /\ LastClose(s) \in Int /\ Timeline[Len(Timeline)].ts \in Nat
  BY Liquidations
<1>2. PICK price, ts, trade, net, mark :
         /\ price = LastClose(s) /\ ts = Timeline[Len(Timeline)].ts
         /\ trade = Trade(s, positions[s], price, ts)
         /\ net = NetPnl(trade) /\ mark = Pnl(positions[s], price)
  OBVIOUS
<1>3. positions[s] \in OpenPosition /\ s \in Symbols
  BY DEF TypeOK, BookOK
<1>4. /\ trade \in ClosedTrade /\ net \in Int /\ mark \in Int
      /\ price \in Nat => net <= mark
  BY <1>1, <1>2, <1>3, ClosingBalances, PnlIsWorthLessCost
<1>5. /\ DOMAIN positions' = DOMAIN positions \ {s}
      /\ \A t \in DOMAIN positions' : positions'[t] = positions[t]
  BY <1>1, ClosingTypes
<1>6. completed_trades' = Append(completed_trades, trade)
  BY <1>1, <1>2 DEF CloseAt
<1>7. UNCHANGED <<pc, input, candles, bar_counts>> /\ Timeline' = Timeline /\ pc = "bar"
  BY DEF CloseRemaining, Timeline
<1>8. Realized(completed_trades') = Realized(completed_trades) + net
  BY <1>2, <1>4, <1>6, RealizedTypes DEF TypeOK
<1>9. PICK D, f, g : D = DOMAIN positions /\ f = Marks /\ g = Marks'
  OBVIOUS
<1>10. f \in [D -> Int] /\ IsFiniteSet(D) /\ s \in D /\ f[s] = mark
  BY <1>2, <1>9, BookSums DEF Marks
<1>11. g = [t \in D \ {s} |-> f[t]]
  <2>1. \A t \in D \ {s} : LastClose(t)' = LastClose(t)
    BY <1>5, <1>7, <1>9 DEF LastClose
  <2>2. g = [t \in D \ {s} |-> Pnl(positions[t], LastClose(t))]
    BY <1>5, <1>9, <2>1 DEF Marks
  <2> QED BY <1>9, <2>2 DEF Marks
<1>12. SumFunction(f) = mark + SumFunction(g)
  <2>1. SumFunction(f) = f[s] + SumFunction([t \in D \ {s} |-> f[t]])
    <3>1. \A x \in D : SumFunction(f) = f[x] + SumFunction([t \in D \ {x} |-> f[t]])
      BY ONLY <1>10, Sums, Zenon
    <3> QED BY ONLY <1>10, <3>1, Zenon
  <2> QED BY ONLY <1>10, <1>11, <2>1, Zenon
<1>13. SumFunction(g) \in Int
  <2>1. g \in [D \ {s} -> Int] /\ IsFiniteSet(D \ {s})
    BY <1>10, <1>11, FS_Subset
  <2> QED BY <2>1, Sums
<1>14. PICK r, a, b : r = Realized(completed_trades) /\ a = SumFunction(f) /\ b = SumFunction(g)
  OBVIOUS
<1>15. /\ r \in Int /\ a \in Int /\ b \in Int /\ a = mark + b /\ Initial \in Int
       /\ Marked = Initial + r + a
  BY <1>9, <1>12, <1>13, <1>14, BookSums
<1>16. Marked' = Initial + (r + net) + b
  BY <1>8, <1>9, <1>14 DEF Marked, Marks
<1>17. Marked' \in Int /\ (net <= mark => Marked' <= Marked)
  BY <1>4, <1>15, <1>16
<1>18. PICK n : n = Len(completed_trades)
  OBVIOUS
<1>19. /\ n \in Nat /\ DOMAIN completed_trades' = 1 .. (n + 1)
       /\ completed_trades'[n + 1] = trade /\ DOMAIN completed_trades = 1 .. n
       /\ \A i \in DOMAIN completed_trades : completed_trades'[i] = completed_trades[i]
  BY <1>6, <1>18 DEF TypeOK
<1>20. n + 1 \in DOMAIN completed_trades'
  BY <1>19
<1>21. trade.exit_time = ts /\ trade.symbol = s
  BY <1>2 DEF Trade
<1>22. OpenAtEnd'
  BY <1>2, <1>7, <1>19, <1>20, <1>21 DEF OpenAtEnd
<1>23. ASSUME DOMAIN candles = DOMAIN input.candles, Alone' PROVE Alone /\ price \in Nat
  <2>1. s \in DOMAIN input.candles
    BY <1>7, <1>19, <1>20, <1>21, <1>23 DEF Alone
  <2>2. DOMAIN positions \subseteq DOMAIN input.candles
    BY <1>5, <1>7, <1>23, <2>1 DEF Alone
  <2>3. \A i \in DOMAIN completed_trades : completed_trades[i].symbol \in DOMAIN input.candles
    <3>1. \A i \in DOMAIN completed_trades : i \in DOMAIN completed_trades'
      BY <1>19
    <3> QED BY <1>7, <1>19, <1>23, <3>1 DEF Alone
  <2>4. Alone
    BY <1>7, <1>23, <2>2, <2>3 DEF Alone
  <2>5. PICK len : len = Len(Timeline)
    OBVIOUS
  <2>6. len \in Nat \ {0} /\ len \in DOMAIN Timeline /\ next_event - 1 = len
    BY <1>1, <2>5, TimelineLength DEF TypeOK
  <2>7. Timeline[len].symbol = s
    BY <1>23, <2>1, <2>4, <2>6, EventTypes, OneSymbol DEF TypeOK, Alone
  <2>8. Taken(s, next_event - 1) # {}
    BY <2>6, <2>7 DEF Taken
  <2> QED BY <1>2, <1>7, <2>4, <2>8, TapeCloses
<1> QED BY <1>4, <1>17, <1>22, <1>23

LEMMA EquityStep ==
    ASSUME TypeOK, Placed, CountsFollowTape, EquityIsMarked,
           DOMAIN candles = DOMAIN input.candles, [Next]_vars
    PROVE  EquityIsMarked'
<1>1. CASE StartRun \/ StartFold
  <2>1. PICK bars : FreshRun(bars)
    BY <1>1, Starts
  <2>2. equity' = Initial /\ completed_trades' = <<>> /\ DOMAIN positions' = {}
    BY <2>1 DEF FreshRun
  <2>3. Realized(completed_trades') = 0
    BY <2>2, RealizedTypes DEF TypeOK
  <2>4. SumFunction(Marks') = 0
    <3>1. PICK f : f = Marks'
      OBVIOUS
    <3>2. f \in [{} -> Int] /\ IsFiniteSet({})
      BY <2>2, <3>1, FS_EmptySet DEF Marks
    <3> QED BY <3>1, <3>2, Sums
  <2>5. Initial \in Int /\ Initial = Initial + 0 + 0
    BY MoneyTypes
  <2>6. Marked' = Initial
    BY <2>3, <2>4, <2>5 DEF Marked, Marks
  <2> QED BY <2>2, <2>5, <2>6 DEF EquityIsMarked
<1>2. CASE MarkToMarket
  <2>1. equity' = Marked /\ Marked \in Int
    BY <1>2, BookSums DEF MarkToMarket
  <2>2. Marked' = Marked
    BY <1>2, MarkedStays DEF MarkToMarket
  <2> QED BY <2>1, <2>2 DEF EquityIsMarked
<1>3. CASE CloseRemaining
  <2>1. /\ Marked' \in Int /\ OpenAtEnd' /\ (Alone' => Alone /\ Marked' <= Marked)
    BY <1>3, LiquidationCosts
  <2>2. equity' = equity /\ pc = "bar" /\ next_event' > Len(Timeline')
    BY <1>3 DEF CloseRemaining, Timeline
  <2>3. equity \in Int /\ Marked \in Int
    BY BookSums DEF TypeOK
  <2> QED BY <2>1, <2>2, <2>3 DEF EquityIsMarked
<1>4. CASE NextBar \/ Close \/ Open \/ IgnoreSignal \/ SkipFold \/ EndRun \/ MonteCarlo
  <2>1. pc' # "bar"
    BY <1>4 DEF NextBar, Close, Open, IgnoreSignal, SkipFold, EndRun, MonteCarlo
  <2> QED BY <2>1 DEF EquityIsMarked
<1>5. CASE UNCHANGED vars
  <2>1. UNCHANGED <<pc, input, candles, bar_counts, next_event, positions, completed_trades, equity>>
    BY <1>5 DEF vars, run
  <2>2. Marked' = Marked
    BY <2>1, MarkedStays
  <2> QED BY <2>1, <2>2 DEF EquityIsMarked, OpenAtEnd, Alone, Timeline
<1> QED BY <1>1, <1>2, <1>3, <1>4, <1>5 DEF Next

-----------------------------------------------------------------------------
(* The curve, and the result of a run *)

LEMMA CurveStep ==
    ASSUME TypeOK, Placed, CurveIsCurrent, [Next]_vars
    PROVE  CurveIsCurrent'
<1>1. CASE StartRun \/ StartFold
  <2>1. PICK bars : DOMAIN bars = DOMAIN input.candles /\ FreshRun(bars)
    BY <1>1, Starts
  <2>2. input' = input
    BY <1>1 DEF StartRun, StartFold
  <2>3. /\ DOMAIN candles' = DOMAIN input'.candles /\ next_event' = 1 /\ prev_ts' = NoTime
        /\ equity_history' = <<Initial>> /\ equity' = Initial
    BY <2>1, <2>2 DEF FreshRun
  <2>4. equity_history'[Len(equity_history')] = equity'
    BY <2>3
  <2> QED BY <2>3, <2>4 DEF CurveIsCurrent
<1>2. CASE MarkToMarket
  <2>1. PICK n \in DOMAIN Timeline : n = next_event
    BY <1>2, TimelineLength DEF TypeOK, Placed, MarkToMarket
  <2>2. /\ UNCHANGED <<input, candles>> /\ Timeline' = Timeline /\ pc = "signals"
        /\ next_event' = n + 1 /\ prev_ts' = Timeline[n].ts
        /\ equity_history' = IF Timeline[n].ts # prev_ts THEN Append(equity_history, equity')
                                                         ELSE equity_history
    BY <1>2, <2>1 DEF MarkToMarket, Event, Timeline
  <2>3. n \in Nat \ {0} /\ Timeline[n].ts \in Nat
    BY <2>1, EventTypes, TimelineLength DEF TypeOK
  <2>4. n + 1 # 1 /\ (n + 1) - 1 = n
    BY <2>3
  <2>5. ASSUME Cardinality(DOMAIN input.candles) = 1 PROVE Timeline[n].ts # prev_ts
    <3>1. CASE n = 1
      <4>1. prev_ts = -1
        BY <2>1, <2>2, <3>1 DEF CurveIsCurrent, NoTime
      <4> QED BY <2>3, <4>1
    <3>2. CASE n # 1
      <4>1. prev_ts = Timeline[n - 1].ts
        BY <2>1, <2>2, <3>2 DEF CurveIsCurrent
      <4>2. n - 1 \in DOMAIN Timeline /\ n - 1 < n
        BY <2>1, <2>3, <3>2, TimelineLength DEF TypeOK
      <4>3. Timeline[n - 1].symbol = Timeline[n].symbol
        BY <2>1, <2>5, <4>2, EventTypes, OneSymbol DEF TypeOK, CurveIsCurrent
      <4>4. Timeline[n - 1].ts < Timeline[n].ts /\ Timeline[n - 1].ts \in Nat
        BY <2>1, <4>2, <4>3, SortedIsTape, TapeInTime DEF Timeline, TypeOK
      <4> QED BY <2>3, <4>1, <4>4
    <3> QED BY <3>1, <3>2
  <2>6. ASSUME Cardinality(DOMAIN input.candles) = 1
        PROVE  equity_history'[Len(equity_history')] = equity'
    <3>1. PICK now, more : now = equity' /\ more = Append(equity_history, now)
      OBVIOUS
    <3>2. equity_history' = more
      BY <2>2, <2>5, <2>6, <3>1
    <3>3. now \in Int /\ equity_history \in Seq(Int)
      BY <1>2, <3>1, BookSums DEF MarkToMarket, TypeOK
    <3>4. more[Len(more)] = now
      BY <3>1, <3>3
    <3> QED BY <3>1, <3>2, <3>4
  <2> QED BY <2>2, <2>4, <2>6 DEF CurveIsCurrent
<1>3. CASE NextBar \/ Close \/ Open \/ IgnoreSignal \/ CloseRemaining
  <2>1. /\ UNCHANGED <<input, candles, next_event, prev_ts, equity_history, equity>>
        /\ pc \in {"bar", "signals"}
    BY <1>3 DEF NextBar, Close, Open, IgnoreSignal, CloseRemaining
  <2> QED BY <2>1 DEF CurveIsCurrent, Timeline
<1>4. CASE SkipFold \/ EndRun \/ MonteCarlo
  <2>1. UNCHANGED <<input, candles>> /\ pc' \in {"call", "simulated"}
    BY <1>4 DEF SkipFold, EndRun, MonteCarlo, run
  <2> QED BY <2>1 DEF CurveIsCurrent
<1>5. CASE UNCHANGED vars
  <2>1. UNCHANGED <<pc, input, candles, next_event, prev_ts, equity_history, equity>>
    BY <1>5 DEF vars, run
  <2> QED BY <2>1 DEF CurveIsCurrent, Timeline
<1> QED BY <1>1, <1>2, <1>3, <1>4, <1>5 DEF Next

\* A result's wins and losses add up to its trades.
LEMMA MetricsSplit ==
    ASSUME NEW curve, NEW trades \in Seq(ClosedTrade), NEW metrics, metrics = Metrics(curve, trades)
    PROVE  /\ metrics.gross_profit \in Int /\ metrics.gross_loss \in Int
           /\ metrics.gross_profit - metrics.gross_loss = Realized(trades)
           /\ metrics.final_equity = curve[Len(curve)]
<1>1. PICK D, f : D = DOMAIN trades /\ f = Results(trades)
  OBVIOUS
<1>2. IsFiniteSet(D) /\ f \in [D -> Int]
  BY <1>1, ResultTypes
<1>3. PICK W, L : W = {i \in D : f[i] > 0} /\ L = {i \in D : f[i] < 0}
  OBVIOUS
<1>4. PICK a, b : a = SumFunction(Part(f, W)) /\ b = SumFunction(Part(f, L))
  OBVIOUS
<1>5. a \in Int /\ b \in Int /\ SumFunction(f) = a + b
  BY <1>2, <1>3, <1>4, Parts, SumSplit
<1>6. /\ metrics.gross_profit = SumFunction(Restrict(f, {i \in DOMAIN f : f[i] > 0}))
      /\ metrics.gross_loss = -SumFunction(Restrict(f, {i \in DOMAIN f : f[i] < 0}))
      /\ metrics.final_equity = curve[Len(curve)]
  BY <1>1 DEF Metrics
<1>7. {i \in DOMAIN f : f[i] > 0} = W /\ {i \in DOMAIN f : f[i] < 0} = L
  BY <1>2, <1>3
<1>8. Restrict(f, W) = Part(f, W) /\ Restrict(f, L) = Part(f, L)
  BY DEF Restrict, Part
<1>9. metrics.gross_profit = a /\ metrics.gross_loss = -b
  BY <1>4, <1>6, <1>7, <1>8
<1>10. Realized(trades) = a + b
  BY <1>1, <1>5 DEF Realized
<1>11. a - (-b) = a + b
  BY <1>5
<1> QED BY <1>5, <1>6, <1>9, <1>10, <1>11

LEMMA ResultStep ==
    ASSUME TypeOK, Placed, EquityIsMarked, CurveIsCurrent, ResultFlatters, [Next]_vars
    PROVE  ResultFlatters'
<1>1. CASE EndRun
  <2>1. /\ UNCHANGED <<input, candles, next_event, positions, completed_trades, equity_history>>
        /\ pc = "bar" /\ DOMAIN positions = {} /\ result' = Metrics(equity_history, completed_trades)
    BY <1>1 DEF EndRun, run
  <2>2. PICK metrics : metrics = Metrics(equity_history, completed_trades)
    OBVIOUS
  <2>3. /\ metrics.gross_profit \in Int /\ metrics.gross_loss \in Int
        /\ metrics.gross_profit - metrics.gross_loss = Realized(completed_trades)
        /\ metrics.final_equity = equity_history[Len(equity_history)]
    BY <2>2, MetricsSplit DEF TypeOK
  <2>4. Marked = Initial + Realized(completed_trades)
    <3>1. SumFunction(Marks) = 0
      BY <2>1, BookSums
    <3>2. /\ Initial \in Int /\ Realized(completed_trades) \in Int
          /\ Marked = Initial + Realized(completed_trades) + SumFunction(Marks)
      BY BookSums
    <3> QED BY <3>1, <3>2
  <2>5. ASSUME Alone
        PROVE  /\ metrics.final_equity >= Marked
               /\ metrics.final_equity > Marked => OpenAtEnd
    <3>1. metrics.final_equity = equity
      BY <2>1, <2>3, <2>5 DEF Alone, CurveIsCurrent
    <3>2. equity >= Marked /\ (equity # Marked => OpenAtEnd)
      BY <2>1, <2>5 DEF EquityIsMarked
    <3>3. equity \in Int /\ Marked \in Int
      BY BookSums DEF TypeOK
    <3> QED BY <3>1, <3>2, <3>3
  <2>6. result' = metrics /\ (Alone' => Alone) /\ (OpenAtEnd => OpenAtEnd')
    BY <2>1, <2>2 DEF Alone, OpenAtEnd, Timeline
  <2> QED BY <2>1, <2>3, <2>4, <2>5, <2>6 DEF ResultFlatters
<1>2. CASE SkipFold \/ MonteCarlo \/ UNCHANGED vars
  <2>1. /\ UNCHANGED <<input, candles, positions, completed_trades, result>>
        /\ pc' \in {"call", "simulated"} => pc \in {"call", "simulated"}
    BY <1>2 DEF SkipFold, MonteCarlo, Finished, run, vars
  <2> QED BY <2>1 DEF ResultFlatters, Alone, OpenAtEnd, Timeline
<1>3. CASE ~(EndRun \/ SkipFold \/ MonteCarlo \/ UNCHANGED vars)
  <2>1. pc' \in {"bar", "signals"}
    BY <1>3 DEF Next, StartRun, StartFold, FreshRun, NextBar, Close, Open, IgnoreSignal,
                MarkToMarket, CloseRemaining
  <2> QED BY <2>1 DEF ResultFlatters
<1> QED BY <1>1, <1>2, <1>3

LEMMA MoneyInit ==
    Init => Money
<1> SUFFICES ASSUME Init PROVE Money
  OBVIOUS
<1>1. TypeOK /\ Placed
  BY TypesInit
<1>2. /\ pc = "call" /\ DOMAIN positions = {} /\ bank = Initial /\ next_event = 1
      /\ candles = input.candles /\ completed_trades = <<>>
      /\ bar_counts = [s \in DOMAIN candles |-> 0] /\ result = Metrics(<<Initial>>, <<>>)
  BY DEF Init
<1>3. Realized(completed_trades) = 0 /\ SumFunction(Costs) = 0 /\ Initial \in Int
  BY <1>1, <1>2, RealizedTypes, BookSums DEF TypeOK
<1>4. BankBooks
  BY <1>2, <1>3 DEF BankBooks
<1>5. CountsFollowTape
  <2>1. Seen = 0 /\ 1 .. 0 = {}
    BY <1>2 DEF Seen
  <2>2. \A s : Taken(s, Seen) = {}
    BY <2>1 DEF Taken
  <2> QED BY <1>2, <2>2 DEF CountsFollowTape
<1>6. EquityIsMarked /\ CurveIsCurrent
  BY <1>2 DEF EquityIsMarked, CurveIsCurrent
<1>7. ResultFlatters
  <2>1. PICK curve : curve = <<Initial>>
    OBVIOUS
  <2>2. curve[Len(curve)] = Initial
    BY <2>1
  <2>3. <<>> \in Seq(ClosedTrade)
    OBVIOUS
  <2>4. /\ result.gross_profit \in Int /\ result.gross_loss \in Int
        /\ result.gross_profit - result.gross_loss = 0 /\ result.final_equity = Initial
    BY <1>2, <1>3, <2>1, <2>2, <2>3, MetricsSplit
  <2> QED BY <1>3, <2>4 DEF ResultFlatters
<1> QED BY <1>4, <1>5, <1>6, <1>7 DEF Money

LEMMA MoneyStep ==
    TypeOK /\ Placed /\ Money /\ [Next]_vars => Money'
<1> SUFFICES ASSUME TypeOK, Placed, Money, [Next]_vars PROVE Money'
  OBVIOUS
<1>1. CountsFollowTape'
  BY CountsStep DEF Money
<1>2. BankBooks'
  BY BankStep DEF Money
<1>3. EquityIsMarked'
  BY EquityStep DEF Money, CurveIsCurrent
<1>4. CurveIsCurrent'
  BY CurveStep DEF Money
<1>5. ResultFlatters'
  BY ResultStep DEF Money
<1> QED BY <1>1, <1>2, <1>3, <1>4, <1>5 DEF Money

-----------------------------------------------------------------------------
(* The positions of a run are a position book *)

Held == [s \in DOMAIN positions |-> positions[s].quantity]

LEMMA BookStep ==
    TypeOK /\ Placed /\ [Next]_vars => [Book!BookNext]_Held
<1> SUFFICES ASSUME TypeOK, Placed, [Next]_vars
             PROVE  Held' = Held \/ \E s \in Symbols : Book!Open(s) \/ Book!Close(s)
  BY DEF Book!BookNext
<1>1. CASE StartRun \/ StartFold
  <2>1. DOMAIN positions = {}
    BY <1>1 DEF StartRun, StartFold, Placed
  <2>2. DOMAIN positions' = {}
    BY <1>1, Starts DEF FreshRun
  <2> QED BY <2>1, <2>2 DEF Held
<1>2. ASSUME NEW s, s \in DOMAIN positions,
             positions' = Restrict(positions, DOMAIN positions \ {s})
      PROVE  Book!Close(s) /\ s \in Symbols
  <2>1. Held' = [t \in DOMAIN positions \ {s} |-> Held[t]] /\ s \in DOMAIN Held
    BY <1>2 DEF Held, Restrict
  <2>2. s \in Symbols
    BY <1>2 DEF TypeOK, BookOK
  <2> QED BY <2>1, <2>2 DEF Book!Close, Restrict, Book!Restrict, Held
<1>3. CASE Close
  BY <1>2, <1>3 DEF Close, CloseAt
<1>4. CASE CloseRemaining
  BY <1>2, <1>4 DEF CloseRemaining, CloseAt
<1>5. CASE Open
  <2>1. PICK s, position : Opened(s, position)
    BY <1>5, OpeningTypes
  <2>2. /\ Held' = [t \in DOMAIN positions \cup {s} |->
                       IF t # s THEN Held[t] ELSE position.quantity]
        /\ DOMAIN Held = DOMAIN positions /\ position.quantity \in Nat \ {0}
    BY <2>1 DEF Opened, Held, OpenPosition
  <2>3. Cardinality(DOMAIN positions) = Book!Cardinality(DOMAIN positions)
    BY DEF Cardinality, Book!Cardinality
  <2>4. Book!Open(s) /\ s \in Symbols
    BY <2>1, <2>2, <2>3 DEF Opened, Book!Open, Held
  <2> QED BY <2>4
<1>6. CASE NextBar \/ IgnoreSignal \/ MarkToMarket \/ SkipFold \/ EndRun \/ MonteCarlo \/ UNCHANGED vars
  <2>1. positions' = positions
    BY <1>6 DEF NextBar, IgnoreSignal, MarkToMarket, SkipFold, EndRun, MonteCarlo, run, vars
  <2> QED BY <2>1 DEF Held
<1> QED BY <1>1, <1>3, <1>4, <1>5, <1>6 DEF Next

\* Whatever the signals ask for (backtest.py:347-404) and however a run or a fold
\* ends, a symbol is opened once, within max_positions, and closed whole.
THEOREM Refinement ==
    Spec => ImplementsPositionBook
<1>1. Init => TypeOK /\ Placed
  BY TypesInit
<1>2. Init => Book!BookInit
  BY DEF Init, Book!BookInit
<1>3. TypeOK /\ Placed /\ [Next]_vars => (TypeOK /\ Placed)'
  BY TypesStep
<1>4. TypeOK /\ Placed /\ [Next]_vars => [Book!BookNext]_Held
  BY BookStep
<1> QED BY <1>1, <1>2, <1>3, <1>4, PTL DEF Spec, ImplementsPositionBook, Book!BookSpec, Held

-----------------------------------------------------------------------------
(* Trades in time *)

\* What is not after now is not after what follows.
LEMMA NowPasses ==
    ASSUME TypeOK, Placed, NextBar \/ MarkToMarket, NEW t \in Nat, NotAfterNow(t)
    PROVE  NotAfterNow(t)'
<1>1. PICK n \in DOMAIN Timeline : n = next_event
  BY TimelineLength DEF TypeOK, Placed, NextBar, MarkToMarket
<1>2. n \in Nat \ {0}
  BY <1>1, TimelineLength DEF TypeOK
<1>3. CASE NextBar
  <2>1. /\ pc = "bar" /\ pc' = "signals" /\ next_event' = n /\ Timeline' = Timeline
    BY <1>1, <1>3 DEF NextBar, Timeline
  <2>2. n > 1 /\ t <= Timeline[n - 1].ts
    BY <1>1, <2>1 DEF NotAfterNow
  <2>3. n - 1 \in DOMAIN Timeline /\ n - 1 <= n
    BY <1>1, <1>2, <2>2, TimelineLength DEF TypeOK
  <2>4. /\ Timeline[n - 1].ts <= Timeline[n].ts
        /\ Timeline[n - 1].ts \in Nat /\ Timeline[n].ts \in Nat
    BY <1>1, <2>3, SortedIsTape, TapeInTime DEF Timeline, TypeOK
  <2>5. t <= Timeline[n].ts
    BY <2>2, <2>4
  <2> QED BY <2>1, <2>5 DEF NotAfterNow, Event
<1>4. CASE MarkToMarket
  <2>1. pc = "signals" /\ pc' = "bar" /\ next_event' = n + 1 /\ Timeline' = Timeline
    BY <1>1, <1>4 DEF MarkToMarket, Timeline
  <2>2. n + 1 > 1 /\ (n + 1) - 1 = n
    BY <1>2
  <2>3. t <= Timeline[n].ts
    BY <1>1, <2>1 DEF NotAfterNow, Event
  <2> QED BY <2>1, <2>2, <2>3 DEF NotAfterNow
<1> QED BY <1>3, <1>4

LEMMA TradeTimes ==
    ASSUME TypeOK
    PROVE  /\ \A i \in DOMAIN completed_trades :
                 completed_trades[i].exit_time \in Nat /\ completed_trades[i].entry_time \in Nat
           /\ \A s \in DOMAIN positions : positions[s].entry_time \in Nat
<1>1. \A i \in DOMAIN completed_trades : completed_trades[i] \in ClosedTrade
  BY DEF TypeOK
<1> QED BY <1>1 DEF TypeOK, BookOK, ClosedTrade, OpenPosition

\* A trade comes after those of its symbol and with the bars.
LEMMA ClosingInTime ==
    ASSUME TypeOK, RunInOrder, Timely, pc \in {"bar", "signals"},
           NEW s \in DOMAIN positions, NEW price \in Int, NEW ts \in Nat,
           CloseAt(s, price, ts), NotAfterNow(ts), ts \in Times(candles),
           UNCHANGED <<pc, candles, next_event>>
    PROVE  RunInOrder' /\ Timely'
<1>1. PICK trade, n : trade = Trade(s, positions[s], price, ts) /\ n = Len(completed_trades)
  OBVIOUS
<1>2. trade.symbol = s /\ trade.entry_time = positions[s].entry_time /\ trade.exit_time = ts
  BY <1>1 DEF Trade
<1>3. /\ n \in Nat /\ DOMAIN completed_trades = 1 .. n
      /\ DOMAIN completed_trades' = 1 .. (n + 1) /\ completed_trades'[n + 1] = trade
      /\ \A i \in 1 .. n : completed_trades'[i] = completed_trades[i]
  BY <1>1 DEF CloseAt, TypeOK
<1>4. \A i \in 1 .. (n + 1) : i \in 1 .. n \/ i = n + 1
  BY <1>3
<1>5. /\ DOMAIN positions' = DOMAIN positions \ {s}
      /\ \A t \in DOMAIN positions' : positions'[t] = positions[t]
  BY ClosingTypes
<1>6. ASSUME NEW i \in 1 .. (n + 1)
      PROVE  /\ NotAfterNow(completed_trades'[i].exit_time)
             /\ {completed_trades'[i].entry_time, completed_trades'[i].exit_time} \subseteq Times(candles)
  <2>1. CASE i = n + 1
    BY <1>2, <1>3, <2>1 DEF Timely
  <2>2. CASE i \in 1 .. n
    BY <1>3, <2>2 DEF RunInOrder, Timely
  <2> QED BY <1>4, <2>1, <2>2
<1>7. ASSUME NEW i \in 1 .. (n + 1), NEW j \in 1 .. (n + 1), i < j,
             completed_trades'[i].symbol = completed_trades'[j].symbol
      PROVE  completed_trades'[i].exit_time <= completed_trades'[j].entry_time
  <2>1. i \in 1 .. n
    BY <1>3, <1>7
  <2>2. CASE j = n + 1
    <3>1. completed_trades[i].symbol = s
      BY <1>2, <1>3, <1>7, <2>1, <2>2
    <3> QED BY <1>2, <1>3, <2>1, <2>2, <3>1 DEF RunInOrder
  <2>3. CASE j \in 1 .. n
    BY <1>3, <1>7, <2>1, <2>3 DEF RunInOrder
  <2> QED BY <1>4, <2>2, <2>3
<1>8. ASSUME NEW i \in 1 .. (n + 1), completed_trades'[i].symbol \in DOMAIN positions'
      PROVE  completed_trades'[i].exit_time <= positions'[completed_trades'[i].symbol].entry_time
  <2>1. i \in 1 .. n
    BY <1>2, <1>3, <1>4, <1>5, <1>8
  <2> QED BY <1>3, <1>5, <1>8, <2>1 DEF RunInOrder
<1>9. \A t \in DOMAIN positions' :
         NotAfterNow(positions'[t].entry_time) /\ positions'[t].entry_time \in Times(candles)
  BY <1>5 DEF RunInOrder, Timely
<1>10. /\ pc' = pc /\ next_event' = next_event /\ Timeline' = Timeline
  BY DEF Timeline
<1>11. RunInOrder'
  BY <1>3, <1>6, <1>7, <1>8, <1>9, <1>10 DEF RunInOrder, NotAfterNow, Event
<1>12. Timely'
  BY <1>3, <1>6, <1>9 DEF Timely
<1> QED BY <1>11, <1>12

LEMMA RunInOrderStep ==
    ASSUME TypeOK, Placed, RunInOrder, Timely, [Next]_vars
    PROVE  RunInOrder' /\ Timely'
<1>1. CASE StartRun \/ StartFold
  <2>1. completed_trades' = <<>> /\ DOMAIN positions' = {}
    BY <1>1, Starts DEF FreshRun
  <2> QED BY <2>1 DEF RunInOrder, Timely
<1>2. CASE NextBar \/ MarkToMarket
  <2>1. /\ UNCHANGED <<candles, completed_trades, positions>>
        /\ pc \in {"bar", "signals"} /\ pc' \in {"bar", "signals"}
    BY <1>2 DEF NextBar, MarkToMarket
  <2>2. ASSUME NEW i \in DOMAIN completed_trades
        PROVE  NotAfterNow(completed_trades[i].exit_time)'
    <3>1. PICK t : t = completed_trades[i].exit_time
      OBVIOUS
    <3>2. t \in Nat /\ NotAfterNow(t)
      BY <2>1, <3>1, TradeTimes DEF RunInOrder
    <3>3. NotAfterNow(t)'
      BY <1>2, <3>2, NowPasses
    <3> QED BY <2>1, <3>1, <3>3 DEF NotAfterNow
  <2>3. ASSUME NEW s \in DOMAIN positions
        PROVE  NotAfterNow(positions[s].entry_time)'
    <3>1. PICK t : t = positions[s].entry_time
      OBVIOUS
    <3>2. t \in Nat /\ NotAfterNow(t)
      BY <2>1, <3>1, TradeTimes DEF RunInOrder
    <3>3. NotAfterNow(t)'
      BY <1>2, <3>2, NowPasses
    <3> QED BY <2>1, <3>1, <3>3 DEF NotAfterNow
  <2> QED BY <2>1, <2>2, <2>3 DEF RunInOrder, Timely, NotAfterNow
<1>3. CASE Close
  <2>1. next_event \in DOMAIN Timeline
    BY <1>3, TimelineLength DEF TypeOK, Placed, Close
  <2>2. PICK s, price, ts : s = signals[1].symbol /\ price = signals[1].price /\ ts = Event.ts
    OBVIOUS
  <2>3. ts \in Nat /\ ts \in Times(candles)
    BY <2>1, <2>2, EventTypes DEF TypeOK, Event
  <2>4. signals[1] \in Signals
    BY <1>3 DEF TypeOK, Close
  <2>5. s \in DOMAIN positions /\ price \in Int /\ CloseAt(s, price, ts)
    BY <1>3, <2>2, <2>4, PriceTypes DEF Close, Signals
  <2>6. UNCHANGED <<pc, candles, next_event>> /\ pc = "signals" /\ NotAfterNow(ts)
    BY <1>3, <2>2, <2>3 DEF Close, NotAfterNow
  <2> QED BY <2>3, <2>5, <2>6, ClosingInTime
<1>4. CASE CloseRemaining
  <2>1. PICK s \in DOMAIN positions :
           /\ Len(Timeline) \in DOMAIN Timeline /\ next_event = Len(Timeline) + 1
           /\ CloseAt(s, LastClose(s), Timeline[Len(Timeline)].ts)
           /\ LastClose(s) \in Int /\ Timeline[Len(Timeline)].ts \in Nat
    BY <1>4, Liquidations
  <2>2. PICK len, ts : len = Len(Timeline) /\ ts = Timeline[len].ts
    OBVIOUS
  <2>3. len \in Nat \ {0} /\ ts \in Nat /\ ts \in Times(candles)
    BY <2>1, <2>2, EventTypes, TimelineLength DEF TypeOK
  <2>4. UNCHANGED <<pc, candles, next_event>> /\ pc = "bar"
    BY <1>4 DEF CloseRemaining
  <2>5. next_event > 1 /\ next_event - 1 = len
    BY <2>1, <2>2, <2>3
  <2>6. NotAfterNow(ts)
    BY <2>2, <2>3, <2>4, <2>5 DEF NotAfterNow
  <2> QED BY <2>1, <2>2, <2>3, <2>4, <2>6, ClosingInTime
<1>5. CASE Open
  <2>1. PICK s, position : Opened(s, position)
    BY <1>5, OpeningTypes
  <2>2. next_event \in DOMAIN Timeline
    BY <1>5, TimelineLength DEF TypeOK, Placed, Open
  <2>3. PICK ts : ts = Event.ts
    OBVIOUS
  <2>4. ts \in Nat /\ ts \in Times(candles) /\ position.entry_time = ts
    BY <2>1, <2>2, <2>3, EventTypes DEF TypeOK, Event, Opened
  <2>5. UNCHANGED <<pc, candles, next_event, completed_trades>> /\ pc = "signals" /\ Timeline' = Timeline
    BY <1>5 DEF Open, Timeline
  <2>6. /\ DOMAIN positions' = DOMAIN positions \cup {s} /\ positions'[s] = position
        /\ \A t \in DOMAIN positions : positions'[t] = positions[t]
    BY <2>1 DEF Opened
  <2>7. \A i \in DOMAIN completed_trades : completed_trades[i].exit_time <= ts
    BY <2>3, <2>5 DEF RunInOrder, NotAfterNow
  <2>8. \A t \in DOMAIN positions' : /\ positions'[t].entry_time <= ts
                                     /\ positions'[t].entry_time \in Times(candles)
    BY <2>3, <2>4, <2>5, <2>6 DEF RunInOrder, NotAfterNow, Timely
  <2>9. ASSUME NEW i \in DOMAIN completed_trades, completed_trades[i].symbol \in DOMAIN positions'
        PROVE  completed_trades[i].exit_time <= positions'[completed_trades[i].symbol].entry_time
    <3>1. CASE completed_trades[i].symbol = s
      BY <2>4, <2>6, <2>7, <3>1
    <3>2. CASE completed_trades[i].symbol # s
      BY <2>6, <2>9, <3>2 DEF RunInOrder
    <3> QED BY <3>1, <3>2
  <2>10. RunInOrder'
    BY <2>3, <2>5, <2>7, <2>8, <2>9 DEF RunInOrder, NotAfterNow, Event
  <2>11. Timely'
    BY <2>5, <2>8 DEF Timely
  <2> QED BY <2>10, <2>11
<1>6. CASE SkipFold \/ MonteCarlo \/ EndRun
  <2>1. /\ UNCHANGED <<candles, completed_trades, positions>> /\ DOMAIN positions = {}
        /\ pc' \in {"call", "simulated"}
    BY <1>6 DEF SkipFold, MonteCarlo, Finished, EndRun, run, Placed
  <2> QED BY <2>1 DEF RunInOrder, Timely
<1>7. CASE IgnoreSignal \/ UNCHANGED vars
  <2>1. UNCHANGED <<pc, candles, next_event, completed_trades, positions>>
    BY <1>7 DEF IgnoreSignal, vars, run
  <2> QED BY <2>1 DEF RunInOrder, Timely, NotAfterNow, Event, Timeline
<1> QED BY <1>1, <1>2, <1>3, <1>4, <1>5, <1>6, <1>7 DEF Next

LEMMA FromFoldStep ==
    ASSUME TypeOK, FromFold, [Next]_vars
    PROVE  FromFold'
<1>1. CASE StartRun
  <2>1. fold' = 1 /\ input' = input /\ input.n_splits = 0
    BY <1>1 DEF StartRun
  <2> QED BY <2>1 DEF FromFold
<1>2. CASE StartFold
  <2>1. PICK k : k = fold + 1
    OBVIOUS
  <2>2. k \in Nat \ {0} /\ k - 1 = fold
    BY <2>1 DEF TypeOK
  <2>3. fold' = k /\ input' = input /\ candles' = FoldBars(k) /\ input.n_splits # 0
    BY <1>2, <2>1, InputTypes DEF StartFold, FreshRun, TypeOK
  <2>4. FoldSize' = FoldSize
    BY <2>3 DEF FoldSize
  <2>5. \A s \in DOMAIN FoldBars(k) : \A i \in DOMAIN FoldBars(k)[s] :
           \E p \in DOMAIN input.candles[s] :
              /\ FoldBars(k)[s][i] = input.candles[s][p]
              /\ (k - 1) * FoldSize < p /\ p <= k * FoldSize
    BY <2>2, <2>3, FoldTypes DEF TypeOK
  <2> QED BY <2>2, <2>3, <2>4, <2>5 DEF FromFold
<1>3. CASE NextBar \/ Close \/ Open \/ IgnoreSignal \/ MarkToMarket \/ CloseRemaining
  <2>1. UNCHANGED <<input, fold, candles>> /\ pc \in {"bar", "signals"}
    BY <1>3 DEF NextBar, Close, Open, IgnoreSignal, MarkToMarket, CloseRemaining
  <2> QED BY <2>1 DEF FromFold, FoldSize
<1>4. CASE SkipFold \/ EndRun \/ MonteCarlo
  <2>1. pc' \in {"call", "simulated"}
    BY <1>4 DEF SkipFold, EndRun, MonteCarlo
  <2> QED BY <2>1 DEF FromFold
<1>5. CASE UNCHANGED vars
  <2>1. UNCHANGED <<pc, input, fold, candles>>
    BY <1>5 DEF vars, run
  <2> QED BY <2>1 DEF FromFold, FoldSize
<1> QED BY <1>1, <1>2, <1>3, <1>4, <1>5 DEF Next

\* Where a time of the run is in the data.
LEMMA TimesInFold ==
    ASSUME TypeOK, FromFold, pc \in {"bar", "signals"}, input.n_splits > 0,
           DOMAIN candles = DOMAIN input.candles, NEW t \in Times(candles)
    PROVE  \E s \in DOMAIN input.candles : \E p \in DOMAIN input.candles[s] :
              t = input.candles[s][p].ts /\ (fold - 1) * FoldSize < p /\ p <= fold * FoldSize
<1>1. PICK e \in Bars(candles) : t = e.ts
  BY DEF Times
<1>2. /\ e.symbol \in DOMAIN candles /\ e.index \in DOMAIN candles[e.symbol]
      /\ e.ts = candles[e.symbol][e.index].ts
  BY BarTypes DEF TypeOK
<1>3. PICK p \in DOMAIN input.candles[e.symbol] :
         /\ candles[e.symbol][e.index] = input.candles[e.symbol][p]
         /\ (fold - 1) * FoldSize < p /\ p <= fold * FoldSize
  BY <1>2 DEF FromFold
<1> QED BY <1>1, <1>2, <1>3

LEMMA FoldSizes ==
    ASSUME TypeOK, input.n_splits > 0
    PROVE  /\ FoldSize \in Nat
           /\ \A k \in Nat : k * FoldSize \in Nat /\ k * FoldSize <= (k + 1) * FoldSize
<1>1. PICK size : size = FoldSize
  OBVIOUS
<1>2. size \in Nat
  <2>1. input.n_splits # 0 /\ 1 \in Nat \ {0}
    OBVIOUS
  <2> QED BY <1>1, <2>1, FoldTypes DEF TypeOK
<1>3. \A k \in Nat : k * size \in Nat /\ k * size <= (k + 1) * size
  BY <1>2
<1> QED BY <1>1, <1>2, <1>3

\* The bars of all symbols are at the same times, so a time of an earlier bar is
\* before every later bar.
LEMMA TimesFollow ==
    ASSUME TypeOK, SameTimes,
           NEW s \in DOMAIN input.candles, NEW t \in DOMAIN input.candles,
           NEW p \in DOMAIN input.candles[s], NEW q \in DOMAIN input.candles[t], p < q
    PROVE  input.candles[s][p].ts <= input.candles[t][q].ts
<1>1. PICK a, b : a = input.candles[s] /\ b = input.candles[t]
  OBVIOUS
<1>2. /\ a \in Seq(Candle) /\ b \in Seq(Candle)
      /\ \A i, j \in DOMAIN b : i < j => b[i].ts < b[j].ts
  BY <1>1, InputTypes DEF TypeOK, GoodCandles
<1>3. Len(a) = Len(b) /\ \A i \in DOMAIN a : a[i].ts = b[i].ts
  BY <1>1 DEF SameTimes
<1>4. p \in DOMAIN b /\ q \in DOMAIN b /\ a[p].ts = b[p].ts
  BY <1>1, <1>2, <1>3
<1>5. b[p].ts < b[q].ts /\ b[p] \in Candle /\ b[q] \in Candle
  BY <1>1, <1>2, <1>4
<1>6. b[p].ts \in Nat /\ b[q].ts \in Nat
  BY <1>5 DEF Candle
<1>7. a[p].ts <= b[q].ts
  BY <1>4, <1>5, <1>6
<1> QED BY <1>1, <1>7

\* A run adds its trades after those of the folds before it.
LEMMA EndRunInTime ==
    ASSUME TypeOK, SameTimes, DOMAIN candles = DOMAIN input.candles,
           RunInOrder, Timely, FromFold, Past, EndRun
    PROVE  Past'
<1>1. /\ UNCHANGED <<input, fold>> /\ pc = "bar" /\ pc' = "call"
      /\ all_trades' = all_trades \o completed_trades
  BY DEF EndRun
<1>2. PICK m, n : m = Len(all_trades) /\ n = Len(completed_trades)
  OBVIOUS
<1>3. /\ m \in Nat /\ n \in Nat /\ DOMAIN all_trades = 1 .. m /\ DOMAIN completed_trades = 1 .. n
      /\ DOMAIN all_trades' = 1 .. (m + n)
      /\ \A i \in 1 .. m : all_trades'[i] = all_trades[i]
      /\ \A i \in (m + 1) .. (m + n) : all_trades'[i] = completed_trades[i - m] /\ i - m \in 1 .. n
  BY <1>1, <1>2 DEF TypeOK
<1>4. \A i \in 1 .. (m + n) : i \in 1 .. m \/ i \in (m + 1) .. (m + n)
  BY <1>3
<1>5. fold \in Nat \ {0} /\ input.n_splits \in Nat /\ (input.n_splits = 0 => all_trades = <<>>)
  BY <1>1, InputTypes DEF TypeOK, FromFold, Past
<1>6. FoldsDone = fold - 1 /\ FoldsDone' = fold /\ FoldSize' = FoldSize
  BY <1>1 DEF FoldsDone, FoldSize
<1>7. \A i \in 1 .. n : /\ completed_trades[i].entry_time \in Times(candles)
                        /\ completed_trades[i].exit_time \in Times(candles)
                        /\ completed_trades[i].exit_time \in Nat
                        /\ completed_trades[i].entry_time \in Nat
  BY <1>3, TradeTimes DEF Timely
<1>8. \A i \in 1 .. m : all_trades[i].exit_time \in Nat
  <2>1. \A i \in 1 .. m : all_trades[i] \in ClosedTrade
    BY <1>3 DEF TypeOK
  <2> QED BY <2>1 DEF ClosedTrade
<1>9. ASSUME NEW i \in 1 .. m, NEW j \in 1 .. n
      PROVE  all_trades[i].exit_time <= completed_trades[j].entry_time
  <2>1. input.n_splits > 0
    BY <1>3, <1>5
  <2>2. PICK s \in DOMAIN input.candles : \E p \in DOMAIN input.candles[s] :
           completed_trades[j].entry_time = input.candles[s][p].ts /\ (fold - 1) * FoldSize < p
    BY <1>1, <1>7, <2>1, TimesInFold
  <2>3. PICK p \in DOMAIN input.candles[s] :
           completed_trades[j].entry_time = input.candles[s][p].ts /\ (fold - 1) * FoldSize < p
    BY <2>2
  <2>4. p > FoldsDone * FoldSize
    <3>1. PICK first : first = (fold - 1) * FoldSize
      OBVIOUS
    <3>2. first < p /\ FoldsDone * FoldSize = first
      BY <1>6, <2>3, <3>1
    <3> QED BY <3>2
  <2>5. all_trades[i].exit_time <= input.candles[s][p].ts
    BY <1>3, <2>1, <2>4 DEF Past
  <2> QED BY <2>3, <2>5
<1>10. ASSUME NEW i \in 1 .. (m + n), NEW j \in 1 .. (m + n), i < j,
              all_trades'[i].symbol = all_trades'[j].symbol
       PROVE  all_trades'[i].exit_time <= all_trades'[j].entry_time
  <2>1. CASE j \in 1 .. m
    <3>1. i \in 1 .. m
      BY <1>3, <1>10, <2>1
    <3> QED BY <1>3, <1>10, <2>1, <3>1 DEF Past
  <2>2. CASE i \in 1 .. m /\ j \in (m + 1) .. (m + n)
    BY <1>3, <1>9, <2>2
  <2>3. CASE i \in (m + 1) .. (m + n) /\ j \in (m + 1) .. (m + n)
    <3>1. i - m \in 1 .. n /\ j - m \in 1 .. n /\ i - m < j - m
      BY <1>3, <1>10, <2>3
    <3> QED BY <1>3, <1>10, <2>3, <3>1 DEF RunInOrder
  <2>4. i \in (m + 1) .. (m + n) => j \in (m + 1) .. (m + n)
    BY <1>3, <1>10
  <2> QED BY <1>4, <2>1, <2>2, <2>3, <2>4
<1>11. ASSUME input.n_splits > 0, NEW i \in 1 .. (m + n),
              NEW s \in DOMAIN input.candles, NEW p \in DOMAIN input.candles[s],
              p > fold * FoldSize
       PROVE  all_trades'[i].exit_time <= input.candles[s][p].ts
  <2>1. PICK first, last : first = (fold - 1) * FoldSize /\ last = fold * FoldSize
    OBVIOUS
  <2>2. first \in Nat /\ last \in Nat /\ first <= last
    <3>1. PICK k \in Nat : k = fold - 1
      BY <1>5
    <3>2. k + 1 = fold
      BY <1>5, <3>1
    <3> QED BY <1>11, <2>1, <3>1, <3>2, FoldSizes
  <2>3. p \in Nat /\ p > last
    <3>1. input.candles[s] \in Seq(Candle)
      BY InputTypes DEF TypeOK, GoodCandles
    <3> QED BY <1>11, <2>1, <3>1
  <2>4. CASE i \in 1 .. m
    <3>1. p > FoldsDone * FoldSize
      BY <1>6, <2>1, <2>2, <2>3
    <3> QED BY <1>3, <1>11, <2>4, <3>1 DEF Past
  <2>5. CASE i \in (m + 1) .. (m + n)
    <3>1. PICK t : t = completed_trades[i - m].exit_time
      OBVIOUS
    <3>2. all_trades'[i].exit_time = t /\ t \in Times(candles)
      BY <1>3, <1>7, <2>5, <3>1
    <3>3. PICK r \in DOMAIN input.candles : \E q \in DOMAIN input.candles[r] :
             t = input.candles[r][q].ts /\ q <= fold * FoldSize
      BY <1>1, <1>11, <3>2, TimesInFold
    <3>4. PICK q \in DOMAIN input.candles[r] : t = input.candles[r][q].ts /\ q <= last
      BY <2>1, <3>3
    <3>5. q < p
      <4>1. q \in Nat
        <5>1. input.candles[r] \in Seq(Candle)
          BY InputTypes DEF TypeOK, GoodCandles
        <5> QED BY <5>1
      <4> QED BY <2>2, <2>3, <3>4, <4>1
    <3> QED BY <3>2, <3>4, <3>5, TimesFollow
  <2> QED BY <1>4, <2>4, <2>5
<1>12. input.n_splits = 0 /\ (fold = 0 \/ pc' \in {"bar", "signals"}) => all_trades' = <<>>
  BY <1>1, <1>5
<1> QED BY <1>1, <1>3, <1>6, <1>10, <1>11, <1>12 DEF Past

LEMMA FoldsFollowStep ==
    ASSUME TypeOK, DOMAIN candles = DOMAIN input.candles,
           RunInOrder, Timely, FromFold, FoldsFollow, [Next]_vars
    PROVE  FoldsFollow'
<1>1. input' = input
  BY DEF Next, StartRun, StartFold, SkipFold, NextBar, Close, Open, IgnoreSignal, MarkToMarket,
         CloseRemaining, EndRun, MonteCarlo, vars
<1>2. SameTimes' = SameTimes /\ FoldSize' = FoldSize
  BY <1>1 DEF SameTimes, FoldSize
<1> SUFFICES ASSUME SameTimes PROVE Past'
  BY <1>2 DEF FoldsFollow
<1>3. Past
  BY DEF FoldsFollow
<1>4. CASE EndRun
  BY <1>3, <1>4, EndRunInTime
<1>5. CASE StartRun
  <2>1. /\ pc = "call" /\ pc' = "bar" /\ fold = 0 /\ all_trades' = all_trades
        /\ input.n_splits = 0
    BY <1>5 DEF StartRun, FreshRun
  <2> QED BY <1>1, <1>3, <2>1 DEF Past
<1>6. CASE StartFold
  <2>1. /\ pc = "call" /\ pc' = "bar" /\ fold' = fold + 1 /\ all_trades' = all_trades
        /\ fold \in Nat /\ input.n_splits # 0
    BY <1>6, InputTypes DEF StartFold, FreshRun, TypeOK
  <2>2. FoldsDone' = FoldsDone
    BY <2>1 DEF FoldsDone
  <2> QED BY <1>1, <1>2, <1>3, <2>1, <2>2 DEF Past
<1>7. CASE SkipFold
  <2>1. /\ pc = "call" /\ pc' = "call" /\ fold' = fold + 1 /\ all_trades' = all_trades
        /\ fold \in Nat /\ input.n_splits > 0
    BY <1>7, InputTypes DEF SkipFold, TypeOK
  <2>2. PICK first, last : first = fold * FoldSize /\ last = (fold + 1) * FoldSize
    OBVIOUS
  <2>3. first \in Nat /\ last \in Nat /\ first <= last
    <3>1. fold + 1 \in Nat
      BY <2>1
    <3> QED BY <2>1, <2>2, <3>1, FoldSizes
  <2>4. FoldsDone * FoldSize = first /\ (FoldsDone * FoldSize)' = last
    BY <1>2, <2>1, <2>2 DEF FoldsDone
  <2>5. ASSUME NEW s \in DOMAIN input.candles, NEW p \in DOMAIN input.candles[s], p > last
        PROVE  p > first
    <3>1. input.candles[s] \in Seq(Candle)
      BY InputTypes DEF TypeOK, GoodCandles
    <3>2. p \in Nat
      BY <3>1
    <3> QED BY <2>3, <2>5, <3>2
  <2> QED BY <1>1, <1>3, <2>1, <2>4, <2>5 DEF Past
<1>8. CASE NextBar \/ Close \/ Open \/ IgnoreSignal \/ MarkToMarket \/ CloseRemaining
  <2>1. /\ UNCHANGED <<fold, all_trades>> /\ pc \in {"bar", "signals"} /\ pc' \in {"bar", "signals"}
    BY <1>8 DEF NextBar, Close, Open, IgnoreSignal, MarkToMarket, CloseRemaining
  <2>2. FoldsDone' = FoldsDone
    BY <2>1 DEF FoldsDone
  <2> QED BY <1>1, <1>2, <1>3, <2>1, <2>2 DEF Past
<1>9. CASE MonteCarlo \/ UNCHANGED vars
  <2>1. /\ UNCHANGED <<fold, all_trades>>
        /\ pc' \in {"bar", "signals"} <=> pc \in {"bar", "signals"}
    BY <1>9 DEF MonteCarlo, Finished, vars
  <2>2. FoldsDone' = FoldsDone
    BY <2>1 DEF FoldsDone
  <2> QED BY <1>1, <1>2, <1>3, <2>1, <2>2 DEF Past
<1> QED BY <1>4, <1>5, <1>6, <1>7, <1>8, <1>9 DEF Next

LEMMA ChronologyInit ==
    Init => Chronology
<1> SUFFICES ASSUME Init PROVE Chronology
  OBVIOUS
<1>1. pc = "call" /\ completed_trades = <<>> /\ all_trades = <<>> /\ DOMAIN positions = {}
  BY DEF Init
<1> QED BY <1>1 DEF Chronology, RunInOrder, Timely, FromFold, FoldsFollow, Past

LEMMA ChronologyStep ==
    TypeOK /\ Placed /\ Money /\ Chronology /\ [Next]_vars => Chronology'
BY RunInOrderStep, FromFoldStep, FoldsFollowStep DEF Chronology, Money, CurveIsCurrent

-----------------------------------------------------------------------------
(* Shuffled trades *)

\* An order of the numbers up to n, each once.
Orders(n) == {order \in [1 .. n -> 1 .. n] : \A i, j \in 1 .. n : i # j => order[i] # order[j]}

\* Whatever the order, the sums along it start at 0 and end at the whole sum.
LEMMA SumsAlong ==
    ASSUME NEW n \in Nat, NEW order \in Orders(n), NEW f \in [1 .. n -> Int]
    PROVE  \E along \in [0 .. n -> Int] :
              /\ along[0] = 0 /\ along[n] = SumFunction(f)
              /\ \A k \in 1 .. n : along[k] = along[k - 1] + f[order[k]]
<1> DEFINE Upto(k) == {order[j] : j \in 1 .. k}
           along == [k \in 0 .. n |-> SumFunction(Part(f, Upto(k)))]
<1>1. IsFiniteSet(1 .. n) /\ order \in Injection(1 .. n, 1 .. n)
  <2>1. IsFiniteSet(1 .. n)
    BY FS_Interval
  <2>2. order \in [1 .. n -> 1 .. n] /\ \A i, j \in 1 .. n : order[i] = order[j] => i = j
    BY DEF Orders
  <2> QED BY <2>1, <2>2 DEF Injection, IsInjective
<1>2. \A k \in 0 .. n : Upto(k) \in SUBSET (1 .. n)
  BY DEF Orders
<1>3. Upto(0) = {}
  OBVIOUS
<1>4. Upto(n) = 1 .. n
  <2>1. order \in Surjection(1 .. n, 1 .. n)
    BY <1>1, FS_Injection
  <2> QED BY <1>2, <2>1 DEF Surjection
<1>5. \A k \in 1 .. n : order[k] \in Upto(k) /\ Upto(k) \ {order[k]} = Upto(k - 1)
  <2> SUFFICES ASSUME NEW k \in 1 .. n
               PROVE  order[k] \in Upto(k) /\ Upto(k) \ {order[k]} = Upto(k - 1)
    OBVIOUS
  <2>1. \A i, j \in 1 .. n : i # j => order[i] # order[j]
    BY DEF Orders
  <2>2. k \in 1 .. k /\ \A j \in 1 .. k : j \in 1 .. n /\ (j # k <=> j \in 1 .. (k - 1))
    OBVIOUS
  <2> QED BY <2>1, <2>2
<1> HIDE DEF Upto
<1>6. \A k \in 0 .. n : SumFunction(Part(f, Upto(k))) \in Int
  BY <1>1, <1>2, Parts, Zenon
<1>7. along \in [0 .. n -> Int]
  BY <1>6
<1>8. along[0] = 0
  BY <1>1, <1>2, <1>3, Parts
<1>9. along[n] = SumFunction(f)
  BY <1>4 DEF Part
<1>10. ASSUME NEW k \in 1 .. n PROVE along[k] = along[k - 1] + f[order[k]]
  <2>1. k \in 0 .. n /\ k - 1 \in 0 .. n
    OBVIOUS
  <2>2. PICK x, a, b : x = order[k] /\ a = SumFunction(Part(f, Upto(k)))
                       /\ b = SumFunction(Part(f, Upto(k - 1)))
    OBVIOUS
  <2>3. Upto(k) \in SUBSET (1 .. n) /\ x \in Upto(k) /\ Upto(k) \ {x} = Upto(k - 1)
    BY <1>2, <1>5, <2>1, <2>2
  <2>4. SumFunction(Part(f, Upto(k))) = f[x] + SumFunction(Part(f, Upto(k) \ {x}))
    <3>1. PICK D, T, g : D = 1 .. n /\ T = Upto(k) /\ g = f
      OBVIOUS
    <3>2. IsFiniteSet(D) /\ g \in [D -> Int] /\ T \in SUBSET D /\ x \in T
      BY <1>1, <2>3, <3>1
    <3>3. SumFunction(Part(g, T)) = g[x] + SumFunction(Part(g, T \ {x}))
      BY <3>2, Parts
    <3> QED BY <3>1, <3>3
  <2>5. a = f[x] + b
    BY <2>2, <2>3, <2>4
  <2>6. b \in Int /\ f[x] \in Int
    BY <1>2, <1>6, <2>1, <2>2, <2>3
  <2>7. f[x] + b = b + f[x]
    BY <2>6
  <2>8. along[k] = a /\ along[k - 1] = b
    BY <2>1, <2>2
  <2> QED BY <2>2, <2>5, <2>7, <2>8
<1> QED BY <1>7, <1>8, <1>9, <1>10

\* The curve of a simulation: the sums along the results.
LEMMA CurveOfResults ==
    ASSUME NEW n \in Nat, NEW pnls \in Seq(Int), Len(pnls) = n, NEW along \in [0 .. n -> Int],
           along[0] = 0, \A k \in 1 .. n : along[k] = along[k - 1] + pnls[k]
    PROVE  Equities(pnls) = [k \in 1 .. (n + 1) |-> Initial + along[k - 1]]
<1> DEFINE Sum(g) == g = [i \in 0 .. n |-> IF i = 0 THEN Initial ELSE g[i - 1] + pnls[i]]
           sum == CHOOSE g : Sum(g)
           curve == [i \in 0 .. n |-> Initial + along[i]]
<1>0. Initial \in Int
  BY MoneyTypes
<1>1. Sum(curve)
  <2>1. \A i \in 0 .. n : i # 0 => i - 1 \in 0 .. n /\ i \in 1 .. n
    OBVIOUS
  <2>2. ASSUME NEW i \in 0 .. n
        PROVE  Initial + along[i] = IF i = 0 THEN Initial ELSE curve[i - 1] + pnls[i]
    <3>1. CASE i = 0
      BY <1>0, <3>1
    <3>2. CASE i # 0
      <4>1. curve[i - 1] = Initial + along[i - 1] /\ along[i] = along[i - 1] + pnls[i]
        BY <2>1, <3>2
      <4>2. along[i - 1] \in Int /\ pnls[i] \in Int
        BY <2>1, <3>2
      <4> QED BY <1>0, <3>2, <4>1, <4>2
    <3> QED BY <3>1, <3>2
  <2> QED BY <2>2
<1>2. Sum(sum)
  BY <1>1
<1>3. Equities(pnls) = [i \in 1 .. (n + 1) |-> sum[i - 1]]
  BY DEF Equities
<1>4. sum[0] = Initial /\ \A i \in 1 .. n : sum[i] = sum[i - 1] + pnls[i]
  <2> HIDE DEF sum
  <2>1. \A i \in 1 .. n : i \in 0 .. n /\ i # 0
    OBVIOUS
  <2> QED BY <1>2, <2>1
<1>5. \A k \in 0 .. n : sum[k] = Initial + along[k]
  <2> HIDE DEF sum
  <2> DEFINE Q == {k \in Nat : k <= n => sum[k] = Initial + along[k]}
  <2>1. 0 \in Q
    BY <1>0, <1>4
  <2>2. ASSUME NEW k \in Nat, k \in Q PROVE k + 1 \in Q
    <3>1. CASE k + 1 <= n
      <4>1. k + 1 \in 1 .. n /\ k \in 0 .. n /\ (k + 1) - 1 = k
        BY <3>1
      <4>2. sum[k + 1] = sum[k] + pnls[k + 1] /\ along[k + 1] = along[k] + pnls[k + 1]
        BY <1>4, <4>1
      <4>3. sum[k] = Initial + along[k]
        BY <2>2, <4>1
      <4>4. along[k] \in Int /\ pnls[k + 1] \in Int
        BY <4>1
      <4> QED BY <1>0, <4>2, <4>3, <4>4
    <3> QED BY <3>1
  <2>3. \A k \in Nat : k \in Q
    <3> HIDE DEF Q
    <3> QED BY <2>1, <2>2, Induction
  <2> QED BY <2>3
<1>6. \A i \in 1 .. (n + 1) : i - 1 \in 0 .. n
  OBVIOUS
<1> QED BY <1>3, <1>5, <1>6

\* How an account of MaxDrawdown's fold stands: the equity followed is `now`, and
\* the losses up to here are `lost`.
Fell(top, num, den, now, lost) ==
    /\ top >= now /\ top >= Initial /\ top - now <= lost
    /\ num <= 0 /\ -num <= lost /\ den > 0
    /\ num < 0 => den >= Initial
    /\ num < 0 <=> lost > 0

\* Following one more result keeps the account in that state.
LEMMA FallsFollow ==
    ASSUME NEW top \in Int, NEW num \in Int, NEW den \in Int, NEW now \in Int, NEW lost \in Int,
           Fell(top, num, den, now, lost),
           NEW result_ \in Int, NEW new \in Int, new = now + result_,
           NEW peak \in Int, peak = AtLeast(new, top),
           NEW less \in BOOLEAN, less <=> (new - peak) * den < num * peak
    PROVE  IF less THEN Fell(peak, new - peak, peak, new, lost + AtLeast(0, -result_))
                   ELSE Fell(peak, num, den, new, lost + AtLeast(0, -result_))
<1>1. Initial \in Int /\ Initial > 0
  BY MoneyTypes
<1>2. peak > 0 /\ peak >= new /\ peak >= top /\ (peak = top \/ peak = new)
  BY <1>1 DEF Fell, AtLeast
<1>3. PICK loss \in Int : loss = AtLeast(0, -result_)
  BY DEF AtLeast
<1>4. loss >= 0 /\ (loss = 0 \/ loss = -result_) /\ (loss > 0 <=> result_ < 0) /\ loss >= -result_
  BY <1>3 DEF AtLeast
<1>5. peak - new <= lost + loss /\ lost >= 0
  BY <1>2, <1>4 DEF Fell
<1>6. CASE less
  <2>1. num * peak <= 0
    BY <1>2 DEF Fell
  <2>2. new - peak < 0
    <3>1. ~((new - peak) * den >= 0)
      <4>1. PICK a \in Int, b \in Int : a = (new - peak) * den /\ b = num * peak
        OBVIOUS
      <4> QED BY <1>6, <2>1, <4>1
    <3> QED BY <1>2, <3>1 DEF Fell
  <2> QED BY <1>1, <1>2, <1>3, <1>4, <1>5, <1>6, <2>2 DEF Fell
<1>7. CASE ~less
  <2>1. CASE num < 0
    BY <1>1, <1>2, <1>3, <1>4, <1>5, <1>7, <2>1 DEF Fell
  <2>2. CASE num = 0
    <3>1. lost = 0 /\ num * peak = 0
      BY <1>5, <2>2 DEF Fell
    <3>2. new - peak >= 0
      <4>1. ~((new - peak) * den < 0)
        BY <1>7, <3>1
      <4> QED BY <4>1 DEF Fell
    <3>3. peak = new
      BY <1>2, <3>2
    <3>4. top = now
      BY <3>1 DEF Fell
    <3>5. loss = 0
      BY <1>2, <1>4, <3>3, <3>4
    <3>6. Fell(peak, num, den, new, lost)
      BY <1>1, <1>2, <2>2, <3>1, <3>3 DEF Fell
    <3>7. lost + AtLeast(0, -result_) = lost
      BY <1>3, <3>5
    <3> QED BY <1>7, <3>6, <3>7
  <2> QED BY <2>1, <2>2 DEF Fell
<1> QED BY <1>6, <1>7

\* An account that stands so has fallen by no more than was lost.
LEMMA FallsAreLosses ==
    ASSUME NEW top \in Int, NEW num \in Int, NEW den \in Int, NEW now \in Int, NEW lost \in Int,
           Fell(top, num, den, now, lost)
    PROVE  num * Initial >= -(lost * den) /\ (num < 0 <=> lost > 0)
<1>1. Initial \in Int /\ Initial > 0
  BY MoneyTypes
<1>2. PICK i \in Int : i = Initial /\ i > 0
  BY <1>1
<1>3. lost >= 0 /\ den > 0 /\ -num <= lost /\ num <= 0
  BY DEF Fell
<1>4. CASE num < 0
  <2>1. den >= i
    BY <1>2, <1>4 DEF Fell
  <2>2. lost * i <= lost * den
    BY <1>3, <2>1
  <2>3. num * i >= -(lost * i)
    <3>1. (num + lost) * i >= 0
      BY <1>2, <1>3
    <3>2. (num + lost) * i = num * i + lost * i
      OBVIOUS
    <3>3. num * i \in Int /\ lost * i \in Int
      OBVIOUS
    <3> QED BY <3>1, <3>2, <3>3
  <2>4. PICK a \in Int, b \in Int, c \in Int : a = num * i /\ b = lost * i /\ c = lost * den
    OBVIOUS
  <2> QED BY <1>2, <2>2, <2>3, <2>4 DEF Fell
<1>5. CASE num = 0
  <2>1. num * i = 0 /\ lost * den >= 0
    BY <1>3, <1>5
  <2> QED BY <1>2, <2>1 DEF Fell
<1> QED BY <1>3, <1>4, <1>5

\* An account of MaxDrawdown, and how it follows the equity `now`.
Account == [peak : Int, drawdown : Int \X Int]

Less(acc, now) ==
    (now - AtLeast(now, acc.peak)) * acc.drawdown[2] < acc.drawdown[1] * AtLeast(now, acc.peak)

Followed(acc, now) ==
    [peak |-> AtLeast(now, acc.peak),
     drawdown |-> IF AtLeast(now, acc.peak) > 0 /\ Less(acc, now)
                  THEN <<now - AtLeast(now, acc.peak), AtLeast(now, acc.peak)>> ELSE acc.drawdown]

\* What MaxDrawdown's fold chooses.
DrawdownEquation(f, curve) ==
    f = [T \in SUBSET DOMAIN curve |->
            IF T = {} THEN [peak |-> curve[1], drawdown |-> <<0, 1>>]
            ELSE Followed(f[T \ {Max(T)}], curve[Max(T)])]

LEMMA FollowedTypes ==
    ASSUME NEW acc \in Account, NEW now \in Int
    PROVE  Followed(acc, now) \in Account
<1>1. acc.peak \in Int /\ acc.drawdown \in Int \X Int
  BY DEF Account
<1>2. PICK peak \in Int : peak = AtLeast(now, acc.peak)
  BY <1>1 DEF AtLeast
<1>3. <<now - peak, peak>> \in Int \X Int
  OBVIOUS
<1>4. (IF peak > 0 /\ Less(acc, now) THEN <<now - peak, peak>> ELSE acc.drawdown) \in Int \X Int
  BY <1>1, <1>3
<1> QED BY <1>2, <1>4 DEF Followed, Account

\* The fold goes along the curve, from an account that has seen its first point.
LEMMA DrawdownAlong ==
    ASSUME NEW m \in Nat \ {0}, NEW curve \in [1 .. m -> Int]
    PROVE  \E f : /\ f[1 .. 0] = [peak |-> curve[1], drawdown |-> <<0, 1>>]
                  /\ \A k \in 1 .. m : f[1 .. k] = Followed(f[1 .. (k - 1)], curve[k])
                  /\ \A k \in 0 .. m : f[1 .. k] \in Account
                  /\ MaxDrawdown(curve) = f[1 .. m].drawdown
<1> DEFINE base == [peak |-> curve[1], drawdown |-> <<0, 1>>]
           step == [k \in 1 .. m |-> [acc \in Account |-> Followed(acc, curve[k])]]
<1>1. base \in Account
  BY DEF Account
<1>2. step \in [1 .. m -> [Account -> Account]]
  BY FollowedTypes
<1>3. PICK g \in [SUBSET (1 .. m) -> Account] : FoldEquation(g, m, base, step)
  <2> HIDE DEF base, step
  <2> QED BY <1>1, <1>2, FoldExists
<1>4. ASSUME NEW T \in SUBSET (1 .. m), T # {}
      PROVE  Max(T) \in 1 .. m /\ g[T] = Followed(g[T \ {Max(T)}], curve[Max(T)])
  <2>1. PICK i : i = Max(T)
    OBVIOUS
  <2>2. i \in 1 .. m /\ T \ {i} \in SUBSET (1 .. m)
    BY <1>4, <2>1, Greatest
  <2>3. g[T] = step[i][g[T \ {i}]] /\ g[T \ {i}] \in Account
    <3> HIDE DEF base, step
    <3> QED BY <1>3, <1>4, <2>1, <2>2 DEF FoldEquation
  <2>4. step[i] = [acc \in Account |-> Followed(acc, curve[i])]
    BY <2>2
  <2> HIDE DEF step
  <2> QED BY <2>1, <2>2, <2>3, <2>4
<1>5. \E h : DrawdownEquation(h, curve)
  <2>1. g[{}] = base
    <3> HIDE DEF base, step
    <3> QED BY <1>3 DEF FoldEquation
  <2> HIDE DEF step, base
  <2>2. \A T \in SUBSET (1 .. m) :
           g[T] = IF T = {} THEN base ELSE Followed(g[T \ {Max(T)}], curve[Max(T)])
    BY <1>4, <2>1
  <2>3. g = [T \in SUBSET (1 .. m) |-> g[T]]
    BY <1>3
  <2>4. g = [T \in SUBSET (1 .. m) |->
                IF T = {} THEN base ELSE Followed(g[T \ {Max(T)}], curve[Max(T)])]
    BY <2>2, <2>3
  <2>5. DOMAIN curve = 1 .. m
    OBVIOUS
  <2> QED BY <2>4, <2>5 DEF DrawdownEquation, base
<1>6. PICK f : f = CHOOSE h : DrawdownEquation(h, curve)
  OBVIOUS
<1>7. DrawdownEquation(f, curve)
  BY <1>5, <1>6
<1>8. MaxDrawdown(curve) = f[DOMAIN curve].drawdown
  BY <1>6 DEF MaxDrawdown, FoldLeft, MapThenFoldSet, DrawdownEquation, Followed, Less
<1>9. f[1 .. 0] = base
  <2>1. 1 .. 0 = {} /\ {} \in SUBSET DOMAIN curve
    OBVIOUS
  <2> QED BY <1>7, <2>1 DEF DrawdownEquation
<1>10. \A k \in 1 .. m : f[1 .. k] = Followed(f[1 .. (k - 1)], curve[k])
  <2> SUFFICES ASSUME NEW k \in 1 .. m
               PROVE  f[1 .. k] = Followed(f[1 .. (k - 1)], curve[k])
    OBVIOUS
  <2>0. k \in Nat \ {0}
    OBVIOUS
  <2>1. Max(1 .. k) = k /\ (1 .. k) \ {k} = 1 .. (k - 1) /\ 1 .. k # {}
    BY <2>0, Prefix
  <2>2. 1 .. k \in SUBSET DOMAIN curve
    OBVIOUS
  <2> QED BY <1>7, <2>1, <2>2 DEF DrawdownEquation
<1>11. \A k \in 0 .. m : f[1 .. k] \in Account
  <2>1. ASSUME NEW k \in 1 .. m, f[1 .. (k - 1)] \in Account PROVE f[1 .. k] \in Account
    BY <1>10, <2>1, FollowedTypes
  <2>2. f[1 .. 0] \in Account
    BY <1>1, <1>9
  <2> QED BY <2>1, <2>2, FoldIn
<1> QED BY <1>8, <1>9, <1>10, <1>11

Stands(acc, now, lost) == Fell(acc.peak, acc.drawdown[1], acc.drawdown[2], now, lost)

LEMMA FollowedStands ==
    ASSUME NEW acc \in Account, NEW now \in Int, NEW lost \in Int, Stands(acc, now, lost),
           NEW res \in Int, NEW new \in Int, new = now + res
    PROVE  Stands(Followed(acc, new), new, lost + AtLeast(0, -res))
<1>1. PICK top, num, den : top = acc.peak /\ num = acc.drawdown[1] /\ den = acc.drawdown[2]
  OBVIOUS
<1>2. top \in Int /\ num \in Int /\ den \in Int /\ Fell(top, num, den, now, lost)
  BY <1>1 DEF Account, Stands
<1>3. PICK peak \in Int : peak = AtLeast(new, top)
  BY <1>2 DEF AtLeast
<1>4. PICK less \in BOOLEAN : less <=> (new - peak) * den < num * peak
  OBVIOUS
<1>5. IF less THEN Fell(peak, new - peak, peak, new, lost + AtLeast(0, -res))
              ELSE Fell(peak, num, den, new, lost + AtLeast(0, -res))
  BY <1>2, <1>3, <1>4, FallsFollow
<1>6. Less(acc, new) <=> less
  BY <1>1, <1>3, <1>4 DEF Less
<1>7. peak > 0
  BY <1>2, <1>3, MoneyTypes DEF Fell, AtLeast
<1>8. Followed(acc, new) = [peak |-> peak,
                            drawdown |-> IF less THEN <<new - peak, peak>> ELSE acc.drawdown]
  BY <1>1, <1>3, <1>6, <1>7 DEF Followed
<1>9. CASE less
  <2>1. Followed(acc, new).peak = peak /\ Followed(acc, new).drawdown = <<new - peak, peak>>
    BY <1>8, <1>9
  <2> QED BY <1>5, <1>9, <2>1 DEF Stands
<1>10. CASE ~less
  <2>1. Followed(acc, new).peak = peak /\ Followed(acc, new).drawdown = acc.drawdown
    BY <1>8, <1>10
  <2> QED BY <1>1, <1>5, <1>10, <2>1 DEF Stands
<1> QED BY <1>9, <1>10

\* The drawdown of a curve that starts from the initial capital is at most what
\* was lost on the way, and there is one exactly when something was lost.
LEMMA DrawdownOfLosses ==
    ASSUME NEW n \in Nat, NEW results \in [1 .. n -> Int], NEW curve \in [1 .. (n + 1) -> Int],
           curve[1] = Initial, \A k \in 1 .. n : curve[k + 1] = curve[k] + results[k],
           NEW lost \in [0 .. n -> Int], lost[0] = 0,
           \A k \in 1 .. n : lost[k] = lost[k - 1] + AtLeast(0, -results[k])
    PROVE  /\ MaxDrawdown(curve)[1] * Initial >= -(lost[n] * MaxDrawdown(curve)[2])
           /\ MaxDrawdown(curve)[1] < 0 <=> lost[n] > 0
<1>0. Initial \in Int /\ Initial > 0
  BY MoneyTypes
<1>1. PICK f : /\ f[1 .. 0] = [peak |-> curve[1], drawdown |-> <<0, 1>>]
               /\ \A k \in 1 .. (n + 1) : f[1 .. k] = Followed(f[1 .. (k - 1)], curve[k])
               /\ \A k \in 0 .. (n + 1) : f[1 .. k] \in Account
               /\ MaxDrawdown(curve) = f[1 .. (n + 1)].drawdown
  <2>1. n + 1 \in Nat \ {0}
    OBVIOUS
  <2> QED BY <2>1, DrawdownAlong
<1> DEFINE Q == {k \in Nat : k <= n => Stands(f[1 .. (k + 1)], curve[k + 1], lost[k])}
<1>2. 0 \in Q
  <2>1. PICK acc : acc = [peak |-> Initial, drawdown |-> <<0, 1>>]
    OBVIOUS
  <2>2. f[1 .. 1] = Followed(acc, Initial)
    <3>1. 1 \in 1 .. (n + 1) /\ 1 - 1 = 0
      OBVIOUS
    <3> QED BY <1>1, <2>1, <3>1
  <2>3. AtLeast(Initial, Initial) = Initial
    BY DEF AtLeast
  <2>4. ~Less(acc, Initial)
    BY <1>0, <2>1, <2>3 DEF Less
  <2>5. Followed(acc, Initial) = acc
    BY <2>1, <2>3, <2>4 DEF Followed
  <2>6. Stands(acc, Initial, 0)
    BY <1>0, <2>1 DEF Stands, Fell
  <2>7. 0 + 1 = 1 /\ f[1 .. 1] = acc
    BY <2>2, <2>5
  <2> QED BY <2>6, <2>7
<1>3. ASSUME NEW k \in Nat, k \in Q PROVE k + 1 \in Q
  <2> SUFFICES ASSUME k + 1 <= n
               PROVE  Stands(f[1 .. (k + 2)], curve[k + 2], lost[k + 1])
    <3>1. (k + 1) + 1 = k + 2 /\ k + 1 \in Nat
      OBVIOUS
    <3> QED BY <3>1
  <2>1. /\ k <= n /\ k + 1 \in 1 .. n /\ k \in 0 .. n /\ k + 1 \in 0 .. (n + 1)
        /\ k + 2 \in 1 .. (n + 1) /\ k + 1 \in 1 .. (n + 1)
        /\ (k + 2) - 1 = k + 1 /\ (k + 1) - 1 = k /\ (k + 1) + 1 = k + 2
    OBVIOUS
  <2>2. PICK acc, now, new, less, more, res :
           /\ acc = f[1 .. (k + 1)] /\ now = curve[k + 1] /\ new = curve[k + 2]
           /\ less = lost[k] /\ more = lost[k + 1] /\ res = results[k + 1]
    OBVIOUS
  <2>3. acc \in Account /\ now \in Int /\ new \in Int /\ less \in Int /\ res \in Int
    BY <1>1, <2>1, <2>2
  <2>4. new = now + res /\ more = less + AtLeast(0, -res)
    BY <2>1, <2>2
  <2>5. f[1 .. (k + 2)] = Followed(acc, new)
    BY <1>1, <2>1, <2>2
  <2>6. Stands(acc, now, less)
    BY <1>3, <2>1, <2>2
  <2>7. Stands(Followed(acc, new), new, less + AtLeast(0, -res))
    BY <2>3, <2>4, <2>6, FollowedStands
  <2> QED BY <2>2, <2>4, <2>5, <2>7
<1>4. Stands(f[1 .. (n + 1)], curve[n + 1], lost[n])
  <2>1. n \in Q
    <3> HIDE DEF Q
    <3> QED BY <1>2, <1>3, Induction
  <2> QED BY <2>1
<1>5. PICK acc, now, all : acc = f[1 .. (n + 1)] /\ now = curve[n + 1] /\ all = lost[n]
  OBVIOUS
<1>6. acc \in Account /\ now \in Int /\ all \in Int /\ Stands(acc, now, all)
  <2>1. n + 1 \in 0 .. (n + 1) /\ n + 1 \in 1 .. (n + 1) /\ n \in 0 .. n
    OBVIOUS
  <2> QED BY <1>1, <1>4, <1>5, <2>1
<1>7. /\ acc.drawdown[1] * Initial >= -(all * acc.drawdown[2])
      /\ acc.drawdown[1] < 0 <=> all > 0
  <2>1. acc.peak \in Int /\ acc.drawdown[1] \in Int /\ acc.drawdown[2] \in Int
    BY <1>6 DEF Account
  <2> QED BY <1>6, <2>1, FallsAreLosses DEF Stands
<1> QED BY <1>1, <1>5, <1>7

LEMMA Simulated ==
    ASSUME TypeOK, MonteCarlo
    PROVE  SimulationsAgree'
<1>1. PICK trades, n : trades = all_trades /\ n = Len(trades)
  OBVIOUS
<1>2. /\ trades \in Seq(ClosedTrade) /\ n \in Nat /\ DOMAIN trades = 1 .. n
      /\ \A i \in 1 .. n : trades[i] \in ClosedTrade
  BY <1>1 DEF TypeOK
<1>3. \A i \in 1 .. n : NetPnl(trades[i]) \in Int
  BY <1>2, TradeResults
<1>4. PICK order \in Orders(n) :
         LET curve == Equities([i \in DOMAIN order |-> NetPnl(trades[order[i]])])
         IN  sim' = [equity |-> curve[Len(curve)], drawdown |-> MaxDrawdown(curve)]
  <2>1. Cardinality(1 .. n) = n
    BY <1>2, FS_Interval
  <2>2. SetToSeqs(DOMAIN trades) = Orders(n)
    BY <1>2, <2>1 DEF SetToSeqs, Orders
  <2> QED BY <1>1, <2>2 DEF MonteCarlo
<1>5. order \in [1 .. n -> 1 .. n] /\ DOMAIN order = 1 .. n
  BY DEF Orders
<1>6. PICK pnls : pnls = [i \in 1 .. n |-> NetPnl(trades[order[i]])]
  OBVIOUS
<1>7. PICK curve : curve = Equities(pnls)
  OBVIOUS
<1>8. sim'.equity = curve[Len(curve)] /\ sim'.drawdown = MaxDrawdown(curve)
  BY <1>4, <1>5, <1>6, <1>7
<1>9. pnls \in [1 .. n -> Int]
  BY <1>3, <1>5, <1>6
<1>10. pnls \in Seq(Int) /\ Len(pnls) = n
  BY <1>2, <1>9
<1>11. PICK f, g : f = Results(trades) /\ g = [i \in DOMAIN trades |-> Loss(trades[i])]
  OBVIOUS
<1>12. f \in [1 .. n -> Int] /\ \A i \in 1 .. n : f[i] = NetPnl(trades[i])
  BY <1>2, <1>11, ResultTypes
<1>13. \A i \in 1 .. n : Loss(trades[i]) \in Int /\ Loss(trades[i]) = AtLeast(0, -NetPnl(trades[i]))
  BY <1>3 DEF Loss, AtLeast
<1>14. g \in [1 .. n -> Int] /\ \A i \in 1 .. n : g[i] = AtLeast(0, -NetPnl(trades[i]))
  BY <1>2, <1>11, <1>13
<1>15. PICK along \in [0 .. n -> Int] :
          /\ along[0] = 0 /\ along[n] = SumFunction(f)
          /\ \A k \in 1 .. n : along[k] = along[k - 1] + f[order[k]]
  BY <1>2, <1>12, SumsAlong
<1>16. PICK lost \in [0 .. n -> Int] :
          /\ lost[0] = 0 /\ lost[n] = SumFunction(g)
          /\ \A k \in 1 .. n : lost[k] = lost[k - 1] + g[order[k]]
  BY <1>2, <1>14, SumsAlong
<1>17. \A k \in 1 .. n : f[order[k]] = pnls[k] /\ g[order[k]] = AtLeast(0, -pnls[k])
  BY <1>5, <1>6, <1>12, <1>14
<1>18. curve = [k \in 1 .. (n + 1) |-> Initial + along[k - 1]]
  <2>1. \A k \in 1 .. n : along[k] = along[k - 1] + pnls[k]
    BY <1>15, <1>17
  <2> QED BY <1>2, <1>7, <1>10, <1>15, <2>1, CurveOfResults
<1>19. Initial \in Int
  BY MoneyTypes
<1>20. curve \in [1 .. (n + 1) -> Int] /\ curve[1] = Initial /\ curve[n + 1] = Initial + along[n]
  <2>1. \A k \in 1 .. (n + 1) : k - 1 \in 0 .. n
    BY <1>2
  <2>2. 1 \in 1 .. (n + 1) /\ 1 - 1 = 0 /\ n + 1 \in 1 .. (n + 1) /\ (n + 1) - 1 = n
    BY <1>2
  <2> QED BY <1>15, <1>18, <1>19, <2>1, <2>2
<1>21. Len(curve) = n + 1
  <2>1. n + 1 \in Nat
    BY <1>2
  <2> QED BY <1>20, <2>1
<1>22. \A k \in 1 .. n : curve[k + 1] = curve[k] + pnls[k]
  <2> SUFFICES ASSUME NEW k \in 1 .. n PROVE curve[k + 1] = curve[k] + pnls[k]
    OBVIOUS
  <2>1. k \in 1 .. (n + 1) /\ k + 1 \in 1 .. (n + 1) /\ (k + 1) - 1 = k /\ k - 1 \in 0 .. n
    BY <1>2
  <2>2. curve[k] = Initial + along[k - 1] /\ curve[k + 1] = Initial + along[k]
    BY <1>18, <2>1
  <2>3. along[k] = along[k - 1] + pnls[k] /\ along[k - 1] \in Int /\ pnls[k] \in Int
    BY <1>9, <1>15, <1>17, <2>1
  <2> QED BY <1>19, <2>2, <2>3
<1>23. /\ MaxDrawdown(curve)[1] * Initial >= -(lost[n] * MaxDrawdown(curve)[2])
       /\ MaxDrawdown(curve)[1] < 0 <=> lost[n] > 0
  <2>1. \A k \in 1 .. n : lost[k] = lost[k - 1] + AtLeast(0, -pnls[k])
    BY <1>16, <1>17
  <2> QED BY <1>2, <1>9, <1>16, <1>20, <1>22, <2>1, DrawdownOfLosses
<1>24. all_trades' = trades
  BY <1>1 DEF MonteCarlo
<1>25. sim'.equity = Initial + Realized(trades)
  BY <1>8, <1>11, <1>15, <1>20, <1>21 DEF Realized
<1>26. SumFunction([i \in DOMAIN trades |-> Loss(trades[i])]) = lost[n]
  BY <1>11, <1>16
<1> QED BY <1>8, <1>23, <1>24, <1>25, <1>26 DEF SimulationsAgree

LEMMA SimulationsStep ==
    TypeOK /\ SimulationsAgree /\ [Next]_vars => SimulationsAgree'
<1> SUFFICES ASSUME TypeOK, SimulationsAgree, [Next]_vars PROVE SimulationsAgree'
  OBVIOUS
<1>1. CASE MonteCarlo
  BY <1>1, Simulated
<1>2. CASE UNCHANGED vars
  BY <1>2 DEF vars, SimulationsAgree, Realized, Results
<1>3. CASE SkipFold
  BY <1>3 DEF SkipFold, SimulationsAgree
<1>4. CASE ~MonteCarlo /\ ~SkipFold /\ Next
  <2>1. pc' \in {"call", "bar", "signals"}
    BY <1>4 DEF Next, StartRun, StartFold, FreshRun, NextBar, Close, Open, IgnoreSignal,
                MarkToMarket, CloseRemaining, EndRun
  <2> QED BY <2>1 DEF SimulationsAgree
<1> QED BY <1>1, <1>2, <1>3, <1>4

-----------------------------------------------------------------------------
(* The theorems *)

\* What every step preserves.
Inv ==
    /\ TypeOK /\ Placed
    /\ Money /\ Chronology
    /\ SimulationsAgree

LEMMA Invariance ==
    Spec => []Inv
<1>1. Init => Inv
  <2>1. Init => SimulationsAgree
    BY DEF Init, SimulationsAgree
  <2> QED BY <2>1, TypesInit, MoneyInit, ChronologyInit DEF Inv
<1>2. Inv /\ [Next]_vars => Inv'
  BY TypesStep, MoneyStep, ChronologyStep, SimulationsStep DEF Inv
<1> QED BY <1>1, <1>2, PTL DEF Spec

\* Whatever the bars, the strategy, the costs and the folds, the equity of a run
\* (backtest.py:406-419) is that of a bank account that settles every fill.
THEOREM EquityIsThatOfABank ==
    Spec => []EquityIsBankEquity
<1>1. Inv => EquityIsBankEquity
  <2> SUFFICES ASSUME TypeOK, Placed, Money PROVE EquityIsBankEquity
    BY DEF Inv
  <2>1. ASSUME pc = "bar", next_event <= Len(Timeline) PROVE equity = BankEquity
    <3>1. equity = Marked
      <4>1. next_event \in Nat /\ Len(Timeline) \in Nat
        BY TimelineLength DEF TypeOK
      <4> QED BY <2>1, <4>1 DEF Money, EquityIsMarked
    <3> QED BY <2>1, <3>1, BankValue DEF Money
  <2>2. ASSUME pc = "call" PROVE bank = Initial + Realized(completed_trades)
    <3>1. /\ SumFunction(Costs) = 0 /\ Initial \in Int /\ Realized(completed_trades) \in Int
      BY <2>2, BookSums DEF Placed
    <3> QED BY <3>1 DEF Money, BankBooks
  <2> QED BY <2>1, <2>2 DEF EquityIsBankEquity
<1> QED BY <1>1, Invariance, PTL

\* For every input on one symbol the result of a run (backtest.py:406-460) lies
\* above what its trades add up to by no more than the liquidation costs, and only
\* when there was one.
THEOREM ResultsFlatterTrades ==
    Spec => []CurveFlattersTrades
<1>1. Inv => CurveFlattersTrades
  <2> SUFFICES ASSUME TypeOK, Placed, Money,
                      pc = "call", Cardinality(DOMAIN input.candles) = 1,
                      \A i \in DOMAIN completed_trades :
                         completed_trades[i].symbol \in DOMAIN input.candles
               PROVE  LET earned == Initial + result.gross_profit - result.gross_loss
                      IN  /\ result.final_equity >= earned
                          /\ result.final_equity > earned => OpenAtEnd
    BY DEF Inv, CurveFlattersTrades, OpenAtEnd
  <2>1. Alone
    BY DEF Alone, Placed
  <2>2. PICK p, l, r, e : /\ p = result.gross_profit /\ l = result.gross_loss
                          /\ r = Realized(completed_trades) /\ e = result.final_equity
    OBVIOUS
  <2>3. /\ p \in Int /\ l \in Int /\ p - l = r
        /\ e >= Initial + r /\ (e > Initial + r => OpenAtEnd)
    BY <2>1, <2>2 DEF Money, ResultFlatters
  <2>4. Initial + p - l = Initial + r
    BY <2>3, MoneyTypes
  <2> QED BY <2>2, <2>3, <2>4
<1> QED BY <1>1, Invariance, PTL

\* Within a run and over the folds of a walk-forward on bars at the same times
\* (backtest.py:482-504), two trades of one symbol do not overlap.
THEOREM TradesFollow ==
    Spec => []TradesDoNotOverlap
<1>1. Inv => TradesDoNotOverlap
  BY DEF Inv, Chronology, FoldsFollow, Past, TradesDoNotOverlap
<1> QED BY <1>1, Invariance, PTL

\* Whatever the order of the trades (backtest.py:541-560), a simulation ends
\* where they do; its drawdown is of the losses.
THEOREM SimulationsEndTogether ==
    Spec => []SimulationsAgree
<1>1. Inv => SimulationsAgree
  BY DEF Inv
<1> QED BY <1>1, Invariance, PTL
=============================================================================
