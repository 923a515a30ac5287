# A verification project for build-finance

TLA+ models of the stateful parts of build-finance, TLC runs that check them on
small instances, and TLAPS proofs of theorems about them for every value of the
constants. Paths without a prefix are below `src/build_finance/`.

    tlc -config PaperBroker_books.cfg       MCPaperBroker
    tlc -config AutoTrader_loop.cfg         MCAutoTrader
    tlc -config Alpaca_safety.cfg           MCAlpaca
    tlc -config Workbench_window.cfg        MCWorkbench
    tlc -config Backtest_runs.cfg           MCBacktest
    tlc -config SourceTree_scan.cfg         MCSourceTree
    tlc -config LocalFixture_capture.cfg    MCLocalFixture
    tlc -config RunInputs_replay.cfg        MCRunInputs
    tlc -config ReplayLedger_contracts.cfg  MCReplayLedger
    tlc -config ReplayReceipts_receipts.cfg MCReplayReceipts
    tlc -config Alpaca_limit.cfg            MCAlpaca       # violated
    tlc -config Workbench_emergency.cfg     MCWorkbench    # violated
    tlapm PaperTradingProofs.tla
    tlapm AlpacaProofs.tla
    tlapm WorkbenchProofs.tla
    tlapm BacktestProofs.tla
    tlapm SourceTreeProofs.tla
    tlapm LocalFixtureProofs.tla
    tlapm RunInputsProofs.tla
    tlapm ReplayProofs.tla

`PROJECT.json` lists the components, every run with its properties, for every
property a mutated definition that breaks it, the source lines of every
definition, the findings, the hazards and the theorems.

## Inventory

The program has two halves that share nothing but the package: a trading
toolkit (data, strategies, backtest, brokers, auto-trader, GUI) and
`crypto_replay`, which admits recorded market data as evidence for a replay and
has the contracts of that replay, but no engine yet.

### Trading

| Component | State | Operations | Talks to |
|---|---|---|---|
| `broker.py` PaperBroker (100-335) | cash, positions with average cost and mark, last prices, trade log, equity history | `submit_order`, `update_prices`, `get_account`, `get_positions` | called by the auto-trader |
| `broker.py` AlpacaBroker (342-560) | local trade log; orders and positions live at the service | `submit_order`, `get_positions`, `get_account`, `get_quote` | HTTP to Alpaca |
| `autotrader.py` | running flag, iteration count, actions log, price history, symbols, strategy | `run_loop`, `run_once`, `stop`, `add_symbol`, `remove_symbol`, `set_strategy` | the market-data feed, the broker, a second thread |
| `gui/data_bridge.py` | cached answers with their time, demo flag | account, positions, quotes, watchlist, `flatten_all`, `invalidate_cache` | AlpacaBroker |
| `gui/pages/dashboard.py` | what it shows, a refresh timer | loads, Flatten All, Emergency Stop | data bridge |
| `gui/pages/autotrader_page.py` | running flag, a worker thread with a flag of its own | Start, Stop, the worker's loop and sleeps | the worker, by a flag, `wait` and signals |
| `backtest.py`, `data.py`, `orderbook.py` | positions, trades, equity history of one run | `run`, `walk_forward`, `monte_carlo`, simulated fills | strategies |
| `market_data.py` | none | fetchers, CSV reader and writer | HTTP, files |
| `strategies.py`, `indicators.py`, `risk.py`, `sizing.py`, `portfolio.py` | none | numeric functions of a price series | - |
| `cli.py`, the other pages, `src/scripts` | none of their own | one command or page per component | - |

### crypto_replay

| Component | State | Operations | Talks to |
|---|---|---|---|
| `source_tree.py` | directory stack, seen names, discovered files, visited directories of one scan | `scan_source_tree`, `reconstruct_source_tree` | the file system, which other programs change |
| `local_fixture.py` | captured files and issues of one capture | `capture_local_fixture` | the file system |
| `admission.py`, `jupiter_fixture.py` | reason codes per file, conflicts, collapsed candidates | `admit_local_fixture` | captured fixture |
| `run_inputs.py` | frozen bundle, normalised events, schedule, counter bounds | `derive_*`, `verify_contract_run_inputs` | admission, validators |
| `ledger_contract.py` | none | causes of every record type, their classes, initial prefix | retained documents |
| `contract_semantics.py`, `schema_registry.py` | none | one validator for every document type | ledger contract |
| `schema_definitions.py`, `canonical.py`, `formats.py`, `content_ids.py` | generated resource files | shapes of documents, canonical encoding | - |

### What is hard, and what makes each part correct

- **PaperBroker.** Every figure is derived from a sequence of calls: cash,
  holdings and average cost must agree with the log after any of them, as far as
  the figures of the log, which are rounded, go.
- **Auto-trader.** One thread loops over symbols; a second one stops it and
  edits its configuration at any moment; fetches fail in four ways. Orders must
  respect the position limit and trade at fresh prices, the log must be in
  order, and `stop` and the iteration limit must end the loop.
- **Alpaca account.** Orders fill later, requests are refused, replies are lost,
  and the dashboard sells the same shares. The question is exactly when the
  promises made for the simulated broker survive.
- **The window.** Cached and demo figures may be shown as live ones, a blocked
  window postpones its timer, buttons promise more than they do, a worker may
  outlive its page.
- **Backtest.** Positions and equity over several symbols with equal or
  different timestamps, folds cut by position, trades shuffled.
- **Source-tree scan and capture.** Hundreds of file-system calls while other
  programs write. An accepted tree must be the tree of one instant, an admitted
  fixture what one manifest names, and what nobody touched must not be refused
  without cause.
- **Admission and run inputs.** Who is blamed for a conflict must not depend on
  the order of the files; a bad file anywhere must keep the whole fixture from a
  run, although run_inputs never sees the batch; ranks and schedules are derived
  twice, from events and from receipts, and have to agree.
- **Contracts.** Every document is validated alone, by rules of its own. A
  decision that passes must have a continuation that passes; a figure that is
  off by one must not pass where others determine it; a receipt must exist for
  every outcome, and its evidence must decide what it concludes.

## Modules

| Module | Models | Uses |
|---|---|---|
| `PaperBroker` | class PaperBroker: state and operations, no specification of its own | |
| `PaperBrokerClient` | PaperBroker under any legal sequence of calls; properties of its books | extends PaperBroker |
| `PositionBook` | abstract: what automated trading promises about positions | |
| `AutoTrader`, `AutoTraderProps` | `autotrader.py` on a PaperBroker, with the second thread; its properties | extend PaperBroker, instance of PositionBook |
| `AlpacaBroker` | external: the order service behind AlpacaBroker | |
| `AlpacaTrading` | auto-trader and `flatten_all` on one such account | extends AlpacaBroker, instance of PositionBook |
| `Workbench` | dashboard, data bridge and auto-trader page in one window, in time | |
| `Backtest` | the backtest engine | instance of PositionBook |
| `SourceTree` | `scan_source_tree`, one action per file-system call | |
| `FixtureDocuments` | contracts of a fixture manifest's rows and of source receipts | |
| `Admission` | `admit_local_fixture`: reasons, receipts, status and candidates of a batch | |
| `LocalFixture`, `LocalFixtureProps` | `capture_local_fixture` call by call, then admission | extend FixtureDocuments and Admission |
| `RunInputs`, `RunInputsProps` | the event set, schedule and requests of a run from such a batch | extend Admission |
| `ContractDocuments`, `ExecutionDocuments`, `LedgerDocuments` | shapes and validators of a replay's documents and records | each extends the one before |
| `ReplayLedger`, `ReplayLedgerProps` | an external engine that writes them | extend LedgerDocuments |
| `ReceiptDocuments`, `VerdictDocuments` | shapes and validators of the receipts around a replay, of benchmarks too | extend ContractDocuments |
| `RunGate` | `verify_contract_run_inputs`: what it compares among receipts | extends VerdictDocuments |
| `ReplayReceipts`, `ReplayOutcomes`, `ReplayReceiptsProps` | how receipts come about, before and after a run | extend RunGate |
| `PaperTradingProofs` | theorems about the broker under any client, and about the auto-trader on it | extends PaperBrokerClient and AutoTraderProps |
| `AlpacaProofs`, `WorkbenchProofs`, `BacktestProofs`, `SourceTreeProofs`, `LocalFixtureProofs`, `RunInputsProofs`, `ReplayProofs` | theorems | extend the modules they are named after, with their properties; `ReplayProofs` those of the ledger, `RunInputsProofs` those of the receipts, too |
| `MCxxx` | values of the constants for TLC | extends each of the above |

### PaperBroker

`cash`, `positions`, `latest_prices` and `trades` are the fields of the class;
`last_equity` is the last entry of `equity_history`. `SubmitOrder` is the whole
of `submit_order`: base price, slippage, clamp at zero, commission, blended
average cost, a sale clamped at flat, deletion of a flat position, the trade,
the snapshot. `UpdatePrices` is `update_prices` with one symbol, the only way it
is called. An order for no shares raises in the code and is no step here.

Money is a whole number of a unit finer than the fourth decimal, the finest the
code rounds to: `PriceGrain` units are 0.0001, `CentGrain` units 0.01. Cash,
marks and costs, which the code keeps as floats, are exact in that unit, with
slippage rounded down to it; average costs are fractions. What the code rounds is
rounded here, by `Rounded`, to the nearest and to even as `round` does: the
log keeps prices and commissions to four decimals and the notional to two
(broker.py:267-279), and `get_account` tells cash and equity in cents (152-156).
So a replay of the log does not give the cash exactly (`TradeLogReplays` with no
drift is violated in the instance), and the property bounds by how much it may
differ: half a cent and half a ten-thousandth for every order. Float errors
below the unit are left out.

### AutoTrader

One action is the code of the loop between two accesses to something shared: the
fields `running`, `config.symbols` and `strategy`, the network, the broker. `pc`
names these places. `TakeSnapshot` keeps what `get_account` tells, so that sizes
and the test of the cash go by figures in cents: a BUY may exceed the cash by half a
cent (`BuysFitCash`). The loop iterates over the list of symbols by index and
compares it with the length of the list as it is now, as a Python list iterator
does, so an edit in the middle of an iteration skips or adds symbols as in the
code. The fetch is `FetchEnough`, `FetchShort`, `FetchEmpty` (fetch_yahoo
swallows most errors and answers `[]`) or `FetchRaises` (it lets an exception
through that `run_loop` logs). A strategy is the set of signals it may end on;
its numeric rule is left open, which allows every behaviour of every strategy.

### AlpacaTrading

`orders` and `shares` are the service's. `Post` is the request of `submit_order`;
the service accepts or refuses it, and `Answered` or `Failed` is what the client
sees: the reply to an accepted order may be lost. `Fill` and `Cancel` happen at
any later time. An order fills in any number of parts, and what was filled stays
when the rest is cancelled or its day ends. Both clients follow their code: the trader reads the positions
once per signal, `flatten_all` once per click, passing over shorts and stopping
at the first failure. Sizes and cash are left open.

`overlapped` is a history variable: some client read the positions while an
order was pending, filled in part or not at all, or while the other was between
its reading and its order. It is the weakest condition we found under which the
account is safe. `SafeWithoutOverlap` and `FollowsTheBookInParts` are therefore
about the account as long as its programs take turns; what happens when they do
not is what the code has no defence against, and `alpaca_limit` shows one case of it.

### Workbench

The window's thread serves one event at a time: `gui` is what it does, `waited`
how long it has been blocked in it. `cache` and `shown` are the bridge's cache
and the dashboard, one entry for the account and one for the positions, each
with its age and whether it is from before the orders of the last flatten
(`outdated`, history). `live` says which bridge there is, with a broker or with
demo data. `GetFigures` and `Answered` are one request with its cache, the demo
figures of a failed one included; `Click`, `FlattenReads`, `FlattenOrders` and
`FlattenFinishes` are the two buttons and `flatten_all` order by order, with an
order that fails and one whose answer is lost. An account may be short: such
positions are shown, and passed over by `flatten_all`. `page` and `workers` are the
auto-trader page: Start makes a worker, Stop clears its flag and waits;
`NextSymbol`, `SymbolDone`, `Pause` and `Wake` are its loops, each with its test
of the flag. `announced` is what the last flatten held, ordered and said
(history). `Tick` lets time go on when everyone who acts has acted: a request
takes at most `Latency`, a symbol at most `Work`, a sleep one tick.

Shares that are sold leave the account at once: when orders fill is the subject
of `AlpacaTrading`. Worth knowing of the code: the worker asks `strategies.py`
for a function that is not there and always falls back to random signals and a
simulated equity, so "the configured trading loop" of the README sends no
orders; the figures of a failed request are demo figures under the label of the
account, cached like the account's; Emergency Stop does not empty the cache.

### Backtest

`Timeline` is the merged list of bars. `NextBar` to `MarkToMarket` is one turn of
the loop of `run`: the batch of signals, the fills with slippage, impact and
commission (`Close`, `Open`, `IgnoreSignal`), the equity point at a new timestamp;
`CloseRemaining` and `EndRun` close what is left and give the result.
`walk_forward` is a run for each fold on fresh books; `monte_carlo` shuffles the
completed trades. The strategy may answer with any of
the batches of the instance, `data.Signal` objects or `BacktestSignal`s, also
for a symbol that has no bar yet. Prices and money are whole numbers of a unit.
The bars of a symbol come in the order of their times; the merged list is a
sorted one (`Sorted`), bars of one time in the order of the dict.

### SourceTree

`link`, `disk` and `clock` are the file system: paths to inodes, inodes to
`[kind, content, modified]`. `Change` is another program writing a file,
creating or removing an entry between any two calls of the scan. All other
actions are the scan, one for each call: root lstat, scandir, each entry and its
lstat, open, fstat, each read, second fstat, second lstat, and the second
listing. The lstats of `_require_stable_directory_chain` are a queue, `checks`,
that is worked off one lstat at a time before the next call. `readdir` returns
what was there when the directory was opened; entries added or removed since may
or may not be returned. `walked` and `relisted` are history variables: the tree
at the end of the walk and at the start of the second listing.

A path may exist, or be made by another program, as any of `Kinds`. Parents have
no cycle and every entry starts in a directory that exists (`TreeAssumption`,
`DiskAssumption`). Assumptions about the environment, all of them needed: every change of a file
gives it a new modification time (a rewrite within one clock tick is invisible
to `_identity`), as does every change of a directory's entries; neither the root
nor a directory that holds something is moved or removed. Sizes are lengths of contents. Device numbers are constant.
A call that fails rejects the tree. Two names with one NFC form are two paths
with one `Name`. Names that are unsafe by spelling reject at once in the code
and are not modelled; digests stand for the contents they are taken of.

### LocalFixture

`disk` holds entries `[kind, data, id]` by path, and an identity for every
directory; the id stands for device, inode, size and time and is new after every
write. `Write` is another program that writes a file in place or replaces it,
between any two calls. `job` is what is captured next (manifest, rights, terms,
then payload and witness of every row, then what else lies in the payload
directory, then the root again), `reading` the file that is open. One file is
`SelectLayoutPath`, `OpenLocalFile`, `ReadChunks` and `Revalidate`; `Take` says
what becomes of its bytes or of their absence, with every issue of
`local_fixture.py`. `Admit` is all of `Admission` on what was captured, and
`SourceReceiptRecord` the receipt it writes for each file. A digest is the data
itself, and a row or a term may leave it out. What a file holds fits the place it
is looked for at, or is `Garbled` (`DataFits`, assumed of the directories and of
every write by `FixtureAssumption`): a parser that meets other bytes fails on
them. The assumption also says that nothing lies in a directory that is not there
and that the places where a document is looked for differ. Files stay in the order of the manifest, where the code sorts them at the
end; admission takes a set. Only the path through `openat` is modelled, as on
Linux.

### Admission and RunInputs

A row of `fixture` is a manifest row together with what the capture read at its
path: the issues found, whether there are bytes, and `doc`, what
`parse_jupiter_fixture_payload` makes of them, or `NoDoc`. Two files are the same
bytes exactly when their `doc`s are equal, so `doc` also stands for the digest.
`doc.pos` is a source position with its indices and subsequence, `doc.mints` a
market's mints and decimals, and a target of 0 is one left out. `around` is what
else was captured: issues of the fixture as a whole, whether rights and terms are
in order, whether the manifest shows a biased universe. Reason codes are without
their prefix; `UNSAFE_PATH` is the set-closure issue that
`_drop_path_set_closure_if_manifest_path_failed` knows by its message.
`AdmitLocalFixture` is the whole of `admit_local_fixture`: reasons of each file
alone, conflicts among those without any, and `Batch` with a receipt for every
file. That the manifest has no two rows with one path is assumed here and
produced by the capture in `LocalFixture`.

`RunInputs` continues with the receipts. The normaliser that makes events of
receipts is not in the repository; `Normalise` is any normaliser, which gives an
event any source number and any group, takes everything else from the payload and
counts its events. `EventSetDerived` is `derive_normalized_event_set`, a definition
for each check, `Cutoff` is `derive_availability_schedule`, `CounterBounds` the
counter capacity and `RequestScheduled` the test of one cached model request.
`RequestsAssumption` says what the parser and the manifest give: decisions are
positive, markets are numbered from 1.
Of what run_inputs.py:519-533 compares between an event and its receipt,
`EventsBindReceipts` takes the slot, which the payload gives and the manifest, too;
digest, market and numbers of admission (526-529) are the receipt's own here, where the
code compares them, so that the model accepts no less than the code.
`VerifyContractRunInputs` verifies or refuses. That the retained schedule equals
the derived one and that a digest in one document is that of another is the
subject of `RunGate`; the code preimages and the seed are taken as checked.

### Documents and ReplayLedger

Every schema is a set of records and every validator a predicate, in the three
document modules. A decimal string is the number it writes, a keyed and sorted
list a function or a set, a digest the place of what it is taken of. The engine
that writes the documents is not in the repository, so `ReplayLedger` is
external: double-entry books over groups of events, with the phases and postings
of `ledger_contract.py` and of the documents in the tests. It decides whatever
the validator of risk decisions lets pass, and derives intent, fill, states,
postings and causes from the decision. What is checked is the validators:
whether they accept all of that, and nothing next to it.

### Receipts

`ReceiptDocuments` and `VerdictDocuments` are the receipts around a replay, with
their validators. `ReplayReceipts` freezes inputs, lets
them be replaced while receipts about older ones are about (`replaced` counts),
issues configuration, closure, model and run receipts, and verifies the bundle
by `RunGate`, the comparisons of `verify_contract_run_inputs`. `ReplayOutcomes`
continues with what a verified run leaves: signals judged, books reconciled,
journals broken off, measurements, a benchmark of repetitions. `receipt` is the
document issued last; the procedures that issue them are external and follow the
stages their contracts name.

## Runs

| Run | Question | Bounds |
|---|---|---|
| `paper_broker_books` | do log, cash, holdings and average cost agree after any calls? | 2 symbols, 2 prices, 3 orders of 1-2 shares, market and limit: buy, buy more, sell in part, oversell; a cent of two logged price units, so that both roundings come about, up, down and to even; symmetric in the symbols |
| `autotrader_loop` | may the loop break its limits, prices, log or its promise to end? | 2 symbols for 1 slot, 1 or both listed at first, 2 prices, 4 fetch outcomes, 2 strategies, 3 orders, 1 edit, 2 iterations per limit and any number of restarts; capital and prices such that buys are of up to 3 shares, one may exceed the cash by its rounding, and a round trip at a loss leaves too little for another |
| `alpaca_safety` | what survives lost replies, late fills and a second client? | 2 symbols for 1 slot, lots of 1 and 2 shares, so that orders fill whole or in parts; no decision begins with 2 orders sent (open and close, or two that meet) |
| `workbench` | how old is what is shown, what is sold, who is stopped? | 2 symbols, both held; a time to live of 2 ticks, a timer of 3, a wait of 2, a latency and a symbol of 1, in the order of the code's 5, 15 and 3 seconds; workers in 2 slots; 1 trade of another program |
| `backtest_runs` | what does a result leave out, and does the engine keep the auto-trader's book? | 7 inputs of 1-2 symbols with 2-6 bars at equal and different times, 0-3 folds, 3-5 batches of signals, up to 2 positions |
| `source_tree_scan` | is an accepted tree one instant, and is a rejection deserved? | 6 initial trees with nested, excluded, colliding and linked entries, 2 changes, files of 2 chunks |
| `capture` | is an admitted fixture what one manifest names, and is a whole one admitted? | 2 rows; 75 directories, each whole but for one row, right, file, link or directory, or with two payloads of one lineage or target; 14 writes of another program, up to 2 of them in a capture |
| `replay_inputs` | who is blamed, what may run, in which order is it replayed? | up to 3 of 15 files: originals of two slots and two markets, a late correction, a fork, a retraction, conflicting bytes, a file twice, one file for every way to be bad; 4 surroundings; the configuration admitted first or second; 7 sets of model requests |
| `contracts` | do the validators accept all that follows from a legal decision, and nothing next to it that figures determine? | 3 groups with 3 prices, a unit of 4, one size, fee and margin; 14 lists of reasons, 3 opinions, with kill, latch and forced close; the equity stays positive, so that a kill for an equity of none does not come about |
| `receipts` | which outcomes have a receipt, and what does its evidence decide? | 3 fixtures, 2 configurations, 2 sets of signals, 2 replacements, all pairs of market failures, journals of up to 2 slots and 3 components, measurements at and over the limit of their width, 2 outputs per benchmark |
| `alpaca_limit` | violation: the position limit with late fills | as `alpaca_safety` |
| `workbench_emergency` | violation: Emergency Stop stops the auto-trader | as `workbench` |

What they show:

- **paper_broker_books**: `TradeLogReplays` and `AvgCostWithinFills` are about
  sequences: holdings and, within the rounding of the log, cash are compared with
  a replay of the whole log, the average cost with the logged prices of the buys
  since the symbol was last flat.
- **autotrader_loop**: the positions follow `PositionBook`; orders fill one
  slippage from the close just fetched (`FillsAtFreshClose`), which fails as soon
  as the second `update_prices` or the re-marking of held positions is dropped;
  no order of the loop, which marks before each, creates equity although the fill
  becomes the next mark (a client that does not mark may do so); the log is
  in order and without repetitions; `stop` ends the loop; a loop that completes
  iterations ends at its limit.
- **alpaca_safety**: the local log is exact but for lost replies; without an
  overlap the account respects the limit, is never short and follows
  `PositionBook` order by order, however each is divided into fills and even when
  replies are lost: a position changes within an order only by further parts of it.
- **workbench**: `ShownIsRecent` bounds the age of what an idle window shows by a
  time to live before its last timeout, however long it was blocked;
  `FlattenSellsTheLongs` compares what was ordered and reported with what was
  held long, which is all that is sold: what was held short stays;
  `FlattenShowsTheResult` fails if the cache is emptied before the orders;
  `StoppedMeansStopped` holds because no sleep exceeds a second and no symbol takes
  as long as Stop waits.
- **backtest_runs**: the curve is the equity of a bank account that settles every
  fill (`EquityIsBankEquity`), and never below what the trades earned, which it
  flatters by the costs of the last closes (`CurveFlattersTrades`, for one
  symbol that all trades are in: a short of a symbol without bars, so large that
  it filled below zero, is bought back lower still, at its own entry price). Trades of one symbol do not overlap over all folds when the symbols
  have their bars at the same times; folds are cut by position in the first
  symbol's bars, and otherwise they do overlap.
- **source_tree_scan**: `AcceptedIsSnapshot` names the instant an accepted tree
  is from, the end of the walk, and says that it was still so when the second
  listing began; `RejectedForCause` is the converse.
- **capture**: whatever is written meanwhile, an admitted fixture is what one
  manifest names, rights, payloads and witnesses (`AdmittedAsNamed`): the digests
  do what no second look at the files does. That sequences are distinct is told by
  nobody: it is only because one witness cannot fit two rows, and fails when the
  witness is rewritten between the two reads. A fixture nobody writes to is
  admitted exactly if it is whole: `Whole` says of a directory, without the order
  of any reads, what the code finds out file by file. `ReceiptsRefusedExactly` lists the receipts
  that admission writes and their own contract refuses.
- **replay_inputs**: `BlameIsExact` compares the groups of the code with conflicts
  between two files; it fails if, say, a retraction were to compete with a
  correction. `NothingFromQuarantine` says that the receipts alone carry every
  fault to the run. `EveryCandidateReplayedOnce`, `ReplayFollowsAvailability`,
  `CutoffsCoverGroups` and `RequestsFallOnEvents` are about runs that were
  verified; such runs are reached with three files, with corrections, with two
  markets, with an admission order that differs from the replay order, and with
  model requests.
- **contracts**: every legal decision has a legal continuation; a document with
  one figure, flag or place changed that others determine does not pass; each
  record's causes lead back to an admitted source. `DerivedFiguresAreBound` has two
  sides: cumulative fees, what a fill releases and the prices of fills, marks,
  stops and takes are only checked for range or sign, and a document with another of
  these passes (`Unbound`). The peak is on neither side (see Proofs).
- **receipts**: every outcome has an acceptable receipt, in whatever combination
  of failures, but for one: the end of a run that finds a residual
  (`EveryOutcomeButOneAccepted`). `ConclusionsFollowEvidence` has two sides, too: the
  same evidence with another conclusion is refused, except for what `LeftOpen`
  lists, which passes: the faults of an invalid configuration, other failures of a
  refused signal's stage, what a gate says it found, and whether a benchmark
  without a failed run passes, of which metrics and samples. The lists of codes
  that pass are those the checks can end in; a verified run can close every
  market however often its inputs were replaced.

A conflict takes two files and a third is a bystander or a duplicate; verified
runs need two slots and an order that can go wrong between them. `U64Max` is the
width of the counters, chosen per run so that some instances fit and some
exceed it by one.

Two changes during a scan or a capture are enough for each known race: one change
that goes unnoticed and one that undoes or covers it. A longer search of the scan
with three changes (32 million states) found nothing further.

The bounds on orders are guards on signals and clicks, never on the handling of
one already begun. The runs that check no deadlock are those of one call that
ends: a scan, a capture, a verification, a backtest, a replay.

## Fairness

`AutoTrader!FairSpec` is weak fairness of the loop's own steps: `fetch_yahoo` has
a timeout, `time.sleep` ends, broker and strategies compute, and a thread that
can run will run. Nothing is assumed of the second thread or of the outcome of a
fetch; therefore `LimitEndsLoop` is about a loop that keeps completing
iterations. With fetches that raise for ever the count stands still and the
limit is never reached. `StopEndsLoop` is about a loop that has been entered: a
`stop` before `run_loop` sets the flag is lost.

In `Workbench`, time itself is bounded by guards (`Tick` waits for those who have
to act), so that "in time" is safety there and no fairness is needed.

## Findings

- `autotrader.py:209`: the limit counts the positions the account holds, not the
  trader's own pending orders; with Alpaca `max_positions` is exceeded
  (`alpaca_limit`).
- `gui/pages/dashboard.py:431`: "Emergency stop: flatten + stop auto-trader"
  flattens only; a running worker goes on (`workbench_emergency`).

Seen while modelling, without a run of their own:

- `gui/data_bridge.py:411`: "Close all open positions (sell everything)." (398,
  and the button's tooltip, `gui/pages/dashboard.py:230`) sells the long ones; a
  short position stays open without an error. `FlattenSellsTheLongs` says what is
  sold; that it is all that was open, as promised, fails in `workbench` as soon as
  an account with a short position is flattened.
- `autotrader.py:323`: when a later symbol's fetch raises, the actions of orders
  already placed in that iteration never get into the log.
- `autotrader.py:221`: the check for enough cash leaves out slippage and
  commission; a fill can overdraw the account.
- `crypto_replay/run_inputs.py:566`: admission takes the same version and bytes
  twice as idempotent and gives two receipts; run inputs wants an event for each
  and refuses two events with one ordering key, so such a fixture never runs.
- `crypto_replay/local_fixture.py`: a witness lost with its directory is
  `NOT_LOCAL` and one read unstably `MANIFEST_MISMATCH`, neither of which is the
  reason the receipt's contract wants for its missing dates; an admitted
  fixture's receipts can be refused by their contract for the dates of its rights.
- `crypto_replay/admission.py`: sequences are compared only with the witness's. Two
  rows of one sequence, and so of one witness, are admitted when another program
  rewrites it between the two reads. A row or a term without a digest is admitted
  with whatever bytes are there. A payload that is not parsed, of a row without a
  market, gets a receipt that its contract refuses.
- `crypto_replay/contract_semantics.py`: a reconciliation at the final gate with
  a residual that is not zero has no acceptable receipt (`Unsayable`), and what a
  gate found is its own evidence; the proof set's schema wants two extremes
  where the closure allows one; verification compares neither the closure's rows
  with the fixture's markets nor its limit of proof rows with the configuration.

## Proofs

All theorems follow from the named assumptions of the modules alone, for any
symbols, prices, sizes, limits, trees, fixtures and bounds. Each is an inductive
invariant, first checked by TLC on the instances above, and then three facts: it
holds initially, every step keeps it, it implies the property.

| Module | Theorem | Statement |
|---|---|---|
| `PaperTradingProofs` | `BooksWellFormed` | `ClientSpec => []BooksOK` |
| | `LogAccountsForTheBooks` | `ClientSpec => []TradeLogReplays` |
| | `CostsAreAverages` | `ClientSpec => []AvgCostWithinFills` |
| | `Invariance`, `TypeCorrect` | `Spec => []IndInv`, `Spec => []TypeOK` |
| | `LimitRespected` | `Spec => []PositionLimit` |
| | `FreshFills` | `Spec => FillsAtFreshClose` |
| | `BuysAreCovered` | `Spec => BuysFitCash` |
| | `LogOrdered` | `Spec => []LogInOrder` |
| | `NothingFromNothing` | `Spec => OrdersNeverCreateEquity` |
| | `Refinement` | `Spec => ImplementsPositionBook` |
| | `LoopKeepsTheBooks` | `Spec => [](TradeLogReplays /\ AvgCostWithinFills)` |
| `AlpacaProofs` | `TypeCorrect` | `Spec => []TypeOK` |
| | `LogsAreExact` | `Spec => []LogIsExactUpToLoss` |
| | `SafeUntilOverlap` | `Spec => []SafeWithoutOverlap` |
| | `Refinement` | `Spec => FollowsTheBookInParts` |
| `WorkbenchProofs` | `TypeCorrect` | `Spec => []TypeOK` |
| | `ShowsRecent` | `Spec => []ShownIsRecent` |
| | `ShowsTheResult` | `Spec => []FlattenShowsTheResult` |
| | `SellsTheLongs` | `Spec => []FlattenSellsTheLongs` |
| | `StopStops` | `Spec => []StoppedMeansStopped` |
| `BacktestProofs` | `TypeCorrect` | `Spec => [](TypeOK /\ Placed)` |
| | `EquityIsThatOfABank` | `Spec => []EquityIsBankEquity` |
| | `ResultsFlatterTrades` | `Spec => []CurveFlattersTrades` |
| | `TradesFollow` | `Spec => []TradesDoNotOverlap` |
| | `SimulationsEndTogether` | `Spec => []SimulationsAgree` |
| | `Refinement` | `Spec => ImplementsPositionBook` |
| `SourceTreeProofs` | `TypeCorrect` | `Spec => []TypeOK` |
| | `AcceptedTreesAreSnapshots` | `Spec => []AcceptedIsSnapshot` |
| | `RejectedTreesHaveACause` | `Spec => []RejectedForCause` |
| `LocalFixtureProofs` | `TypeCorrect` | `Spec => []TypeOK` |
| | `AdmittedIsNamed` | `Spec => []AdmittedAsNamed` |
| | `ReceiptsToldOrRefused` | `Spec => []ReceiptsRefusedExactly` |
| | `WholeAndAdmitted` | `Spec => []AdmittedIfWhole` |
| `RunInputsProofs` | `TypeCorrect` | `Spec => []TypeOK` |
| | `QuarantineHolds` | `Spec => []NothingFromQuarantine` |
| | `Blame` | `Spec => []BlameIsExact` |
| | `OneHistory` | `Spec => []CandidatesAreOneHistory` |
| | `ReplayedOnce` | `Spec => []EveryCandidateReplayedOnce` |
| | `NoLookAhead` | `Spec => []ReplayFollowsAvailability` |
| | `CutoffsCover` | `Spec => []CutoffsCoverGroups` |
| | `RequestsFall` | `Spec => []RequestsFallOnEvents` |
| | `VerifiedRunCanCloseAlways` | `ReceiptsSpec => []VerifiedRunCanClose` |
| | `ReasonsAreReachableAlways` | `ReceiptsSpec => []ReasonsAreReachable` |
| | `EveryOutcomeButOneAcceptedAlways` | `ReceiptsSpec => []EveryOutcomeButOneAccepted` |
| | `ConclusionsFollowEvidenceAlways` | `ReceiptsSpec => []ConclusionsFollowEvidence` |
| `ReplayProofs` | `TraceInvariant` | `Spec => []TraceInv` |
| | `LedgerTracesBackAlways` | `Spec => []LedgerTracesBack` |
| | `BooksAddUpAlways` | `Spec => []BooksAddUp` |

Several proofs need induction over numbers, for a particular set of them: the
lemma `Induction` takes that set as a set, from the least element of what is not
in it, where the library's theorem takes an operator. Folds and sums are then
stated by the prefixes or subsets they go through.

**PaperTradingProofs**, the broker. `ClientSpec` is the broker under any client,
`Spec` the auto-trader on it. The invariant of the books is the two properties
with `BooksOK`: no position is short, empty or without a cost. They are folds
over the log: `SameFold` equates a fold with the values it passes on the prefixes, so that one more trade is one more step,
and each trade moves replayed holdings by what it moved in the books, and replayed
cash by that and the rounding of two figures, each within half a unit of its
grain (`RoundedNearby`, `EntryNearby`).
For the average cost, the trades since the symbol was last flat grow by one, or
start anew, with every order, and an average of an average and a fill lies
between the extremes of both.

**PaperTradingProofs**, the auto-trader. `PositionLimit` is tested against `held`, a copy taken one
step before the order, and the fill price comes from the broker's mark, not from
`close`. `IndInv` adds what the loop's thread knows between two of its steps:
`InHand` (symbol and close are real ones), `Marked` (from the mark to the order,
the broker's price of that symbol is that close) and `SnapshotCurrent` (account
and positions read are still current, the cash to the cent, since only this thread
touches a PaperBroker). `BuyOpens` and `SellCloses` then say what an order does to the book
in one statement each, and every theorem cites them. `SnapshotCurrent` is
precisely what fails with Alpaca, where other steps come between reading and
ordering. For the equity, the sum over positions is taken apart by one symbol
(by induction on the finite set): what an order adds to the worth of a holding
is never more than what it takes from the cash. Since every step of the loop is
an order or a mark that a client may make, or leaves the broker alone
(`LoopIsAClient`, which needs `IndInv` for the size of an order), the broker's
books hold for the auto-trader too, without a bound on its orders.

**AlpacaProofs.** An order lives on after the decision, so the invariants follow
it from decision to fill. `LogInv` says where an order may be: logged, lost, or
awaited by its program and later than all in its log. `Undisturbed`, which holds
until programs overlap, says that each pending order opens a flat symbol or
closes one whole, or what is left of one, no two of them for one symbol (`OrdersFit`), that open symbols
and pending buys together are within the limit, and that only one program is
between reading and ordering, with what it read still true of the symbols it has
to decide on (`OneDecides`). `FillFits` says what a part of an order then does: it
opens a flat symbol, closes one, or leaves the open symbols as they are with the
rest of the order still to come (`GoesOn`); safety and refinement both cite it.

**WorkbenchProofs.** The properties speak of an idle window or a finished flatten;
the invariant says what holds on the way: `LoadedRecent` and `ResultShown` between
the load of the account and that of the positions, `FlattenOnTheWay` (what was
sold and what is left to close make up the long positions) between two orders,
and `WorkerInv` while Stop waits: the worker has been told, and the rest of its
symbol or sleep is shorter than the rest of the wait. That needs `Work` and a
sleep of one tick to be below `WaitLimit`, which `TimingAssumption` states; with a
symbol that takes longer the property is false.

**BacktestProofs.** A merged list of bars exists and is sorted (by ranks, since a
sort is chosen and not computed), and the bars counted for a symbol are those on
the tape so far (`CountsFollowTape`). `BankBooks` is the invariant of the money:
the bank holds the capital, what the closed trades earned, less what the open
positions cost; marking adds the same on both sides. `Chronology` places trades
and positions in the time of their fold, and folds one after the other, which
gives `TradesDoNotOverlap`. For `SimulationsAgree`, a sum is the same along every
order, and the drawdown is bounded by the losses passed since the peak (`Fell`).

**SourceTreeProofs.** A change gives what it changes a later modification time
than any before, so an identity seen twice tells that nothing happened in
between (`HeldBefore`, `SameIdentity`). What the walk recorded is stated under the
hypothesis that the directory still is what it was (`Holds`), which the second
listing turns into facts about the two views (`Matched`). The converse has an
invariant of its own, `CauseInv`: in a fit tree that was not changed, all that is
recorded is what is there, so that no check of the scan can fail.

**LocalFixtureProofs.** The invariant follows a capture: what there is by which
job (`Progress`), that manifest, rights and terms belong together unless there are
issues (`DocumentsNamed`), what is known of each file (`FilesNamed`), of the file
that is open (`ReadingOK`), and that the batch is what admission makes of it
(`Judgement`). There is a lemma for each job finished and one for each call.
`ReceiptCodes` says which reasons a receipt can have, from which the contract's
verdict follows case by case. For a fixture that nobody changes a second
invariant, `Quiet`, follows the capture beside `Inv`: as long as nothing is wrong
(`Clean`), what was captured is what the directory has, and whole (`AsFound`);
once something is wrong, the directory is not whole. Each job that is finished
(`Takes`) has the one file there is under its names or an issue (`Exactly`), so
that its issues are empty exactly if its part of `Whole` holds. At the end
`AdmittedExactly` turns the batch's status into what `Whole` says of every row and
of every two payloads.

**RunInputsProofs.** Admission and verification are each one call, so the
invariant only frames them (`Frame`, `Events`, `Checked`) and the work is in
counting: the code compares cardinalities of groups (`ManyElements`), numbers
events by how many come before them (`Ranks`, with `Minimal` and
`Lexicographic` for the order) and finds an event for every receipt by counting
(`FiniteImage`). That the candidates are the earliest admissions needs no two
rows of one path, the assumption `LocalFixture` discharges. The slots of the
receipts and those of the events are ranked separately; `SlotsAreRanked` and
`GroupsAgree` identify them. `RunningMaxima` shows that the recursive cutoffs
exist, and so are what their equation says. A request's group lies between the
groups of the session's ends, so its slot does.

Of the receipts, `VerifiedRunCanClose` needs `ClosureInv`: from its issue on, a
closure repeats what it names (`SaysWhatItNames`: policy, configuration, limit
of proofs), even when the inputs have been replaced since, and a verified bundle
is what `Verifiable` accepts. `VerifiedCloses` then reads the market rows and the
sum of their proofs off the validator of the closure, `VerifiedWithoutConfig`
that there are none without a configuration. `ReasonsAreReachable` is no matter
of steps: `ReachedAreAccepted` and `AcceptedAreReached` are the two inclusions
for a market, the second naming the flaws and the capacity that give a list;
`StagesAgree` is the same for a signal and any set of its codes, where the run
takes sets of at most three.

`EveryOutcomeButOneAccepted` is a lemma for each kind of receipt (`ConfigAccepted` to
`BenchmarkedAccepted`), that what is drawn up has its schema and passes its
validator (of a reconciliation: exactly if it can be said, `ReconcileIssues`), and
`DocumentsInv`, that they are drawn up of what they need: the
frozen inputs are those the constants give, and the outputs of a benchmark are in
order, with the repetitions of each case counted from zero (`OutputsFit`). For the
lists, `Sorted` shows that a list in the order of its keys has every element once
and in that order, which needs that the keys are tuples of one length and differ
(`Keyed`); of the outputs, `OutputAdded` keeps this when one is put in between. The
closure rests on `RowsFit`, by which the codes of its rows, together, are those
the validator derives the state of the other checks from, and on `TotalsAgree`,
that it adds up the rows it lists, whatever some of them lack. The assumptions say
what the constants stand for: fixtures, configurations and files that passed their
own contracts, markets whose checks have sizes, opinions whose probabilities add up
to one, journals whose slots follow each other, timings of which only the
allocations may be missing. TLC evaluates them on the instance.

`ConclusionsFollowEvidence` is mostly no matter of steps either. For each kind a lemma
(`ConfigForced` to `ProofsForced`) says that of two documents that both pass and
differ at most in what `Rewrites` changes, each is the other or the second is
listed by `LeftOpen`; for the four kinds that leave something open another
(`ConfigOpen`, `ModelOpen`, `ReconciliationOpen`, `BenchmarkOpen`) says that what is
listed passes. What a validator concludes from is named once (`ReasonsDecided` for
a reconciliation: the residuals, the kind and what a gate found, which for all kinds
but two is nothing, `GateSays` and `NoSay`), and the evidence is the same in both. A
receipt that cannot be said stays so under every rewrite (`UnsayableStays`). The
order of proofs and of components is forced because keys of integers cannot increase
both ways (`OneWay`). What a validator does not say of a document, that a proof set
has rows, a quarantine lists of them and a reconciliation its schema, the invariant
`Drawn` does.

**ReplayProofs.** `LedgerTracesBack` speaks of the whole ledger, through the
recursive `Ancestors` and the digests that were retained before each record; an
action knows only the records it writes and the digests in `named`. `TraceInv`
closes that gap. `Records`: the object of a record is known by its place, and its
causes are objects of earlier records, the fixed documents or keys in use.
`Traced`: every record is caused well (`WellCaused`), by an earlier record that
is not a configuration's, and a state, reconciliation or end by the state before
it and by all receipts, intents and fills since. `Named`: each digest at hand is
that of a record of the right type, and `named.state` of the latest state, with
no milestone after it. `Ready`: what the next step will name is not null, which
needs the phase. `TrailsExist` and `AncestorsTrail` replace the recursion by its
equation; then `TraceSuffices` takes an ancestor of every record, down to a
source, by induction on its place. There is a lemma for each action, since each
builds its records from others. Two digests of different kinds are never the
same by their form; that null is not one of them is `DigestAssumption`.

`BooksAddUp` is what the validators of intents, fills, states and postings say of
the figures, for amounts of any size: a document whose figures fit their formats
(`StateInWidth`, `IntentInWidth`, `FillInWidth`) is what it is derived to be, every
posting balances in each asset, and equity is the capital and the session's result.
It is stated for the proof: the run checks its parts within `EveryDocumentAccepted`,
on its own prices and quantities. No document is enough to show it, since a state is
computed from the last one, and a fill from an intent of an earlier group. So
`BooksInv` says of the state at hand that it is `Sound`: `PositionSound`, a row is
quantity times mark, a profit the difference from the cost, and none is listed
without a quantity; and `SummarySound`, of which the heart is that cash and cost are
the capital and what was realized. Besides, a state reserves what the open intent
took, in cash for a purchase and in base for a sale, and nothing without one; the
intent is `IntentSound`, was approved in a group that has been, and could be covered
when it was. `Succeeds`, `Settles`, `Marks`, `Reserves` and `Kills` are the effects
of an action on a sound state; `Settles` is the one with the arithmetic of cost
basis, fees and released reservations. The postings are sums by a recursive function
over accounts: `SumOfRows` writes it out, `PostedRows` says that rows of different
accounts stand as they are, and a lemma for each form of posting adds them up.
`AbsenceAssumption` says that null is no balance, position or intent.

Only model-checked: `StopEndsLoop` and `LimitEndsLoop` (liveness under fairness
is outside the prover), and, of the ledger's contracts, `EveryDocumentAccepted` and
`DerivedFiguresAreBound`. The first wants more than figures: schemas, causes, the
context of a record and the contract of decisions, for every document of the trading
steps; its arithmetic is the theorem above. It needs figures within their widths,
which the instance's are and those of any capital are not. The second is about the
size of the amounts, too: that a document passes with one atom more of an unbound
figure needs room in its width. For the same reason `peak_equity_quote_atoms` is
in neither of its lists: `drawdown_bps` is rounded up (contract_semantics.py:1580), so
one atom of the peak always shows while an atom is at least a basis point, and from a
peak of some ten thousand atoms on one that is off by one can give the same drawdown
and pass.

## Not modelled

- `strategies`, `indicators`, `risk`, `sizing`, `portfolio`: functions of float
  arrays without state, where a model of small integers would say nothing; the
  models of their callers let them answer anything. The ratios of a backtest
  (Sharpe, Sortino, Calmar) and the order book, likewise.
- Widgets, layout, the other pages, `cli.py`, `src/scripts`: argument parsing,
  drawing and subprocesses around one component each.
- `get_status`, `get_quote`, `get_watchlist` and the other pure readers. A
  watchlist is cached under the sorted symbols but kept in the order of its first
  request and made of cached quotes; only one page asks, always for one list.
- `schema_codegen.py` (writes files at build time), canonical encoding, string
  formats, and the validators of code preimages, seeds and manifest headers:
  functions of bytes without state. `reconstruct_source_tree` checks a finished
  document. The fallback of the capture for systems without `openat`.
- Market data other than `fetch_yahoo` as the auto-trader sees it.
