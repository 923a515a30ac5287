---------------------------- MODULE ReplayLedger ----------------------------
(***************************************************************************)
(* A replay of one market that keeps double-entry books and writes the     *)
(* documents of LedgerDocuments.  The replay is external: the repository   *)
(* has the contracts and no engine yet.  Its phases and postings are those *)
(* of ledger_contract.py and of the documents in the tests, and it decides *)
(* anything the validator of risk decisions lets pass.                     *)
(***************************************************************************)
EXTENDS LedgerDocuments

CONSTANTS
    Sources,      \* how many source admissions come first
    MaxGroup,     \* the last group of events
    Prices,       \* of one base atom in each group, in quote atoms
    Capital,      \* the quote atoms at the start
    Fee,          \* of one fill, in quote atoms
    Quantities,   \* base atoms of an entry
    Margins,      \* what an entry reserves beyond its notional
    ReasonLists,  \* reasons a decision may give
    Consulted,    \* the groups in which the model is asked
    Biases        \* [abstain, long_bias, exit_bias, score] of a signal

ASSUME ReplayAssumption ==
    /\ Sources \in Nat \ {0} /\ MaxGroup \in Nat \ {0}
    /\ Prices \in [1 .. MaxGroup -> Nat \ {0}] /\ Quantities \subseteq Nat \ {0} /\ Margins \subseteq Nat
    /\ Capital \in Nat \ {0} /\ Fee \in Nat /\ Consulted \subseteq 1 .. MaxGroup

VARIABLES
    phase,      \* the phase of the group
    group,      \* the group of events, also its ingest sequence and clock
    price,      \* of the latest event that has one
    configured, \* is there a validated configuration?
    portfolio,  \* the current portfolio state
    intent,     \* the open intent, or Null
    named,      \* the digest of the latest object of some types
    ledger,     \* the records
    keys,       \* the typed keys retained
    emitted     \* the documents of the latest step, with the context of their records

vars == <<phase, group, price, configured, portfolio, intent, named, ledger, keys, emitted>>

Bytes(n) == <<"bytes", n>>
Fixture == Bytes(1)
Config == Bytes(2)
Registry == Bytes(3)
Manifest == Bytes(4)
RunClosure == Bytes(5)
MarkKey(g) == <<"key", g>>
RiskKey(g) == <<"key", MaxGroup + g>>

\* The digest of the object of the i-th record of a batch.
Object(i) == <<"object", Len(ledger) + i>>
ObjectAt(n) == <<"object", n>>

NoEntries == [key \in Mints \X Accounts |-> 0]
NoContext == [field \in {} |-> Null]

\* Rows <<asset, account, amount>>; the other accounts have no entry.
Posting(rows) ==
    [key \in Mints \X Accounts |->
        MapThenSumSet(LAMBDA i : rows[i][3], {i \in DOMAIN rows : <<rows[i][1], rows[i][2]>> = key})]

Doc(type, doc, context, entries) ==
    [type |-> type, doc |-> doc, context |-> context, entries |-> entries]

RecordsFrom(start, batch) ==
    [i \in DOMAIN batch |->
        LET n == start + i
        IN  [record_id |-> <<"record", n>>, sequence |-> n - 1,
             previous |-> IF n = 1 THEN Null ELSE <<"record", n - 1>>,
             type |-> batch[i].type, object_schema |-> ObjectSchema[batch[i].type],
             object |-> IF batch[i].type = "RUN_END" THEN named.state ELSE ObjectAt(n),
             decision |-> Null, ingest |-> Null, group |-> Null, clock |-> Null,
             causes |-> Causes(batch[i].type, batch[i].context),
             entries |-> batch[i].entries, residuals |-> <<0, 0>>,
             unmatched_reservations |-> 0]]

Write(batch) ==
    /\ ledger' = ledger \o RecordsFrom(Len(ledger), batch)
    /\ emitted' = batch

-----------------------------------------------------------------------------
(* Portfolio arithmetic *)

Holding(p) == p.positions[Base] # Null

Held(p) == IF Holding(p) THEN p.positions[Base]
           ELSE [quantity |-> 0, reserved |-> 0, cost_basis |-> 0, market_value |-> 0,
                 unrealized |-> 0, mark |-> 1, stop |-> 1, take |-> 1]

Balance(available, reserved) ==
    [available |-> available, reserved |-> reserved, total |-> available + reserved]

BalanceRows(quote, base) == [m \in Mints |-> IF m = Quote THEN quote ELSE base]

\* The next state with these balances and position; x.quantity is what is held.
Succeeding(p, schema, cause, quote, x, reserved_base, realized, fees, open) ==
    LET flat       == x.quantity = 0
        value      == x.quantity * x.mark
        unrealized == IF flat THEN 0 ELSE value - x.cost_basis
        equity     == quote.total + value
        peak       == IF equity > p.peak THEN equity ELSE p.peak
    IN  [p EXCEPT
            !.sequence = @ + 1, !.ingest = group, !.group = group, !.clock = group,
            !.previous = named.state, !.causation_schema = schema, !.causation = cause,
            !.balances = BalanceRows(quote, IF flat THEN Null
                                     ELSE Balance(x.quantity - reserved_base, reserved_base)),
            !.positions[Base] = IF flat THEN Null
                                ELSE [x EXCEPT !.reserved = reserved_base,
                                               !.market_value = value,
                                               !.unrealized = unrealized],
            !.realized = realized, !.unrealized = unrealized, !.session = realized + unrealized,
            !.fees = fees, !.equity = equity, !.peak = peak,
            !.drawdown_bps = DrawdownBps(peak, equity), !.open_intents = open]

Marked(p, at, cause) ==
    Succeeding(p, "GROUP_MARK_TO_MARKET", cause, p.balances[Quote], [Held(p) EXCEPT !.mark = at],
               Held(p).reserved, p.realized, p.fees, p.open_intents)

Reserved(p, i, id) ==
    LET quote == p.balances[Quote]
    IN  Succeeding(p, "SIMULATED_INTENT", id,
                   Balance(quote.available - i.reserved_quote, quote.reserved + i.reserved_quote),
                   Held(p), i.reserved_base, p.realized, p.fees, {id})

Fees(f) == f.venue_fee + f.priority_fee + f.simulation_fee

Settled(p, i, f, id) ==
    LET x     == Held(p)
        quote == p.balances[Quote].available
        cost  == IF x.quantity = 0 THEN 0 ELSE (x.cost_basis * f.filled) \div x.quantity
    IN  IF i.action = "OPEN_LONG"
        THEN Succeeding(p, "SIMULATED_FILL", id, Balance(quote + f.released_quote, 0),
                 [x EXCEPT !.quantity = @ + f.filled, !.cost_basis = @ - f.cash_delta,
                           !.mark = price, !.stop = i.stop, !.take = i.take],
                 0, p.realized, p.fees + Fees(f), {})
        ELSE Succeeding(p, "SIMULATED_FILL", id, Balance(quote + f.cash_delta, 0),
                 [x EXCEPT !.quantity = @ - f.filled, !.cost_basis = @ - cost],
                 0, p.realized + f.cash_delta - (IF f.filled = 0 THEN 0 ELSE cost),
                 p.fees + Fees(f), {})

Killed(p, reasons, cause) ==
    [Marked(p, Held(p).mark, cause) EXCEPT
        !.causation_schema = "RISK_KILL", !.kill_latched = TRUE, !.kill_reasons = reasons]

Genesis(run) ==
    [sequence |-> 0, ingest |-> 0, group |-> 0, clock |-> 0, previous |-> Null,
     causation |-> run, causation_schema |-> "RUN_INITIALIZATION",
     balances |-> BalanceRows(Balance(Capital, 0), Null), positions |-> [m \in {Base} |-> Null],
     realized |-> 0, unrealized |-> 0, session |-> 0, fees |-> 0, equity |-> Capital,
     peak |-> Capital, drawdown_bps |-> 0, kill_latched |-> FALSE, kill_reasons |-> <<>>,
     open_intents |-> {}]

-----------------------------------------------------------------------------
(* INITIAL_PREFIX *)

\* The configuration is admitted at any place among the sources.
Prefix(place, valid) ==
    LET run   == Sources + 2
        ids   == [i \in 1 .. (Sources + 1) |-> ObjectAt(i)]
        config == IF valid THEN Config ELSE Null
    IN  [i \in 1 .. (Sources + 1) |->
            IF i = place THEN Doc("CONFIG_ADMISSION", Null, [validated_config |-> config], NoEntries)
            ELSE Doc("SOURCE_ADMISSION", Null, [fixture_manifest |-> Fixture], NoEntries)]
        \o << Doc("RUN_RECEIPT", Null,
                  [fixture_manifest |-> Fixture, config_admission |-> ids[place],
                   run_closure |-> RunClosure, validated_config |-> config,
                   source_admissions |-> RemoveAt(ids, place)], NoEntries),
              Doc("PORTFOLIO_STATE", Genesis(ObjectAt(run)), [causation |-> ObjectAt(run)], NoEntries),
              Doc("RECONCILIATION", Null,
                  [state_before |-> ObjectAt(run + 1), state_after |-> ObjectAt(run + 1),
                   reconciled |-> <<>>], NoEntries) >>

Init ==
    /\ phase = "GROUP_GATE" /\ group = 0 /\ price = 0
    /\ intent = Null /\ keys = {}
    /\ configured \in BOOLEAN
    /\ portfolio = Genesis(ObjectAt(Sources + 2))
    /\ \E place \in 1 .. (Sources + 1) :
          /\ named = [source |-> ObjectAt(IF place = 1 THEN 2 ELSE 1), config |-> ObjectAt(place),
                      state |-> ObjectAt(Sources + 3), event |-> Null, snapshot |-> Null,
                      validation |-> Null, signal |-> Null, decision |-> Null, intent |-> Null,
                      reconciliation |-> ObjectAt(Sources + 4)]
          /\ emitted = Prefix(place, configured)
          /\ ledger = RecordsFrom(0, emitted)

-----------------------------------------------------------------------------
(* One group *)

RawEvent(kind, at) ==
    [kind |-> kind, supersedes |-> IF kind = "CORRECTION" THEN group ELSE Null,
     retracts |-> IF kind = "RETRACTION" THEN group ELSE Null,
     slot |-> IF kind = "ORIGINAL" THEN group + 1 ELSE group, availability_slot |-> group + 1,
     availability_admission |-> group + 1, admission |-> group + 1, ingest |-> group + 1,
     group |-> group + 1, clock |-> group + 1, event_kind |-> "SWAP_OBSERVATION",
     event_time |-> group, observed_at |-> group, ingested_at |-> group + 1,
     executable |-> kind # "RETRACTION",
     quality_flags |-> CASE kind = "CORRECTION" -> {"PROVIDER_REVISION"}
                         [] kind = "RETRACTION" -> {"RETRACTED_SOURCE"}
                         [] OTHER -> {},
     base_amount |-> 1, quote_amount |-> at, route_capacity |-> 1, liquidity |-> 1]

RawGroupCommit ==
    /\ phase = "GROUP_GATE" /\ group < MaxGroup
    /\ \E kind \in {"ORIGINAL", "CORRECTION", "RETRACTION"} :
          /\ kind # "ORIGINAL" => group > 0
          /\ Write(<<Doc("RAW_ADMISSION", RawEvent(kind, Prices[group + 1]),
                         [source_admission |-> named.source], NoEntries)>>)
          /\ price' = IF kind = "RETRACTION" THEN price ELSE Prices[group + 1]
    /\ group' = group + 1
    /\ named' = [named EXCEPT !.event = Object(1)]
    /\ phase' = IF intent # Null THEN "FILL_OR_EXPIRY" ELSE "GROUP_MARK"
    /\ UNCHANGED <<configured, portfolio, intent, keys>>

\* A fill receipt for the open intent, at the group's event unless it expires.
FillReceipt(status, reasons, filled) ==
    LET i        == intent
        done     == status \in {"FILLED", "PARTIAL"}
        gross    == IF done THEN filled * price ELSE 0
        fee      == IF done THEN Fee ELSE 0
        buy      == i.action = "OPEN_LONG"
        expired  == status = "EXPIRED"
        at(x)    == IF expired THEN Null ELSE x
    IN  [sequence |-> i.sequence, decision |-> i.decision, status |-> status, reasons |-> reasons,
         fill_event |-> at(group), decision_ingest |-> i.ingest, decision_group |-> i.group,
         fill_ingest |-> at(group), fill_group |-> at(group), fill_clock |-> at(group),
         requested |-> i.quantity, filled |-> filled, unfilled |-> i.quantity - filled,
         gross |-> gross, venue_fee |-> fee, priority_fee |-> 0, simulation_fee |-> 0,
         cash_delta |-> IF buy THEN -(gross + fee) ELSE gross - fee,
         execution_price |-> IF done THEN price ELSE Null,
         diagnostics |-> [d \in Diagnostics |-> 0],
         released_quote |-> IF buy THEN i.reserved_quote - gross - fee ELSE 0,
         released_base |-> IF buy THEN 0 ELSE i.quantity - filled]

FillEntries(f, after) ==
    LET i          == intent
        realized   == after.realized - portfolio.realized
        unrealized == after.unrealized - portfolio.unrealized
        buy        == i.action = "OPEN_LONG"
    IN  Posting(<< <<Base, "POSITION_AVAILABLE", IF buy THEN f.filled ELSE f.released_base>>,
                   <<Base, "POSITION_RESERVED", -i.reserved_base>>,
                   <<Base, "TRADE_CLEARING", IF buy THEN -f.filled ELSE f.filled>>,
                   <<Quote, "CASH_AVAILABLE", IF buy THEN f.released_quote ELSE f.cash_delta>>,
                   <<Quote, "CASH_RESERVED", -i.reserved_quote>>,
                   <<Quote, "FEE_EXPENSE", Fees(f)>>,
                   <<Quote, "TRADE_CLEARING", IF buy THEN f.gross ELSE -f.gross>>,
                   <<Quote, "REALIZED_PNL", realized>>,
                   <<Quote, "UNREALIZED_PNL", unrealized>>,
                   <<Quote, "EQUITY_CONTROL", -(realized + unrealized)>> >>)

\* The records of a fill and of the state it leads to, from the n-th place on.
FillRecords(f, n, latching) ==
    LET after == Settled(portfolio, intent, f, Object(n))
    IN  << Doc("SIMULATED_FILL", f,
               [intent |-> named.intent, state_before |-> named.state,
                fill_event |-> IF f.fill_event = Null THEN Null ELSE named.event,
                reasons |-> f.reasons, latching_risk_decision |-> latching],
               FillEntries(f, after)),
           Doc("PORTFOLIO_STATE", after,
               [causation |-> Object(n), previous_state |-> named.state], NoEntries) >>

Affordable(f) == f.released_quote >= 0 /\ (intent.action = "CLOSE_LONG" => f.gross >= Fees(f))

FillOutcomes ==
    {FillReceipt("FILLED", <<>>, intent.quantity)}
    \cup {FillReceipt("PARTIAL", <<"PARTIAL">>, filled) : filled \in 1 .. (intent.quantity - 1)}
    \cup {FillReceipt("REJECTED", <<reason>>, 0) :
             reason \in {"ZERO_CAPACITY", "INSUFFICIENT_RESERVATION"}}

Fill ==
    /\ phase = "FILL_OR_EXPIRY"
    /\ \E f \in FillOutcomes :
          /\ Affordable(f)
          /\ LET batch == FillRecords(f, 1, Null)
             IN  Write(batch) /\ portfolio' = batch[2].doc
    /\ named' = [named EXCEPT !.state = Object(2), !.intent = Null]
    /\ intent' = Null
    /\ phase' = "GROUP_MARK"
    /\ UNCHANGED <<group, price, configured, keys>>

GroupMark ==
    /\ phase = "GROUP_MARK"
    /\ IF Holding(portfolio)
       THEN LET after == Marked(portfolio, price, MarkKey(group))
                moved == after.unrealized - portfolio.unrealized
            IN  /\ Write(<<Doc("PORTFOLIO_STATE", after,
                               [causation |-> MarkKey(group), previous_state |-> named.state],
                               Posting(<< <<Quote, "UNREALIZED_PNL", moved>>,
                                          <<Quote, "EQUITY_CONTROL", -moved>> >>))>>)
                /\ portfolio' = after
                /\ named' = [named EXCEPT !.state = Object(1)]
                /\ keys' = keys \cup {MarkKey(group)}
       ELSE /\ Write(<<>>)
            /\ UNCHANGED <<portfolio, named, keys>>
    /\ phase' = "SNAPSHOT"
    /\ UNCHANGED <<group, price, configured, intent>>

\* With one event the mid price is known, with two the return as well.
FeatureSnapshot ==
    LET known == [name \in FeatureNames |->
                     CASE name \in {"mid_price", "liquidity", "stale_age"} -> price
                       [] name \in {"return_1", "rsi_14"} /\ group > 1 -> price
                       [] OTHER -> Null]
    IN  [decision |-> group, admission |-> group, ingest |-> group, group |-> group,
         clock |-> group, as_of_event |-> group, merkle_root |-> "root", event_time |-> group - 1,
         observed_at |-> group - 1, ingested_at |-> group, history_count |-> group,
         features |-> known, missing_features |-> {n \in FeatureNames : known[n] = Null}]

ModelSignal(bias, ttl) ==
    [decision |-> group, issued |-> group - 1, available |-> group, close |-> group, ttl |-> ttl,
     expires |-> group - 1 + ttl, score |-> bias.score, abstain |-> bias.abstain,
     long_bias |-> bias.long_bias, exit_bias |-> bias.exit_bias, uncertainty |-> 0, ood |-> Unit,
     action |-> CASE bias.score > 0 -> "LONG_BIAS" [] bias.score < 0 -> "EXIT_BIAS"
                  [] OTHER -> "ABSTAIN"]

Snapshot ==
    /\ phase = "SNAPSHOT"
    /\ LET snapshot   == Doc("FEATURE_SNAPSHOT", FeatureSnapshot, [raw_events |-> <<named.event>>],
                             NoEntries)
           validation == Doc("MODEL_VALIDATION", Null,
                             [feature_snapshot |-> Object(1), model_registry |-> Registry,
                              model_manifest |-> Manifest], NoEntries)
       IN  \/ /\ group \notin Consulted
              /\ Write(<<snapshot>>)
              /\ named' = [named EXCEPT !.snapshot = Object(1), !.validation = Null, !.signal = Null]
           \/ /\ group \in Consulted
              /\ Write(<<snapshot, validation>>)
              /\ named' = [named EXCEPT !.snapshot = Object(1), !.validation = Object(2),
                                        !.signal = Null]
           \/ \E bias \in Biases :
                 /\ group \in Consulted
                 /\ Write(<<snapshot, validation,
                            Doc("MODEL_SIGNAL_ACCEPTED", ModelSignal(bias, 2),
                                [model_validation |-> Object(2)], NoEntries)>>)
                 /\ named' = [named EXCEPT !.snapshot = Object(1), !.validation = Object(2),
                                           !.signal = Object(3)]
    /\ phase' = "RISK_AND_STATE_EFFECT"
    /\ UNCHANGED <<group, price, configured, portfolio, intent, keys>>

-----------------------------------------------------------------------------
(* RISK_AND_STATE_EFFECT *)

NothingMeasured == [m \in Measures |-> Null]
StateMeasured ==
    [m \in Measures |->
        CASE m = "participation_bps" -> 0
          [] m \in {"impact_bps", "stale_age"} -> Null
          [] m = "concentration_bps" -> IF portfolio.equity = 0 THEN Null ELSE 0
          [] m = "drawdown_bps" -> portfolio.drawdown_bps
          [] m = "projected_market_value" -> Held(portfolio).market_value
          [] m = "projected_equity" -> portfolio.equity
          [] m = "session_pnl" -> portfolio.session]

\* A decision about `quantity` base atoms (none without approval), with the
\* evidence of the group unless it is suppressed.
Decision(verdict, action, reasons, quantity, margin, levels, measured, suppressed) ==
    LET granted  == verdict = "APPROVE"
        notional == quantity * price
        evidence == ~suppressed /\ named.validation # Null
        fused    == IF suppressed \/ action = "HOLD" THEN "HOLD" ELSE action
    IN  [sequence |-> group, clock |-> group,
         validated_config |-> configured, baseline_id |-> configured,
         model_status |-> IF ~evidence THEN "ABSENT"
                          ELSE IF named.signal # Null THEN "ACCEPTED" ELSE "REJECTED",
         model_signal |-> evidence /\ named.signal # Null, model_validation |-> evidence,
         baseline_action |-> fused, fused_action |-> fused, action |-> action,
         verdict |-> verdict, reasons |-> reasons,
         amounts |-> [a \in Amounts |->
            IF ~granted THEN 0
            ELSE CASE a \in {"requested_base", "approved_base"} -> quantity
                   [] a = "reserved_quote" -> IF action = "ENTER_LONG" THEN notional + margin ELSE 0
                   [] a = "reserved_base" -> IF action = "EXIT_LONG" THEN quantity ELSE 0
                   [] OTHER -> notional],
         reservation |-> granted,
         reference |-> IF measured \/ granted THEN price ELSE Null,
         stop |-> IF granted THEN levels[1] ELSE Null,
         take |-> IF granted THEN levels[2] ELSE Null,
         measures |-> IF measured THEN StateMeasured ELSE NothingMeasured]

DecisionContext(d) ==
    [feature_snapshot |-> named.snapshot, state_before |-> named.state,
     config_admission |-> named.config,
     validated_config |-> IF d.validated_config THEN Config ELSE Null,
     model_validation |-> IF d.model_validation THEN named.validation ELSE Null,
     model_signal |-> IF d.model_signal THEN named.signal ELSE Null]

IntentFor(d) ==
    [sequence |-> group, decision |-> d.sequence,
     action |-> IF d.action = "ENTER_LONG" THEN "OPEN_LONG" ELSE "CLOSE_LONG",
     quantity |-> d.amounts.approved_base, reference |-> d.reference, stop |-> d.stop,
     take |-> d.take, reserved_quote |-> d.amounts.reserved_quote,
     reserved_base |-> d.amounts.reserved_base, ingest |-> group, group |-> group, clock |-> group]

\* The decisions a verdict allows that the validator accepts; one without
\* approval names no quantity and no levels.
Approvals ==
    {d \in {Decision("APPROVE", action, reasons, quantity, margin, <<stop, price + 1>>, FALSE,
                     suppressed) :
               action \in {"ENTER_LONG", "EXIT_LONG"}, reasons \in ReasonLists,
               quantity \in Quantities \cup {Held(portfolio).quantity}, margin \in Margins,
               stop \in {price - 1, price}, suppressed \in BOOLEAN} : RiskDecisionValid(d)}

Refusals(verdict) ==
    {d \in {Decision(verdict, "HOLD", reasons, 0, 0, <<Null, Null>>, measured, suppressed) :
               reasons \in ReasonLists, measured, suppressed \in BOOLEAN} : RiskDecisionValid(d)}

\* Any approval that the account can carry.
Approve ==
    /\ phase = "RISK_AND_STATE_EFFECT" /\ ~portfolio.kill_latched
    /\ \E d \in Approvals :
          LET i     == IntentFor(d)
              after == Reserved(portfolio, i, Object(2))
          IN  /\ d.action = "ENTER_LONG" =>
                    ~Holding(portfolio) /\ i.reserved_quote <= portfolio.balances[Quote].available
              /\ d.action = "EXIT_LONG" => i.quantity = Held(portfolio).quantity
              /\ Write(<< Doc("RISK_DECISION", d, DecisionContext(d), NoEntries),
                          Doc("SIMULATED_INTENT", i,
                              [risk_decision |-> Object(1), state_before |-> named.state],
                              Posting(<< <<Quote, "CASH_AVAILABLE", -i.reserved_quote>>,
                                         <<Quote, "CASH_RESERVED", i.reserved_quote>>,
                                         <<Base, "POSITION_AVAILABLE", -i.reserved_base>>,
                                         <<Base, "POSITION_RESERVED", i.reserved_base>> >>)),
                          Doc("PORTFOLIO_STATE", after,
                              [causation |-> Object(2), previous_state |-> named.state],
                              NoEntries) >>)
              /\ portfolio' = after /\ intent' = i
    /\ named' = [named EXCEPT !.decision = Object(1), !.intent = Object(2), !.state = Object(3)]
    /\ phase' = "GROUP_GATE"
    /\ UNCHANGED <<group, price, configured, keys>>

\* Any decision to do nothing.
Deny ==
    /\ phase = "RISK_AND_STATE_EFFECT"
    /\ \E d \in Refusals(IF portfolio.kill_latched THEN "KILL" ELSE "REJECT") :
          /\ portfolio.kill_latched => d.reasons = <<"KILL_LATCHED">> \/ ~configured
          /\ Write(<<Doc("RISK_DECISION", d, DecisionContext(d), NoEntries)>>)
    /\ named' = [named EXCEPT !.decision = Object(1)]
    /\ phase' = "GROUP_GATE"
    /\ UNCHANGED <<group, price, configured, portfolio, intent, keys>>

\* What a decision passes on to the kill state, in the latter's order.
KillReasons(d) ==
    SelectSeq(d.reasons, LAMBDA reason : reason \in ToSet(KillPrecedence))

\* Any decision that latches the kill; it expires an intent of the group.
Kill ==
    /\ phase \in {"RISK_AND_STATE_EFFECT", "GROUP_GATE"} /\ ~portfolio.kill_latched
    /\ phase = "GROUP_GATE" => intent # Null
    /\ \E d \in Refusals("KILL") :
          LET decided == Doc("RISK_DECISION", d, DecisionContext(d), NoEntries)
              expired == IF intent = Null THEN <<>>
                         ELSE FillRecords(FillReceipt("EXPIRED", <<"KILL_LATCHED">>, 0), 2, Object(1))
              before  == IF intent = Null THEN portfolio ELSE expired[2].doc
              last    == IF intent = Null THEN named.state ELSE Object(3)
              after   == [Killed(before, KillReasons(d), RiskKey(group)) EXCEPT !.previous = last]
          IN  /\ KillReasons(d) # <<>>
              /\ "NONPOSITIVE_EQUITY" \in ToSet(d.reasons) => portfolio.equity = 0
              /\ Write(<<decided>> \o expired
                       \o <<Doc("KILL_STATE", after,
                                [causation |-> RiskKey(group), previous_state |-> last],
                                NoEntries)>>)
              /\ portfolio' = after
              /\ named' = [named EXCEPT !.decision = Object(1), !.intent = Null,
                              !.state = Object(Len(expired) + 2)]
    /\ keys' = keys \cup {RiskKey(group)}
    /\ intent' = Null
    /\ phase' = "GROUP_GATE"
    /\ UNCHANGED <<group, price, configured>>

\* After the last group an open intent expires without an event.
FinalGate ==
    /\ phase = "GROUP_GATE" /\ group = MaxGroup /\ intent # Null
    /\ \E reason \in {"SESSION_END", "NO_NEXT_EVENT"} :
          LET batch == FillRecords(FillReceipt("EXPIRED", <<reason>>, 0), 1, Null)
          IN  Write(batch) /\ portfolio' = batch[2].doc
    /\ named' = [named EXCEPT !.state = Object(2), !.intent = Null]
    /\ intent' = Null
    /\ UNCHANGED <<phase, group, price, configured, keys>>

RunEnd ==
    /\ phase = "GROUP_GATE" /\ group = MaxGroup /\ intent = Null
    /\ Write(<< Doc("RECONCILIATION", Null,
                    [state_before |-> named.state, state_after |-> named.state,
                     reconciled |-> <<named.decision>>], NoEntries),
                Doc("RUN_END", portfolio, [final_reconciliation |-> Object(1)], NoEntries) >>)
    /\ named' = [named EXCEPT !.reconciliation = Object(1)]
    /\ phase' = "RUN_END"
    /\ UNCHANGED <<group, price, configured, portfolio, intent, keys>>

Next ==
    \/ RawGroupCommit \/ Fill \/ GroupMark \/ Snapshot
    \/ Approve \/ Deny \/ Kill \/ FinalGate \/ RunEnd

Spec == Init /\ [][Next]_vars
=============================================================================
