------------------------- MODULE ReplayLedgerProps -------------------------
(* What the contracts promise about the documents and the ledger of a run. *)
EXTENDS ReplayLedger

\* Does the document pass its schema and its validator?
Accepted(type, doc) ==
    IF doc = Null THEN TRUE ELSE
    CASE type = "RAW_ADMISSION" -> doc \in RawEventSchema /\ RawEventValid(doc)
      [] type = "FEATURE_SNAPSHOT" -> doc \in FeatureSnapshotSchema /\ FeatureSnapshotValid(doc)
      [] type = "MODEL_SIGNAL_ACCEPTED" -> doc \in ModelSignalSchema /\ ModelSignalValid(doc)
      [] type = "RISK_DECISION" -> doc \in RiskDecisionSchema /\ RiskDecisionValid(doc)
      [] type = "SIMULATED_INTENT" -> doc \in IntentSchema /\ IntentValid(doc)
      [] type = "SIMULATED_FILL" -> doc \in FillSchema /\ FillValid(doc)
      [] OTHER -> doc \in PortfolioSchema /\ PortfolioValid(doc)

\* The records of the latest step.
Latest == {n \in DOMAIN ledger : n > Len(ledger) - Len(emitted)}

PrefixRows ==
    [i \in 1 .. (Sources + 4) |->
        [type |-> ledger[i].type, object |-> ledger[i].object,
         admission |-> IF i <= Sources + 1 THEN i ELSE Null]]

(***************************************************************************)
(* The validators agree with each other (contract_semantics.py:273-1768,   *)
(* ledger_contract.py:239-388): whatever decision the risk validator lets  *)
(* pass, the intent, the fill, the states, the postings and the causes     *)
(* that double-entry books derive from it are accepted too, so that no     *)
(* legal decision leaves a run without a legal continuation.               *)
(***************************************************************************)
EveryDocumentAccepted ==
    /\ \A i \in DOMAIN emitted :
          /\ Accepted(emitted[i].type, emitted[i].doc)
          /\ ContextValid(emitted[i].type, emitted[i].context)
    /\ \A n \in Latest : ledger[n] \in LedgerRecordSchema /\ LedgerRecordValid(ledger[n])
    /\ InitialPrefixValid(PrefixRows)

-----------------------------------------------------------------------------
(* Every figure of the document is in the range of its format *)

StateInWidth(p) ==
    /\ {p.sequence, p.ingest, p.group, p.clock, p.fees, p.equity, p.peak} \subseteq U64
    /\ {p.realized, p.unrealized, p.session} \subseteq I128
    /\ \A m \in Listed(p.balances) : LET b == p.balances[m] IN
          {b.available, b.reserved, b.total} \subseteq U64
    /\ \A m \in Listed(p.positions) : LET x == p.positions[m] IN
          /\ {x.quantity, x.reserved, x.cost_basis, x.market_value} \subseteq U64
          /\ {x.unrealized, x.mark, x.stop, x.take} \subseteq I128

IntentInWidth(i) ==
    /\ {i.sequence, i.decision, i.quantity, i.reserved_quote, i.reserved_base, i.ingest,
        i.group, i.clock} \subseteq U64
    /\ {i.reference, i.stop, i.take} \subseteq I128

FillInWidth(f) ==
    /\ {f.sequence, f.decision, f.decision_ingest, f.decision_group, f.requested, f.filled,
        f.unfilled, f.gross, f.venue_fee, f.priority_fee, f.simulation_fee,
        f.released_quote, f.released_base} \subseteq U64
    /\ {f.fill_ingest, f.fill_group, f.fill_clock} \ {Null} \subseteq U64
    /\ {f.cash_delta, f.execution_price} \ {Null} \subseteq I128

\* A state's figures derive from each other, and it is worth what the run began
\* with and what the session made of it.
StateAddsUp(p) ==
    /\ Lineage(p)
    /\ StateInWidth(p) => BalancesValid(p) /\ PositionsValid(p) /\ SummaryValid(p)
    /\ (\E m \in Listed(p.balances) : p.balances[m].reserved > 0) = (p.open_intents # {})
    /\ p.equity = Capital + p.session

DocumentAddsUp(e) ==
    /\ e.type = "SIMULATED_INTENT" /\ IntentInWidth(e.doc) => IntentValid(e.doc)
    /\ e.type = "SIMULATED_FILL" /\ FillInWidth(e.doc) => FillValid(e.doc)
    /\ e.type \in {"PORTFOLIO_STATE", "KILL_STATE", "RUN_END"} => StateAddsUp(e.doc)

(***************************************************************************)
(* The books add up at any size (contract_semantics.py:1091-1156,          *)
(* 1179-1366, 1402-1583, 1670-1694): an intent, a fill or a state whose    *)
(* figures fit their formats is what its validator derives it to be, each  *)
(* posting balances in each asset, and equity is the capital at the start  *)
(* and the session's result, through all fills, fees, marks and kills.     *)
(***************************************************************************)
BooksAddUp ==
    \A i \in DOMAIN emitted : DocumentAddsUp(emitted[i]) /\ Balanced(emitted[i].entries)

-----------------------------------------------------------------------------

Off(doc, field, by) == [doc EXCEPT ![field] = @ + by]
NotInSet(doc, field, x) == [doc EXCEPT ![field] = IF x \in @ THEN @ \ {x} ELSE @ \cup {x}]

StateVariants(p) ==
    {Off(p, field, by) : by \in {-1, 1},
        field \in {"realized", "unrealized", "session", "equity", "drawdown_bps"}}
    \cup {[p EXCEPT !.balances[m][field] = @ + by] : m \in Listed(p.balances), by \in {-1, 1},
             field \in {"available", "reserved", "total"}}
    \cup {[p EXCEPT !.positions[m][field] = @ + by] : m \in Listed(p.positions), by \in {-1, 1},
             field \in {"quantity", "reserved", "cost_basis", "market_value", "unrealized"}}
    \cup {[p EXCEPT !.kill_latched = ~@],
          [p EXCEPT !.open_intents = IF @ = {} THEN {Config} ELSE {}]}

FillVariants(f) ==
    {Off(f, field, by) : by \in {-1, 1},
        field \in {"requested", "filled", "unfilled", "gross", "venue_fee", "priority_fee",
                   "simulation_fee", "cash_delta"}}
    \cup {[f EXCEPT !.status = s] : s \in {"FILLED", "PARTIAL", "REJECTED", "EXPIRED"} \ {f.status}}
    \cup (IF f.fill_group = Null THEN {} ELSE {[f EXCEPT !.fill_group = f.decision_group]})

GrantVariants(d) ==
    IF d.verdict # "APPROVE" THEN {[d EXCEPT !.verdict = "APPROVE"]}
    ELSE {[d EXCEPT !.amounts[a] = @ + by] : by \in {-1, 1},
             a \in {"requested_base", "approved_base", "requested_notional", "approved_notional",
                    IF d.action = "ENTER_LONG" THEN "reserved_base" ELSE "reserved_quote"}}
         \cup {[d EXCEPT !.action = a] : a \in Actions \ {d.action}}

SignalVariants(m) ==
    {Off(m, field, by) : by \in {-1, 1}, field \in {"abstain", "long_bias", "exit_bias", "ttl"}}
    \cup {[m EXCEPT !.action = a] : a \in {"ABSTAIN", "LONG_BIAS", "EXIT_BIAS"} \ {m.action}}

\* The same document with one figure, flag or name changed that others of it
\* determine.
Variants(type, doc) ==
    IF doc = Null THEN {} ELSE
    CASE type = "RAW_ADMISSION" -> {NotInSet(doc, "quality_flags", "MISSING_EVENT_TIME"),
                                    Off(doc, "availability_admission", 1)}
      [] type = "FEATURE_SNAPSHOT" -> {NotInSet(doc, "missing_features", f) : f \in FeatureNames}
      [] type = "MODEL_SIGNAL_ACCEPTED" -> SignalVariants(doc)
      [] type = "RISK_DECISION" -> GrantVariants(doc)
      [] type = "SIMULATED_INTENT" ->
            {[doc EXCEPT !.action = a] : a \in {"OPEN_LONG", "CLOSE_LONG"} \ {doc.action}}
      [] type = "SIMULATED_FILL" -> FillVariants(doc)
      [] OTHER -> StateVariants(doc)

\* An atom that one account gains and no other account of the asset loses.
EntryVariants(entries) ==
    {[entries EXCEPT ![key] = @ + 1] : key \in DOMAIN entries}
    \cup {[entries EXCEPT ![<<Base, a>>] = @ + 1, ![<<Quote, b>>] = @ - 1] :
             a, b \in StateAccounts \cup {"TRADE_CLEARING"}}

\* A missing last admission only shows in the run's receipt, which lists them.
PrefixVariants(rows) ==
    ({[rows EXCEPT ![i] = rows[j], ![j] = rows[i]] : i, j \in DOMAIN rows} \ {rows})
    \cup {RemoveAt(rows, i) : i \in DOMAIN rows \ {Sources + 1}}
    \cup {InsertAt(rows, i, rows[i]) : i \in DOMAIN rows}

\* The same document with one atom more of a figure that nothing else in it
\* determines: fees so far, releases, and the prices of levels, marks and fills.
Unbound(type, doc) ==
    IF doc = Null THEN {} ELSE
    CASE type = "RISK_DECISION" ->
            IF doc.verdict # "APPROVE" THEN {}
            ELSE {Off(doc, "take", 1)}
                 \cup {[doc EXCEPT !.amounts["reserved_quote"] = @ + 1] :
                          action \in {doc.action} \ {"EXIT_LONG"}}
      [] type = "SIMULATED_INTENT" ->
            {Off(doc, field, 1) : field \in {"take"} \cup
                (IF doc.action = "OPEN_LONG" THEN {"quantity", "reserved_quote"} ELSE {})}
      [] type = "SIMULATED_FILL" ->
            {Off(doc, field, 1) : field \in
                {field \in {"released_quote", "released_base"} : doc[field] > 0}
                \cup (IF doc.execution_price = Null THEN {} ELSE {"execution_price"})}
      [] type \in {"PORTFOLIO_STATE", "KILL_STATE", "RUN_END"} ->
            {Off(doc, "fees", 1)}
            \cup {[doc EXCEPT !.positions[m][field] = @ + 1] : m \in Listed(doc.positions),
                     field \in {"mark", "stop", "take"}}
      [] OTHER -> {}

(***************************************************************************)
(* The redundancy of the documents holds them together                     *)
(* (contract_semantics.py:567-663, 931-978, 1219-1365, 1415-1582,          *)
(* 1670-1694, ledger_contract.py:349-388): a document, a posting or the    *)
(* order of a ledger's first records does not pass with one figure, flag   *)
(* or place wrong that others determine. It does not hold them together    *)
(* further than that: cumulative fees, releases and prices are only        *)
(* checked for their range or sign (1362-1364, 1530-1533, 1558-1560), so a *)
(* document passes with another of these. The peak is on neither side: it  *)
(* shows in the drawdown only, in whole basis points (1580), and so to the *)
(* atom only as long as it is small.                                       *)
(***************************************************************************)
DerivedFiguresAreBound ==
    /\ \A i \in DOMAIN emitted :
          /\ \A variant \in Variants(emitted[i].type, emitted[i].doc) :
                ~Accepted(emitted[i].type, variant)
          /\ \A variant \in Unbound(emitted[i].type, emitted[i].doc) :
                Accepted(emitted[i].type, variant)
    /\ \A n \in Latest : \A variant \in EntryVariants(ledger[n].entries) :
          ~LedgerRecordValid([ledger[n] EXCEPT !.entries = variant])
    /\ Len(ledger) = Sources + 4 =>
          \A variant \in PrefixVariants(PrefixRows) : ~InitialPrefixValid(variant)

-----------------------------------------------------------------------------

Identity(S) == [x \in S |-> x]

\* What is retained when the n-th record is written.
StoreBefore(n) ==
    [objects |-> Identity({ObjectAt(k) : k \in 1 .. (n - 1)}),
     bytes |-> Identity({Fixture, Config, Registry, Manifest, RunClosure}),
     keys |-> Identity(keys)]

\* The records that a record's causes lead back to.
Ancestors ==
    LET above[n \in DOMAIN ledger] ==
           UNION {{k} \cup above[k] :
                     k \in {k \in 1 .. (n - 1) : ledger[k].type # "RUN_END"
                                                 /\ ledger[k].object \in ledger[n].causes}}
    IN  above

(***************************************************************************)
(* The causes a record must name are an audit trail (ledger_contract.py:   *)
(* 170-337): each is found among what was retained before it, as exactly   *)
(* one kind of thing and not once that thing was altered; every record     *)
(* leads back to an admitted source, and every state to all the states     *)
(* before it, the fills and intents between them and their decisions.      *)
(***************************************************************************)
LedgerTracesBack ==
    \A n \in Latest :
       LET store == StoreBefore(n)
           trail == Ancestors[n]
       IN  /\ \A cause \in ledger[n].causes : \E part \in {"objects", "bytes", "keys"} :
                 /\ Classify(cause, store) = part
                 /\ Classify(cause, [store EXCEPT ![part][cause] = Null]) # part
           /\ ledger[n].type \notin {"SOURCE_ADMISSION", "CONFIG_ADMISSION"} =>
                 \E k \in trail : Fixture \in ledger[k].causes
           /\ ledger[n].type \in {"PORTFOLIO_STATE", "KILL_STATE", "RUN_END"} =>
                 \A k \in (Sources + 2) .. (n - 1) :
                    ledger[k].type \in {"RUN_RECEIPT", "PORTFOLIO_STATE", "KILL_STATE",
                                        "SIMULATED_INTENT", "SIMULATED_FILL"} => k \in trail
=============================================================================
