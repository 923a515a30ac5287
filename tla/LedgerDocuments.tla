-------------------------- MODULE LedgerDocuments --------------------------
(***************************************************************************)
(* Portfolio states and ledger records with their validators, and the      *)
(* formulas of crypto_replay/ledger_contract.py: what causes a record has  *)
(* to name, what a causal digest is, and how a ledger has to begin.        *)
(***************************************************************************)
EXTENDS ExecutionDocuments

Mints == {Quote, Base}

\* A digest is the place of what it is taken of: <<kind, number>>.
Digests == {"object", "record", "bytes", "key"} \X Nat

ASSUME DigestAssumption == Null \notin Digests

\* What is absent is no figure, balance or position.
ASSUME AbsenceAssumption ==
    /\ Null \notin Int
    /\ Null \notin [available : Int, reserved : Int, total : Int]
    /\ Null \notin [quantity : Int, reserved : Int, cost_basis : Int, market_value : Int,
                    unrealized : Int, mark : Int, stop : Int, take : Int]
    /\ Null \notin IntentSchema

\* The keys that a list keyed by them holds; Null stands for no row.
Listed(rows) == {key \in DOMAIN rows : rows[key] # Null}

-----------------------------------------------------------------------------
(* trading.portfolio-state/v1 *)

KillPrecedence ==
    <<"CONFIG_MISSING", "CONFIG_INVALID", "SEQUENCE_INVALID", "STATE_UNRECONCILED",
      "DECIMALS_MISMATCH", "ARITHMETIC_RANGE", "NONPOSITIVE_EQUITY", "SESSION_LOSS", "DRAWDOWN",
      "RESERVATION_CONFLICT",
      "IDEMPOTENCY_CONFLICT", "MODEL_ATTEMPT_INTEGRITY", "EXECUTION_TRANSITION_INTEGRITY",
      "RECONCILIATION_ARITHMETIC_RANGE", "ACCOUNT_RESIDUAL", "ASSET_RESIDUAL", "PNL_RESIDUAL",
      "FEE_RESIDUAL", "EQUITY_RESIDUAL", "RESERVATION_RESIDUAL", "INTENT_CARDINALITY",
      "INTENT_RESERVATION_BIJECTION", "ABSOLUTE_STATE_INVARIANT", "RUN_END_UNCLOSED", "MISMATCH">>

PortfolioSchema ==
    [sequence : Nat, ingest : Nat, group : Nat, clock : Nat,
     previous : Optional(Digests), causation : Digests,
     causation_schema : {"RUN_INITIALIZATION", "GROUP_MARK_TO_MARKET", "SIMULATED_INTENT",
                         "SIMULATED_FILL", "RISK_KILL"},
     balances : [Mints -> Optional([available : Nat, reserved : Nat, total : Nat])],
     positions : [{Base} -> Optional(
        [quantity : Nat, reserved : Nat, cost_basis : Nat, market_value : Nat, unrealized : Int,
         mark : Int, stop : Int, take : Int])],
     realized : Int, unrealized : Int, session : Int, fees : Nat, equity : Nat, peak : Nat,
     drawdown_bps : Nat,
     kill_latched : BOOLEAN, kill_reasons : Seq(ToSet(KillPrecedence)),
     open_intents : SUBSET Digests]

Lineage(p) ==
    /\ (p.sequence = 0) = (p.previous = Null)
    /\ (p.sequence = 0) = (p.causation_schema = "RUN_INITIALIZATION")

BalancesValid(p) ==
    /\ Quote \in Listed(p.balances)
    /\ \A m \in Listed(p.balances) : LET b == p.balances[m] IN
          /\ {b.available, b.reserved, b.total} \subseteq U64
          /\ b.available + b.reserved = b.total
          /\ m # Quote => b.total > 0

\* Mutant: the reserved shares of a position are not compared with its balance.
PositionsValidUnreserved(p) ==
    /\ Listed(p.positions) = Listed(p.balances) \ {Quote}
    /\ \A m \in Listed(p.positions) : LET x == p.positions[m] IN
          /\ {x.quantity, x.reserved, x.cost_basis, x.market_value} \subseteq U64
          /\ x.quantity > 0 /\ x.quantity = p.balances[m].total
          /\ x.unrealized = x.market_value - x.cost_basis /\ x.unrealized \in I128
          /\ \A price \in {x.mark, x.stop, x.take} : price \in I128 /\ price > 0

\* Positions are the balances other than the quote, figure by figure.
PositionsValid(p) ==
    /\ Listed(p.positions) = Listed(p.balances) \ {Quote}
    /\ \A m \in Listed(p.positions) : LET x == p.positions[m] IN
          /\ {x.quantity, x.reserved, x.cost_basis, x.market_value} \subseteq U64
          /\ x.quantity > 0
          /\ x.quantity = p.balances[m].total /\ x.reserved = p.balances[m].reserved
          /\ x.unrealized = x.market_value - x.cost_basis /\ x.unrealized \in I128
          /\ \A price \in {x.mark, x.stop, x.take} : price \in I128 /\ price > 0

\* Basis points below the peak, rounded up.
DrawdownBps(peak, equity) ==
    IF peak = 0 THEN 0 ELSE ((peak - equity) * 10000 + peak - 1) \div peak

SummaryValid(p) ==
    LET Sum(value(_)) == MapThenSumSet(value, Listed(p.positions))
    IN  /\ {p.realized, p.unrealized, p.session} \subseteq I128
        /\ {p.fees, p.equity, p.peak} \subseteq U64
        /\ p.unrealized = Sum(LAMBDA m : p.positions[m].unrealized)
        /\ p.session = p.realized + p.unrealized
        /\ p.equity = p.balances[Quote].total + Sum(LAMBDA m : p.positions[m].market_value)
        /\ p.peak >= p.equity
        /\ p.drawdown_bps = DrawdownBps(p.peak, p.equity)

PortfolioValid(p) ==
    /\ {p.sequence, p.ingest, p.group, p.clock} \subseteq U64
    /\ Lineage(p)
    /\ InOrder(p.kill_reasons, KillPrecedence) /\ p.kill_latched = (p.kill_reasons # <<>>)
    /\ BalancesValid(p) /\ PositionsValid(p) /\ SummaryValid(p)
    /\ (\E m \in Listed(p.balances) : p.balances[m].reserved > 0) = (p.open_intents # {})

-----------------------------------------------------------------------------
(* trading.ledger-record/v1 *)

\* The type of the object each type of record is about.
ObjectSchema ==
    [SOURCE_ADMISSION |-> "source-admission-receipt", CONFIG_ADMISSION |-> "config-admission-receipt",
     RAW_ADMISSION |-> "raw-event", FEATURE_SNAPSHOT |-> "feature-snapshot",
     MODEL_VALIDATION |-> "model-validation-receipt", MODEL_SIGNAL_ACCEPTED |-> "model-signal",
     RISK_DECISION |-> "risk-decision", SIMULATED_INTENT |-> "simulated-order-intent",
     SIMULATED_FILL |-> "simulated-fill-receipt", PORTFOLIO_STATE |-> "portfolio-state",
     RECONCILIATION |-> "reconciliation-receipt", KILL_STATE |-> "portfolio-state",
     RUN_RECEIPT |-> "run-receipt", RUN_END |-> "portfolio-state"]

RecordTypes == DOMAIN ObjectSchema

PostingRequired == {"SIMULATED_INTENT", "SIMULATED_FILL"}
PostingPermitted == PostingRequired \cup {"PORTFOLIO_STATE"}

StateAccounts == {"CASH_AVAILABLE", "CASH_RESERVED", "POSITION_AVAILABLE", "POSITION_RESERVED"}
Accounts == StateAccounts \cup
    {"TRADE_CLEARING", "FEE_EXPENSE", "REALIZED_PNL", "UNREALIZED_PNL", "EQUITY_CONTROL"}

\* Entries are keyed by asset and account, zero where there is none (the code
\* refuses an entry of zero); residuals are one number per row.
LedgerRecordSchema ==
    [record_id : Digests, sequence : Nat, previous : Optional(Digests),
     type : RecordTypes, object_schema : {ObjectSchema[t] : t \in RecordTypes},
     object : Digests, decision : Optional(Nat), ingest : Optional(Nat),
     group : Optional(Nat), clock : Optional(Nat),
     causes : SUBSET Digests,
     entries : [Mints \X Accounts -> Int],
     residuals : Seq(Int), unmatched_reservations : Nat]

Posted(entries) == {key \in DOMAIN entries : entries[key] # 0}

\* Double entry: what one account of an asset gains the others lose.
Balanced(entries) ==
    \A mint \in Mints :
       MapThenSumSet(LAMBDA key : entries[key], {key \in DOMAIN entries : key[1] = mint}) = 0

LedgerRecordValid(r) ==
    /\ r.object_schema = ObjectSchema[r.type]
    /\ r.sequence \in U64 /\ {r.decision, r.ingest, r.group, r.clock} \ {Null} \subseteq U64
    /\ (r.sequence = 0) = (r.previous = Null) /\ r.previous # r.record_id
    /\ {r.record_id, r.object, r.previous} \cap r.causes = {}
    /\ r.type \in PostingRequired => Posted(r.entries) # {}
    /\ Posted(r.entries) # {} => r.type \in PostingPermitted
    /\ \A key \in Mints \X Accounts : r.entries[key] \in I128
    /\ Balanced(r.entries)
    /\ \A i \in DOMAIN r.residuals : r.residuals[i] = 0
    /\ r.unmatched_reservations = 0

-----------------------------------------------------------------------------
(* ledger_contract.py *)

\* The fields of a record's context that name its causes.
RequiredCauses ==
    [t \in RecordTypes |->
        CASE t = "SOURCE_ADMISSION" -> {"fixture_manifest"}
          [] t = "RUN_RECEIPT" -> {"fixture_manifest", "config_admission", "run_closure"}
          [] t = "RAW_ADMISSION" -> {"source_admission"}
          [] t = "MODEL_VALIDATION" -> {"feature_snapshot", "model_registry", "model_manifest"}
          [] t = "MODEL_SIGNAL_ACCEPTED" -> {"model_validation"}
          [] t = "RISK_DECISION" -> {"feature_snapshot", "state_before", "config_admission"}
          [] t = "SIMULATED_INTENT" -> {"risk_decision", "state_before"}
          [] t = "SIMULATED_FILL" -> {"intent", "state_before"}
          [] t \in {"PORTFOLIO_STATE", "KILL_STATE"} -> {"causation"}
          [] t = "RECONCILIATION" -> {"state_before", "state_after"}
          [] t = "RUN_END" -> {"final_reconciliation"}
          [] OTHER -> {}]

\* Mutant: a state does not name the one before it.
OptionalCausesNoLineage ==
    [t \in RecordTypes |->
        CASE t = "CONFIG_ADMISSION" -> {"validated_config"}
          [] t = "RUN_RECEIPT" -> {"validated_config", "model_registry", "model_manifest"}
          [] t = "RISK_DECISION" -> {"validated_config", "model_validation", "model_signal"}
          [] t = "SIMULATED_FILL" -> {"fill_event", "latching_risk_decision"}
          [] OTHER -> {}]

OptionalCauses ==
    [t \in RecordTypes |->
        CASE t = "CONFIG_ADMISSION" -> {"validated_config"}
          [] t = "RUN_RECEIPT" -> {"validated_config", "model_registry", "model_manifest"}
          [] t = "RISK_DECISION" -> {"validated_config", "model_validation", "model_signal"}
          [] t = "SIMULATED_FILL" -> {"fill_event", "latching_risk_decision"}
          [] t \in {"PORTFOLIO_STATE", "KILL_STATE"} -> {"previous_state"}
          [] OTHER -> {}]

ListedCauses ==
    [t \in RecordTypes |->
        CASE t = "RUN_RECEIPT" -> {"source_admissions"}
          [] t = "FEATURE_SNAPSHOT" -> {"raw_events"}
          [] t = "RECONCILIATION" -> {"reconciled"}
          [] OTHER -> {}]

Field(context, field) == IF field \in DOMAIN context THEN context[field] ELSE Null

\* An expired fill names the decision that latched the kill, no other fill does.
ContextValid(type, context) ==
    /\ \A field \in RequiredCauses[type] : Field(context, field) # Null
    /\ \A field \in ListedCauses[type] :
          Field(context, field) # Null /\ IsInjective(context[field])
    /\ type = "SIMULATED_FILL" =>
          (Field(context, "latching_risk_decision") # Null)
             = ("KILL_LATCHED" \in ToSet(context.reasons))

Causes(type, context) ==
    ({Field(context, field) : field \in RequiredCauses[type] \cup OptionalCauses[type]} \ {Null})
    \cup UNION {ToSet(context[field]) : field \in ListedCauses[type]}

\* What is retained: under every digest the digest of what is found there.
\* An object or key that is no well-formed one has the digest Null.
Classify(digest, store) ==
    LET found(part) == digest \in DOMAIN store[part]
        sound(part) == found(part) /\ store[part][digest] = digest
        kinds       == {part \in {"objects", "bytes", "keys"} : sound(part)}
        preimages   == {d \in DOMAIN store.keys : d = digest \/ store.keys[d] = digest}
    IN  IF \E d \in preimages : d # digest \/ store.keys[d] # digest THEN "PREIMAGE_MISMATCH"
        ELSE IF \E part \in {"objects", "bytes"} : found(part) /\ ~sound(part) THEN "RESOLUTION_MISMATCH"
        ELSE IF Cardinality(kinds) > 1 THEN "AMBIGUOUS"
        ELSE IF kinds = {} THEN "UNRESOLVED"
        ELSE CHOOSE part \in kinds : TRUE

\* A ledger begins with the admissions, numbered from one without a gap, with
\* one configuration among them, then the run, its first state and its check.
InitialPrefixValid(rows) ==
    LET count == Len(rows) - 3
    IN  /\ count >= 2
        /\ IsInjective([i \in DOMAIN rows |-> rows[i].object])
        /\ [i \in 1 .. 3 |-> rows[count + i].type]
              = <<"RUN_RECEIPT", "PORTFOLIO_STATE", "RECONCILIATION">>
        /\ \A i \in 1 .. 3 : rows[count + i].admission = Null
        /\ \A i \in 1 .. count :
              /\ rows[i].type \in {"SOURCE_ADMISSION", "CONFIG_ADMISSION"}
              /\ rows[i].admission = i
        /\ Cardinality({i \in 1 .. count : rows[i].type = "CONFIG_ADMISSION"}) = 1
=============================================================================
