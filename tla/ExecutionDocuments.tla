------------------------- MODULE ExecutionDocuments -------------------------
(***************************************************************************)
(* Shapes and checks of the documents of one execution: risk decisions,    *)
(* intents, fills, portfolio states and ledger records.  Reason codes are  *)
(* without their prefix.  There is one quote mint and one base mint, which *)
(* is also the market.                                                     *)
(***************************************************************************)
EXTENDS ContractDocuments

Quote == "QUOTE"
Base == "BASE"

-----------------------------------------------------------------------------
(* trading.risk-decision/v1 *)

RiskPrecedence ==
    <<"CONFIG_MISSING", "CONFIG_INVALID", "SEQUENCE_INVALID", "STATE_UNRECONCILED",
      "KILL_LATCHED", "SESSION_CLOSED", "EVENT_STALE", "DECIMALS_MISMATCH", "ARITHMETIC_RANGE",
      "NONPOSITIVE_EQUITY", "SESSION_LOSS", "DRAWDOWN", "STOP_MISSING", "INSUFFICIENT_BALANCE",
      "RESERVATION_CONFLICT", "INTENT_PENDING", "MIN_NOTIONAL", "MAX_NOTIONAL", "PARTICIPATION",
      "IMPACT", "CONCENTRATION", "NO_ACTION", "RUN_END_EXIT", "KILL_EXIT", "STOP_TRIGGERED",
      "TAKE_TRIGGERED">>

FatalReasons == {"SEQUENCE_INVALID", "STATE_UNRECONCILED", "DECIMALS_MISMATCH",
                 "ARITHMETIC_RANGE", "NONPOSITIVE_EQUITY", "RESERVATION_CONFLICT"}
ForceDenials == {"EVENT_STALE", "INSUFFICIENT_BALANCE", "NO_ACTION"}
OrdinaryDenials == {"EVENT_STALE", "STOP_MISSING", "INSUFFICIENT_BALANCE", "MIN_NOTIONAL",
                    "MAX_NOTIONAL", "PARTICIPATION", "IMPACT", "CONCENTRATION"}

Losses == {<<"SESSION_LOSS">>, <<"DRAWDOWN">>, <<"SESSION_LOSS", "DRAWDOWN">>}
Triggers == {<<>>, <<"STOP_TRIGGERED">>, <<"TAKE_TRIGGERED">>,
             <<"STOP_TRIGGERED", "TAKE_TRIGGERED">>}
Boundaries == {<<"RUN_END_EXIT">>, <<"KILL_EXIT">>}

ConfigForms == {<<"CONFIG_MISSING">>, <<"CONFIG_INVALID">>}
ExitForms == Triggers \cup {loss \o boundary \o trigger :
                loss \in Losses \cup {<<>>}, boundary \in Boundaries, trigger \in Triggers}
KillLossForms == Losses \cup {loss \o <<"INTENT_PENDING">> : loss \in Losses}

Amounts == {"requested_base", "approved_base", "requested_notional", "approved_notional",
            "reserved_quote", "reserved_base"}
Measures == {"participation_bps", "impact_bps", "concentration_bps", "drawdown_bps",
             "projected_market_value", "projected_equity", "session_pnl", "stale_age"}
Actions == {"HOLD", "ENTER_LONG", "EXIT_LONG"}

RiskDecisionSchema ==
    [sequence : Nat, clock : Nat,
     validated_config : BOOLEAN, baseline_id : BOOLEAN,    \* is it there?
     model_status : {"ABSENT", "ACCEPTED", "REJECTED", "EXPIRED", "DRIFT_DISABLED"},
     model_signal : BOOLEAN, model_validation : BOOLEAN,
     baseline_action : Actions, fused_action : Actions, action : Actions,
     verdict : {"APPROVE", "REJECT", "KILL"}, reasons : Seq(ToSet(RiskPrecedence)),
     amounts : [Amounts -> Nat], reservation : BOOLEAN,
     reference : Optional(Int), stop : Optional(Int), take : Optional(Int),
     measures : [Measures -> Optional(Int)]]

ReasonFamily(d) ==
    LET reasons == ToSet(d.reasons)
    IN  \/ d.verdict = "APPROVE" /\ d.action = "ENTER_LONG" /\ d.reasons = <<>>
        \/ d.verdict = "APPROVE" /\ d.action = "EXIT_LONG" /\ d.reasons \in ExitForms
        \/ /\ d.verdict = "REJECT" /\ d.action = "HOLD" /\ reasons # {}
           /\ \/ d.reasons \in {<<"SESSION_CLOSED">>, <<"INTENT_PENDING">>}
              \/ reasons \subseteq ForceDenials /\ "NO_ACTION" \in reasons
              \/ reasons \subseteq OrdinaryDenials
        \/ /\ d.verdict = "KILL" /\ d.action = "HOLD" /\ ~d.validated_config
           /\ d.reasons \in ConfigForms
        \/ /\ d.verdict = "KILL" /\ d.action = "HOLD" /\ d.validated_config
           /\ \/ d.reasons \in KillLossForms \cup {<<"KILL_LATCHED">>}
              \/ /\ reasons # {} /\ reasons \subseteq FatalReasons
                 /\ "STATE_UNRECONCILED" \in reasons =>
                       reasons \subseteq {"SEQUENCE_INVALID", "STATE_UNRECONCILED"}

\* A decision in which no signal, baseline or fusion had a say.
Suppressed(d) ==
    /\ d.model_status = "ABSENT" /\ ~d.model_signal /\ ~d.model_validation
    /\ d.baseline_action = "HOLD" /\ d.fused_action = "HOLD"

ModelEvidence(d) ==
    /\ d.model_signal = (d.model_status = "ACCEPTED")
    /\ d.model_validation = (d.model_status # "ABSENT")

NoAmounts(d) == ~d.reservation /\ \A a \in Amounts : d.amounts[a] = 0
NoMeasures(d) == \A m \in Measures : d.measures[m] = Null
NoLevels(d) == d.stop = Null /\ d.take = Null
FlatOrPairedLevels(d) == NoLevels(d) \/ (Positive(d.stop) /\ Positive(d.take))
NoAuthority(d) == d.reference = Null /\ NoAmounts(d) /\ NoLevels(d) /\ NoMeasures(d)

\* Mutant: the stop of an entry may be at the reference.
AuthorityStopAtReference(d) ==
    LET a == d.amounts
    IN  IF d.verdict # "APPROVE"
        THEN /\ {a.approved_base, a.approved_notional, a.reserved_quote, a.reserved_base} = {0}
             /\ ~d.reservation /\ d.action = "HOLD"
        ELSE /\ a.approved_base = a.requested_base /\ a.approved_base > 0
             /\ a.approved_notional = a.requested_notional
             /\ d.reservation
             /\ Positive(d.reference) /\ Positive(d.stop) /\ Positive(d.take)
             /\ \/ /\ d.action = "ENTER_LONG"
                   /\ a.approved_notional > 0 /\ a.reserved_quote > 0 /\ a.reserved_base = 0
                   /\ d.stop <= d.reference /\ d.reference < d.take
                \/ /\ d.action = "EXIT_LONG"
                   /\ a.reserved_base = a.approved_base /\ a.reserved_quote = 0

\* An approval grants what was requested, reserves one asset for it, and names
\* positive levels, around the reference for an entry; nothing else grants.
Authority(d) ==
    LET a == d.amounts
    IN  IF d.verdict # "APPROVE"
        THEN /\ {a.approved_base, a.approved_notional, a.reserved_quote, a.reserved_base} = {0}
             /\ ~d.reservation /\ d.action = "HOLD"
        ELSE /\ a.approved_base = a.requested_base /\ a.approved_base > 0
             /\ a.approved_notional = a.requested_notional
             /\ d.reservation
             /\ Positive(d.reference) /\ Positive(d.stop) /\ Positive(d.take)
             /\ \/ /\ d.action = "ENTER_LONG"
                   /\ a.approved_notional > 0 /\ a.reserved_quote > 0 /\ a.reserved_base = 0
                   /\ d.stop < d.reference /\ d.reference < d.take
                \/ /\ d.action = "EXIT_LONG"
                   /\ a.reserved_base = a.approved_base /\ a.reserved_quote = 0

\* What the reasons of a decision without authority leave in its other fields.
ReasonOwnedTuple(d) ==
    LET reasons == ToSet(d.reasons)
        retained == /\ Suppressed(d) /\ NoAmounts(d) /\ FlatOrPairedLevels(d)
                    /\ (d.reference # Null => d.reference > 0)
                    /\ d.measures["participation_bps"] = 0
                    /\ d.measures["drawdown_bps"] # Null
                    /\ d.measures["projected_market_value"] \in U64
                    /\ d.measures["projected_equity"] \in U64
                    /\ d.measures["session_pnl"] \in I128
    IN  CASE "NONPOSITIVE_EQUITY" \in reasons ->
               /\ d.validated_config /\ d.verdict = "KILL" /\ d.action = "HOLD" /\ retained
               /\ d.measures["concentration_bps"] = Null
               /\ d.measures["projected_equity"] = 0
          [] d.verdict = "KILL" /\ reasons # {} /\ reasons \subseteq FatalReasons
             /\ "NONPOSITIVE_EQUITY" \notin reasons ->
               d.validated_config /\ Suppressed(d) /\ d.action = "HOLD" /\ NoAuthority(d)
          [] d.verdict = "KILL" /\ d.reasons \in KillLossForms ->
               /\ d.validated_config /\ retained
               /\ (d.measures["impact_bps"] = Null) = (d.measures["stale_age"] = Null)
               /\ d.measures["concentration_bps"] # Null
               /\ d.measures["projected_equity"] > 0
          [] OTHER ->
               d.reference = Null /\ d.validated_config =>
                  /\ Suppressed(d) /\ d.action = "HOLD" /\ NoAmounts(d) /\ NoMeasures(d)
                  /\ FlatOrPairedLevels(d)

RiskDecisionValid(d) ==
    /\ {d.sequence, d.clock} \cup {d.amounts[a] : a \in Amounts} \subseteq U64
    /\ {d.reference, d.stop, d.take, d.measures["session_pnl"]} \ {Null} \subseteq I128
    /\ {d.measures[m] : m \in {"projected_market_value", "projected_equity", "stale_age"}}
          \ {Null} \subseteq U64
    /\ ModelEvidence(d)
    /\ InOrder(d.reasons, RiskPrecedence)
    /\ d.validated_config = d.baseline_id
    /\ ReasonFamily(d)
    /\ d.verdict = "APPROVE" /\ d.reasons # <<>> => Suppressed(d)
    /\ ~d.validated_config => d.reasons \in ConfigForms /\ Suppressed(d) /\ NoAuthority(d)
    /\ Authority(d)
    /\ ReasonOwnedTuple(d)

-----------------------------------------------------------------------------
(* trading.simulated-order-intent/v1 *)

IntentSchema ==
    [sequence : Nat, decision : Nat, action : {"OPEN_LONG", "CLOSE_LONG"}, quantity : Nat,
     reference : Int, stop : Optional(Int), take : Optional(Int),
     reserved_quote : Nat, reserved_base : Nat, ingest : Nat, group : Nat, clock : Nat]

IntentValid(i) ==
    /\ {i.sequence, i.decision, i.quantity, i.reserved_quote, i.reserved_base, i.ingest,
        i.group, i.clock} \subseteq U64
    /\ i.sequence > 0 /\ i.quantity > 0
    /\ \A price \in {i.reference, i.stop, i.take} : Positive(price) /\ price \in I128
    /\ \/ /\ i.action = "OPEN_LONG"
          /\ i.reserved_quote > 0 /\ i.reserved_base = 0
          /\ i.stop < i.reference /\ i.reference < i.take
       \/ /\ i.action = "CLOSE_LONG"
          /\ i.reserved_quote = 0 /\ i.reserved_base = i.quantity

-----------------------------------------------------------------------------
(* trading.simulated-fill-receipt/v1 *)

FillReasons == {"SAME_OR_EARLIER_EVENT", "KILL_LATCHED", "SESSION_END", "NO_NEXT_EVENT",
    "STALE_EVENT", "NEXT_EVENT_NON_EXECUTABLE", "DECIMALS_MISMATCH", "ZERO_CAPACITY",
    "PARTICIPATION", "ARITHMETIC_RANGE", "IMPACT", "FEE_CAP", "FEE_EXCEEDS_PROCEEDS",
    "INSUFFICIENT_RESERVATION", "PARTIAL"}
ExpiryReasons == {"KILL_LATCHED", "SESSION_END", "NO_NEXT_EVENT"}

Diagnostics == {"participation_bps", "reference_deviation_bps", "impact_bps", "fee_bps",
                "adverse_fill_bps"}

FillSchema ==
    [sequence : Nat, decision : Nat, status : {"FILLED", "PARTIAL", "REJECTED", "EXPIRED"},
     reasons : Seq(FillReasons), fill_event : Optional(Nat),
     decision_ingest : Nat, decision_group : Nat,
     fill_ingest : Optional(Nat), fill_group : Optional(Nat), fill_clock : Optional(Nat),
     requested : Nat, filled : Nat, unfilled : Nat, gross : Nat,
     venue_fee : Nat, priority_fee : Nat, simulation_fee : Nat, cash_delta : Int,
     execution_price : Optional(Int), diagnostics : [Diagnostics -> Nat],
     released_quote : Nat, released_base : Nat]

StatusReasons(f) ==
    CASE f.status = "FILLED"  -> f.reasons = <<>>
      [] f.status = "PARTIAL" -> f.reasons = <<"PARTIAL">>
      [] f.status = "EXPIRED" -> Len(f.reasons) = 1 /\ f.reasons[1] \in ExpiryReasons
      [] OTHER -> Len(f.reasons) = 1 /\ f.reasons[1] \notin ExpiryReasons \cup {"PARTIAL"}

\* A fill happens at an event after the decision's group and cutoff, an expiry
\* at none; only a rejection for an early event is at one that is not later.
FillTrigger(f) ==
    LET coordinates == {f.fill_ingest, f.fill_group, f.fill_clock}
    IN  IF f.fill_event = Null THEN coordinates = {Null} /\ f.status = "EXPIRED"
        ELSE /\ coordinates \subseteq U64
             /\ f.status # "EXPIRED"
             /\ IF f.reasons = <<"SAME_OR_EARLIER_EVENT">> THEN f.fill_group <= f.decision_group
                ELSE f.fill_group > f.decision_group /\ f.fill_ingest > f.decision_ingest

FillQuantity(f) ==
    /\ f.requested > 0 /\ f.filled + f.unfilled = f.requested
    /\ f.status = "FILLED" => f.unfilled = 0
    /\ f.status = "PARTIAL" => f.filled > 0 /\ f.unfilled > 0

FillMoney(f) ==
    LET fees == f.venue_fee + f.priority_fee + f.simulation_fee
    IN  IF f.status \in {"REJECTED", "EXPIRED"}
        THEN /\ {f.filled, f.gross, f.cash_delta, fees} = {0}
             /\ f.execution_price = Null
             /\ \A d \in Diagnostics : f.diagnostics[d] = 0
             /\ (f.released_quote > 0) # (f.released_base > 0)
        ELSE /\ f.filled > 0 /\ f.gross > 0 /\ Positive(f.execution_price)
             /\ \/ f.cash_delta = -(f.gross + fees)
                \/ f.gross >= fees /\ f.cash_delta = f.gross - fees

FillValid(f) ==
    /\ {f.sequence, f.decision, f.decision_ingest, f.decision_group, f.requested, f.filled,
        f.unfilled, f.gross, f.venue_fee, f.priority_fee, f.simulation_fee,
        f.released_quote, f.released_base} \subseteq U64
    /\ {f.cash_delta, f.execution_price} \ {Null} \subseteq I128
    /\ f.sequence > 0
    /\ f.released_quote = 0 \/ f.released_base = 0
    /\ StatusReasons(f) /\ FillTrigger(f) /\ FillQuantity(f) /\ FillMoney(f)
=============================================================================
