--------------------------- MODULE ReplayReceipts ---------------------------
(***************************************************************************)
(* How the receipts of a replay come about: inputs are frozen and may be   *)
(* replaced before they are used, receipts are issued about them one after *)
(* the other, what is retained is verified, the run leaves receipts and is *)
(* measured.  The procedures that issue the receipts are not in the        *)
(* repository: they are written here as its contracts name their stages.   *)
(* The validators and the verification are its own.                        *)
(***************************************************************************)
EXTENDS RunGate

CONSTANTS
    Fixtures,    \* what may be frozen, each [policy, tick, schedule, terminal, markets, sources, events]
    Configs,     \* the configurations that parse and pass
    Signals,     \* the pairs of a registry and the candidates of a manifest
    Outcomes,    \* what the checks of the markets may run into, one list per closure
    MaxReplaced, \* how often inputs are replaced once receipts are about them
    MaxOutputs

VARIABLES
    stage,     \* the next thing to happen
    inputs,    \* what is frozen: [fixture, raw, config, registry, manifest]
    issued,    \* the latest receipts: [config_receipt, closure, run]
    bundle,    \* what was verified; once the run has started, only its model mode
    replaced,  \* how often inputs were replaced
    outputs,   \* how the measured runs ended
    receipt    \* the document issued in this step, [kind, doc], or Null

receiptsVars == <<stage, inputs, issued, bundle, replaced, outputs, receipt>>

ASSUME WidthAssumption == 2 <= MaxU64 /\ MaxProofRows <= MaxU64

\* The fixtures and the checks of the markets, as the replay itself makes them.
ASSUME FixturesAssumption ==
    /\ \A fixture \in Fixtures :
          /\ fixture.tick \in 2 .. MaxU64 /\ fixture.terminal \in 1 .. MaxU64
          /\ fixture.policy \in {"FORCE_CLOSE_NEXT_EVENT", "LEAVE_MARKED_OPEN"}
          /\ fixture.schedule \in Seq([slot : Nat, group : Nat, cutoff : Nat]) \ {<<>>}
          /\ AvailabilitySchedule(fixture.schedule)
    /\ \A markets \in Outcomes :
          /\ Len(markets) \in Nat \ {0} /\ DOMAIN markets = 1 .. Len(markets)
          /\ \A i \in DOMAIN markets :
                /\ markets[i].faults \subseteq MarketCodes
                /\ markets[i].q_cap \in Nat /\ markets[i].references \in Nat
                /\ markets[i].extremes \in 1 .. 2

\* A configuration that passed its validator, and no manifest with one file twice
\* or with two horizons for one decision on a market.
ASSUME FilesAssumption ==
    /\ \A config \in Configs : RiskConfigValid(config)
    /\ \A s \in Signals :
          /\ s.candidates # {} /\ IsFiniteSet(s.candidates) /\ s.candidates \subseteq CandidateSchema
          /\ \A c \in s.candidates : c.decision \in U64 \ {0} /\ c.horizon \in U64
          /\ \A c, d \in s.candidates :
                /\ c.path = d.path => c = d
                /\ c.decision = d.decision /\ c.requested = d.requested => c.horizon = d.horizon

NoReceipts == [config_receipt |-> Null, closure |-> Null, run |-> Null]

\* The elements of S by their keys, which differ.
SortedBy(S, key) ==
    [n \in 1 .. Cardinality(S) |->
        CHOOSE x \in S : Cardinality({y \in S : LexLess(key[y], key[x])}) = n - 1]

ManifestOf(registry, candidates) ==
    [registry |-> registry,
     candidates |-> SortedBy(candidates, [c \in candidates |-> StorageKey(c)])]

ASSUME NullAssumption ==
    /\ Null \notin Int /\ Null # <<>> /\ Null \notin {"LAUNCH_FAILED", "NONZERO_EXIT"}
    /\ \A config \in Configs : Null # config /\ Null # <<config>>
    /\ \A s \in Signals : Null # s.registry /\ Null # ManifestOf(s.registry, s.candidates)

\* Registry and manifest, both or none.
Models ==
    {[registry |-> Null, manifest |-> Null]}
    \cup {[registry |-> s.registry, manifest |-> ManifestOf(s.registry, s.candidates)] : s \in Signals}

ReceiptsInit ==
    /\ stage = "config"
    /\ \E fixture \in Fixtures, models \in Models :
          inputs = [fixture |-> fixture, raw |-> Null, config |-> Null, registry |-> models.registry,
                    manifest |-> models.manifest]
    /\ issued = NoReceipts
    /\ bundle = Null /\ replaced = 0 /\ outputs = <<>> /\ receipt = Null

Issue(kind, doc) == receipt' = [kind |-> kind, doc |-> doc]

-----------------------------------------------------------------------------
(* The configuration is read, parsed and checked. *)

ConfigReceipt(raw, config, reasons) ==
    [body |->
        [status |-> IF raw = Null THEN "MISSING" ELSE IF config = Null THEN "INVALID" ELSE "VALID",
         reasons |-> reasons, raw |-> raw # Null, validated |-> config # Null,
         length |-> RawLength(raw), admission |-> 1],
     names |-> [raw |-> raw, config |-> config]]

AdmitConfig ==
    /\ stage = "config"
    /\ \E config \in Optional(Configs), reasons \in SUBSET ConfigReasons :
          LET raw == IF config # Null THEN <<config>> ELSE IF "MISSING" \in reasons THEN Null ELSE <<>>
              new == ConfigReceipt(raw, config, reasons)
          IN  /\ (config = Null) = (reasons # {})
              /\ "MISSING" \in reasons => reasons = {"MISSING"}
              /\ Cardinality(reasons) <= 2
              /\ inputs' = [inputs EXCEPT !.raw = raw, !.config = config]
              /\ issued' = [issued EXCEPT !.config_receipt = new]
              /\ Issue("config", new.body)
    /\ stage' = "closure"
    /\ UNCHANGED <<bundle, replaced, outputs>>

-----------------------------------------------------------------------------
(* The run is closed: every market is checked as far as its checks go.     *)
(* market: [faults, q_cap, references, extremes], the checks that fail and *)
(* the sizes of what the others derive.                                    *)

MarketCandidate(market) ==
    IF "H_MISSING" \in market.faults THEN {}
    ELSE IF "CANDIDATE_CARDINALITY" \in market.faults THEN {"CANDIDATE_CARDINALITY"}
    ELSE IF "CANDIDATE_SCHEMA_INVALID" \in market.faults THEN {"CANDIDATE_SCHEMA_INVALID"}
    ELSE {code \in market.faults \cap CandidateVerdicts :
             "Q_CAP_RANGE" \in market.faults => code # "CAPACITY_INSUFFICIENT"}

Countable(market) == market.faults \cap {"Q_CAP_RANGE", "REFERENCE_SET_INVALID"} = {}
ProofRows(market) == market.q_cap * market.references * market.extremes

PreproofFailures(market, triggered) ==
    (market.faults \cap {"H_MISSING", "Q_CAP_RANGE", "REFERENCE_SET_INVALID"})
    \cup MarketCandidate(market)
    \cup (IF Countable(market) /\ ProofRows(market) > MaxU64 THEN {"PROOF_ROW_COUNT_RANGE"} ELSE {})
    \cup (IF triggered THEN market.faults \cap {"STATE_ENVELOPE_RANGE"} ELSE {})

MarketRow(id, market, triggered, proving) ==
    LET failed == PreproofFailures(market, triggered)
        proof == IF proving THEN market.faults \cap {"PROOF_PREDICATE_FAILED"} ELSE {}
        got(fields, unless) == IF unless THEN {} ELSE fields
    IN  [market |-> id, codes |-> failed \cup proof, extremes |-> market.extremes,
         proof_rows |-> IF Countable(market) /\ ProofRows(market) <= MaxU64 THEN ProofRows(market) ELSE Null,
         evidence |->
            got({"trigger"}, "H_MISSING" \in failed)
            \cup got(CandidateFields, failed \cap ({"H_MISSING"} \cup CandidateStops) # {})
            \cup got({"q_cap"}, "Q_CAP_RANGE" \in failed)
            \cup got({"reference_count", "reference_root"}, "REFERENCE_SET_INVALID" \in failed)
            \cup got({"state_envelope"}, ~triggered \/ "STATE_ENVELOPE_RANGE" \in failed)
            \cup got({"proof_domain"}, ~proving)
            \cup got({"proof_root"}, ~proving \/ proof # {})]

Triggered(markets) == \A m \in DOMAIN markets : "H_MISSING" \notin markets[m].faults
Uncounted(markets) ==
    \E m \in DOMAIN markets : "PROOF_ROW_COUNT_RANGE" \in PreproofFailures(markets[m], Triggered(markets))

\* The rows of the markets that can be counted.
CountedRows(markets) ==
    LET counted == {m \in DOMAIN markets : Countable(markets[m]) /\ ProofRows(markets[m]) <= MaxU64}
    IN  SumFunction([m \in counted |-> ProofRows(markets[m])])

WithinBudget(limit, markets) == ~Uncounted(markets) /\ CountedRows(markets) <= limit
Proving(limit, markets) ==
    /\ WithinBudget(limit, markets)
    /\ \A m \in DOMAIN markets : PreproofFailures(markets[m], Triggered(markets)) = {}

Closure(i, markets) ==
    LET forced == i.config # Null /\ i.fixture.policy = "FORCE_CLOSE_NEXT_EVENT"
        counters == CounterCapacity(i.fixture, i.manifest)
        limit == IF i.config = Null THEN Null ELSE i.config.proof_rows
        total == CountedRows(markets)
        rows == IF ~forced THEN <<>>
                ELSE [m \in DOMAIN markets |->
                        MarketRow(m, markets[m], Triggered(markets), Proving(limit, markets))]
        reasons == IF counters = "EXCEEDED" THEN {"COUNTER_CAPACITY", "RUN_END_UNCLOSED"}
                   ELSE IF ~forced THEN {}
                   ELSE IF ~WithinBudget(limit, markets) THEN {"RUN_END_PROOF_BUDGET", "RUN_END_UNCLOSED"}
                   ELSE IF \E m \in DOMAIN rows : rows[m].codes # {} THEN {"RUN_END_UNCLOSED"} ELSE {}
    IN  [body |->
            [status |-> IF reasons # {} THEN "FAIL"
                        ELSE IF i.config = Null THEN "NOT_REQUIRED_ZERO_AUTHORITY" ELSE "PASS",
             reasons |-> reasons, config |-> i.config # Null,
             mode |-> IF i.manifest = Null THEN "DISABLED" ELSE "CACHED_FIXTURES",
             registry |-> i.registry # Null, manifest |-> i.manifest # Null, counters |-> counters,
             policy |-> i.fixture.policy,
             terminal |-> IF reasons # {} THEN Null ELSE i.fixture.terminal,
             proof_limit |-> limit,
             proof_total |-> IF ~forced THEN 0 ELSE IF Uncounted(markets) \/ total > MaxU64 THEN Null ELSE total,
             budget |-> IF ~forced THEN "NOT_REQUIRED"
                        ELSE IF WithinBudget(limit, markets) THEN "WITHIN_LIMIT" ELSE "EXCEEDED",
             rows |-> rows],
         names |-> [fixture |-> i.fixture, config_receipt |-> issued.config_receipt, config |-> i.config,
                    registry |-> i.registry, manifest |-> i.manifest]]

Close ==
    /\ stage = "closure"
    /\ \E markets \in Outcomes :
          LET new == Closure(inputs, markets)
          IN  issued' = [issued EXCEPT !.closure = new] /\ Issue("closure", new.body)
    /\ stage' = "run"
    /\ UNCHANGED <<inputs, bundle, replaced, outputs>>

\* The proofs of a market whose rows were counted, sorted.
ProofSet(references, residuals, extremes) ==
    LET rows == [reference : references, residual : residuals, adverse : extremes]
    IN  [proof_rows |-> Cardinality(rows),
         rows |-> SortedBy(rows, [row \in rows |-> <<row.reference, row.residual, row.adverse>>])]

Prove ==
    /\ stage = "run" /\ issued.closure.body.status = "PASS" /\ issued.closure.body.rows # <<>>
    /\ \E references, residuals \in (SUBSET (1 .. 2)) \ {{}} :
          Issue("proofs", ProofSet(references, residuals, {0, 5}))
    /\ receipt'.doc.proof_rows <= MaxProofRows
    /\ UNCHANGED <<stage, inputs, issued, bundle, replaced, outputs>>

-----------------------------------------------------------------------------
(* The run's own receipt; it may be about inputs that were replaced since  *)
(* the closure was issued.                                                 *)

RunReceipt(i) ==
    LET disabled == i.manifest = Null
        scopes == IF disabled THEN {} ELSE Requests(i.manifest)
    IN  [body |->
            [tick |-> i.fixture.tick, budget |-> IF disabled THEN 0 ELSE 1, terminal |-> i.fixture.terminal,
             mode |-> IF disabled THEN "DISABLED" ELSE "CACHED_FIXTURES", policy |-> i.fixture.policy,
             registry |-> ~disabled, manifest |-> ~disabled,
             scopes |-> SortedBy(scopes, [scope \in scopes |-> <<scope.decision, scope.market>>]),
             groups |-> i.fixture.schedule],
         names |-> [fixture |-> i.fixture, config_receipt |-> issued.config_receipt, config |-> i.config,
                    registry |-> i.registry, manifest |-> i.manifest, closure |-> issued.closure]]

IssueRun ==
    /\ stage = "run"
    /\ LET new == RunReceipt(inputs)
       IN  issued' = [issued EXCEPT !.run = new] /\ Issue("run", new.body)
    /\ stage' = "verify"
    /\ UNCHANGED <<inputs, bundle, replaced, outputs>>

\* Inputs are replaced after a closure that would let them run; the
\* receipts about them stay as they are, or the run is closed again.
Replaceable ==
    /\ stage \in {"run", "verify"} /\ replaced < MaxReplaced
    /\ issued.closure.body.status # "FAIL"

Replace(new, back) ==
    /\ Replaceable
    /\ new # inputs
    /\ inputs' = new /\ stage' = back /\ replaced' = replaced + 1
    /\ issued' = IF back = "closure" THEN [issued EXCEPT !.closure = Null, !.run = Null] ELSE issued
    /\ receipt' = Null
    /\ UNCHANGED <<bundle, outputs>>

ReplaceFixture ==
    \E fixture \in Fixtures, back \in {"closure", stage} :
        Replace([inputs EXCEPT !.fixture = fixture], back)
ReplaceSignals ==
    \E models \in Models, back \in {"closure", stage} :
        Replace([inputs EXCEPT !.registry = models.registry, !.manifest = models.manifest], back)

\* A configuration is admitted anew and the closure of the old one kept.
ReplaceConfig ==
    \E config \in Configs :
        LET new == ConfigReceipt(<<config>>, config, {})
        IN  /\ Replaceable
            /\ config # inputs.config
            /\ inputs' = [inputs EXCEPT !.raw = <<config>>, !.config = config]
            /\ issued' = [issued EXCEPT !.config_receipt = new]
            /\ Issue("config", new.body)
            /\ replaced' = replaced + 1 /\ UNCHANGED <<stage, bundle, outputs>>

Retained ==
    [name \in DOMAIN inputs \cup DOMAIN issued |->
        IF name \in DOMAIN inputs THEN inputs[name] ELSE issued[name]]

\* verify_contract_run_inputs, on all that is retained.
VerifyRetained ==
    /\ stage = "verify"
    /\ bundle' = IF Verifiable(Retained) THEN Retained ELSE Null
    /\ stage' = IF Verifiable(Retained) THEN "verified" ELSE "benchmark"
    /\ inputs' = Null /\ issued' = NoReceipts /\ replaced' = 0 /\ receipt' = Null
    /\ UNCHANGED outputs
=============================================================================
