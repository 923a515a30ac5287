-------------------------- MODULE ReceiptDocuments ---------------------------
(***************************************************************************)
(* The receipts around a replay and their validators in                    *)
(* crypto_replay/contract_semantics.py: how the configuration and the      *)
(* signals were admitted, what was frozen for the run, whether it could be *)
(* closed, what broke it off, what was measured, and what a benchmark of   *)
(* runs says.  Lists of codes in their order of precedence are sets, their *)
(* prefixes are left out, a digest is the thing it is of, and of a field   *)
(* that only has to be there or not, "present", "evidence" or "attached"   *)
(* says so.                                                                *)
(***************************************************************************)
EXTENDS ContractDocuments

CONSTANTS MaxProofRows,  \* the protocol's cap on the rows of a closure proof
          MaxRawLength   \* a larger signal file is not parsed

ASSUME CapsAssumption == MaxProofRows \in Nat \ {0} /\ MaxRawLength \in Nat

LexLess(s, t) ==
    \E i \in DOMAIN s : s[i] < t[i] /\ \A j \in 1 .. i - 1 : s[j] = t[j]

\* The keys of a list, taken by Key, increase.
Increasing(keys) == \A i, j \in DOMAIN keys : i < j => LexLess(keys[i], keys[j])

-----------------------------------------------------------------------------
(* trading.replay-risk-config/v1 and trading.config-admission-receipt/v1 *)

RiskConfigValid(c) ==
    /\ {c.min_notional, c.target_notional, c.max_notional, c.start, c.end} \subseteq U64
    /\ 0 < c.min_notional
    /\ c.min_notional <= c.target_notional /\ c.target_notional <= c.max_notional
    /\ c.price_tick \in 1 .. MaxI128
    /\ c.proof_rows \in 1 .. MaxProofRows
    /\ c.start < c.end

ConfigReasons == {"MISSING", "BYTES_INVALID", "SCHEMA_INVALID", "ID_MISMATCH", "RANGE_INVALID"}

ConfigReceiptSchema ==
    [status : {"VALID", "INVALID", "MISSING"}, reasons : SUBSET ConfigReasons,
     raw : BOOLEAN, validated : BOOLEAN, length : Nat, admission : Nat]

ConfigReceiptValid(r) ==
    /\ r.length \in U64 /\ r.admission \in U64 \ {0}
    /\ \/ r.status = "MISSING" /\ r.reasons = {"MISSING"} /\ ~r.raw /\ ~r.validated /\ r.length = 0
       \/ r.status = "INVALID" /\ r.reasons # {} /\ "MISSING" \notin r.reasons /\ r.raw /\ ~r.validated
       \/ r.status = "VALID" /\ r.reasons = {} /\ r.raw /\ r.validated /\ r.length # 0

-----------------------------------------------------------------------------
(* trading.model-registry/v1 and trading.model-signal-manifest/v1 *)

RegistryValid(promotions) ==
    /\ \A p \in ToSet(promotions) :
          /\ p.key = p.scope
          /\ {p.horizon, p.max_ttl} \subseteq U64 \ {0}
          /\ {p.max_uncertainty, p.max_ood} \subseteq 0 .. Unit
    /\ Increasing([i \in DOMAIN promotions |-> <<promotions[i].key>>])

CandidateSchema ==
    [path : Nat, length : Nat, raw : Nat, requested : Nat, decision : Nat, snapshot : Nat,
     horizon : Nat, declared : BOOLEAN, producer : Optional(Nat), scope : Optional(Nat)]

StorageKey(c) ==
    LET unparsed == c.producer = Null
    IN  <<c.requested, IF unparsed THEN 1 ELSE 0, IF unparsed THEN 0 ELSE c.producer,
          c.decision, c.snapshot, c.horizon, c.raw, c.path>>

\* No two candidates agree on what Key takes of them.
Distinct(rows, Key(_)) == \A i, j \in DOMAIN rows : Key(rows[i]) = Key(rows[j]) => i = j

SignalManifestValid(candidates) ==
    /\ \A c \in ToSet(candidates) :
          /\ {c.length, c.decision, c.horizon} \cup ({c.producer} \ {Null}) \subseteq U64
          /\ c.length \notin 1 .. MaxRawLength =>
                ~c.declared /\ c.producer = Null /\ c.scope = Null
    /\ Distinct(candidates, LAMBDA c : c.path)
    /\ Distinct(candidates, LAMBDA c : <<c.requested, c.producer, c.raw>>)
    /\ Increasing([i \in DOMAIN candidates |-> StorageKey(candidates[i])])

-----------------------------------------------------------------------------
(* trading.model-validation-receipt/v1 *)

IdentityCodes ==
    {"MODEL_UNPINNED", "RUNTIME_SUBSTITUTION", "SCOPE_MISMATCH", "FEATURE_MISMATCH", "CALIBRATION_UNKNOWN"}
SequenceCodes == {"PRODUCER_SEQUENCE_INVALID", "REPLAYED"}
LateCodes == {"EXPIRED", "DEADLINE_MISS"}
ValueCodes == {"NUMERIC_INVALID", "PROBABILITY_INVALID", "ACTION_INCONSISTENT", "UNCERTAIN_OR_OOD"}
SignalCodes ==
    {"BYTES_INVALID", "SCHEMA_UNKNOWN", "ID_MISMATCH", "ORDER_SHAPED", "TIME_INVALID", "TTL_RANGE",
     "DRIFT_DISABLED"} \cup IdentityCodes \cup SequenceCodes \cup LateCodes \cup ValueCodes

CandidateEvidence ==
    {"declared_signal_id", "producer_sequence", "producer_scope_key", "issued", "expires"}

ModelReceiptSchema ==
    [status : {"ACCEPTED", "REJECTED", "EXPIRED", "DRIFT_DISABLED"}, reasons : SUBSET SignalCodes,
     evidence : SUBSET CandidateEvidence, accepted : BOOLEAN,
     action : {"ABSTAIN", "LONG_BIAS", "EXIT_BIAS"}, score : Int, abstain : Nat, long_bias : Nat,
     exit_bias : Nat, uncertainty : Nat, ood : Nat]

\* The codes belong to one stage and to what may be wrong besides.
ValidationStage(codes) ==
    /\ "BYTES_INVALID" \in codes => codes = {"BYTES_INVALID"}
    /\ "ORDER_SHAPED" \in codes => "SCHEMA_UNKNOWN" \in codes
    /\ "SCHEMA_UNKNOWN" \in codes => codes \subseteq {"SCHEMA_UNKNOWN", "ORDER_SHAPED"}
    /\ "ID_MISMATCH" \in codes => codes = {"ID_MISMATCH"}
    /\ codes \cap IdentityCodes # {} => codes \subseteq IdentityCodes \cup {"DRIFT_DISABLED"}
    /\ \A code \in codes \cap SequenceCodes : codes \subseteq {code, "DRIFT_DISABLED"}
    /\ "TIME_INVALID" \in codes => codes \cap LateCodes = {}

SignalStatus(codes) ==
    IF codes = {} THEN "ACCEPTED"
    ELSE IF codes = {"DRIFT_DISABLED"} THEN "DRIFT_DISABLED"
    ELSE IF codes \subseteq LateCodes /\ "EXPIRED" \in codes THEN "EXPIRED" ELSE "REJECTED"

\* What a signal that was not accepted counts as.
Fallback ==
    [accepted |-> FALSE, action |-> "ABSTAIN", score |-> 0, abstain |-> Unit, long_bias |-> 0,
     exit_bias |-> 0, uncertainty |-> Unit, ood |-> Unit]

\* Mutant: a receipt may name the signal it did not accept.
AuthorityOfAnySignal(r) ==
    IF r.status = "ACCEPTED" THEN r.accepted
    ELSE \A field \in DOMAIN Fallback \ {"accepted"} : r[field] = Fallback[field]

SignalAuthority(r) ==
    IF r.status = "ACCEPTED" THEN r.accepted
    ELSE \A field \in DOMAIN Fallback : r[field] = Fallback[field]

ModelReceiptValid(r) ==
    /\ ValidationStage(r.reasons)
    /\ r.status = SignalStatus(r.reasons)
    /\ "BYTES_INVALID" \in r.reasons => r.evidence = {}
    /\ r.reasons \cap {"BYTES_INVALID", "SCHEMA_UNKNOWN"} = {} => r.evidence = CandidateEvidence
    /\ r.score \in I128
    /\ {r.abstain, r.long_bias, r.exit_bias, r.uncertainty, r.ood} \subseteq 0 .. Unit
    /\ r.abstain + r.long_bias + r.exit_bias = Unit
    /\ SignalAuthority(r)

-----------------------------------------------------------------------------
(* trading.run-receipt/v1 *)

RunReceiptSchema ==
    [tick : Nat, budget : Nat, terminal : Nat, mode : {"DISABLED", "CACHED_FIXTURES"},
     policy : {"FORCE_CLOSE_NEXT_EVENT", "LEAVE_MARKED_OPEN"}, registry : BOOLEAN,
     manifest : BOOLEAN, scopes : Seq([decision : Nat, market : Nat, horizon : Nat]),
     groups : Seq([slot : Nat, group : Nat, cutoff : Nat]) \ {<<>>}]

\* Slots increase, groups are counted from one, cutoffs never decrease.
AvailabilitySchedule(groups) ==
    \A i \in DOMAIN groups :
        /\ {groups[i].slot, groups[i].cutoff} \subseteq U64
        /\ groups[i].group = i
        /\ IF i = 1 THEN groups[i].slot > 0
           ELSE groups[i - 1].slot < groups[i].slot /\ groups[i - 1].cutoff <= groups[i].cutoff

ModelScopes(scopes) ==
    /\ \A s \in ToSet(scopes) : s.decision \in U64 \ {0} /\ s.horizon \in U64
    /\ Increasing([i \in DOMAIN scopes |-> <<scopes[i].decision, scopes[i].market>>])

ModelMode(r) ==
    IF r.mode = "DISABLED" THEN ~r.registry /\ ~r.manifest /\ r.scopes = <<>> /\ r.budget = 0
    ELSE r.registry /\ r.manifest /\ r.scopes # <<>> /\ 0 < r.budget /\ r.budget < r.tick

RunReceiptValid(r) ==
    /\ {r.tick, r.terminal} \subseteq U64 \ {0} /\ r.budget \in U64
    /\ AvailabilitySchedule(r.groups) /\ ModelScopes(r.scopes) /\ ModelMode(r)

-----------------------------------------------------------------------------
(* trading.benchmark-measurement/v1 *)

Phases == {"admission", "feature", "risk", "fill", "accounting", "end_to_end"}
Counters == <<"MEASURED_WALL_DURATION", "PROCESS_CPU_TIME", "WALL_DURATION", "PEAK_RSS_BYTES",
              "ALLOCATION_COUNT", "INPUT_BYTES", "OUTPUT_BYTES">>

MeasurementSchema ==
    [status : {"COMPLETE", "RANGE_FAILED"}, first : Optional(ToSet(Counters)),
     failures : SUBSET ToSet(Counters), raw : [ToSet(Counters) -> Optional(Nat)],
     converted : [ToSet(Counters) -> Optional(Nat)], samples : [Phases -> Seq(Nat)],
     counts : [Phases -> Nat], warmup_events : Nat, events : Nat, warmup_groups : Nat, groups : Nat,
     boundary : Optional(Nat)]

\* The first of the counters that is one of these.
FirstOf(failures) ==
    IF failures = {} THEN Null
    ELSE Counters[CHOOSE i \in DOMAIN Counters :
                     Counters[i] \in failures /\ \A j \in 1 .. i - 1 : Counters[j] \notin failures]

\* The counters that do not fit the range of the converted field.
RangeFailures(m) == {c \in ToSet(Counters) : m.raw[c] # Null /\ m.raw[c] > MaxU64}

Conversion(m, c) ==
    IF m.raw[c] = Null THEN c = "ALLOCATION_COUNT" /\ m.converted[c] = Null
    ELSE m.converted[c] = IF c \in RangeFailures(m) THEN Null ELSE m.raw[c]

\* The samples are counted, and the last phase's add up to the wall time.
PhaseCensus(m) ==
    /\ \A p \in Phases : m.counts[p] = Len(m.samples[p]) /\ ToSet(m.samples[p]) \subseteq U64
    /\ m.counts["admission"] = m.events /\ m.counts["end_to_end"] = m.groups
    /\ m.raw["MEASURED_WALL_DURATION"] =
          SumFunction(m.samples["end_to_end"])

MeasurementValid(m) ==
    /\ {m.warmup_events, m.events, m.warmup_groups, m.groups} \cup ({m.boundary} \ {Null}) \subseteq U64
    /\ PhaseCensus(m)
    /\ \A c \in ToSet(Counters) : Conversion(m, c)
    /\ m.failures = RangeFailures(m)
    /\ m.status = (IF m.failures = {} THEN "COMPLETE" ELSE "RANGE_FAILED")
    /\ m.first = FirstOf(m.failures)
    /\ (m.boundary = Null) = (m.warmup_events = 0 /\ m.warmup_groups = 0)

-----------------------------------------------------------------------------
(* trading.benchmark-receipt/v1 *)

Preflight == {"FIXTURE_NOT_ADMITTED", "CONFIG_INVALID", "RUN_CLOSURE_FAILED", "PREREGISTRATION_MISSING"}
Scheduled == {"RUN_FAILED", "METRICS_INVALID", "REPRODUCIBILITY_FAILED", "GATE_FAILED"}
Attachments == {"benchmark_manifest", "preregistered_thresholds", "hardware_profile", "metrics_artifact"}

TerminalFields ==
    [RUN_END |-> {"ledger_root"}, KILLED |-> {"failure_receipt"},
     QUARANTINED |-> {"execution_quarantine_receipt"},
     PROCESS_FAILED |-> {"process_failure_code", "stdout", "stderr"}]

RunOutputSchema ==
    [case : Nat, run : Nat, repetition : Nat, terminal : DOMAIN TerminalFields,
     evidence : SUBSET UNION {TerminalFields[t] : t \in DOMAIN TerminalFields},
     failure : Optional({"LAUNCH_FAILED", "TIMEOUT", "NONZERO_EXIT", "SIGNALLED", "OUTPUT_INVALID"}),
     exit_code : Optional(Int), empty_output : BOOLEAN]

BenchmarkSchema ==
    [status : {"PASS", "FAIL", "INELIGIBLE"}, reasons : SUBSET (Preflight \cup Scheduled),
     attached : SUBSET Attachments, samples : Nat, outputs : Seq(RunOutputSchema)]

BenchmarkVerdict(b) ==
    IF b.status = "INELIGIBLE"
    THEN /\ b.reasons # {} /\ b.reasons \subseteq Preflight
         /\ b.samples = 0 /\ b.outputs = <<>> /\ "metrics_artifact" \notin b.attached
    ELSE /\ b.attached = Attachments /\ b.outputs # <<>>
         /\ IF b.status = "PASS" THEN b.reasons = {} /\ b.samples > 0
            ELSE b.reasons # {} /\ b.reasons \subseteq Scheduled

\* How a run ended decides what it left behind.
TerminalShape(row) ==
    /\ row.evidence = TerminalFields[row.terminal]
    /\ row.exit_code # Null => row.terminal = "PROCESS_FAILED" /\ row.exit_code \in I128
    /\ row.failure = "LAUNCH_FAILED" => row.exit_code = Null /\ row.empty_output
    /\ row.failure = "NONZERO_EXIT" => row.exit_code # Null /\ row.exit_code # 0

\* Repetitions of a run of a case are counted from zero.
Repetitions(outputs) ==
    \A i \in DOMAIN outputs :
        LET same == {j \in 1 .. i - 1 : <<outputs[j].case, outputs[j].run>> = <<outputs[i].case, outputs[i].run>>}
        IN  outputs[i].repetition = Cardinality(same)

BenchmarkValid(b) ==
    /\ b.samples \in U64
    /\ BenchmarkVerdict(b)
    /\ \A row \in ToSet(b.outputs) : row.repetition \in U64 /\ TerminalShape(row)
    /\ Increasing([i \in DOMAIN b.outputs |->
          <<b.outputs[i].case, b.outputs[i].run, b.outputs[i].repetition>>])
    /\ Repetitions(b.outputs)
    /\ ("RUN_FAILED" \in b.reasons) <=> (\E row \in ToSet(b.outputs) : row.terminal # "RUN_END")
=============================================================================
