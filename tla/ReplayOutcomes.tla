--------------------------- MODULE ReplayOutcomes ---------------------------
(***************************************************************************)
(* The receipts a verified run leaves: what came of its signals, whether   *)
(* its books reconcile, what broke its journal off, how long it took, what *)
(* the benchmark of its repetitions found.                                 *)
(***************************************************************************)
EXTENDS ReplayReceipts

CONSTANTS
    Opinions,     \* what a signal that is accepted says
    Journals,     \* what may be wrong with a journal, pairs of slots and components
    Timings       \* the raw counters and samples of a measured run

ASSUME OutputsAssumption == MaxOutputs \in 0 .. MaxU64

ASSUME OpinionsAssumption ==
    \A o \in Opinions :
        /\ o.accepted = TRUE /\ o.action \in {"ABSTAIN", "LONG_BIAS", "EXIT_BIAS"} /\ o.score \in I128
        /\ {o.abstain, o.long_bias, o.exit_bias, o.uncertainty, o.ood} \subseteq 0 .. Unit
        /\ o.abstain + o.long_bias + o.exit_bias = Unit

\* The slots after a gap follow each other; the components are ordered.
ASSUME JournalsAssumption ==
    \A j \in Journals :
        /\ j.slots # <<>> \/ j.components # <<>>
        /\ j.slots \in Seq(SlotSchema) /\ j.components \in Seq(ComponentSchema)
        /\ \A i \in DOMAIN j.slots : SlotRow(j.slots[i]) /\ j.slots[i].sequence = j.slots[1].sequence + i - 1
        /\ \A i \in DOMAIN j.components : ComponentRow(j.components[i])
        /\ Increasing([i \in DOMAIN j.components |->
              <<j.components[i].rank, IF j.components[i].ordinal = Null THEN -1 ELSE j.components[i].ordinal>>])

\* Only allocations may go uncounted; what is measured end to end adds up.
ASSUME TimingsAssumption ==
    \A t \in Timings :
        /\ t.raw \in [ToSet(Counters) -> Optional(Nat)] /\ t.warmup \in U64
        /\ \A c \in ToSet(Counters) : t.raw[c] = Null => c = "ALLOCATION_COUNT"
        /\ t.samples \in [Phases -> Seq(U64)]
        /\ Len(t.samples["admission"]) \in U64 /\ Len(t.samples["end_to_end"]) \in U64
        /\ t.raw["MEASURED_WALL_DURATION"] = SumFunction(t.samples["end_to_end"])

StartRun ==
    /\ stage = "verified"
    /\ stage' = "replay" /\ bundle' = [mode |-> bundle.run.body.mode] /\ receipt' = Null
    /\ UNCHANGED <<inputs, issued, replaced, outputs>>

\* The repetitions of a run leave the same receipts: those of the first are
\* drawn up, and one repetition's time is measured.
During(kind, doc) ==
    /\ stage = "replay" /\ receipt = Null
    /\ Len(outputs) = IF kind = "measurement" THEN 1 ELSE 0
    /\ Issue(kind, doc)
    /\ UNCHANGED <<stage, inputs, issued, bundle, replaced, outputs>>

\* The codes a signal with these flaws gets: a stage that fails is the last.
SignalVerdict(flaws) ==
    IF "BYTES_INVALID" \in flaws THEN {"BYTES_INVALID"}
    ELSE IF "ORDER_SHAPED" \in flaws THEN {"SCHEMA_UNKNOWN", "ORDER_SHAPED"}
    ELSE IF "SCHEMA_UNKNOWN" \in flaws THEN {"SCHEMA_UNKNOWN"}
    ELSE IF "ID_MISMATCH" \in flaws THEN {"ID_MISMATCH"}
    ELSE IF flaws \cap IdentityCodes # {} THEN flaws \cap (IdentityCodes \cup {"DRIFT_DISABLED"})
    ELSE IF "PRODUCER_SEQUENCE_INVALID" \in flaws THEN flaws \cap {"PRODUCER_SEQUENCE_INVALID", "DRIFT_DISABLED"}
    ELSE IF "REPLAYED" \in flaws THEN flaws \cap {"REPLAYED", "DRIFT_DISABLED"}
    ELSE IF "TIME_INVALID" \in flaws THEN flaws \ LateCodes
    ELSE flaws

\* At most n of the members of S.
FewOf(S, n) == {{}} \cup {ToSet(f) : f \in [1 .. n -> S]}

ValidateSignal ==
    /\ stage = "replay" /\ bundle.mode = "CACHED_FIXTURES"
    /\ \E flaws \in FewOf(SignalCodes, 2), opinion \in Opinions, partly \in {{}, {"declared_signal_id"}} :
          LET codes == SignalVerdict(flaws)
              said == IF codes = {} THEN opinion ELSE Fallback
          IN  During("model",
                [status |-> CASE codes = {} -> "ACCEPTED"
                              [] codes = {"DRIFT_DISABLED"} -> "DRIFT_DISABLED"
                              [] "EXPIRED" \in codes /\ codes \subseteq LateCodes -> "EXPIRED"
                              [] OTHER -> "REJECTED",
                 reasons |-> codes,
                 evidence |-> CASE "BYTES_INVALID" \in codes -> {}
                                [] "SCHEMA_UNKNOWN" \in codes -> partly
                                [] OTHER -> CandidateEvidence,
                 accepted |-> said.accepted, action |-> said.action, score |-> said.score,
                 abstain |-> said.abstain, long_bias |-> said.long_bias, exit_bias |-> said.exit_bias,
                 uncertainty |-> said.uncertainty, ood |-> said.ood])

\* off: what does not add up; gate: what the gate of a group found besides.
Reconciliation(kind, off, gate, unclosed) ==
    LET codes == (off \cap {"ACCOUNT_RESIDUAL", "ASSET_RESIDUAL"})
                 \cup {Residuals[name] : name \in off \cap DOMAIN Residuals}
                 \cup gate \cup ({kind} \cap Terminal)
                 \cup (IF unclosed THEN {"RUN_END_UNCLOSED"} ELSE {})
        amount(name) == IF name \in off THEN 1 ELSE 0
        promoting == kind \notin Terminal \cup {"GENESIS", "GROUP_GATE", "FINAL_GATE"}
    IN  [status |-> IF codes = {} THEN "PASS" ELSE "KILLED", kind |-> kind,
         reasons |-> IF codes = {} THEN {} ELSE codes \cup {"MISMATCH"},
         decision |-> Null, ingest |-> 0, group |-> 0, clock |-> 0,
         before |-> 1, after |-> IF promoting THEN 2 ELSE 1,
         causes |-> [n \in 1 .. CauseCount(kind) |-> n],
         assets |-> IF "ASSET_RESIDUAL" \in off THEN <<[key |-> 1, residual |-> -1]>> ELSE <<>>,
         accounts |-> IF "ACCOUNT_RESIDUAL" \in off
                      THEN <<[key |-> <<1, 1>>, residual |-> 0], [key |-> <<1, 2>>, residual |-> 1]>> ELSE <<>>,
         residuals |-> [name \in DOMAIN Residuals |-> amount(name)],
         evidence |-> IF kind \in Integrity THEN {kind, "footprints"} ELSE {kind} \cap Terminal,
         expected |-> 1, observed |-> IF kind \in Integrity THEN 2 ELSE 1,
         latched |-> codes # {} \/ kind \in {"RISK_KILL", "TERMINAL_KILL_PROMOTION"}]

Reconcile ==
    \E kind \in Kinds, off \in FewOf(DOMAIN Residuals \cup {"ACCOUNT_RESIDUAL", "ASSET_RESIDUAL"}, 2),
       gate \in FewOf(GateCodes, 1), unclosed \in BOOLEAN :
        \* the kinds whose residuals are zero by contract; the end of a run is not one
        /\ kind \in Terminal \cup {"GENESIS", "TERMINAL_KILL_PROMOTION"} => off = {}
        /\ gate # {} => kind = "GROUP_GATE"
        /\ unclosed => kind = "FINAL_GATE"
        /\ During("reconciliation", Reconciliation(kind, off, gate, unclosed))

QuarantineReceipt(journal, anchored) ==
    LET slots == journal.slots
        of(rows, class) == \E i \in DOMAIN rows : rows[i].class = class
        found(name, rows) == {<<name, class>> : class \in {c \in Classifications : of(rows, c)}}
    IN  [head |-> IF anchored THEN 1 ELSE Null, state |-> IF anchored THEN 1 ELSE Null,
         expected |-> 1, observed |-> 2, slots |-> slots, components |-> journal.components,
         first_unsafe |-> IF slots = <<>> THEN Null ELSE Head(slots).sequence,
         reasons |-> found("LEDGER_SLOT", slots) \cup found("COMPONENT", journal.components)
            \cup {<<"FOOTPRINT", "MISMATCH">>}
            \cup (IF anchored THEN {} ELSE {<<"INITIAL_PREFIX_ANCHOR", "MISSING">>})
            \cup (IF of(slots, "WRONG") \/ of(slots, "EXTRA") THEN {<<"APPEND_SLOT", "OCCUPIED">>} ELSE {})]

Quarantine ==
    \E journal \in Journals, anchored \in BOOLEAN :
        During("quarantine", QuarantineReceipt(journal, anchored))

Measurement(t) ==
    LET fits(c) == t.raw[c] # Null /\ t.raw[c] <= MaxU64
        broken == {c \in ToSet(Counters) : t.raw[c] # Null /\ ~fits(c)}
    IN  [status |-> IF broken = {} THEN "COMPLETE" ELSE "RANGE_FAILED",
         first |-> FirstOf(broken), failures |-> broken,
         raw |-> t.raw, converted |-> [c \in ToSet(Counters) |-> IF fits(c) THEN t.raw[c] ELSE Null],
         samples |-> t.samples, counts |-> [p \in Phases |-> Len(t.samples[p])],
         warmup_events |-> t.warmup, events |-> Len(t.samples["admission"]),
         warmup_groups |-> t.warmup, groups |-> Len(t.samples["end_to_end"]),
         boundary |-> IF t.warmup = 0 THEN Null ELSE 1]

Measure == \E t \in Timings : During("measurement", Measurement(t))

-----------------------------------------------------------------------------

OutputKey(row) == <<row.case, row.run, row.repetition>>

\* What a repetition leaves that ends like this.
RunOutput(case, terminal, code) ==
    LET failed == terminal = "PROCESS_FAILED"
    IN  [case |-> case, run |-> 1, repetition |-> Cardinality({i \in DOMAIN outputs : outputs[i].case = case}),
         terminal |-> terminal, evidence |-> TerminalFields[terminal],
         failure |-> IF failed THEN code ELSE Null,
         exit_code |-> IF failed /\ code = "NONZERO_EXIT" THEN -1 ELSE Null,
         empty_output |-> failed /\ code = "LAUNCH_FAILED"]

\* A repetition ends as its last receipt says, by itself, or is broken off.
EndRepetition ==
    /\ stage = "replay" /\ Len(outputs) < MaxOutputs
    /\ \E case \in 1 .. 2, terminal \in DOMAIN TerminalFields, code \in {"LAUNCH_FAILED", "NONZERO_EXIT", "TIMEOUT"} :
          LET rows == ToSet(outputs) \cup {RunOutput(case, terminal, code)}
          IN  /\ terminal = "KILLED" /\ outputs = <<>> =>
                    receipt # Null /\ receipt.kind = "reconciliation" /\ receipt.doc.status = "KILLED"
              /\ terminal = "QUARANTINED" /\ outputs = <<>> => receipt # Null /\ receipt.kind = "quarantine"
              /\ terminal # "PROCESS_FAILED" => code = "TIMEOUT"
              /\ outputs' = SortedBy(rows, [row \in rows |-> OutputKey(row)])
    /\ receipt' = Null
    /\ UNCHANGED <<stage, inputs, issued, bundle, replaced>>

Ineligible(reasons) ==
    [status |-> "INELIGIBLE", reasons |-> reasons, attached |-> Attachments \ {"metrics_artifact"},
     samples |-> 0, outputs |-> <<>>]

Benchmarked(found) ==
    LET reasons == found \cup
            (IF \E i \in DOMAIN outputs : outputs[i].terminal # "RUN_END" THEN {"RUN_FAILED"} ELSE {})
    IN  [status |-> IF reasons = {} THEN "PASS" ELSE "FAIL", reasons |-> reasons, attached |-> Attachments,
         samples |-> Len(outputs), outputs |-> outputs]

Benchmark ==
    /\ \/ /\ stage = "benchmark"
          /\ \E reasons \in FewOf(Preflight, 2) \ {{}} : Issue("benchmark", Ineligible(reasons))
       \/ /\ stage = "replay" /\ outputs # <<>>
          /\ \E found \in FewOf(Scheduled \ {"RUN_FAILED"}, 2) : Issue("benchmark", Benchmarked(found))
    /\ stage' = "done"
    /\ UNCHANGED <<inputs, issued, bundle, replaced, outputs>>

ReceiptsNext ==
    \/ AdmitConfig \/ Close \/ Prove \/ IssueRun
    \/ ReplaceFixture \/ ReplaceSignals \/ ReplaceConfig
    \/ VerifyRetained \/ StartRun
    \/ ValidateSignal \/ Reconcile \/ Quarantine \/ Measure
    \/ EndRepetition \/ Benchmark

ReceiptsSpec == ReceiptsInit /\ [][ReceiptsNext]_receiptsVars
=============================================================================
