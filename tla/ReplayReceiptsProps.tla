------------------------- MODULE ReplayReceiptsProps -------------------------
(* What the receipts of a replay are worth. *)
EXTENDS ReplayOutcomes

ReceiptAccepted(kind, doc) ==
    CASE kind = "config" -> doc \in ConfigReceiptSchema /\ ConfigReceiptValid(doc)
      [] kind = "closure" -> doc \in RunClosureSchema /\ RunClosureValid(doc)
      [] kind = "proofs" -> ProofSetValid(doc)
      [] kind = "run" -> doc \in RunReceiptSchema /\ RunReceiptValid(doc)
      [] kind = "model" -> doc \in ModelReceiptSchema /\ ModelReceiptValid(doc)
      [] kind = "reconciliation" -> doc \in ReconciliationSchema /\ ReconciliationValid(doc)
      [] kind = "quarantine" -> QuarantineValid(doc)
      [] kind = "measurement" -> doc \in MeasurementSchema /\ MeasurementValid(doc)
      [] kind = "benchmark" -> doc \in BenchmarkSchema /\ BenchmarkValid(doc)

\* A run ends and something does not add up: the receipt of the end has room for
\* one reason only, and every residual is to be among the reasons.
Unsayable(kind, doc) == kind = "reconciliation" /\ doc.kind = "FINAL_GATE" /\ ResidualCodes(doc) # {}

(***************************************************************************)
(* The contracts can be met (contract_semantics.py:1914-3809), but for one *)
(* outcome: whatever goes wrong in whatever combination, there is a        *)
(* receipt that says so, and the next stage is left with a document to go  *)
(* by, unless the end of a run finds a residual.  That receipt is refused  *)
(* whatever else went wrong, by 3109-3119 and 3264-3276 together.          *)
(***************************************************************************)
EveryOutcomeButOneAccepted ==
    receipt # Null => (ReceiptAccepted(receipt.kind, receipt.doc) <=> ~Unsayable(receipt.kind, receipt.doc))

-----------------------------------------------------------------------------

\* A set of codes with one more, or one less, or one for another.
Miscounted(codes, all) ==
    {codes \cup {c} : c \in all} \cup {codes \ {c} : c \in codes}
    \cup {(codes \ {c}) \cup {d} : c \in codes, d \in all}

\* One field of the document, or of one row of a list in it, rewritten.
Rewritten(doc, field, values) == {[doc EXCEPT ![field] = v] : v \in values}
RowsRewritten(doc, list, field, values) ==
    UNION {{[doc EXCEPT ![list][i][field] = v] : v \in values} : i \in DOMAIN doc[list]}

ClosureRewrites(c) ==
    {[c EXCEPT !.status = v[1], !.reasons = v[2], !.terminal = v[3]] :
        v \in {"NOT_REQUIRED_ZERO_AUTHORITY", "PASS", "FAIL"}
              \X (SUBSET {"COUNTER_CAPACITY", "RUN_END_PROOF_BUDGET", "RUN_END_UNCLOSED"})
              \X ({c.terminal, Null} \cup (IF c.terminal = Null THEN {1} ELSE {}))}
    \cup {[c EXCEPT !.budget = v[1], !.proof_total = v[2]] :
             v \in {"NOT_REQUIRED", "WITHIN_LIMIT", "EXCEEDED"} \X Optional(0 .. 9)}
    \cup RowsRewritten(c, "rows", "evidence",
             UNION {Miscounted(row.evidence, RowEvidence) : row \in ToSet(c.rows)})

\* The verdict of the document replaced, as long as the schema knows the codes.
VerdictRewrites(doc, statuses, lists) ==
    {[doc EXCEPT !.status = v[1], !.reasons = v[2]] : v \in statuses \X lists}

ConfigRewrites(r) == VerdictRewrites(r, {"VALID", "INVALID", "MISSING"}, SUBSET ConfigReasons)

ReconciliationRewrites(r) ==
    LET all == OwnedCodes \cup {"MISMATCH", "ACCOUNT_RESIDUAL", "ASSET_RESIDUAL"}
               \cup {Residuals[n] : n \in DOMAIN Residuals}
    IN  VerdictRewrites(r, {"PASS", "KILLED"},
                        Miscounted(r.reasons, all) \cup {{}, r.reasons} \cup {{c, "MISMATCH"} : c \in all})
        \cup Rewritten(r, "evidence", Miscounted(r.evidence, Terminal \cup {"footprints"}))

QuarantineRewrites(q) ==
    LET all == ({"LEDGER_SLOT", "COMPONENT"} \X Classifications)
               \cup {<<"APPEND_SLOT", "OCCUPIED">>, <<"INITIAL_PREFIX_ANCHOR", "MISSING">>}
    IN  Rewritten(q, "reasons", Miscounted(q.reasons, all))
        \cup Rewritten(q, "first_unsafe", Optional(0 .. 3))
        \cup RowsRewritten(q, "slots", "class", Classifications)
        \cup RowsRewritten(q, "components", "class", Classifications)
        \cup Rewritten(q, "components", {Reverse(q.components)})

ModelRewrites(m) ==
    VerdictRewrites(m, {"ACCEPTED", "REJECTED", "EXPIRED", "DRIFT_DISABLED"},
                    Miscounted(m.reasons, SignalCodes) \cup {{}, m.reasons})
    \cup Rewritten(m, "accepted", BOOLEAN)
    \cup (IF m.status = "ACCEPTED" THEN {}
          ELSE {[m EXCEPT !.accepted = o.accepted, !.action = o.action, !.score = o.score,
                          !.abstain = o.abstain, !.long_bias = o.long_bias, !.exit_bias = o.exit_bias,
                          !.uncertainty = o.uncertainty, !.ood = o.ood] : o \in Opinions})

MeasurementRewrites(m) ==
    Rewritten(m, "status", {"COMPLETE", "RANGE_FAILED"})
    \cup Rewritten(m, "first", Optional(ToSet(Counters)))
    \cup Rewritten(m, "failures", Miscounted(m.failures, ToSet(Counters)))
    \cup {[m EXCEPT !.converted[c] = Null] : c \in ToSet(Counters)}
    \cup {[m EXCEPT !.converted[c] = m.raw[c]] : c \in ToSet(Counters)}
    \cup Rewritten(m, "boundary", {Null, 1}) \cup Rewritten(m, "groups", 0 .. 3)

BenchmarkRewrites(b) ==
    VerdictRewrites(b, {"PASS", "FAIL", "INELIGIBLE"},
                    Miscounted(b.reasons, Preflight \cup Scheduled) \cup {{}, b.reasons})
    \cup Rewritten(b, "samples", 0 .. 2)
    \cup RowsRewritten(b, "outputs", "terminal", DOMAIN TerminalFields)
    \cup RowsRewritten(b, "outputs", "repetition", 0 .. 2)

Rewrites(kind, doc) ==
    CASE kind = "config" -> ConfigRewrites(doc)
      [] kind = "closure" -> ClosureRewrites(doc)
      [] kind = "proofs" -> Rewritten(doc, "rows", {Reverse(doc.rows), Tail(doc.rows)})
      [] kind = "run" -> Rewritten(doc, "mode", {"DISABLED", "CACHED_FIXTURES"})
      [] kind = "reconciliation" -> ReconciliationRewrites(doc)
      [] kind = "quarantine" -> QuarantineRewrites(doc)
      [] kind = "model" -> ModelRewrites(doc)
      [] kind = "measurement" -> MeasurementRewrites(doc)
      [] kind = "benchmark" -> BenchmarkRewrites(doc)

\* A signal that was not accepted may have failed at anything of a stage that
\* leaves what is known of it.
SignalVerdicts(m) ==
    {v \in {"REJECTED", "EXPIRED", "DRIFT_DISABLED"} \X SUBSET SignalCodes :
        /\ v[2] # {} /\ SignalVerdict(v[2]) = v[2]
        /\ v[1] = "DRIFT_DISABLED" <=> v[2] = {"DRIFT_DISABLED"}
        /\ v[1] = "EXPIRED" <=> v[2] \in {{"EXPIRED"}, {"EXPIRED", "DEADLINE_MISS"}}
        /\ "BYTES_INVALID" \in v[2] => m.evidence = {}
        /\ v[2] \cap {"BYTES_INVALID", "SCHEMA_UNKNOWN"} = {} => m.evidence = CandidateEvidence}

\* What a gate finds besides the residuals is for the gate to say.
GateVerdicts(r) ==
    LET residual == ResidualCodes(r)
        findings == IF r.kind = "GROUP_GATE" THEN SUBSET GateCodes
                    ELSE IF r.kind = "FINAL_GATE" /\ residual = {} THEN {{}, {"RUN_END_UNCLOSED"}} ELSE {}
    IN  {IF residual \cup g = {} THEN <<"PASS", {}>> ELSE <<"KILLED", residual \cup g \cup {"MISMATCH"}>> :
            g \in {f \in findings : residual \cup f # {} => r.latched}}

\* What the metrics say is not in the receipt; whether a run failed is.
BenchmarkVerdicts(b) ==
    IF b.status = "INELIGIBLE" THEN {"INELIGIBLE"} \X ((SUBSET Preflight) \ {{}})
    ELSE LET all == (SUBSET Scheduled) \ {{}}
         IN  ({"FAIL"} \X {s \in all : "RUN_FAILED" \in s <=> "RUN_FAILED" \in b.reasons})
             \cup (IF "RUN_FAILED" \in b.reasons \/ b.samples = 0 THEN {} ELSE {<<"PASS", {}>>})

\* The statuses and reasons that the rest of a receipt leaves open.
Verdicts(kind, doc) ==
    CASE kind = "config" /\ doc.status = "INVALID" ->
            {"INVALID"} \X ((SUBSET (ConfigReasons \ {"MISSING"})) \ {{}})
      [] kind = "model" /\ doc.status # "ACCEPTED" -> SignalVerdicts(doc)
      [] kind = "reconciliation" -> GateVerdicts(doc)
      [] kind = "benchmark" -> BenchmarkVerdicts(doc)
      [] OTHER -> {}

OnlyTheVerdict(old, new) == new = [old EXCEPT !.status = new.status, !.reasons = new.reasons]

LeftOpen(kind, old, new) ==
    \/ /\ kind \in {"config", "model", "reconciliation", "benchmark"}
       /\ <<new.status, new.reasons>> \in Verdicts(kind, old)
       /\ OnlyTheVerdict(old, new)
    \/ /\ kind = "benchmark" /\ old.status # "INELIGIBLE"
       /\ new.samples \in U64 /\ (old.status = "PASS" => new.samples # 0)
       /\ new = [old EXCEPT !.samples = new.samples]

(***************************************************************************)
(* A conclusion follows from the evidence it comes with                    *)
(* (contract_semantics.py:2138-3809), and where the receipt has none it is *)
(* open, exactly there: the same evidence with another status, other       *)
(* reasons, another order or a field more is refused, except that          *)
(*   - the faults of an invalid configuration are any but MISSING (2175),  *)
(*   - a signal that was not accepted may name other failures of a stage   *)
(*     that leaves the same fields known (2913-2971), but is not accepted, *)
(*   - the gates of a group and of the end say themselves what they found  *)
(*     besides the residuals, and with no residual whether they passed,    *)
(*   - a benchmark none of whose runs failed passes or fails by metrics it *)
(*     does not carry, and one that was eligible counts its samples itself *)
(*     (3704); with a failed run it cannot pass.                           *)
(* What a market, a journal or a run is said to have run into is evidence  *)
(* here, and left as it is.                                                *)
(***************************************************************************)
ConclusionsFollowEvidence ==
    receipt # Null =>
        \A doc \in Rewrites(receipt.kind, receipt.doc) :
            ReceiptAccepted(receipt.kind, doc) <=>
                \/ doc = receipt.doc /\ ~Unsayable(receipt.kind, doc)
                \/ LeftOpen(receipt.kind, receipt.doc, doc)

-----------------------------------------------------------------------------

\* The lists of codes one market's checks can end in, some of them failing.
ReachedCodes ==
    {PreproofFailures([faults |-> f, q_cap |-> q, references |-> 1, extremes |-> 1], "H_MISSING" \notin f) :
        f \in SUBSET (PreproofCodes \ {"PROOF_ROW_COUNT_RANGE"}), q \in {1, MaxU64 + 1}}

AcceptedCodes ==
    {codes \in SUBSET PreproofCodes :
        FailurePhases(codes) /\ ("H_MISSING" \in codes => "STATE_ENVELOPE_RANGE" \notin codes)}

(***************************************************************************)
(* The validators know the order of the checks (contract_semantics.py:     *)
(* 2310-2423, 2913-2971): the lists of codes they let pass are exactly     *)
(* those that checks in stages, each after what it needs, can end in.      *)
(***************************************************************************)
ReasonsAreReachable ==
    stage = "config" =>
        /\ AcceptedCodes = ReachedCodes
        /\ \A codes \in FewOf(SignalCodes, 3) : ValidationStage(codes) = (SignalVerdict(codes) = codes)

(***************************************************************************)
(* What is verified can be closed (run_inputs.py:709-1371): however often  *)
(* fixture, configuration and signals were replaced while older receipts   *)
(* were about, a verified run closes every market within the limit of the  *)
(* configuration it has, or has no configuration and no authority, and     *)
(* decides by the signals that are retained.                               *)
(***************************************************************************)
VerifiedRunCanClose ==
    stage = "verified" =>
        LET closure == bundle.closure.body
        IN  /\ IF bundle.config = Null THEN closure.status = "NOT_REQUIRED_ZERO_AUTHORITY" /\ closure.rows = <<>>
               ELSE bundle.fixture.policy = "FORCE_CLOSE_NEXT_EVENT" =>
                      /\ \A row \in ToSet(closure.rows) : row.codes = {} /\ "proof_root" \in row.evidence
                      /\ closure.rows # <<>>
                      /\ SumFunction([i \in DOMAIN closure.rows |-> closure.rows[i].proof_rows])
                            <= bundle.config.proof_rows
            /\ closure.terminal = bundle.fixture.terminal
            /\ LedgerBound(bundle.fixture, IF bundle.manifest = Null THEN 0 ELSE Len(bundle.manifest.candidates))
                  <= MaxU64
            /\ Requests(IF bundle.manifest = Null THEN [candidates |-> <<>>] ELSE bundle.manifest)
                  = ToSet(bundle.run.body.scopes)
=============================================================================
