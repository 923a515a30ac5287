--------------------------- MODULE VerdictDocuments ---------------------------
(***************************************************************************)
(* The receipts that pass a verdict on a replay, and their validators in   *)
(* crypto_replay/contract_semantics.py: whether a run could be closed,     *)
(* what a broken journal looked like, whether the books reconcile.  Each   *)
(* says twice what it found, as evidence and as a conclusion, and the      *)
(* validator holds the second against the first.                           *)
(***************************************************************************)
EXTENDS ReceiptDocuments

(* trading.run-closure-receipt/v1: one row for every market, what of it    *)
(* could be derived and what could not.                                    *)

CandidateVerdicts == {"CANDIDATE_NON_EXECUTABLE", "IDENTITY_MISMATCH", "DECIMALS_MISMATCH",
                      "CAPACITY_INSUFFICIENT"}
CandidateStops == {"CANDIDATE_CARDINALITY", "CANDIDATE_SCHEMA_INVALID"}
PreproofCodes ==
    {"H_MISSING", "Q_CAP_RANGE", "REFERENCE_SET_INVALID", "PROOF_ROW_COUNT_RANGE",
     "STATE_ENVELOPE_RANGE"} \cup CandidateVerdicts \cup CandidateStops
MarketCodes == PreproofCodes \cup {"PROOF_PREDICATE_FAILED"}

CandidateFields == {"fill_event", "capacity", "candidate"}
RowEvidence ==
    CandidateFields \cup {"trigger", "q_cap", "reference_count", "reference_root", "state_envelope",
                          "proof_domain", "proof_root"}

MarketRowSchema ==
    [market : Nat, codes : SUBSET MarketCodes, evidence : SUBSET RowEvidence,
     extremes : Optional(Nat), proof_rows : Optional(Nat)]

RunClosureSchema ==
    [status : {"NOT_REQUIRED_ZERO_AUTHORITY", "PASS", "FAIL"},
     reasons : SUBSET {"COUNTER_CAPACITY", "RUN_END_PROOF_BUDGET", "RUN_END_UNCLOSED"},
     config : BOOLEAN, mode : {"DISABLED", "CACHED_FIXTURES"}, registry : BOOLEAN, manifest : BOOLEAN,
     counters : {"WITHIN_LIMIT", "EXCEEDED"},
     policy : {"FORCE_CLOSE_NEXT_EVENT", "LEAVE_MARKED_OPEN"}, terminal : Optional(Nat),
     proof_limit : Optional(Nat), proof_total : Optional(Nat),
     budget : {"NOT_REQUIRED", "WITHIN_LIMIT", "EXCEEDED"}, rows : Seq(MarketRowSchema)]

\* Mutant: a capacity is compared although it has no value.
PhasesWithoutCapacity(codes) ==
    LET candidate == codes \cap (CandidateStops \cup CandidateVerdicts)
    IN  /\ "H_MISSING" \in codes => candidate = {}
        /\ candidate \cap CandidateStops # {} => Cardinality(candidate) = 1
        /\ "PROOF_ROW_COUNT_RANGE" \in codes =>
              codes \cap {"Q_CAP_RANGE", "REFERENCE_SET_INVALID"} = {}
        /\ "PROOF_PREDICATE_FAILED" \in codes => codes = {"PROOF_PREDICATE_FAILED"}

\* A check that fails makes the checks that need its result unreachable.
FailurePhases(codes) ==
    LET candidate == codes \cap (CandidateStops \cup CandidateVerdicts)
    IN  /\ "H_MISSING" \in codes => candidate = {}
        /\ candidate \cap CandidateStops # {} => Cardinality(candidate) = 1
        /\ "Q_CAP_RANGE" \in codes => "CAPACITY_INSUFFICIENT" \notin codes
        /\ "PROOF_ROW_COUNT_RANGE" \in codes =>
              codes \cap {"Q_CAP_RANGE", "REFERENCE_SET_INVALID"} = {}
        /\ "PROOF_PREDICATE_FAILED" \in codes => codes = {"PROOF_PREDICATE_FAILED"}

SomeRow(c, code) == \E row \in ToSet(c.rows) : code \in row.codes

\* Proofs are tried once every market has what they need, within the budget.
ProofGateOpen(c) ==
    c.budget = "WITHIN_LIMIT" /\ \A row \in ToSet(c.rows) : row.codes \cap PreproofCodes = {}

GlobalPhases(c) ==
    /\ SomeRow(c, "H_MISSING") => ~SomeRow(c, "STATE_ENVELOPE_RANGE")
    /\ ~ProofGateOpen(c) => ~SomeRow(c, "PROOF_PREDICATE_FAILED")

\* The fields a row has, and no others, when its checks ended in these codes.
EvidenceFor(c, codes) ==
    (IF "H_MISSING" \in codes THEN {} ELSE {"trigger"})
    \cup (IF codes \cap ({"H_MISSING"} \cup CandidateStops) # {} THEN {} ELSE CandidateFields)
    \cup (IF "Q_CAP_RANGE" \in codes THEN {} ELSE {"q_cap"})
    \cup (IF "REFERENCE_SET_INVALID" \in codes THEN {} ELSE {"reference_count", "reference_root"})
    \cup (IF SomeRow(c, "H_MISSING") \/ "STATE_ENVELOPE_RANGE" \in codes THEN {}
          ELSE {"state_envelope"})
    \cup (IF ~ProofGateOpen(c) THEN {}
          ELSE {"proof_domain"} \cup (IF codes = {} THEN {"proof_root"} ELSE {}))

MarketRowsValid(c) ==
    /\ Increasing([i \in DOMAIN c.rows |-> <<c.rows[i].market>>])
    /\ GlobalPhases(c)
    /\ \A row \in ToSet(c.rows) :
          /\ FailurePhases(row.codes)
          /\ row.evidence = EvidenceFor(c, row.codes)
          /\ row.extremes \in 1 .. 2
          /\ IF row.codes \cap {"Q_CAP_RANGE", "REFERENCE_SET_INVALID", "PROOF_ROW_COUNT_RANGE"} = {}
             THEN row.proof_rows # Null /\ row.proof_rows \in U64 ELSE row.proof_rows = Null

ForceClosed(c) == c.config /\ c.policy = "FORCE_CLOSE_NEXT_EVENT"

\* The checked sum of the rows that have a count, Null where it has no value.
ProofTotal(c) ==
    LET counted == {i \in DOMAIN c.rows : c.rows[i].proof_rows # Null}
        total == SumFunction([i \in counted |-> c.rows[i].proof_rows])
    IN  IF SomeRow(c, "PROOF_ROW_COUNT_RANGE") \/ total > MaxU64 THEN Null ELSE total

\* Mutant: a total without a value is taken for one that fits.
BudgetIgnoringOverflow(c) ==
    IF ~ForceClosed(c)
    THEN c.proof_total = 0 /\ c.budget = "NOT_REQUIRED" /\ c.rows = <<>>
         /\ (c.proof_limit = Null) = ~c.config
    ELSE /\ c.rows # <<>> /\ c.proof_limit # Null
         /\ c.proof_total = ProofTotal(c)
         /\ c.budget = IF c.proof_total # Null /\ c.proof_total > c.proof_limit
                       THEN "EXCEEDED" ELSE "WITHIN_LIMIT"

ProofBudget(c) ==
    IF ~ForceClosed(c)
    THEN c.proof_total = 0 /\ c.budget = "NOT_REQUIRED" /\ c.rows = <<>>
         /\ (c.proof_limit = Null) = ~c.config
    ELSE /\ c.rows # <<>> /\ c.proof_limit # Null
         /\ c.proof_total = ProofTotal(c)
         /\ c.budget = IF c.proof_total = Null \/ c.proof_total > c.proof_limit
                       THEN "EXCEEDED" ELSE "WITHIN_LIMIT"

\* Counters come first, then the budget, then what the markets failed at.
ClosureVerdict(c) ==
    IF c.counters = "EXCEEDED" THEN <<"FAIL", {"COUNTER_CAPACITY", "RUN_END_UNCLOSED"}>>
    ELSE IF ~c.config THEN <<"NOT_REQUIRED_ZERO_AUTHORITY", {}>>
    ELSE IF c.policy = "LEAVE_MARKED_OPEN" THEN <<"PASS", {}>>
    ELSE IF c.budget = "EXCEEDED" THEN <<"FAIL", {"RUN_END_PROOF_BUDGET", "RUN_END_UNCLOSED"}>>
    ELSE IF \E row \in ToSet(c.rows) : row.codes # {} THEN <<"FAIL", {"RUN_END_UNCLOSED"}>>
    ELSE <<"PASS", {}>>

ModelInputs(mode, registry, manifest) ==
    IF mode = "DISABLED" THEN ~registry /\ ~manifest ELSE registry /\ manifest

RunClosureValid(c) ==
    /\ ModelInputs(c.mode, c.registry, c.manifest)
    /\ {c.terminal, c.proof_total} \ {Null} \subseteq U64
    /\ c.proof_limit # Null => c.proof_limit \in 1 .. MaxProofRows
    /\ MarketRowsValid(c)
    /\ ProofBudget(c)
    /\ <<c.status, c.reasons>> = ClosureVerdict(c)
    /\ (c.terminal = Null) = (c.status = "FAIL")

\* trading.run-closure-full-fill-proof-set/v1
ProofSetValid(p) ==
    /\ p.proof_rows \in 0 .. MaxProofRows
    /\ p.proof_rows = Len(p.rows)
    /\ Increasing([i \in DOMAIN p.rows |-> <<p.rows[i].reference, p.rows[i].residual, p.rows[i].adverse>>])

-----------------------------------------------------------------------------
(* trading.execution-quarantine-receipt/v1 *)

Classifications == {"MISSING", "WRONG", "EXTRA"}
Faults(rows) == {row.class : row \in ToSet(rows)}

SlotSchema ==
    [sequence : Nat, class : Classifications, expected : Optional(Nat), observed : Optional(Nat),
     bytes : Optional(Nat)]
ComponentSchema ==
    [rank : 1 .. 15, ordinal : Optional(Nat), class : Classifications,
     expected : Optional(Nat), observed : Optional(Nat)]

CanonicalObject == 2   \* the rank of the one kind of component that has ordinals

SlotRow(row) ==
    /\ row.sequence \in U64
    /\ row.class = "MISSING" => row.expected # Null /\ row.observed = Null /\ row.bytes = Null
    /\ row.class = "WRONG" => row.expected # Null /\ row.bytes # Null
    /\ row.class = "EXTRA" => row.expected = Null /\ row.bytes # Null

ComponentRow(row) ==
    /\ (row.ordinal # Null) = (row.rank = CanonicalObject)
    /\ row.ordinal # Null => row.ordinal \in U64
    /\ row.class = "MISSING" => row.expected # Null /\ row.observed = Null
    /\ row.class = "WRONG" =>
          row.expected # Null /\ row.observed # Null /\ row.expected # row.observed
    /\ row.class = "EXTRA" => row.expected = Null /\ row.observed # Null

\* Every kind of fault that was observed has its reason, and no other has.
QuarantineReasons(q) ==
    {<<"FOOTPRINT", "MISMATCH">>}
    \cup (IF q.head = Null THEN {<<"INITIAL_PREFIX_ANCHOR", "MISSING">>} ELSE {})
    \cup {<<"LEDGER_SLOT", class>> : class \in Faults(q.slots)}
    \cup (IF Faults(q.slots) \ {"MISSING"} # {} THEN {<<"APPEND_SLOT", "OCCUPIED">>} ELSE {})
    \cup {<<"COMPONENT", class>> : class \in Faults(q.components)}

QuarantineValid(q) ==
    /\ q.slots # <<>> \/ q.components # <<>>
    /\ (q.head = Null) = (q.state = Null)
    /\ q.expected # q.observed
    /\ \A row \in ToSet(q.slots) : SlotRow(row)
    /\ \A i \in DOMAIN q.slots : q.slots[i].sequence = q.slots[1].sequence + i - 1
    /\ q.first_unsafe = IF q.slots = <<>> THEN Null ELSE q.slots[1].sequence
    /\ \A row \in ToSet(q.components) : ComponentRow(row)
    /\ Increasing([i \in DOMAIN q.components |->
          <<q.components[i].rank, IF q.components[i].ordinal = Null THEN -1 ELSE q.components[i].ordinal>>])
    /\ q.reasons = QuarantineReasons(q)

-----------------------------------------------------------------------------
(* trading.reconciliation-receipt/v1 *)

Integrity == {"MODEL_ATTEMPT_INTEGRITY", "EXECUTION_TRANSITION_INTEGRITY"}
Terminal == Integrity \cup {"IDEMPOTENCY_CONFLICT", "ARITHMETIC_RANGE"}
Kinds == Terminal \cup {"GENESIS", "INTENT_RESERVATION", "FILL_TRANSITION", "GROUP_MARK", "RISK_KILL",
                        "GROUP_GATE", "FINAL_GATE", "TERMINAL_KILL_PROMOTION"}
GateCodes == {"INTENT_CARDINALITY", "INTENT_RESERVATION_BIJECTION", "ABSOLUTE_STATE_INVARIANT"}

\* The residuals of a receipt and the reason each is accounted under.
Residuals == [realized |-> "PNL_RESIDUAL", unrealized |-> "PNL_RESIDUAL", fee |-> "FEE_RESIDUAL",
              peak_equity |-> "EQUITY_RESIDUAL", drawdown |-> "EQUITY_RESIDUAL",
              equity |-> "EQUITY_RESIDUAL", unmatched |-> "RESERVATION_RESIDUAL"]

ReasonOwner(code) ==
    CASE code = "RUN_END_UNCLOSED" -> "FINAL_GATE"
      [] code \in GateCodes -> "GROUP_GATE"
      [] OTHER -> code        \* a terminal kind gives the reason of its name

OwnedCodes == Terminal \cup GateCodes \cup {"RUN_END_UNCLOSED"}

ReconciliationSchema ==
    [status : {"PASS", "KILLED"}, kind : Kinds,
     reasons : SUBSET (OwnedCodes \cup {"ACCOUNT_RESIDUAL", "ASSET_RESIDUAL", "MISMATCH"}
                       \cup {Residuals[r] : r \in DOMAIN Residuals}),
     decision : Optional(Nat), ingest : Nat, group : Nat, clock : Nat, before : Nat, after : Nat,
     causes : Seq(Nat), assets : Seq([key : Nat, residual : Int]),
     accounts : Seq([key : Nat \X Nat, residual : Int]), residuals : [DOMAIN Residuals -> Int],
     evidence : SUBSET (Terminal \cup {"footprints"}), expected : Nat, observed : Nat, latched : BOOLEAN]

NonZero(rows) == \E row \in ToSet(rows) : row.residual # 0

ResidualCodes(r) ==
    (IF NonZero(r.accounts) THEN {"ACCOUNT_RESIDUAL"} ELSE {})
    \cup (IF NonZero(r.assets) THEN {"ASSET_RESIDUAL"} ELSE {})
    \cup {Residuals[name] : name \in {n \in DOMAIN Residuals : r.residuals[n] # 0}}

\* The reason that the kind of a receipt gives of itself.
KindCodes(r) ==
    IF r.kind = "FINAL_GATE" THEN {"RUN_END_UNCLOSED"}
    ELSE IF r.kind \in Terminal THEN {r.kind}
    ELSE IF r.kind = "GROUP_GATE" THEN r.reasons \cap GateCodes ELSE {}

ReconciliationVerdict(r) ==
    IF r.status = "PASS" THEN r.reasons = {} /\ ResidualCodes(r) = {}
    ELSE r.latched /\ Cardinality(r.reasons) >= 2
         /\ r.reasons = ResidualCodes(r) \cup KindCodes(r) \cup {"MISMATCH"}

KindRules(r) ==
    /\ r.kind \in {"GENESIS", "TERMINAL_KILL_PROMOTION"} => r.status = "PASS"
    /\ r.kind \in {"RISK_KILL", "TERMINAL_KILL_PROMOTION"} => r.latched
    /\ r.kind \in Terminal => r.status = "KILLED" /\ r.reasons = {r.kind, "MISMATCH"}
    /\ r.kind = "FINAL_GATE" /\ r.status = "KILLED" => r.reasons = {"RUN_END_UNCLOSED", "MISMATCH"}
    /\ \A code \in r.reasons \cap OwnedCodes : ReasonOwner(code) = r.kind
    /\ r.kind = "GENESIS" => r.decision = Null /\ r.ingest = 0 /\ r.group = 0 /\ r.clock = 0

CauseCount(kind) ==
    IF kind \in {"FINAL_GATE", "IDEMPOTENCY_CONFLICT"} THEN 3
    ELSE IF kind \in Integrity THEN 4 ELSE 1

\* A kind has its own evidence and no other's.
EvidenceGroups(r) ==
    /\ r.evidence = IF r.kind \in Integrity THEN {r.kind, "footprints"} ELSE {r.kind} \cap Terminal
    /\ r.kind \in Integrity => r.expected # r.observed

\* Who may promote a state, and who has no room for a residual.
StateAndShape(r) ==
    /\ r.kind \in Terminal \cup {"GENESIS", "GROUP_GATE", "FINAL_GATE"} => r.before = r.after
    /\ r.kind = "TERMINAL_KILL_PROMOTION" => r.before # r.after
    /\ r.kind \in Terminal \cup {"GENESIS", "TERMINAL_KILL_PROMOTION"} =>
          r.assets = <<>> /\ r.accounts = <<>> /\ \A name \in DOMAIN Residuals : r.residuals[name] = 0

ReconciliationValid(r) ==
    /\ ({r.decision} \ {Null}) \cup {r.ingest, r.group, r.clock, r.residuals.unmatched} \subseteq U64
    /\ {r.residuals[name] : name \in DOMAIN Residuals} \subseteq I128
    /\ \A row \in ToSet(r.assets) : row.residual \in I128
    /\ \A row \in ToSet(r.accounts) : row.residual \in I128
    /\ Increasing([i \in DOMAIN r.assets |-> <<r.assets[i].key>>])
    /\ Increasing([i \in DOMAIN r.accounts |-> r.accounts[i].key])
    /\ Increasing([i \in DOMAIN r.causes |-> <<r.causes[i]>>]) /\ Len(r.causes) = CauseCount(r.kind)
    /\ ReconciliationVerdict(r) /\ KindRules(r)
    /\ EvidenceGroups(r) /\ StateAndShape(r)
=============================================================================
