--------------------------- MODULE RunInputsProps ---------------------------
(* What admission.py and run_inputs.py promise together.                    *)
EXTENDS RunInputs

\* The state of the fixture, of the batch and of the run has its type.
TypeOK ==
    /\ fixture \subseteq Rows /\ around \in Surroundings
    /\ batch.status \in {"NONE", "ADMITTED", "REJECTED", "QUARANTINED"}
    /\ batch.candidates \subseteq fixture
    /\ DOMAIN batch.receipts = (IF batch = NoBatch THEN {} ELSE fixture)
    /\ configSequence \in ConfigSequences
    /\ \A e \in events : e.receipt \in fixture /\ {e.ingest, e.source, e.group} \subseteq 1..MaxRows
    /\ run \in {"open", "verified", "refused"}

Admitted == batch.status = "ADMITTED"
Verified == run = "verified"

\* Two files contradict each other, however many others agree with either.
Contradict(r, q) ==
    \/ Version(r.doc) = Version(q.doc) /\ r.doc # q.doc
    \/ Lineage(r.doc) = Lineage(q.doc) /\ r.doc.kind = "ORIGINAL" /\ q.doc.kind = "ORIGINAL" /\ r.doc # q.doc
    \/ /\ r.doc.kind = q.doc.kind /\ r.doc.kind # "ORIGINAL"
       /\ Target(r.doc) = Target(q.doc) /\ Version(r.doc) # Version(q.doc)

\* A conflict is blamed on every file that takes part in it and on no other:
\* in a fixture that is sound as a whole, an otherwise good file is admitted
\* exactly if no otherwise good file contradicts it (_lineage_conflict_reasons).
BlameIsExact ==
    LET good(r) == LocalReasons(r, FALSE) = {}
    IN  batch # NoBatch /\ FixtureReasons(fixture, around) = {}
            => \A r \in fixture : good(r) =>
                  (ReceiptStatus(r) = "ADMITTED" <=> ~\E q \in fixture : good(q) /\ Contradict(r, q))

\* The candidates of an admitted batch are one history: one original of a
\* lineage, one correction and one retraction of an event, each once, and no
\* file of the fixture is lost to the collapse of equal ones.
CandidatesAreOneHistory ==
    Admitted =>
        /\ \A r, q \in batch.candidates : r # q =>
              /\ r.doc # q.doc
              /\ ~Contradict(r, q)
        /\ \A r \in fixture : \E q \in batch.candidates : q.doc = r.doc /\ q.seq <= r.seq

\* A fixture is all or nothing: the candidates and a verified run exist only if
\* the surroundings, every file and every receipt are sound, although
\* run_inputs.py reads the receipts and never the status of the batch.
NothingFromQuarantine ==
    batch.candidates # {} \/ Verified =>
        /\ Admitted /\ around.issues = {} /\ around.rights /\ ~around.biased
        /\ \A r \in fixture : r.issues = {} /\ r.read /\ ReceiptStatus(r) = "ADMITTED"

\* Every candidate of a verified run is replayed once and nothing else is; nor
\* was a file collapsed into another: a fixture that gives a payload twice is
\* admitted ("same version key/same payload is idempotent"), yet it never runs,
\* because run_inputs.py:566 wants an event of every receipt.
EveryCandidateReplayedOnce ==
    Verified =>
        /\ \A r \in batch.candidates : Cardinality({e \in events : Doc(e) = r.doc}) = 1
        /\ Cardinality(events) = Cardinality(batch.candidates)
        /\ batch.candidates = fixture

\* Replay never looks ahead: events come in the order in which they became
\* available, those of one slot share one clock tick, and the events up to a
\* tick are numbered from one without a gap.
ReplayFollowsAvailability ==
    Verified =>
        /\ {e.ingest : e \in events} = 1..Cardinality(events)
        /\ \A e, f \in events :
              /\ e.receipt.slot < f.receipt.slot <=> e.clock < f.clock
              /\ e.clock < f.clock => e.ingest < f.ingest

\* The schedule, which is derived from the receipts, and the groups of the
\* events, which are derived from the events, are the same; a decision in a
\* group may use whatever was admitted for that group or an earlier one, and
\* the cutoffs never go back.
CutoffsCoverGroups ==
    Verified =>
        /\ \A e \in events : e.group = GroupOf(e.receipt.slot) /\ e.receipt.seq <= Cutoff[e.group]
        /\ \A g \in 1..GroupCount : Cutoff[g - 1] <= Cutoff[g]
        /\ \A g \in 1..GroupCount : \E e \in events : e.group = g

\* A model request of a verified run closes one decision budget after events
\* that are replayed before the session ends, no decision is asked of two
\* markets or with two horizons, and the decision is within the counters.
RequestsFallOnEvents ==
    Verified =>
        /\ \A q \in requests :
              /\ \E e \in events : /\ e.receipt.slot \in SessionStart..SessionEnd
                                   /\ q.close = e.clock + DecisionBudget
              /\ q.decision <= DecisionCount /\ q.close <= U64Max
        /\ \A q, p \in requests : q.decision = p.decision => q.market = p.market /\ q.horizon = p.horizon
=============================================================================
