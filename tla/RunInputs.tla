------------------------------ MODULE RunInputs ------------------------------
(***************************************************************************)
(* crypto_replay/run_inputs.py: verify_contract_run_inputs accepts the     *)
(* inputs of a replay only if the receipts are one for each file of the    *)
(* fixture, and the numbers of the normalised events, the schedule and the *)
(* cached model requests are the ones it derives from them.  The           *)
(* normaliser that numbers the events is not in the repository: here it    *)
(* numbers them in any way it likes, and verification has to catch what is *)
(* wrong.                                                                  *)
(***************************************************************************)
EXTENDS Admission, Sequences

CONSTANTS
    ConfigSequences,  \* admission sequences the configuration may have
    SessionStart,     \* session_start_availability_slot
    SessionEnd,       \* session_end_availability_slot
    ReplayTick,       \* replay_tick_ns
    DecisionBudget,   \* model_decision_budget_ns
    U64Max,           \* the largest u64
    RequestSets       \* what a model-signal manifest may ask for

ASSUME SessionAssumption ==
    /\ SessionStart \in Nat \ {0} /\ SessionEnd \in Nat /\ SessionStart < SessionEnd
    /\ ReplayTick \in Nat \ {0} /\ DecisionBudget \in Nat \ {0}
    /\ U64Max \in Nat
    /\ ConfigSequences \subseteq Nat \ {0}

\* Markets are numbered from 1 in the order of the manifest; a decision is
\* parsed as a positive number.
ASSUME RequestsAssumption ==
    /\ IsFiniteSet(DOMAIN AllowedMarkets)
    /\ DOMAIN AllowedMarkets = 1..Cardinality(DOMAIN AllowedMarkets)
    /\ \A qs \in RequestSets : \A q \in qs : q.decision \in Nat \ {0}

VARIABLES
    configSequence,  \* config_admission_receipt.admission_sequence
    events,          \* normalized_events
    requests,        \* candidates of the verified model-signal manifest
    run              \* "open", then "verified" or "refused"

vars == <<fixture, around, batch, configSequence, events, requests, run>>
runVars == <<configSequence, events, requests, run>>

----------------------------------------------------------------------------
(* The order of the events.                                                 *)

KindRank == [ORIGINAL |-> 0, CORRECTION |-> 1, RETRACTION |-> 2]

\* An event names its receipt, and takes from the payload all but its numbers.
Doc(e) == e.receipt.doc

SourceKey(e) ==
    <<Doc(e).pos, Doc(e).native, Doc(e).slot, KindRank[Doc(e).kind],
      Doc(e).supersedes + Doc(e).retracts, Doc(e).body>>

\* Mutant: the events of one market before those of the next.
GlobalKeyByMarket(e) ==
    <<Doc(e).market, Doc(e).slot, Doc(e).source, Doc(e).pos, Doc(e).native,
      KindRank[Doc(e).kind], Doc(e).supersedes + Doc(e).retracts, Doc(e).body>>

GlobalKey(e) ==
    <<Doc(e).slot, Doc(e).market, Doc(e).source, Doc(e).pos, Doc(e).native,
      KindRank[Doc(e).kind], Doc(e).supersedes + Doc(e).retracts, Doc(e).body>>

Precedes(k, l) ==
    \E i \in DOMAIN k : k[i] < l[i] /\ \A j \in 1..(i - 1) : k[j] = l[j]

Rank(e, set, Key(_)) == 1 + Cardinality({f \in set : Precedes(Key(f), Key(e))})

KeysDiffer(set, Key(_)) == \A e, f \in set : Key(e) = Key(f) => e = f

SourceGroup(e, evs) ==
    {f \in evs : Doc(f).source = Doc(e).source /\ Doc(f).market = Doc(e).market}

----------------------------------------------------------------------------
(* derive_normalized_event_set, one definition per check.                   *)

ReceiptsAdmitted == \A r \in fixture : ReceiptStatus(r) = "ADMITTED"

AdmissionContiguous ==
    LET n == Cardinality(fixture) + 1
    IN  {configSequence} \cup {r.seq : r \in fixture} = 1..n

EventsBindReceipts(evs) == \A e \in evs : Doc(e).slot = e.receipt.slot

\* Mutant: a receipt may go without an event.
OnlyReceiptsCited(evs) == {e.receipt : e \in evs} \subseteq fixture

EveryReceiptCited(evs) == {e.receipt : e \in evs} = fixture

IngestFrozen(evs) ==
    /\ KeysDiffer(evs, GlobalKey)
    /\ \A e \in evs : e.ingest = Rank(e, evs, GlobalKey)

SourcesFrozen(evs) ==
    \A e \in evs :
        /\ KeysDiffer(SourceGroup(e, evs), SourceKey)
        /\ e.source = Rank(e, SourceGroup(e, evs), SourceKey)

EventGroup(slot, evs) == Cardinality({Doc(f).slot : f \in {g \in evs : Doc(g).slot <= slot}})

GroupsFrozen(evs) ==
    \A e \in evs :
        LET group == EventGroup(Doc(e).slot, evs)
            clock == (group - 1) * ReplayTick
        IN  clock <= U64Max /\ e.group = group /\ e.clock = clock

EventSetDerived(evs) ==
    /\ ReceiptsAdmitted /\ AdmissionContiguous
    /\ EventsBindReceipts(evs) /\ EveryReceiptCited(evs)
    /\ IngestFrozen(evs) /\ SourcesFrozen(evs) /\ GroupsFrozen(evs)

----------------------------------------------------------------------------
(* derive_availability_schedule, from the receipts alone.                   *)

Slots == {r.slot : r \in fixture}
GroupCount == Cardinality(Slots)
GroupOf(slot) == Cardinality({s \in Slots : s <= slot})
SlotOf(group) == CHOOSE s \in Slots : GroupOf(s) = group
SlotMaximum(slot) == Max({r.seq : r \in {q \in fixture : q.slot = slot}})

\* Mutant: the cutoff of a group forgets the groups before it.
CutoffOfGroup ==
    [g \in 0..GroupCount |->
        IF g = 0 THEN configSequence ELSE Max({configSequence, SlotMaximum(SlotOf(g))})]

\* cutoff[g]: the admissions a decision in group g may use.
Cutoff ==
    LET cutoff[g \in 0..GroupCount] ==
            IF g = 0 THEN configSequence ELSE Max({cutoff[g - 1], SlotMaximum(SlotOf(g))})
    IN  cutoff

SessionScheduled == {SessionStart, SessionEnd} \subseteq Slots
TerminalGroup == GroupOf(SessionEnd)

----------------------------------------------------------------------------
(* The cached model requests, and the counters.                             *)

MarketCount == Cardinality(DOMAIN AllowedMarkets)

RequestGroup(q) == GroupOf(SessionStart) + (q.decision - 1) \div MarketCount
ExpectedClose(q) == (RequestGroup(q) - 1) * ReplayTick + DecisionBudget

\* Mutant: requests after the end of the session.
RequestScheduledAnyTime(q) ==
    /\ q.market \in DOMAIN AllowedMarkets
    /\ (q.decision - 1) % MarketCount = q.market - 1
    /\ ExpectedClose(q) <= U64Max
    /\ q.close = ExpectedClose(q)

RequestScheduled(q) ==
    /\ q.market \in DOMAIN AllowedMarkets
    /\ (q.decision - 1) % MarketCount = q.market - 1
    /\ RequestGroup(q) <= TerminalGroup
    /\ ExpectedClose(q) <= U64Max
    /\ q.close = ExpectedClose(q)

RequestsBound(qs) ==
    /\ \A q \in qs : RequestScheduled(q)
    /\ \A q, p \in qs : q.decision = p.decision /\ q.market = p.market => q.horizon = p.horizon

DecisionCount == MarketCount * GroupCount

CounterBounds(candidates) ==
    { DecisionCount + 1, candidates, 2 * DecisionCount,
      3 * DecisionCount + 2 * GroupCount + 3,
      Cardinality(fixture) + Cardinality(events) + 10 * DecisionCount
        + 2 * candidates + 5 * GroupCount + 9 }

WithinLimit(candidates) ==
    /\ GroupCount \in 1..U64Max /\ MarketCount \in 1..U64Max
    /\ \A bound \in CounterBounds(candidates) : bound <= U64Max

----------------------------------------------------------------------------
Init ==
    /\ AdmissionInit
    /\ configSequence \in ConfigSequences
    /\ events = {} /\ requests = {} /\ run = "open"

\* An event as a normaliser numbers it.
Event(r, ingest, source, group) ==
    [receipt |-> r, ingest |-> ingest, source |-> source, group |-> group,
     clock |-> (group - 1) * ReplayTick]

\* The normaliser emits the next event of an admitted receipt, with numbers of
\* its own.  Bound: it emits as many events as there are files.
Normalise(r, source, group) ==
    /\ batch # NoBatch /\ run = "open" /\ Cardinality(events) < Cardinality(fixture)
    /\ ReceiptStatus(r) = "ADMITTED"
    /\ events' = events \cup {Event(r, Cardinality(events) + 1, source, group)}
    /\ UNCHANGED <<admissionVars, configSequence, requests, run>>

CrossBindingsHold(qs) ==
    /\ EventSetDerived(events) /\ SessionScheduled
    /\ RequestsBound(qs) /\ WithinLimit(Cardinality(qs))

VerifyContractRunInputs(qs) ==
    /\ batch # NoBatch /\ run = "open"
    /\ \/ CrossBindingsHold(qs) /\ run' = "verified" /\ requests' = qs
       \/ ~CrossBindingsHold(qs) /\ run' = "refused" /\ UNCHANGED requests
    /\ UNCHANGED <<admissionVars, configSequence, events>>

Next ==
    \/ \E r \in Rows : Declare(r) /\ UNCHANGED runVars
    \/ AdmitLocalFixture /\ UNCHANGED runVars
    \/ \E r \in fixture, source \in 1..Cardinality(fixture), group \in 1..GroupCount :
           Normalise(r, source, group)
    \/ \E qs \in RequestSets : VerifyContractRunInputs(qs)

Spec == Init /\ [][Next]_vars
=============================================================================
