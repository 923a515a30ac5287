-------------------------- MODULE ContractDocuments --------------------------
(***************************************************************************)
(* The documents of a replay and the checks they have to pass: the shapes  *)
(* of crypto_replay/schema_definitions.py and the validators of            *)
(* contract_semantics.py for events, features and signals; those of risk   *)
(* decisions, intents, fills, states and ledger records are in             *)
(* ExecutionDocuments.  A decimal string is the number it writes, an       *)
(* instant a natural number, a keyed and sorted list a function or a set;  *)
(* the spelling of digests, registries and instants is left out.           *)
(***************************************************************************)
EXTENDS Integers, Sequences, FiniteSets, SequencesExt

CONSTANTS
    Null,
    MaxU64, MaxI128,   \* the authority ranges of the two number formats
    Unit               \* 10^18, the one of the q18 fractions

ASSUME RangeAssumption ==
    /\ MaxU64 \in Nat /\ MaxI128 \in Nat /\ Unit \in Nat \ {0}
    /\ MaxU64 <= MaxI128 /\ Unit <= MaxU64

U64 == 0 .. MaxU64
I128 == -MaxI128 .. MaxI128
Optional(S) == S \cup {Null}

Positive(x) == x # Null /\ x > 0

\* A list of codes holds every code once, in the order of precedence.
InOrder(codes, precedence) ==
    codes = SelectSeq(precedence, LAMBDA code : code \in ToSet(codes))

\* Times that are both there do not go back.
NotAfter(t, u) == t # Null /\ u # Null => t <= u

-----------------------------------------------------------------------------
(* trading.raw-event/v1 *)

RawEventSchema ==
    [kind : {"ORIGINAL", "CORRECTION", "RETRACTION"},
     supersedes : Optional(Nat), retracts : Optional(Nat),
     slot : Nat, availability_slot : Nat, availability_admission : Nat,
     admission : Nat, ingest : Nat, group : Nat, clock : Nat,
     event_kind : {"ROUTE_QUOTE", "SWAP_OBSERVATION", "LIQUIDITY_SNAPSHOT", "SESSION_BOUNDARY"},
     event_time : Optional(Nat), observed_at : Nat, ingested_at : Nat,
     executable : BOOLEAN,
     quality_flags : SUBSET {"GAP_BEFORE", "MISSING_EVENT_TIME", "NON_EXECUTABLE", "PROVIDER_REVISION",
                             "RETRACTED_SOURCE", "STALE_SOURCE"},
     base_amount : Nat, quote_amount : Nat, route_capacity : Nat, liquidity : Nat]

Revision(e) ==
    /\ (e.supersedes # Null) = (e.kind = "CORRECTION")
    /\ (e.retracts # Null) = (e.kind = "RETRACTION")
    /\ e.kind = "ORIGINAL" => e.availability_slot = e.slot
    /\ e.kind = "CORRECTION" => "PROVIDER_REVISION" \in e.quality_flags
    /\ e.kind = "RETRACTION" => "RETRACTED_SOURCE" \in e.quality_flags /\ ~e.executable

Executable(e) ==
    /\ e.quality_flags \cap {"NON_EXECUTABLE", "RETRACTED_SOURCE", "STALE_SOURCE"} = {}
    /\ e.event_kind \in {"ROUTE_QUOTE", "SWAP_OBSERVATION"}
    /\ e.kind # "RETRACTION"
    /\ \A amount \in {e.base_amount, e.quote_amount, e.route_capacity, e.liquidity} : amount > 0

RawEventValid(e) ==
    /\ {e.slot, e.availability_slot, e.availability_admission, e.admission, e.ingest, e.group,
        e.clock, e.base_amount, e.quote_amount, e.route_capacity, e.liquidity} \subseteq U64
    /\ Revision(e)
    /\ e.availability_admission = e.admission
    /\ (e.event_time = Null) = ("MISSING_EVENT_TIME" \in e.quality_flags)
    /\ NotAfter(e.event_time, e.observed_at) /\ NotAfter(e.observed_at, e.ingested_at)
    /\ e.executable => Executable(e)

-----------------------------------------------------------------------------
(* trading.feature-snapshot/v1 *)

SignedFeatures == {"mid_price", "return_1", "ema_fast", "ema_slow", "rsi_14", "atr_14",
                   "breakout_high_20", "breakout_low_20"}
U64Features == {"volume_20", "liquidity", "stale_age"}
FeatureNames == SignedFeatures \cup U64Features \cup {"route_impact_bps"}

FeatureSnapshotSchema ==
    [decision : Nat, admission : Nat, ingest : Nat, group : Nat, clock : Nat,
     as_of_event : Optional(Nat), merkle_root : Optional({"root"}),
     event_time : Optional(Nat), observed_at : Optional(Nat), ingested_at : Optional(Nat),
     history_count : Nat, features : [FeatureNames -> Optional(Int)],
     missing_features : SUBSET FeatureNames]

FeatureSnapshotValid(s) ==
    /\ {s.decision, s.admission, s.ingest, s.group, s.clock} \subseteq U64
    /\ {s.features[name] : name \in SignedFeatures} \ {Null} \subseteq I128
    /\ {s.features[name] : name \in U64Features} \ {Null} \subseteq U64
    /\ s.missing_features = {name \in FeatureNames : s.features[name] = Null}
    /\ s.history_count = 0 => s.missing_features = FeatureNames
    /\ (s.as_of_event = Null) = (s.merkle_root = Null)
    /\ (s.observed_at = Null) = (s.ingested_at = Null)
    /\ IF s.as_of_event # Null THEN s.observed_at # Null
       ELSE s.event_time = Null /\ s.observed_at = Null /\ s.history_count = 0
    /\ NotAfter(s.event_time, s.observed_at) /\ NotAfter(s.observed_at, s.ingested_at)
    /\ s.features["rsi_14"] # Null => s.features["rsi_14"] \in 0 .. (100 * Unit)

-----------------------------------------------------------------------------
(* trading.model-signal/v1 *)

ModelSignalSchema ==
    [decision : Nat, issued : Nat, available : Nat, close : Nat, ttl : Nat, expires : Nat,
     score : Int, abstain : Nat, long_bias : Nat, exit_bias : Nat, uncertainty : Nat, ood : Nat,
     action : {"ABSTAIN", "LONG_BIAS", "EXIT_BIAS"}]

\* A direction needs a strict majority over each of the others.
ProbabilityAction(m) ==
    IF m.long_bias > m.exit_bias /\ m.long_bias > m.abstain THEN "LONG_BIAS"
    ELSE IF m.exit_bias > m.long_bias /\ m.exit_bias > m.abstain THEN "EXIT_BIAS"
    ELSE "ABSTAIN"

ModelSignalValid(m) ==
    /\ {m.decision, m.issued, m.available, m.close, m.ttl, m.expires} \subseteq U64
    /\ m.issued <= m.available /\ m.available <= m.close /\ m.close < m.expires
    /\ m.issued + m.ttl = m.expires
    /\ m.score \in -Unit .. Unit
    /\ {m.abstain, m.long_bias, m.exit_bias, m.uncertainty, m.ood} \subseteq 0 .. Unit
    /\ m.abstain + m.long_bias + m.exit_bias = Unit
    /\ m.action = ProbabilityAction(m)
    /\ m.action = "LONG_BIAS" => m.score > 0
    /\ m.action = "EXIT_BIAS" => m.score < 0
=============================================================================
