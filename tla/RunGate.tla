------------------------------- MODULE RunGate -------------------------------
(***************************************************************************)
(* What verify_contract_run_inputs of crypto_replay/run_inputs.py asks of  *)
(* the receipts around a run's events (the events themselves, the schedule *)
(* and the requests are in RunInputs).  A receipt is a body, the contract  *)
(* document, and the names it binds; a name is a digest, and a digest is   *)
(* what it was taken of, so that two names are equal exactly if the things *)
(* are.  Bytes are the sequence of what they parse to.                     *)
(*                                                                         *)
(*   bundle  the retained inputs: fixture, raw, config, registry, manifest *)
(*           and the three receipts config_receipt, closure and run        *)
(***************************************************************************)
EXTENDS VerdictDocuments

\* Every document on its own, before any is held against another.
SelfContained(b) ==
    /\ RunReceiptValid(b.run.body) /\ ConfigReceiptValid(b.config_receipt.body)
    /\ RunClosureValid(b.closure.body)
    /\ b.config # Null => RiskConfigValid(b.config)
    /\ b.registry # Null => RegistryValid(b.registry.promotions)
    /\ b.manifest # Null => SignalManifestValid(b.manifest.candidates)

-----------------------------------------------------------------------------
(* _config_code_seed_issues; the code preimages and the seed are left out. *)

RetainedConfig(b) ==
    CASE b.config_receipt.body.status = "MISSING" -> b.config = Null /\ b.raw = Null
      [] b.config_receipt.body.status = "INVALID" -> b.config = Null /\ b.raw # Null
      [] b.config_receipt.body.status = "VALID" -> b.config # Null /\ b.raw = <<b.config>>

RawLength(raw) == IF raw = Null THEN 0 ELSE Len(raw) + 1

ConfigBound(b) ==
    /\ RetainedConfig(b)
    /\ b.config_receipt.names = [raw |-> b.raw, config |-> b.config]
    /\ b.config_receipt.body.length = RawLength(b.raw)
    /\ b.run.names.config_receipt = b.config_receipt /\ b.closure.names.config_receipt = b.config_receipt
    /\ b.run.names.config = b.config /\ b.closure.names.config = b.config
    /\ b.closure.body.status = IF b.config_receipt.body.status = "VALID" THEN "PASS"
                               ELSE "NOT_REQUIRED_ZERO_AUTHORITY"

-----------------------------------------------------------------------------
(* _cross_binding_issues *)

SharedNames == {"fixture", "config_receipt", "config", "registry", "manifest"}

\* Mutant: the run names its closure, and nothing they say is compared.
ClosureNamedOnly(b) == b.run.names.closure = b.closure

ClosureBound(b) ==
    /\ \A name \in SharedNames : b.run.names[name] = b.closure.names[name]
    /\ \A field \in {"mode", "policy", "terminal"} : b.run.body[field] = b.closure.body[field]
    /\ b.run.names.closure = b.closure
    /\ b.closure.body.status # "FAIL" /\ b.closure.body.counters = "WITHIN_LIMIT"

FixtureBound(b) ==
    /\ b.run.names.fixture = b.fixture
    /\ b.run.body.tick = b.fixture.tick /\ b.run.body.policy = b.fixture.policy
    /\ b.run.body.groups = b.fixture.schedule
    /\ b.run.body.terminal = b.fixture.terminal

\* The requests a manifest's candidates were selected for, one for a
\* decision on a market.
Requests(manifest) ==
    {[decision |-> c.decision, market |-> c.requested, horizon |-> c.horizon] :
        c \in ToSet(manifest.candidates)}

ModelsBound(b) ==
    IF b.run.body.mode = "DISABLED"
    THEN b.registry = Null /\ b.manifest = Null /\ b.run.body.scopes = <<>>
    ELSE /\ b.registry # Null /\ b.manifest # Null
         /\ b.manifest.registry = b.registry
         /\ b.run.names.registry = b.registry /\ b.run.names.manifest = b.manifest
         /\ \A c \in ToSet(b.manifest.candidates) :
               \E p \in ToSet(b.registry.promotions) : p.key = c.requested
         /\ ToSet(b.run.body.scopes) = Requests(b.manifest)

LedgerBound(fixture, candidates) ==
    LET groups == Len(fixture.schedule)
        decisions == fixture.markets * groups
    IN  fixture.sources + fixture.events + 10 * decisions + 2 * candidates + 5 * groups + 9

CounterCapacity(fixture, manifest) ==
    LET candidates == IF manifest = Null THEN 0 ELSE Len(manifest.candidates)
    IN  IF LedgerBound(fixture, candidates) <= MaxU64 THEN "WITHIN_LIMIT" ELSE "EXCEEDED"

CountersBound(b) == b.closure.body.counters = CounterCapacity(b.fixture, b.manifest)

Verifiable(b) ==
    /\ SelfContained(b) /\ ConfigBound(b)
    /\ ClosureBound(b) /\ FixtureBound(b) /\ ModelsBound(b) /\ CountersBound(b)
=============================================================================
