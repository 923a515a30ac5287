-------------------------- MODULE FixtureDocuments --------------------------
(***************************************************************************)
(* crypto_replay/contract_semantics.py, schema_definitions.py: the         *)
(* contracts of the files of a fixture manifest and of the receipt each    *)
(* file gets.  Null is an absent value; a date or a role is a number, 0 a  *)
(* date that is none, 1 the role that is allowed.  What a row says of its  *)
(* source (identity, kind, revision, media type) is one value.             *)
(***************************************************************************)
EXTENDS Naturals, Sequences, FiniteSets

CONSTANTS
    Null,
    Markets,      \* the markets of the manifest
    SafePaths     \* the paths that stay inside the fixture

\* trading.fixture-manifest/v1, one file row; rows have one path and one
\* sequence each.
FileRowValid(row) ==
    /\ row.path \in SafePaths /\ row.source # Null /\ row.digest # Null
    /\ row.market \in Markets
    /\ row.seq \in Nat \ {0} /\ row.slot \in Nat

-----------------------------------------------------------------------------
(* trading.source-admission-receipt/v1 *)

Owned(absent, owners, reasons) == absent => owners \cap reasons # {}

\* Mutant: what could not be looked at needs a reason of its own, too.
NullsAllExplained(r) ==
    /\ Owned(Null \in {r.terms, r.role, r.effective, r.review}, {"RIGHTS_MISSING"}, r.reasons)
    /\ Owned(Null \in {r.payload, r.path}, {"NOT_LOCAL"}, r.reasons)
    /\ Owned(Null \in {r.source, r.market, r.media}, {"PROFILE_MISMATCH"}, r.reasons)
    /\ Owned(Null \in {r.slot, r.observed, r.ingested}, {"POINT_IN_TIME_MISSING"}, r.reasons)

\* Everything that is missing is missing for a reason, but for what could
\* not be looked at because something before it was missing.
NullsAreExplained(r) ==
    LET bytes == {r.payload, r.path}
        blocked == Null \in bytes /\ "NOT_LOCAL" \in r.reasons
    IN  /\ Owned(Null \in {r.terms, r.role, r.effective, r.review}, {"RIGHTS_MISSING"}, r.reasons)
        /\ Owned(Null \in bytes, {"NOT_LOCAL"}, r.reasons)
        /\ ~blocked =>
              /\ Owned(Null \in {r.source, r.market, r.media}, {"PROFILE_MISMATCH"}, r.reasons)
              /\ Owned(r.slot = Null, {"POINT_IN_TIME_MISSING"}, r.reasons)
        /\ Owned(Null \in {r.observed, r.ingested}, {"POINT_IN_TIME_MISSING"}, r.reasons)

ReceiptInRange(r) ==
    /\ r.path # Null => r.path \in SafePaths
    /\ r.seq \in Nat \ {0}
    /\ r.role \in {Null, 1}
    /\ 0 \notin {r.effective, r.review}

ReceiptOrder(r) ==
    /\ Null \notin {r.observed, r.ingested} => r.observed <= r.ingested
    /\ Null \notin {r.effective, r.review} => r.effective <= r.review

SourceReceiptValid(r) ==
    /\ NullsAreExplained(r) /\ ReceiptInRange(r) /\ ReceiptOrder(r)
    /\ r.reasons = {} =>
          Null \notin {r.payload, r.terms, r.source, r.market, r.path, r.media, r.slot,
                       r.observed, r.ingested, r.role, r.effective, r.review}
=============================================================================
