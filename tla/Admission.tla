------------------------------ MODULE Admission ------------------------------
(***************************************************************************)
(* crypto_replay/admission.py: admit_local_fixture turns a captured        *)
(* fixture into one receipt per file, a batch status and, when nothing is  *)
(* wrong anywhere, the parsed candidates.  A row stands for a manifest row *)
(* together with what capture_local_fixture read at its path.              *)
(***************************************************************************)
EXTENDS Naturals, FiniteSets, FiniteSetsExt

CONSTANTS
    Rows,           \* the rows a manifest may declare
    MaxRows,        \* bound: rows of one fixture
    Surroundings,   \* [issues, rights, biased]: what the rest of the fixture is like
    AllowedMarkets, \* the mints of each market of the manifest
    NoDoc           \* a payload jupiter_fixture cannot parse

\* What a payload says, its names and digests numbered in their order; 0 is none.
Docs ==
    [source : Nat, market : Nat, mints : Nat, pos : Nat, native : Nat,
     kind : {"ORIGINAL", "CORRECTION", "RETRACTION"},
     slot : Nat, seq : Nat, supersedes : Nat, retracts : Nat, body : Nat]

ASSUME RowsAssumption ==
    /\ MaxRows \in Nat
    /\ \A r \in Rows :
          /\ r.path \in Nat /\ r.seq \in Nat /\ r.slot \in Nat /\ r.read \in BOOLEAN
          /\ r.doc \in Docs \cup {NoDoc}
    /\ \A env \in Surroundings : env.rights \in BOOLEAN /\ env.biased \in BOOLEAN

VARIABLES
    fixture,   \* the rows captured
    around,    \* CapturedFixture but for its files
    batch      \* the AdmissionBatch

admissionVars == <<fixture, around, batch>>

Quarantining ==
    {"POSITION_CONFLICT", "SEQUENCE_INVALID", "REVISION_CAUSALITY",
     "REVISION_FORK", "SET_NOT_CLOSED"}

Status(reasons) ==
    IF reasons = {} THEN "ADMITTED"
    ELSE IF reasons \cap Quarantining # {} THEN "QUARANTINED" ELSE "REJECTED"

----------------------------------------------------------------------------
(* What is wrong with one file.  UNSAFE_PATH is the SET_NOT_CLOSED issue    *)
(* whose message says that the path leaves the fixture.                     *)

Codes(issues) == {IF i = "UNSAFE_PATH" THEN "SET_NOT_CLOSED" ELSE i : i \in issues}

FileReasons(r) ==
    Codes(r.issues)
        \cup {c \in {"SET_NOT_CLOSED"} : "HASH_MISMATCH" \in r.issues}
        \cup {c \in {"NOT_LOCAL"} : ~r.read}

ProfileReasons(r, biased) ==
    LET fits ==
            /\ r.doc # NoDoc
            /\ r.doc.source = r.source /\ r.doc.market = r.market
            /\ ~biased => /\ r.doc.market \in DOMAIN AllowedMarkets
                          /\ r.doc.mints = AllowedMarkets[r.doc.market]
    IN  {c \in {"PROFILE_MISMATCH"} : r.read /\ ~fits}

\* 0 is a target the payload leaves out.
RevisionReasons(r) ==
    LET d == r.doc
        sound ==
            /\ d.slot = r.slot
            /\ \/ d.kind = "ORIGINAL" /\ d.supersedes = 0 /\ d.retracts = 0 /\ d.slot = d.pos
               \/ d.kind = "CORRECTION" /\ d.supersedes # 0 /\ d.retracts = 0
               \/ d.kind = "RETRACTION" /\ d.retracts # 0 /\ d.supersedes = 0
    IN  {c \in {"REVISION_CAUSALITY"} : ~sound}

LocalReasons(r, biased) ==
    IF FileReasons(r) # {} THEN FileReasons(r)
    ELSE IF ProfileReasons(r, biased) # {} THEN ProfileReasons(r, biased)
    ELSE RevisionReasons(r)

----------------------------------------------------------------------------
(* What is wrong between files.                                             *)

Lineage(d) == <<d.source, d.market, d.pos, d.native>>
Version(d) == <<Lineage(d), d.kind, d.slot, d.seq, d.supersedes, d.retracts>>
Target(d) == IF d.kind = "CORRECTION" THEN d.supersedes ELSE d.retracts

\* Two payloads have one digest exactly when they are the same bytes.
Digest(r) == r.doc

\* A group of rows that agree on Key conflicts when it holds two Values.
Conflicting(rows, Key(_), Value(_)) ==
    {r \in rows : Cardinality({Value(q) : q \in {p \in rows : Key(p) = Key(r)}}) > 1}

SameVersionConflicts(rows) ==
    Conflicting(rows, LAMBDA r : Version(r.doc), Digest)

OriginalConflicts(rows) ==
    Conflicting({r \in rows : r.doc.kind = "ORIGINAL"},
                LAMBDA r : Lineage(r.doc),
                LAMBDA r : <<Version(r.doc), Digest(r)>>)

\* Mutant: a retraction competes with a correction of its target.
RevisionForksOfAnyKind(rows) ==
    Conflicting({r \in rows : r.doc.kind # "ORIGINAL"},
                LAMBDA r : Target(r.doc),
                LAMBDA r : Version(r.doc))

RevisionForks(rows) ==
    Conflicting({r \in rows : r.doc.kind # "ORIGINAL"},
                LAMBDA r : <<r.doc.kind, Target(r.doc)>>,
                LAMBDA r : Version(r.doc))

LineageReasons(r, rows) ==
    {c \in {"POSITION_CONFLICT"} : r \in SameVersionConflicts(rows) \cup OriginalConflicts(rows)}
        \cup {c \in {"REVISION_FORK"} : r \in RevisionForks(rows)}

----------------------------------------------------------------------------
(* The batch.                                                               *)

\* Capture keeps every file's issues among the fixture's own.
CaptureIssues(rows, env) == env.issues \cup UNION {r.issues : r \in rows}

\* Mutant: only the files are looked at, not what else was captured.
FixtureReasonsOfFiles(rows, env) ==
    Codes(UNION {r.issues : r \in rows})
        \cup {c \in {"RIGHTS_MISSING"} : ~env.rights}
        \cup {c \in {"UNIVERSE_BIASED", "SET_NOT_CLOSED"} : env.biased}

FixtureReasons(rows, env) ==
    Codes(CaptureIssues(rows, env))
        \cup {c \in {"RIGHTS_MISSING"} : ~env.rights}
        \cup {c \in {"UNIVERSE_BIASED", "SET_NOT_CLOSED"} : env.biased}

DropClosure(reasons, rows, env) ==
    IF "MANIFEST_MISMATCH" \in reasons /\ "UNSAFE_PATH" \in CaptureIssues(rows, env)
    THEN reasons \ {"SET_NOT_CLOSED"} ELSE reasons

ReceiptReasons(r, rows, env) ==
    LET local(q) == LocalReasons(q, env.biased)
        comparable == {q \in rows : local(q) = {}}
        lineage == IF r \in comparable THEN LineageReasons(r, comparable) ELSE {}
    IN  DropClosure(FixtureReasons(rows, env) \cup local(r) \cup lineage, rows, env)

\* Mutant: the files are taken in the order of their paths.
SortsBeforeByPath(r, q) == r.path < q.path

SortsBefore(r, q) == r.seq < q.seq \/ (r.seq = q.seq /\ r.path < q.path)

SameCandidate(r, q) == Version(r.doc) = Version(q.doc) /\ Digest(r) = Digest(q)

Collapsed(rows) ==
    {r \in rows : \A q \in rows : SameCandidate(r, q) => ~SortsBefore(q, r)}

Batch(rows, env) ==
    LET receipts == [r \in rows |-> ReceiptReasons(r, rows, env)]
        reasons == IF rows = {} THEN FixtureReasons(rows, env)
                   ELSE UNION {receipts[r] : r \in rows}
    IN  [status |-> Status(reasons), reasons |-> reasons, receipts |-> receipts,
         candidates |-> IF reasons = {} THEN Collapsed(rows) ELSE {}]

NoBatch == [status |-> "NONE", reasons |-> {}, receipts |-> <<>>, candidates |-> {}]

----------------------------------------------------------------------------
AdmissionInit ==
    /\ fixture = {} /\ batch = NoBatch
    /\ around \in Surroundings

\* A provider adds a row to the fixture; no two rows have one path.
Declare(r) ==
    /\ batch = NoBatch /\ Cardinality(fixture) < MaxRows
    /\ \A q \in fixture : q.path # r.path
    /\ fixture' = fixture \cup {r}
    /\ UNCHANGED <<around, batch>>

AdmitLocalFixture ==
    /\ batch = NoBatch
    /\ batch' = Batch(fixture, around)
    /\ UNCHANGED <<fixture, around>>

ReceiptStatus(r) == Status(batch.receipts[r])
=============================================================================
