--------------------------- MODULE RunInputsProofs ---------------------------
(***************************************************************************)
(* What admission and the verification of run inputs promise, for every    *)
(* fixture, whatever its files say and however the normaliser numbers its  *)
(* events.  Admission is one call and nothing changes the fixture after    *)
(* it, so that each property follows from what the call computed: the work *)
(* is in counting.                                                         *)
(*                                                                         *)
(* Then, what is proved of the receipts of a run.  A verified run can      *)
(* still close although its inputs may be replaced once receipts are about *)
(* them: the invariant says that a closure repeats what it was about, and  *)
(* the verification that it is about what is retained.  The reasons the    *)
(* validators let pass are those the checks can give: a fact about sets of *)
(* codes, of any 64-bit bound.  Every receipt that comes about passes its  *)
(* validator: one lemma for each kind of receipt, and an invariant that    *)
(* says what they are drawn up of.  What such a receipt concludes is       *)
(* forced by its evidence: of each kind, two documents that pass and       *)
(* differ in a conclusion only do not differ.                              *)
(***************************************************************************)
EXTENDS RunInputsProps, ReplayReceiptsProps, FiniteSetTheorems, FunctionTheorems, WellFoundedInduction, TLAPS

\* The batch is what admission makes of the fixture, and a verified run is one
\* that passed every check on it.
Frame ==
    /\ fixture \subseteq Rows /\ IsFiniteSet(fixture) /\ Cardinality(fixture) <= MaxRows
    /\ \A r, q \in fixture : r.path = q.path => r = q
    /\ around \in Surroundings /\ configSequence \in ConfigSequences
    /\ batch = NoBatch \/ batch = Batch(fixture, around)
    /\ batch = NoBatch => run = "open" /\ events = {}
    /\ run \in {"open", "verified", "refused"}
    /\ \A q \in requests : q.decision \in Nat \ {0}

Events ==
    /\ IsFiniteSet(events) /\ Cardinality(events) <= Cardinality(fixture)
    /\ \A e \in events :
          /\ e.receipt \in fixture /\ e.clock = (e.group - 1) * ReplayTick
          /\ {e.ingest, e.source, e.group} \subseteq 1 .. MaxRows

Checked == Verified => EventSetDerived(events) /\ SessionScheduled /\ RequestsBound(requests)

Inv == Frame /\ Events /\ Checked

-----------------------------------------------------------------------------
(* Counting *)

\* A finite set has more than one element when it has another than x.
LEMMA ManyElements ==
    ASSUME NEW S, IsFiniteSet(S), NEW x \in S
    PROVE  Cardinality(S) > 1 <=> \E y \in S : y # x
<1>1. IsFiniteSet({x}) /\ Cardinality({x}) = 1
  BY FS_Singleton
<1>2. Cardinality(S) \in Nat
  BY FS_CardinalityType
<1>3. Cardinality({x}) <= Cardinality(S) /\ (Cardinality(S) = Cardinality({x}) => S = {x})
  BY FS_Subset
<1>4. CASE \E y \in S : y # x
  <2>1. S # {x}
    BY <1>4
  <2> QED BY <1>1, <1>2, <1>3, <1>4, <2>1
<1>5. CASE ~\E y \in S : y # x
  <2>1. S = {x}
    BY <1>5
  <2> QED BY <1>1, <1>5, <2>1
<1> QED BY <1>4, <1>5

\* One more element is at most one more.
LEMMA OneMore ==
    ASSUME NEW S, IsFiniteSet(S), NEW x, NEW bound \in Nat, Cardinality(S) < bound
    PROVE  IsFiniteSet(S \cup {x}) /\ Cardinality(S \cup {x}) <= bound
<1>1. Cardinality(S) \in Nat
  BY FS_CardinalityType
<1>2. IsFiniteSet(S \cup {x})
  BY FS_AddElement
<1>3. Cardinality(S \cup {x}) \in {Cardinality(S), Cardinality(S) + 1}
  BY FS_AddElement
<1> QED BY <1>1, <1>2, <1>3

\* The values of a function on a finite set are not more than its arguments.
LEMMA FiniteImage ==
    ASSUME NEW S, IsFiniteSet(S), NEW T, NEW f \in [S -> T], \A t \in T : \E s \in S : f[s] = t
    PROVE  IsFiniteSet(T) /\ Cardinality(T) <= Cardinality(S)
<1>1. f \in Surjection(S, T)
  BY Fun_IsSurj
<1> QED BY <1>1, FS_Surjection

\* A strict order on a finite set has a minimal element.
LEMMA Minimal ==
    ASSUME NEW T, IsFiniteSet(T), T # {}, NEW R,
           \A x \in T : <<x, x>> \notin R,
           \A x, y, z \in T : <<x, y>> \in R /\ <<y, z>> \in R => <<x, z>> \in R
    PROVE  \E x \in T : \A y \in T : <<y, x>> \notin R
<1> DEFINE Below(x) == {y \in T : <<y, x>> \in R}
           Sets == {Below(x) : x \in T}
<1>1. IsWellFoundedOn(StrictSubsetOrdering(T), FiniteSubsetsOf(T))
  BY FS_StrictSubsetOrderingWellFounded
<1>2. Sets \subseteq FiniteSubsetsOf(T) /\ Sets # {}
  <2>1. SUBSET T = FiniteSubsetsOf(T)
    BY FS_FiniteSubsetsOfFinite
  <2>2. Sets \subseteq SUBSET T
    OBVIOUS
  <2>3. Sets # {}
    <3>1. PICK x \in T : TRUE
      OBVIOUS
    <3>2. Below(x) \in Sets
      OBVIOUS
    <3> HIDE DEF Sets
    <3> QED BY <3>2
  <2> HIDE DEF Sets
  <2> QED BY <2>1, <2>2, <2>3
<1>3. PICK D \in Sets : \A E \in Sets : <<E, D>> \notin StrictSubsetOrdering(T)
  <2> HIDE DEF Sets
  <2> QED BY <1>1, <1>2, WFMin
<1>4. PICK x \in T : D = Below(x)
  BY <1>3
<1>5. ASSUME NEW y \in T, <<y, x>> \in R PROVE FALSE
  <2>1. Below(y) \subseteq Below(x) /\ y \in Below(x) /\ y \notin Below(y)
    BY <1>5
  <2>2. <<Below(y), Below(x)>> \in StrictSubsetOrdering(T)
    BY <2>1 DEF StrictSubsetOrdering
  <2> QED BY <1>3, <1>4, <2>2
<1> QED BY <1>5

-----------------------------------------------------------------------------
(* Admission *)

\* MANIFEST_MISMATCH stays when SET_NOT_CLOSED is dropped: no reason, no reasons.
LEMMA NoReasonDropped ==
    ASSUME NEW reasons, NEW rows, NEW env
    PROVE  DropClosure(reasons, rows, env) = {} <=> reasons = {}
BY DEF DropClosure

LEMMA AdmittedMeansNoReason ==
    ASSUME NEW reasons
    PROVE  /\ Status(reasons) = "ADMITTED" <=> reasons = {}
           /\ Status(reasons) \in {"ADMITTED", "REJECTED", "QUARANTINED"}
BY DEF Status

\* What admission computes.
LEMMA BatchIs ==
    ASSUME batch = Batch(fixture, around)
    PROVE  /\ batch # NoBatch /\ batch.status = Status(batch.reasons)
           /\ batch.receipts = [r \in fixture |-> ReceiptReasons(r, fixture, around)]
           /\ fixture = {} => batch.reasons = FixtureReasons(fixture, around)
           /\ fixture # {} => batch.reasons = UNION {batch.receipts[r] : r \in fixture}
           /\ batch.candidates = IF batch.reasons = {} THEN Collapsed(fixture) ELSE {}
<1>1. Batch(fixture, around) =
        [status |-> Status(batch.reasons), reasons |-> batch.reasons,
         receipts |-> batch.receipts, candidates |-> batch.candidates]
  BY DEF Batch
<1>2. batch.status = Status(batch.reasons)
  BY <1>1
<1>3. batch # NoBatch
  BY <1>2, AdmittedMeansNoReason DEF NoBatch
<1>4. batch.receipts = [r \in fixture |-> ReceiptReasons(r, fixture, around)]
  BY DEF Batch
<1>5. batch.reasons = IF fixture = {} THEN FixtureReasons(fixture, around)
                      ELSE UNION {batch.receipts[r] : r \in fixture}
  BY <1>4 DEF Batch
<1>6. batch.candidates = IF batch.reasons = {} THEN Collapsed(fixture) ELSE {}
  BY <1>5, <1>4 DEF Batch
<1> QED BY <1>2, <1>3, <1>4, <1>5, <1>6

\* The status of a batch, the receipts' own, and what is wrong anywhere.
LEMMA AllOrNothing ==
    ASSUME batch = Batch(fixture, around)
    PROVE  /\ Admitted <=> batch.reasons = {}
           /\ \A r \in fixture : ReceiptStatus(r) = "ADMITTED" <=>
                 ReceiptReasons(r, fixture, around) = {}
           /\ fixture # {} => (Admitted <=> \A r \in fixture : ReceiptStatus(r) = "ADMITTED")
           /\ batch.candidates \subseteq fixture
           /\ batch.candidates # {} => Admitted /\ fixture # {}
<1>1. Admitted <=> batch.reasons = {}
  BY BatchIs, AdmittedMeansNoReason DEF Admitted
<1>2. \A r \in fixture : batch.receipts[r] = ReceiptReasons(r, fixture, around)
  BY BatchIs
<1>3. \A r \in fixture : ReceiptStatus(r) = "ADMITTED" <=> ReceiptReasons(r, fixture, around) = {}
  BY <1>2, AdmittedMeansNoReason DEF ReceiptStatus
<1>4. fixture # {} => (Admitted <=> \A r \in fixture : ReceiptStatus(r) = "ADMITTED")
  BY <1>1, <1>2, <1>3, BatchIs
<1>5. batch.candidates \subseteq fixture
  BY BatchIs DEF Collapsed
<1>6. batch.candidates # {} => Admitted /\ fixture # {}
  BY <1>1, <1>5, BatchIs
<1> QED BY <1>1, <1>3, <1>4, <1>5, <1>6

\* An admitted receipt: nothing is wrong with the fixture, with the file, or
\* between the file and the other good ones.
LEMMA AdmittedReceipt ==
    ASSUME NEW rows, NEW r \in rows, NEW env, ReceiptReasons(r, rows, env) = {}
    PROVE  /\ FixtureReasons(rows, env) = {} /\ LocalReasons(r, env.biased) = {}
           /\ LineageReasons(r, {q \in rows : LocalReasons(q, env.biased) = {}}) = {}
<1> DEFINE comparable == {q \in rows : LocalReasons(q, env.biased) = {}}
           lineage == IF r \in comparable THEN LineageReasons(r, comparable) ELSE {}
<1>1. DropClosure(FixtureReasons(rows, env) \cup LocalReasons(r, env.biased) \cup lineage, rows, env) = {}
  BY DEF ReceiptReasons
<1>2. FixtureReasons(rows, env) \cup LocalReasons(r, env.biased) \cup lineage = {}
  BY <1>1, NoReasonDropped
<1>3. r \in comparable
  BY <1>2
<1> QED BY <1>2, <1>3

\* And the other way, with a fixture that is sound as a whole.
LEMMA ReceiptOfSound ==
    ASSUME NEW rows, NEW r \in rows, NEW env, FixtureReasons(rows, env) = {},
           LocalReasons(r, env.biased) = {}
    PROVE  ReceiptReasons(r, rows, env) = {} <=>
             LineageReasons(r, {q \in rows : LocalReasons(q, env.biased) = {}}) = {}
<1> DEFINE comparable == {q \in rows : LocalReasons(q, env.biased) = {}}
           lineage == IF r \in comparable THEN LineageReasons(r, comparable) ELSE {}
<1>1. ReceiptReasons(r, rows, env) =
        DropClosure(FixtureReasons(rows, env) \cup LocalReasons(r, env.biased) \cup lineage, rows, env)
  BY DEF ReceiptReasons
<1>2. lineage = LineageReasons(r, comparable)
  OBVIOUS
<1>3. FixtureReasons(rows, env) \cup LocalReasons(r, env.biased) \cup lineage = LineageReasons(r, comparable)
  BY <1>2
<1> HIDE DEF comparable, lineage
<1> QED BY <1>1, <1>3, NoReasonDropped DEF comparable

\* A fixture without a reason is sound.
LEMMA SoundFixture ==
    ASSUME NEW rows, NEW env \in Surroundings, FixtureReasons(rows, env) = {}
    PROVE  /\ CaptureIssues(rows, env) = {} /\ env.issues = {}
           /\ \A r \in rows : r.issues = {}
           /\ env.rights = TRUE /\ env.biased = FALSE
<1>1. env.rights \in BOOLEAN /\ env.biased \in BOOLEAN
  BY RowsAssumption
<1>2. Codes(CaptureIssues(rows, env)) = {}
  BY DEF FixtureReasons
<1>3. CaptureIssues(rows, env) = {}
  BY <1>2 DEF Codes
<1>4. env.issues = {} /\ \A r \in rows : r.issues = {}
  BY <1>3 DEF CaptureIssues
<1>5. {c \in {"RIGHTS_MISSING"} : ~env.rights} = {}
  BY DEF FixtureReasons
<1>6. {c \in {"UNIVERSE_BIASED", "SET_NOT_CLOSED"} : env.biased} = {}
  BY DEF FixtureReasons
<1>7. env.rights = TRUE
  BY <1>1, <1>5
<1>8. env.biased = FALSE
  BY <1>1, <1>6
<1> QED BY <1>3, <1>4, <1>7, <1>8

\* A good file was read, and its payload parsed.
LEMMA GoodFile ==
    ASSUME NEW r \in Rows, NEW biased, LocalReasons(r, biased) = {}
    PROVE  r.read = TRUE /\ r.doc \in Docs
<1>1. r.read \in BOOLEAN /\ r.doc \in Docs \cup {NoDoc}
  BY RowsAssumption
<1>2. FileReasons(r) = {} /\ ProfileReasons(r, biased) = {}
  BY DEF LocalReasons
<1>3. {c \in {"NOT_LOCAL"} : ~r.read} = {}
  BY <1>2 DEF FileReasons
<1>4. r.read = TRUE
  BY <1>1, <1>3
<1>5. r.doc # NoDoc
  BY <1>2, <1>4 DEF ProfileReasons
<1> QED BY <1>1, <1>4, <1>5

-----------------------------------------------------------------------------
(* The specification keeps the frame *)

LEMMA InitFrame == Init => Inv
BY FS_EmptySet, RowsAssumption DEF Init, AdmissionInit, Inv, Frame, Events, Checked, Verified

\* A group number is at most the number of files.
LEMMA GroupsBounded ==
    ASSUME IsFiniteSet(fixture)
    PROVE  IsFiniteSet(Slots) /\ GroupCount \in Nat /\ GroupCount <= Cardinality(fixture)
<1> DEFINE slot == [r \in fixture |-> r.slot]
<1>1. slot \in [fixture -> Slots] /\ \A t \in Slots : \E r \in fixture : slot[r] = t
  BY DEF Slots
<1>2. IsFiniteSet(Slots) /\ Cardinality(Slots) <= Cardinality(fixture)
  <2> HIDE DEF slot
  <2> QED BY <1>1, FiniteImage
<1> QED BY <1>2, FS_CardinalityType DEF GroupCount

\* What the requests are checked against is the fixture.
LEMMA RequestsKept ==
    ASSUME UNCHANGED fixture, NEW qs
    PROVE  RequestsBound(qs)' <=> RequestsBound(qs)
BY DEF RequestsBound, RequestScheduled, RequestGroup, ExpectedClose, TerminalGroup, GroupOf, Slots, MarketCount

LEMMA NextFrame == Inv /\ [Next]_vars => Inv'
<1> SUFFICES ASSUME Inv, [Next]_vars PROVE Inv'
  OBVIOUS
<1> USE DEF Inv, Frame, Events
<1>0. Cardinality(fixture) \in Nat /\ Cardinality(events) \in Nat /\ MaxRows \in Nat
  BY FS_CardinalityType, RowsAssumption
<1>1. ASSUME NEW r \in Rows, Declare(r), UNCHANGED runVars PROVE Inv'
  <2>1. run = "open" /\ events = {} /\ batch = NoBatch
    BY <1>1 DEF Declare
  <2>2. IsFiniteSet(fixture') /\ Cardinality(fixture') <= MaxRows
    BY <1>0, <1>1, OneMore DEF Declare
  <2>3. Cardinality(events') = 0 /\ Cardinality(fixture') \in Nat
    BY <1>1, <2>1, <2>2, FS_EmptySet, FS_CardinalityType DEF runVars
  <2> QED BY <1>1, <2>1, <2>2, <2>3 DEF Declare, runVars, Checked, Verified
<1>2. CASE AdmitLocalFixture /\ UNCHANGED runVars
  <2>1. run = "open"
    BY <1>2 DEF AdmitLocalFixture
  <2>2. batch' = Batch(fixture', around') /\ batch' # NoBatch
    BY <1>2, AdmittedMeansNoReason DEF AdmitLocalFixture, Batch, NoBatch
  <2> QED BY <1>2, <2>1, <2>2 DEF AdmitLocalFixture, runVars, Checked, Verified
<1>3. ASSUME NEW r \in fixture, NEW source \in 1 .. Cardinality(fixture), NEW group \in 1 .. GroupCount,
             Normalise(r, source, group)
      PROVE  Inv'
  <2> DEFINE e == Event(r, Cardinality(events) + 1, source, group)
  <2>1. IsFiniteSet(events') /\ Cardinality(events') <= Cardinality(fixture)
    BY <1>0, <1>3, OneMore DEF Normalise
  <2>2. /\ e.receipt \in fixture /\ e.clock = (e.group - 1) * ReplayTick
        /\ {e.ingest, e.source, e.group} \subseteq 1 .. MaxRows
    BY <1>0, <1>3, GroupsBounded DEF Event, Normalise
  <2>3. \A f \in events' : /\ f.receipt \in fixture /\ f.clock = (f.group - 1) * ReplayTick
                           /\ {f.ingest, f.source, f.group} \subseteq 1 .. MaxRows
    BY <1>3, <2>2 DEF Normalise
  <2>4. UNCHANGED <<fixture, around, batch, configSequence, requests, run>> /\ batch # NoBatch /\ run = "open"
    BY <1>3 DEF Normalise, admissionVars
  <2> QED BY <2>1, <2>3, <2>4 DEF Checked, Verified
<1>4. ASSUME NEW qs \in RequestSets, VerifyContractRunInputs(qs) PROVE Inv'
  <2>1. UNCHANGED <<fixture, around, batch, configSequence, events>> /\ batch # NoBatch
    BY <1>4 DEF VerifyContractRunInputs, admissionVars
  <2>2. (run' = "verified" /\ CrossBindingsHold(qs)) \/ run' = "refused"
    BY <1>4 DEF VerifyContractRunInputs
  <2>3. Verified' => EventSetDerived(events) /\ SessionScheduled /\ RequestsBound(qs) /\ requests' = qs
    BY <1>4 DEF VerifyContractRunInputs, Verified, CrossBindingsHold
  <2>4. Checked'
    <3>1. RequestsBound(qs)' <=> RequestsBound(qs)
      BY <2>1, RequestsKept
    <3>2. requests' = qs => (RequestsBound(requests)' <=> RequestsBound(qs)')
      BY DEF RequestsBound
    <3> QED BY <2>1, <2>3, <3>1, <3>2 DEF Checked, EventSetDerived, ReceiptsAdmitted, ReceiptStatus, AdmissionContiguous,
          EventsBindReceipts, EveryReceiptCited, SessionScheduled, Slots
  <2>5. \A q \in requests' : q.decision \in Nat \ {0}
    BY <1>4, RequestsAssumption DEF VerifyContractRunInputs
  <2> QED BY <2>1, <2>2, <2>4, <2>5
<1>5. CASE UNCHANGED vars
  <2>1. RequestsBound(requests)' <=> RequestsBound(requests)
    BY <1>5, RequestsKept DEF vars, RequestsBound
  <2> QED BY <1>5, <2>1 DEF vars, Checked, Verified, EventSetDerived, ReceiptsAdmitted, ReceiptStatus, AdmissionContiguous,
        EventsBindReceipts, EveryReceiptCited, SessionScheduled, Slots
<1> QED BY <1>1, <1>2, <1>3, <1>4, <1>5 DEF Next

LEMMA Invariance == Spec => []Inv
BY InitFrame, NextFrame, PTL DEF Spec

-----------------------------------------------------------------------------
(* All or nothing *)

\* Every variable keeps its type: no event of a file that is not in the fixture,
\* no number beyond the bound on the files, no receipt of a file left out.
THEOREM TypeCorrect == Spec => []TypeOK
<1>1. Inv => TypeOK
  <2> SUFFICES ASSUME Inv PROVE TypeOK
    OBVIOUS
  <2>1. CASE batch = NoBatch
    BY <2>1 DEF Inv, Frame, Events, TypeOK, NoBatch
  <2>2. CASE batch = Batch(fixture, around)
    <3>1. batch.status \in {"ADMITTED", "REJECTED", "QUARANTINED"} /\ batch # NoBatch
      BY <2>2, BatchIs, AdmittedMeansNoReason
    <3>2. DOMAIN batch.receipts = fixture /\ batch.candidates \subseteq fixture
      BY <2>2, BatchIs, AllOrNothing
    <3> QED BY <3>1, <3>2 DEF Inv, Frame, Events, TypeOK
  <2> QED BY <2>1, <2>2 DEF Inv, Frame
<1> QED BY <1>1, Invariance, PTL

\* What a verified run, or a candidate, stands on.
LEMMA Sound ==
    ASSUME Inv, batch.candidates # {} \/ Verified
    PROVE  /\ batch = Batch(fixture, around) /\ Admitted /\ fixture # {}
           /\ \A r \in fixture : ReceiptReasons(r, fixture, around) = {}
<1>1. batch # NoBatch
  BY DEF Inv, Frame, Verified, NoBatch
<1>2. batch = Batch(fixture, around)
  BY <1>1 DEF Inv, Frame
<1>3. CASE batch.candidates # {}
  BY <1>2, <1>3, AllOrNothing
<1>4. CASE Verified
  <2>1. fixture # {} /\ \A r \in fixture : ReceiptStatus(r) = "ADMITTED"
    BY <1>4 DEF Inv, Checked, EventSetDerived, ReceiptsAdmitted, SessionScheduled, Slots
  <2> QED BY <1>2, <2>1, AllOrNothing
<1> QED BY <1>2, <1>3, <1>4

\* For every fixture: there are candidates, or a run that passed verification,
\* only of a fixture without an issue, with rights, unbiased, every file of which
\* was read and admitted (admission.py:110, run_inputs.py:471).
THEOREM QuarantineHolds == Spec => []NothingFromQuarantine
<1>1. Inv => NothingFromQuarantine
  <2> SUFFICES ASSUME Inv, batch.candidates # {} \/ Verified
               PROVE  /\ Admitted /\ around.issues = {} /\ around.rights /\ ~around.biased
                      /\ \A r \in fixture : r.issues = {} /\ r.read /\ ReceiptStatus(r) = "ADMITTED"
    BY DEF NothingFromQuarantine
  <2>1. /\ batch = Batch(fixture, around) /\ Admitted /\ fixture # {}
        /\ \A r \in fixture : ReceiptReasons(r, fixture, around) = {}
    BY Sound
  <2>2. FixtureReasons(fixture, around) = {}
    BY <2>1, AdmittedReceipt
  <2>3. /\ around.issues = {} /\ around.rights = TRUE /\ around.biased = FALSE
        /\ \A r \in fixture : r.issues = {}
    BY <2>2, SoundFixture DEF Inv, Frame
  <2>4. ASSUME NEW r \in fixture PROVE r.read = TRUE /\ ReceiptStatus(r) = "ADMITTED"
    <3>1. LocalReasons(r, around.biased) = {}
      BY <2>1, AdmittedReceipt
    <3>2. r.read = TRUE
      BY <3>1, GoodFile DEF Inv, Frame
    <3> QED BY <2>1, <3>2, AllOrNothing
  <2> QED BY <2>1, <2>3, <2>4
<1> QED BY <1>1, Invariance, PTL

-----------------------------------------------------------------------------
(* Conflicts *)

\* Whether a row's group holds two values, without counting.
LEMMA ConflictsAre ==
    ASSUME NEW rows, IsFiniteSet(rows)
    PROVE  /\ \A r \in rows : r \in SameVersionConflicts(rows) <=>
                 \E q \in rows : Version(q.doc) = Version(r.doc) /\ q.doc # r.doc
           /\ \A r \in rows : r \in OriginalConflicts(rows) <=>
                 /\ r.doc.kind = "ORIGINAL"
                 /\ \E q \in rows : /\ q.doc.kind = "ORIGINAL" /\ Lineage(q.doc) = Lineage(r.doc)
                                    /\ q.doc # r.doc
           /\ \A r \in rows : r \in RevisionForks(rows) <=>
                 /\ r.doc.kind # "ORIGINAL"
                 /\ \E q \in rows : /\ q.doc.kind = r.doc.kind /\ Target(q.doc) = Target(r.doc)
                                    /\ Version(q.doc) # Version(r.doc)
<1>1. ASSUME NEW group \in SUBSET rows, NEW r \in group, NEW value
      PROVE  Cardinality({value[q] : q \in group}) > 1 <=> \E q \in group : value[q] # value[r]
  <2> DEFINE values == {value[q] : q \in group}
             f == [q \in group |-> value[q]]
  <2>1. f \in [group -> values] /\ \A t \in values : \E q \in group : f[q] = t
    OBVIOUS
  <2>2. IsFiniteSet(group)
    BY FS_Subset
  <2>3. IsFiniteSet(values)
    <3> HIDE DEF f, values
    <3> QED BY <2>1, <2>2, FiniteImage
  <2>4. value[r] \in values
    OBVIOUS
  <2>5. Cardinality(values) > 1 <=> \E y \in values : y # value[r]
    <3> HIDE DEF values
    <3> QED BY <2>3, <2>4, ManyElements
  <2> QED BY <2>5
<1>2. ASSUME NEW r \in rows
      PROVE  r \in SameVersionConflicts(rows) <=>
               \E q \in rows : Version(q.doc) = Version(r.doc) /\ q.doc # r.doc
  <2> DEFINE group == {p \in rows : Version(p.doc) = Version(r.doc)}
             value == [q \in group |-> q.doc]
  <2>1. r \in SameVersionConflicts(rows) <=> Cardinality({q.doc : q \in group}) > 1
    BY DEF SameVersionConflicts, Conflicting, Digest
  <2>2. {q.doc : q \in group} = {value[q] : q \in group}
    OBVIOUS
  <2>3. Cardinality({value[q] : q \in group}) > 1 <=> \E q \in group : value[q] # value[r]
    <3>1. group \in SUBSET rows /\ r \in group
      OBVIOUS
    <3> HIDE DEF group, value
    <3> QED BY <1>1, <3>1
  <2> QED BY <2>1, <2>2, <2>3
<1>3. ASSUME NEW r \in rows
      PROVE  r \in OriginalConflicts(rows) <=>
               /\ r.doc.kind = "ORIGINAL"
               /\ \E q \in rows : /\ q.doc.kind = "ORIGINAL" /\ Lineage(q.doc) = Lineage(r.doc)
                                  /\ q.doc # r.doc
  <2> DEFINE originals == {p \in rows : p.doc.kind = "ORIGINAL"}
             group == {p \in originals : Lineage(p.doc) = Lineage(r.doc)}
             value == [q \in group |-> <<Version(q.doc), q.doc>>]
  <2>1. r \in OriginalConflicts(rows) <=>
          r \in originals /\ Cardinality({<<Version(q.doc), q.doc>> : q \in group}) > 1
    BY DEF OriginalConflicts, Conflicting, Digest
  <2>2. {<<Version(q.doc), q.doc>> : q \in group} = {value[q] : q \in group}
    OBVIOUS
  <2>3. r \in originals =>
          (Cardinality({value[q] : q \in group}) > 1 <=> \E q \in group : value[q] # value[r])
    <3>1. group \in SUBSET rows /\ (r \in originals => r \in group)
      OBVIOUS
    <3> HIDE DEF group, value, originals
    <3> QED BY <1>1, <3>1
  <2>4. \A q \in group : r \in originals => (value[q] # value[r] <=> q.doc # r.doc)
    OBVIOUS
  <2> QED BY <2>1, <2>2, <2>3, <2>4
<1>4. ASSUME NEW r \in rows
      PROVE  r \in RevisionForks(rows) <=>
               /\ r.doc.kind # "ORIGINAL"
               /\ \E q \in rows : /\ q.doc.kind = r.doc.kind /\ Target(q.doc) = Target(r.doc)
                                  /\ Version(q.doc) # Version(r.doc)
  <2> DEFINE revisions == {p \in rows : p.doc.kind # "ORIGINAL"}
             group == {p \in revisions : <<p.doc.kind, Target(p.doc)>> = <<r.doc.kind, Target(r.doc)>>}
             value == [q \in group |-> Version(q.doc)]
  <2>1. r \in RevisionForks(rows) <=>
          r \in revisions /\ Cardinality({Version(q.doc) : q \in group}) > 1
    BY DEF RevisionForks, Conflicting
  <2>2. {Version(q.doc) : q \in group} = {value[q] : q \in group}
    OBVIOUS
  <2>3. r \in revisions =>
          (Cardinality({value[q] : q \in group}) > 1 <=> \E q \in group : value[q] # value[r])
    <3>1. group \in SUBSET rows /\ (r \in revisions => r \in group)
      OBVIOUS
    <3> HIDE DEF group, value, revisions
    <3> QED BY <1>1, <3>1
  <2> QED BY <2>1, <2>2, <2>3
<1> QED BY <1>2, <1>3, <1>4

LEMMA NoConflict ==
    ASSUME NEW rows, IsFiniteSet(rows), NEW r \in rows
    PROVE  LineageReasons(r, rows) = {} <=> ~\E q \in rows : Contradict(r, q)
<1>1. LineageReasons(r, rows) = {} <=>
        r \notin SameVersionConflicts(rows) /\ r \notin OriginalConflicts(rows) /\ r \notin RevisionForks(rows)
  BY DEF LineageReasons
<1>2. \A q \in rows : Contradict(r, q) <=>
        \/ Version(q.doc) = Version(r.doc) /\ q.doc # r.doc
        \/ /\ r.doc.kind = "ORIGINAL"
           /\ q.doc.kind = "ORIGINAL" /\ Lineage(q.doc) = Lineage(r.doc) /\ q.doc # r.doc
        \/ /\ r.doc.kind # "ORIGINAL"
           /\ q.doc.kind = r.doc.kind /\ Target(q.doc) = Target(r.doc) /\ Version(q.doc) # Version(r.doc)
  BY DEF Contradict
<1> QED BY <1>1, <1>2, ConflictsAre

\* What an admitted file shares its fixture with.
LEMMA AdmittedAgree ==
    ASSUME Inv, Admitted
    PROVE  /\ batch = Batch(fixture, around) /\ batch.candidates = Collapsed(fixture)
           /\ \A r, q \in fixture : ~Contradict(r, q)
<1>1. batch = Batch(fixture, around)
  BY DEF Inv, Frame, Admitted, NoBatch
<1>2. batch.candidates = Collapsed(fixture)
  BY <1>1, AllOrNothing, BatchIs
<1>3. ASSUME NEW r \in fixture PROVE \A q \in fixture : ~Contradict(r, q)
  <2>1. \A q \in fixture : ReceiptReasons(q, fixture, around) = {}
    BY <1>1, <1>3, AllOrNothing
  <2>2. \A q \in fixture : LocalReasons(q, around.biased) = {}
    BY <2>1, AdmittedReceipt
  <2>3. {q \in fixture : LocalReasons(q, around.biased) = {}} = fixture
    BY <2>2
  <2>4. LineageReasons(r, fixture) = {}
    BY <2>1, <2>3, AdmittedReceipt
  <2> QED BY <2>4, NoConflict DEF Inv, Frame
<1> QED BY <1>1, <1>2, <1>3

\* For every fixture that is sound as a whole: a file that is good on its own
\* is admitted exactly if no other good file contradicts it, whatever the bad
\* ones say and in whatever order they come (admission.py:338).
THEOREM Blame == Spec => []BlameIsExact
<1>1. Inv => BlameIsExact
  <2> SUFFICES ASSUME Inv, batch # NoBatch, FixtureReasons(fixture, around) = {},
                      NEW r \in fixture, LocalReasons(r, FALSE) = {}
               PROVE  ReceiptStatus(r) = "ADMITTED" <=>
                        ~\E q \in fixture : LocalReasons(q, FALSE) = {} /\ Contradict(r, q)
    BY DEF BlameIsExact
  <2> DEFINE good == {q \in fixture : LocalReasons(q, around.biased) = {}}
  <2>1. batch = Batch(fixture, around)
    BY DEF Inv, Frame
  <2>2. around.biased = FALSE
    BY SoundFixture DEF Inv, Frame
  <2>3. ReceiptStatus(r) = "ADMITTED" <=> LineageReasons(r, good) = {}
    BY <2>1, <2>2, AllOrNothing, ReceiptOfSound
  <2>4. IsFiniteSet(good) /\ r \in good
    BY <2>2, FS_Subset DEF Inv, Frame
  <2>5. LineageReasons(r, good) = {} <=> ~\E q \in good : Contradict(r, q)
    <3> HIDE DEF good
    <3> QED BY <2>4, NoConflict
  <2> QED BY <2>2, <2>3, <2>5
<1> QED BY <1>1, Invariance, PTL

-----------------------------------------------------------------------------
(* Candidates *)

LEMMA Rows1 ==
    ASSUME Inv
    PROVE  \A r \in fixture : r.path \in Nat /\ r.seq \in Nat
BY RowsAssumption DEF Inv, Frame

\* Of the files that give one payload, the first is not collapsed.
LEMMA FirstIsKept ==
    ASSUME Inv, NEW r \in fixture
    PROVE  \E q \in Collapsed(fixture) : q.doc = r.doc /\ q.seq <= r.seq
<1> DEFINE same == {q \in fixture : q.doc = r.doc /\ q.seq <= r.seq}
           R == {pair \in same \X same : SortsBefore(pair[1], pair[2])}
<1>1. same \in SUBSET fixture /\ r \in same
  BY Rows1
<1>2. IsFiniteSet(same)
  BY <1>1, FS_Subset DEF Inv, Frame
<1>3. \A x, y \in same : <<x, y>> \in R <=> SortsBefore(x, y)
  OBVIOUS
<1>4. \A x \in same : ~SortsBefore(x, x)
  BY <1>1, Rows1 DEF SortsBefore
<1>5. \A x, y, z \in same : SortsBefore(x, y) /\ SortsBefore(y, z) => SortsBefore(x, z)
  BY <1>1, Rows1 DEF SortsBefore
<1>6. PICK q \in same : \A y \in same : <<y, q>> \notin R
  <2> HIDE DEF same, R
  <2> QED BY <1>1, <1>2, <1>3, <1>4, <1>5, Minimal
<1>7. ASSUME NEW p \in fixture, SameCandidate(q, p) PROVE ~SortsBefore(p, q)
  <2>1. p.doc = r.doc
    BY <1>7 DEF SameCandidate, Digest
  <2>2. CASE p \in same
    BY <1>3, <1>6, <2>2
  <2>3. CASE p \notin same
    BY <1>1, <2>1, <2>3, Rows1 DEF SortsBefore
  <2> QED BY <2>2, <2>3
<1> QED BY <1>7 DEF Collapsed

\* For every fixture: the candidates of an admitted batch never contradict one
\* another, each payload is among them once, and as its first admission
\* (admission.py:411).
THEOREM OneHistory == Spec => []CandidatesAreOneHistory
<1>1. Inv => CandidatesAreOneHistory
  <2> SUFFICES ASSUME Inv, Admitted
               PROVE  /\ \A r, q \in batch.candidates : r # q => r.doc # q.doc /\ ~Contradict(r, q)
                      /\ \A r \in fixture : \E q \in batch.candidates : q.doc = r.doc /\ q.seq <= r.seq
    BY DEF CandidatesAreOneHistory
  <2>1. batch.candidates = Collapsed(fixture) /\ \A r, q \in fixture : ~Contradict(r, q)
    BY AdmittedAgree
  <2>2. ASSUME NEW r \in Collapsed(fixture), NEW q \in Collapsed(fixture), r.doc = q.doc PROVE r = q
    <3>1. r \in fixture /\ q \in fixture /\ SameCandidate(r, q) /\ SameCandidate(q, r)
      BY <2>2 DEF Collapsed, SameCandidate, Digest
    <3>2. ~SortsBefore(q, r) /\ ~SortsBefore(r, q)
      BY <3>1 DEF Collapsed
    <3>3. r.path = q.path
      BY <3>1, <3>2, Rows1 DEF SortsBefore
    <3> QED BY <3>1, <3>3 DEF Inv, Frame
  <2>3. \A r \in fixture : \E q \in Collapsed(fixture) : q.doc = r.doc /\ q.seq <= r.seq
    BY FirstIsKept
  <2>4. Collapsed(fixture) \subseteq fixture
    BY DEF Collapsed
  <2> QED BY <2>1, <2>2, <2>3, <2>4
<1> QED BY <1>1, Invariance, PTL

-----------------------------------------------------------------------------
(* Replay *)

\* The events of a verified run and the files of its fixture, one to one.
LEMMA EventsAreFiles ==
    ASSUME Inv, Verified
    PROVE  /\ \A e \in events : e.receipt \in fixture
           /\ \A r \in fixture : \E e \in events : e.receipt = r
           /\ \A e, f \in events : Doc(e) = Doc(f) => e = f
           /\ \A r, q \in fixture : r.doc = q.doc => r = q
<1>1. EventSetDerived(events)
  BY DEF Inv, Checked
<1>2. {e.receipt : e \in events} = fixture
  BY <1>1 DEF EventSetDerived, EveryReceiptCited
<1>3. \A e, f \in events : GlobalKey(e) = GlobalKey(f) => e = f
  BY <1>1 DEF EventSetDerived, IngestFrozen, KeysDiffer
<1>4. \A e, f \in events : Doc(e) = Doc(f) => e = f
  BY <1>3 DEF GlobalKey
<1>5. \A r, q \in fixture : r.doc = q.doc => r = q
  BY <1>2, <1>4 DEF Doc
<1> QED BY <1>2, <1>4, <1>5

\* For every fixture: a verified run replays every candidate once and nothing
\* else, and no file of its fixture was collapsed (run_inputs.py:566).
THEOREM ReplayedOnce == Spec => []EveryCandidateReplayedOnce
<1>1. Inv => EveryCandidateReplayedOnce
  <2> SUFFICES ASSUME Inv, Verified
               PROVE  /\ \A r \in batch.candidates : Cardinality({e \in events : Doc(e) = r.doc}) = 1
                      /\ Cardinality(events) = Cardinality(batch.candidates)
                      /\ batch.candidates = fixture
    BY DEF EveryCandidateReplayedOnce
  <2>1. Collapsed(fixture) = fixture
    <3>1. ASSUME NEW r \in fixture, NEW q \in fixture, SameCandidate(r, q) PROVE ~SortsBefore(q, r)
      <4>1. r = q
        BY <3>1, EventsAreFiles DEF SameCandidate, Digest
      <4> QED BY <4>1, Rows1 DEF SortsBefore
    <3> QED BY <3>1 DEF Collapsed
  <2>2. batch.candidates = fixture
    BY <2>1, Sound, AdmittedAgree
  <2>3. ASSUME NEW r \in fixture PROVE Cardinality({e \in events : Doc(e) = r.doc}) = 1
    <3>1. PICK e \in events : e.receipt = r
      BY EventsAreFiles
    <3>2. {f \in events : Doc(f) = r.doc} = {e}
      BY <3>1, EventsAreFiles DEF Doc
    <3> QED BY <3>2, FS_Singleton
  <2>4. Cardinality(events) = Cardinality(fixture)
    <3> DEFINE receiptOf == [e \in events |-> e.receipt]
    <3>1. receiptOf \in [events -> fixture]
      BY EventsAreFiles
    <3>2. \A e, f \in events : receiptOf[e] = receiptOf[f] => e = f
      BY EventsAreFiles DEF Doc
    <3>3. \A r \in fixture : \E e \in events : receiptOf[e] = r
      BY EventsAreFiles
    <3>4. ExistsBijection(events, fixture)
      <4> HIDE DEF receiptOf
      <4>1. receiptOf \in Bijection(events, fixture)
        BY <3>1, <3>2, <3>3, Fun_IsBij
      <4> QED BY <4>1 DEF ExistsBijection
    <3> QED BY <3>4, FS_Bijection DEF Inv, Events
  <2> QED BY <2>2, <2>3, <2>4
<1> QED BY <1>1, Invariance, PTL

-----------------------------------------------------------------------------
(* Ranks *)

\* In a strict total order of a finite set, one more than the number of smaller
\* elements numbers the set from 1 without a gap.
Ranked(T, R, rank) ==
    /\ IsFiniteSet(T) /\ rank \in [T -> Nat]
    /\ \A x \in T : rank[x] = 1 + Cardinality({y \in T : <<y, x>> \in R})
    /\ \A x \in T : <<x, x>> \notin R
    /\ \A x, y, z \in T : <<x, y>> \in R /\ <<y, z>> \in R => <<x, z>> \in R
    /\ \A x, y \in T : x = y \/ <<x, y>> \in R \/ <<y, x>> \in R

LEMMA Ranks ==
    ASSUME NEW T, NEW R, NEW rank, Ranked(T, R, rank)
    PROVE  /\ \A x, y \in T : <<x, y>> \in R => rank[x] < rank[y]
           /\ {rank[x] : x \in T} = 1 .. Cardinality(T)
<1> DEFINE Below(x) == {y \in T : <<y, x>> \in R}
<1> USE DEF Ranked
<1>0. Cardinality(T) \in Nat
  BY FS_CardinalityType
<1>1. ASSUME NEW x \in T PROVE IsFiniteSet(Below(x)) /\ Cardinality(Below(x)) \in Nat
  <2>1. Below(x) \in SUBSET T
    OBVIOUS
  <2> HIDE DEF Below
  <2> QED BY <2>1, FS_Subset, FS_CardinalityType
<1>2. \A x \in T : rank[x] = 1 + Cardinality(Below(x))
  OBVIOUS
<1>3. ASSUME NEW x \in T PROVE rank[x] \in 1 .. Cardinality(T)
  <2>1. Below(x) \in SUBSET T /\ x \notin Below(x)
    OBVIOUS
  <2>2. Cardinality(Below(x)) <= Cardinality(T) /\ Cardinality(T) # Cardinality(Below(x))
    <3> HIDE DEF Below
    <3> QED BY <2>1, FS_Subset
  <2>3. rank[x] = 1 + Cardinality(Below(x))
    OBVIOUS
  <2>4. Cardinality(Below(x)) \in Nat
    BY <1>1
  <2> HIDE DEF Below
  <2>5. Cardinality(Below(x)) < Cardinality(T)
    BY <1>0, <2>2, <2>4
  <2> QED BY <1>0, <2>3, <2>4, <2>5
<1>4. ASSUME NEW x \in T, NEW y \in T, <<x, y>> \in R PROVE rank[x] < rank[y]
  <2>1. Below(x) \in SUBSET Below(y) /\ x \in Below(y) /\ x \notin Below(x)
    BY <1>4
  <2>2. Cardinality(Below(x)) <= Cardinality(Below(y)) /\ Cardinality(Below(x)) # Cardinality(Below(y))
    <3> HIDE DEF Below
    <3> QED BY <1>1, <2>1, FS_Subset
  <2> HIDE DEF Below
  <2> QED BY <1>1, <1>2, <2>2
<1>5. rank \in Surjection(T, 1 .. Cardinality(T))
  <2>1. rank \in [T -> 1 .. Cardinality(T)]
    BY <1>3
  <2>2. ASSUME NEW x \in T, NEW y \in T, rank[x] = rank[y] PROVE x = y
    <3>1. rank[x] \in Nat /\ ~(rank[x] < rank[y]) /\ ~(rank[y] < rank[x])
      BY <2>2
    <3>2. <<x, y>> \notin R /\ <<y, x>> \notin R
      BY <1>4, <3>1
    <3> QED BY <3>2
  <2>3. rank \in Injection(T, 1 .. Cardinality(T))
    BY <2>1, <2>2, Fun_IsInj
  <2>4. IsFiniteSet(1 .. Cardinality(T)) /\ Cardinality(1 .. Cardinality(T)) = Cardinality(T)
    BY <1>0, FS_Interval
  <2> QED BY <2>3, <2>4, FS_Injection
<1>6. \A n \in 1 .. Cardinality(T) : \E x \in T : rank[x] = n
  BY <1>5 DEF Surjection
<1> QED BY <1>3, <1>4, <1>6

LEMMA Eight == IsFiniteSet(1 .. 8)
<1>1. 1 \in Int /\ 8 \in Int
  OBVIOUS
<1> QED BY <1>1, FS_Interval

\* The order of eight numbers, the first that differs deciding.
LEMMA Lexicographic ==
    ASSUME NEW k, NEW l, NEW m, DOMAIN k = 1 .. 8, DOMAIN l = 1 .. 8,
           \A i \in 1 .. 8 : k[i] \in Nat /\ l[i] \in Nat /\ m[i] \in Nat
    PROVE  /\ ~Precedes(k, k)
           /\ Precedes(k, l) /\ Precedes(l, m) => Precedes(k, m)
           /\ Precedes(k, l) \/ Precedes(l, k) \/ \A i \in 1 .. 8 : k[i] = l[i]
           /\ k[1] < l[1] => Precedes(k, l)
<1>1. ~Precedes(k, k)
  BY DEF Precedes
<1>2. ASSUME Precedes(k, l), Precedes(l, m) PROVE Precedes(k, m)
  <2>1. PICK i \in 1 .. 8 : k[i] < l[i] /\ \A j \in 1 .. (i - 1) : k[j] = l[j]
    BY <1>2 DEF Precedes
  <2>2. PICK j \in 1 .. 8 : l[j] < m[j] /\ \A n \in 1 .. (j - 1) : l[n] = m[n]
    BY <1>2 DEF Precedes
  <2>3. CASE i <= j
    <3>1. l[i] <= m[i]
      BY <2>2, <2>3
    <3>2. k[i] < m[i] /\ \A n \in 1 .. (i - 1) : k[n] = m[n]
      BY <2>1, <2>2, <2>3, <3>1
    <3> QED BY <3>2 DEF Precedes
  <2>4. CASE j < i
    <3>1. k[j] < m[j] /\ \A n \in 1 .. (j - 1) : k[n] = m[n]
      BY <2>1, <2>2, <2>4
    <3> QED BY <3>1 DEF Precedes
  <2> QED BY <2>3, <2>4
<1>3. Precedes(k, l) \/ Precedes(l, k) \/ \A i \in 1 .. 8 : k[i] = l[i]
  <2> SUFFICES ASSUME NEW n \in 1 .. 8, k[n] # l[n] PROVE Precedes(k, l) \/ Precedes(l, k)
    OBVIOUS
  <2> DEFINE differ == {i \in 1 .. 8 : k[i] # l[i]}
             smaller == {pair \in differ \X differ : pair[1] < pair[2]}
  <2>0. n \in differ /\ differ \in SUBSET (1 .. 8)
    OBVIOUS
  <2>1. differ \in SUBSET (1 .. 8) /\ differ # {} /\ IsFiniteSet(1 .. 8)
    <3> HIDE DEF differ
    <3> QED BY <2>0, Eight
  <2>2. IsFiniteSet(differ)
    <3> HIDE DEF differ
    <3> QED BY <2>1, FS_Subset
  <2>3. \A x, y \in differ : <<x, y>> \in smaller <=> x < y
    OBVIOUS
  <2>4. \A x \in differ : <<x, x>> \notin smaller
    BY <2>3
  <2>5. \A x, y, z \in differ : <<x, y>> \in smaller /\ <<y, z>> \in smaller => <<x, z>> \in smaller
    <3> HIDE DEF smaller
    <3> QED BY <2>3
  <2>6. PICK i \in differ : \A j \in differ : <<j, i>> \notin smaller
    <3> HIDE DEF differ, smaller
    <3> QED BY <2>1, <2>2, <2>4, <2>5, Minimal
  <2>7. ASSUME NEW j \in 1 .. (i - 1) PROVE k[j] = l[j]
    <3>1. j \in 1 .. 8 /\ j < i
      OBVIOUS
    <3>2. j \notin differ
      <4> HIDE DEF differ, smaller
      <4> QED BY <2>3, <2>6, <3>1
    <3> QED BY <3>1, <3>2
  <2>8. i \in 1 .. 8 /\ (k[i] < l[i] \/ l[i] < k[i])
    OBVIOUS
  <2> QED BY <2>7, <2>8 DEF Precedes
<1>4. k[1] < l[1] => Precedes(k, l)
  BY DEF Precedes
<1> QED BY <1>1, <1>2, <1>3, <1>4

\* The keys of the events of a verified run are such numbers, the slot first.
LEMMA Keys ==
    ASSUME Inv, Verified, NEW e \in events
    PROVE  /\ Doc(e) \in Docs /\ e.receipt.slot = Doc(e).slot
           /\ DOMAIN GlobalKey(e) = 1 .. 8 /\ GlobalKey(e)[1] = Doc(e).slot
           /\ \A i \in 1 .. 8 : GlobalKey(e)[i] \in Nat
<1>1. e.receipt \in fixture /\ ReceiptReasons(e.receipt, fixture, around) = {}
  BY Sound, EventsAreFiles
<1>2. Doc(e) \in Docs
  BY <1>1, AdmittedReceipt, GoodFile DEF Inv, Frame, Doc
<1>3. e.receipt.slot = Doc(e).slot
  BY DEF Inv, Checked, EventSetDerived, EventsBindReceipts
<1>4. KindRank[Doc(e).kind] \in Nat
  BY <1>2 DEF KindRank, Docs
<1>5. Doc(e).supersedes + Doc(e).retracts \in Nat
  BY <1>2 DEF Docs
<1>6. DOMAIN GlobalKey(e) = 1 .. 8 /\ GlobalKey(e)[1] = Doc(e).slot
  BY DEF GlobalKey
<1>7. \A i \in 1 .. 8 : GlobalKey(e)[i] \in Nat
  BY <1>2, <1>4, <1>5 DEF GlobalKey, Docs
<1> QED BY <1>2, <1>3, <1>6, <1>7

\* A later slot has a later group, and no two events are equal in the order.
LEMMA GroupsGrow ==
    ASSUME Inv, Verified, NEW e \in events, NEW f \in events, Doc(e).slot < Doc(f).slot
    PROVE  EventGroup(Doc(e).slot, events) < EventGroup(Doc(f).slot, events)
<1> DEFINE slots == {Doc(g).slot : g \in events}
           UpTo(slot) == {Doc(g).slot : g \in {h \in events : Doc(h).slot <= slot}}
           slot == [g \in events |-> Doc(g).slot]
<1>0. \A g \in events : Doc(g).slot \in Nat
  BY Keys DEF Docs
<1>1. slot \in [events -> slots] /\ \A t \in slots : \E g \in events : slot[g] = t
  OBVIOUS
<1>2. IsFiniteSet(slots)
  <2> HIDE DEF slot, slots
  <2> QED BY <1>1, FiniteImage DEF Inv, Events
<1>3. UpTo(Doc(f).slot) \in SUBSET slots
  OBVIOUS
<1>4. UpTo(Doc(e).slot) \in SUBSET UpTo(Doc(f).slot)
  BY <1>0
<1>5. Doc(f).slot \in UpTo(Doc(f).slot) /\ Doc(f).slot \notin UpTo(Doc(e).slot)
  BY <1>0
<1>6. Cardinality(UpTo(Doc(e).slot)) < Cardinality(UpTo(Doc(f).slot))
  <2> HIDE DEF UpTo, slots
  <2>1. IsFiniteSet(UpTo(Doc(f).slot)) /\ IsFiniteSet(UpTo(Doc(e).slot))
    BY <1>2, <1>3, <1>4, FS_Subset
  <2>2. Cardinality(UpTo(Doc(f).slot)) \in Nat /\ Cardinality(UpTo(Doc(e).slot)) \in Nat
    BY <2>1, FS_CardinalityType
  <2>3. /\ Cardinality(UpTo(Doc(e).slot)) <= Cardinality(UpTo(Doc(f).slot))
        /\ Cardinality(UpTo(Doc(f).slot)) # Cardinality(UpTo(Doc(e).slot))
    BY <1>4, <1>5, <2>1, FS_Subset
  <2> QED BY <2>2, <2>3
<1> QED BY <1>6 DEF EventGroup

LEMMA TicksGrow ==
    ASSUME NEW a \in Int, NEW b \in Int, a < b
    PROVE  a * ReplayTick < b * ReplayTick
<1>1. ReplayTick \in Nat /\ ReplayTick > 0
  BY SessionAssumption
<1>2. (b - a) * ReplayTick > 0
  BY <1>1
<1>3. b * ReplayTick = a * ReplayTick + (b - a) * ReplayTick
  BY <1>1
<1> QED BY <1>1, <1>2, <1>3

\* For every fixture: a verified run numbers its events from one without a gap,
\* in the order in which they became available, and events share a clock tick
\* exactly if they share a slot (run_inputs.py:568).
THEOREM NoLookAhead == Spec => []ReplayFollowsAvailability
<1>1. Inv => ReplayFollowsAvailability
  <2> SUFFICES ASSUME Inv, Verified
               PROVE  /\ {e.ingest : e \in events} = 1 .. Cardinality(events)
                      /\ \A e, f \in events :
                            /\ e.receipt.slot < f.receipt.slot <=> e.clock < f.clock
                            /\ e.clock < f.clock => e.ingest < f.ingest
    BY DEF ReplayFollowsAvailability
  <2> DEFINE R == {pair \in events \X events : Precedes(GlobalKey(pair[1]), GlobalKey(pair[2]))}
             rank == [e \in events |-> e.ingest]
  <2>0. IsFiniteSet(events) /\ EventSetDerived(events)
    BY DEF Inv, Events, Checked
  <2>1. \A e, f \in events : <<e, f>> \in R <=> Precedes(GlobalKey(e), GlobalKey(f))
    OBVIOUS
  <2>2. rank \in [events -> Nat]
    BY RowsAssumption DEF Inv, Events
  <2>3. \A e \in events : rank[e] = 1 + Cardinality({f \in events : <<f, e>> \in R})
    <3> TAKE e \in events
    <3>1. e.ingest = 1 + Cardinality({f \in events : Precedes(GlobalKey(f), GlobalKey(e))})
      BY <2>0 DEF EventSetDerived, IngestFrozen, Rank
    <3>2. {f \in events : <<f, e>> \in R} = {f \in events : Precedes(GlobalKey(f), GlobalKey(e))}
      BY <2>1
    <3> QED BY <3>1, <3>2
  <2>4. \A e \in events : <<e, e>> \notin R
    <3> HIDE DEF R
    <3> QED BY <2>1, Keys, Lexicographic
  <2>5. \A e, f, g \in events : <<e, f>> \in R /\ <<f, g>> \in R => <<e, g>> \in R
    <3> HIDE DEF R
    <3> QED BY <2>1, Keys, Lexicographic
  <2>6. \A e, f \in events : e = f \/ <<e, f>> \in R \/ <<f, e>> \in R
    <3> TAKE e \in events, f \in events
    <3>1. CASE \A i \in 1 .. 8 : GlobalKey(e)[i] = GlobalKey(f)[i]
      <4>1. GlobalKey(e) = GlobalKey(f)
        BY <3>1 DEF GlobalKey
      <4> QED BY <2>0, <4>1 DEF EventSetDerived, IngestFrozen, KeysDiffer
    <3>2. CASE ~\A i \in 1 .. 8 : GlobalKey(e)[i] = GlobalKey(f)[i]
      <4> HIDE DEF R
      <4> QED BY <2>1, <3>2, Keys, Lexicographic
    <3> QED BY <3>1, <3>2
  <2>7. /\ \A e, f \in events : <<e, f>> \in R => rank[e] < rank[f]
        /\ {rank[e] : e \in events} = 1 .. Cardinality(events)
    <3>1. Ranked(events, R, rank)
      <4> HIDE DEF R, rank
      <4> QED BY <2>0, <2>2, <2>3, <2>4, <2>5, <2>6 DEF Ranked
    <3> HIDE DEF R, rank
    <3> QED BY <3>1, Ranks
  <2>8. \A e \in events : e.clock = (e.group - 1) * ReplayTick /\ e.group = EventGroup(Doc(e).slot, events)
                          /\ e.group \in Int /\ Doc(e).slot \in Nat /\ e.clock \in Int
    BY <2>0, Keys, RowsAssumption, SessionAssumption DEF Inv, Events, EventSetDerived, GroupsFrozen, Docs
  <2>9. ASSUME NEW e \in events, NEW f \in events, Doc(e).slot < Doc(f).slot PROVE e.clock < f.clock
    <3>1. e.group - 1 < f.group - 1
      BY <2>8, <2>9, GroupsGrow
    <3> QED BY <2>8, <3>1, TicksGrow
  <2>10. \A e, f \in events : Doc(e).slot = Doc(f).slot => e.clock = f.clock
    BY <2>8
  <2>11. \A e, f \in events : Doc(e).slot < Doc(f).slot <=> e.clock < f.clock
    BY <2>8, <2>9, <2>10
  <2>12. ASSUME NEW e \in events, NEW f \in events, Doc(e).slot < Doc(f).slot PROVE e.ingest < f.ingest
    <3>1. Precedes(GlobalKey(e), GlobalKey(f))
      BY <2>12, Keys, Lexicographic
    <3> QED BY <2>1, <2>7, <3>1
  <2>13. {e.ingest : e \in events} = 1 .. Cardinality(events)
    BY <2>7
  <2> QED BY <2>11, <2>12, <2>13, Keys
<1> QED BY <1>1, Invariance, PTL

-----------------------------------------------------------------------------
(* The schedule *)

\* Slots are numbered from one in their order.
LEMMA SlotsAreRanked ==
    ASSUME Inv, Verified
    PROVE  /\ IsFiniteSet(Slots) /\ GroupCount \in Nat /\ \A s \in Slots : s \in Nat
           /\ \A s \in Slots : GroupOf(s) \in 1 .. GroupCount
           /\ \A s, t \in Slots : s < t <=> GroupOf(s) < GroupOf(t)
           /\ \A s, t \in Slots : GroupOf(s) = GroupOf(t) => s = t
           /\ \A g \in 1 .. GroupCount : \E s \in Slots : GroupOf(s) = g
<1> DEFINE R == {pair \in Slots \X Slots : pair[1] < pair[2]}
           rank == [s \in Slots |-> GroupOf(s)]
           slot == [r \in fixture |-> r.slot]
<1>1. IsFiniteSet(Slots)
  <2>1. slot \in [fixture -> Slots] /\ \A t \in Slots : \E r \in fixture : slot[r] = t
    BY DEF Slots
  <2> HIDE DEF slot
  <2> QED BY <2>1, FiniteImage DEF Inv, Frame
<1>2. \A s \in Slots : s \in Nat
  <2>1. \A r \in fixture : r.slot \in Nat
    <3>1. \A r \in fixture : \E e \in events : e.receipt = r
      BY EventsAreFiles
    <3>2. \A e \in events : e.receipt.slot = Doc(e).slot /\ Doc(e).slot \in Nat
      BY Keys DEF Docs
    <3> QED BY <3>1, <3>2
  <2> QED BY <2>1 DEF Slots
<1>3. ASSUME NEW s \in Slots
      PROVE  GroupOf(s) = 1 + Cardinality({t \in Slots : <<t, s>> \in R}) /\ GroupOf(s) \in Nat
  <2> DEFINE below == {t \in Slots : t < s}
  <2>1. {t \in Slots : t <= s} = below \cup {s} /\ s \notin below
    BY <1>2
  <2>2. below = {t \in Slots : <<t, s>> \in R} /\ below \in SUBSET Slots
    OBVIOUS
  <2>3. IsFiniteSet(below)
    <3> HIDE DEF below
    <3> QED BY <1>1, <2>2, FS_Subset
  <2>4. Cardinality(below) \in Nat /\ Cardinality(below \cup {s}) = Cardinality(below) + 1
    <3> HIDE DEF below
    <3> QED BY <2>1, <2>3, FS_AddElement, FS_CardinalityType
  <2>5. GroupOf(s) = Cardinality(below \cup {s})
    BY <2>1 DEF GroupOf
  <2> HIDE DEF below
  <2> QED BY <2>2, <2>4, <2>5
<1>4. \A s, t \in Slots : <<s, t>> \in R <=> s < t
  OBVIOUS
<1>5. Ranked(Slots, R, rank)
  <2>1. rank \in [Slots -> Nat]
    BY <1>3
  <2>2. \A s \in Slots : rank[s] = 1 + Cardinality({t \in Slots : <<t, s>> \in R})
    BY <1>3
  <2> HIDE DEF R, rank
  <2> QED BY <1>1, <1>2, <1>4, <2>1, <2>2 DEF Ranked
<1>6. /\ \A s, t \in Slots : <<s, t>> \in R => rank[s] < rank[t]
      /\ {rank[s] : s \in Slots} = 1 .. Cardinality(Slots)
  <2> HIDE DEF R, rank
  <2> QED BY <1>5, Ranks
<1>7. GroupCount \in Nat
  BY <1>1, FS_CardinalityType DEF GroupCount
<1>8. \A s, t \in Slots : s < t => GroupOf(s) < GroupOf(t)
  BY <1>4, <1>6
<1>9. \A s \in Slots : GroupOf(s) \in 1 .. GroupCount
  BY <1>6 DEF GroupCount
<1>10. \A s, t \in Slots : s < t <=> GroupOf(s) < GroupOf(t)
  <2> TAKE s \in Slots, t \in Slots
  <2>1. GroupOf(s) \in Nat /\ GroupOf(t) \in Nat /\ s \in Nat /\ t \in Nat
    BY <1>2, <1>7, <1>9
  <2>2. (s < t => GroupOf(s) < GroupOf(t)) /\ (t < s => GroupOf(t) < GroupOf(s))
    BY <1>8
  <2> QED BY <2>1, <2>2
<1>11. \A s, t \in Slots : GroupOf(s) = GroupOf(t) => s = t
  <2> SUFFICES ASSUME NEW s \in Slots, NEW t \in Slots, GroupOf(s) = GroupOf(t) PROVE s = t
    OBVIOUS
  <2>1. GroupOf(s) \in Nat /\ GroupOf(t) \in Nat /\ s \in Nat /\ t \in Nat
    BY <1>2, <1>7, <1>9
  <2>2. ~(s < t) /\ ~(t < s)
    BY <1>10, <2>1
  <2> QED BY <2>1, <2>2
<1>12. \A g \in 1 .. GroupCount : \E s \in Slots : GroupOf(s) = g
  BY <1>6 DEF GroupCount
<1> QED BY <1>1, <1>2, <1>7, <1>9, <1>10, <1>11, <1>12

\* The groups of the events are those of the schedule, and each has one.
LEMMA GroupsAgree ==
    ASSUME Inv, Verified
    PROVE  /\ \A e \in events : e.receipt.slot \in Slots /\ e.group = GroupOf(e.receipt.slot)
           /\ \A s \in Slots : \E e \in events : e.receipt.slot = s
<1>1. /\ \A e \in events : e.receipt \in fixture
      /\ \A r \in fixture : \E e \in events : e.receipt = r
  BY EventsAreFiles
<1>2. \A e \in events : Doc(e).slot = e.receipt.slot
  BY Keys
<1>3. ASSUME NEW e \in events PROVE e.group = GroupOf(e.receipt.slot)
  <2>1. e.group = EventGroup(Doc(e).slot, events)
    BY DEF Inv, Checked, EventSetDerived, GroupsFrozen
  <2>2. {Doc(f).slot : f \in {g \in events : Doc(g).slot <= Doc(e).slot}} = {s \in Slots : s <= e.receipt.slot}
    <3>1. ASSUME NEW s \in Slots, s <= e.receipt.slot
          PROVE  \E f \in {g \in events : Doc(g).slot <= Doc(e).slot} : s = Doc(f).slot
      <4>1. PICK r \in fixture : r.slot = s
        BY DEF Slots
      <4>2. PICK f \in events : f.receipt = r
        BY <1>1
      <4>3. Doc(f).slot = s /\ Doc(f).slot <= Doc(e).slot
        BY <1>2, <3>1, <4>1, <4>2
      <4> QED BY <4>3
    <3>2. ASSUME NEW f \in events, Doc(f).slot <= Doc(e).slot
          PROVE  Doc(f).slot \in Slots /\ Doc(f).slot <= e.receipt.slot
      BY <1>1, <1>2, <3>2 DEF Slots
    <3> QED BY <3>1, <3>2
  <2> QED BY <2>1, <2>2 DEF EventGroup, GroupOf
<1>4. \A s \in Slots : \E e \in events : e.receipt.slot = s
  BY <1>1 DEF Slots
<1>5. \A e \in events : e.receipt.slot \in Slots
  BY <1>1 DEF Slots
<1> QED BY <1>3, <1>4, <1>5

LEMMA Induction ==
    ASSUME NEW T, 0 \in T, \A n \in Nat : n \in T => n + 1 \in T
    PROVE  Nat \subseteq T
<1> DEFINE U == Nat \ T
<1>1. ASSUME U # {} PROVE FALSE
  <2>1. PICK x \in U : \A y \in U : ~(<<y, x>> \in OpToRel(<, Nat))
    BY <1>1, WFMin, NatLessThanWellFounded
  <2>2. x \in Nat /\ x # 0 /\ x \notin T
    BY <2>1
  <2>3. x - 1 \in Nat /\ x - 1 < x /\ x - 1 + 1 = x
    BY <2>2
  <2>4. x - 1 \in U
    BY <2>2, <2>3
  <2> QED BY <2>1, <2>2, <2>3, <2>4 DEF OpToRel
<1> QED BY <1>1

\* A finite set of numbers has a greatest.
LEMMA Greatest ==
    ASSUME NEW T, IsFiniteSet(T), T # {}, \A x \in T : x \in Nat
    PROVE  Max(T) \in T /\ \A y \in T : Max(T) >= y
<1> DEFINE R == {pair \in T \X T : pair[1] > pair[2]}
<1>1. \A x, y \in T : <<x, y>> \in R <=> x > y
  OBVIOUS
<1>2. PICK x \in T : \A y \in T : <<y, x>> \notin R
  <2> HIDE DEF R
  <2>1. \A x \in T : <<x, x>> \notin R
    BY <1>1
  <2>2. \A x, y, z \in T : <<x, y>> \in R /\ <<y, z>> \in R => <<x, z>> \in R
    BY <1>1
  <2> QED BY <2>1, <2>2, Minimal
<1>3. ASSUME NEW y \in T PROVE x >= y
  <2>1. ~(y > x)
    <3> HIDE DEF R
    <3> QED BY <1>1, <1>2
  <2>2. x \in Nat /\ y \in Nat
    OBVIOUS
  <2> QED BY <2>1, <2>2
<1> QED BY <1>3 DEF Max

LEMMA GreaterOfTwo ==
    ASSUME NEW a \in Nat, NEW b \in Nat
    PROVE  Max({a, b}) \in Nat /\ Max({a, b}) >= a /\ Max({a, b}) >= b
<1>1. \E x \in {a, b} : \A y \in {a, b} : x >= y
  OBVIOUS
<1> QED BY <1>1 DEF Max

\* The running maximum of the numbers m, from start on.
MaximaEquation(f, start, m, n) ==
    f = [g \in 0 .. n |-> IF g = 0 THEN start ELSE Max({f[g - 1], m[g]})]

LEMMA RunningMaxima ==
    ASSUME NEW start \in Nat, NEW n \in Nat, NEW m, \A g \in 1 .. n : m[g] \in Nat
    PROVE  \E f : MaximaEquation(f, start, m, n)
<1> DEFINE Good(f, k) == /\ f[0] = start
                         /\ \A g \in 1 .. k : f[g] = Max({f[g - 1], m[g]})
           Q == {k \in Nat : k <= n => \E f \in [0 .. k -> Nat] : Good(f, k)}
<1>1. 0 \in Q
  <2>1. [g \in 0 .. 0 |-> start] \in [0 .. 0 -> Nat] /\ Good([g \in 0 .. 0 |-> start], 0)
    OBVIOUS
  <2> QED BY <2>1
<1>2. ASSUME NEW k \in Nat, k \in Q PROVE k + 1 \in Q
  <2> SUFFICES ASSUME k + 1 <= n PROVE \E f \in [0 .. (k + 1) -> Nat] : Good(f, k + 1)
    <3> HIDE DEF Good
    <3> QED OBVIOUS
  <2>1. PICK f \in [0 .. k -> Nat] : Good(f, k)
    <3>1. k <= n
      OBVIOUS
    <3> QED BY <1>2, <3>1
  <2> DEFINE next == Max({f[k], m[k + 1]})
             h == [g \in 0 .. (k + 1) |-> IF g = k + 1 THEN next ELSE f[g]]
  <2>2. next \in Nat
    <3>1. f[k] \in Nat /\ m[k + 1] \in Nat
      BY <2>1
    <3> QED BY <3>1, GreaterOfTwo
  <2>3. h \in [0 .. (k + 1) -> Nat] /\ h[0] = start
    <3> HIDE DEF next
    <3> QED BY <2>1, <2>2
  <2>4. ASSUME NEW g \in 1 .. (k + 1) PROVE h[g] = Max({h[g - 1], m[g]})
    <3>1. g - 1 \in 0 .. (k + 1) /\ g - 1 # k + 1 /\ h[g - 1] = f[g - 1]
      OBVIOUS
    <3>2. CASE g = k + 1
      BY <3>1, <3>2
    <3>3. CASE g # k + 1
      <4>1. g \in 1 .. k /\ h[g] = f[g]
        BY <3>3
      <4> HIDE DEF h
      <4> QED BY <2>1, <3>1, <4>1
    <3> QED BY <3>2, <3>3
  <2>5. h \in [0 .. (k + 1) -> Nat] /\ Good(h, k + 1)
    <3> HIDE DEF h
    <3> QED BY <2>3, <2>4
  <2> HIDE DEF h, Good
  <2> QED BY <2>5
<1>3. n \in Q
  <2> HIDE DEF Q
  <2> QED BY <1>1, <1>2, Induction
<1>4. PICK f \in [0 .. n -> Nat] : Good(f, n)
  <2> HIDE DEF Good
  <2> QED BY <1>3
<1>5. f = [g \in 0 .. n |-> IF g = 0 THEN start ELSE Max({f[g - 1], m[g]})]
  <2>1. \A g \in 0 .. n : f[g] = IF g = 0 THEN start ELSE Max({f[g - 1], m[g]})
    BY <1>4
  <2> QED BY <1>4, <2>1
<1>6. MaximaEquation(f, start, m, n)
  BY <1>5 DEF MaximaEquation
<1> QED BY <1>6

\* Such a maximum never falls, and covers each of the numbers.
LEMMA MaximaCover ==
    ASSUME NEW start \in Nat, NEW n \in Nat, NEW m, \A g \in 1 .. n : m[g] \in Nat,
           NEW f, MaximaEquation(f, start, m, n)
    PROVE  \A g \in 1 .. n : /\ f[g - 1] \in Nat /\ f[g] \in Nat
                             /\ f[g - 1] <= f[g] /\ m[g] <= f[g]
<1> DEFINE Q == {k \in Nat : k <= n => f[k] \in Nat}
<1>1. f[0] = start /\ \A g \in 1 .. n : f[g] = Max({f[g - 1], m[g]})
  <2>1. PICK h : h = [g \in 0 .. n |-> IF g = 0 THEN start ELSE Max({f[g - 1], m[g]})]
    OBVIOUS
  <2>2. h[0] = start /\ \A g \in 1 .. n : h[g] = Max({f[g - 1], m[g]})
    BY <2>1
  <2>3. f = h
    BY <2>1 DEF MaximaEquation
  <2> QED BY <2>2, <2>3
<1>2. 0 \in Q
  BY <1>1
<1>3. ASSUME NEW k \in Nat, k \in Q PROVE k + 1 \in Q
  <2> SUFFICES ASSUME k + 1 <= n PROVE f[k + 1] \in Nat
    OBVIOUS
  <2>1. f[k] \in Nat /\ m[k + 1] \in Nat /\ f[k + 1] = Max({f[k], m[k + 1]})
    BY <1>1, <1>3
  <2> QED BY <2>1, GreaterOfTwo
<1>4. \A k \in Nat : k \in Q
  <2> HIDE DEF Q
  <2> QED BY <1>2, <1>3, Induction
<1>5. ASSUME NEW g \in 1 .. n
      PROVE  f[g - 1] \in Nat /\ f[g] \in Nat /\ f[g - 1] <= f[g] /\ m[g] <= f[g]
  <2>1. f[g - 1] \in Nat /\ m[g] \in Nat /\ f[g] = Max({f[g - 1], m[g]})
    BY <1>1, <1>4
  <2>2. Max({f[g - 1], m[g]}) \in Nat /\ Max({f[g - 1], m[g]}) >= f[g - 1] /\ Max({f[g - 1], m[g]}) >= m[g]
    BY <2>1, GreaterOfTwo
  <2> QED BY <2>1, <2>2
<1> QED BY <1>5

\* The cutoffs are such maxima, of the admissions of each group.
LEMMA CutoffsGrow ==
    ASSUME Inv, Verified
    PROVE  \A g \in 1 .. GroupCount :
              /\ Cutoff[g - 1] <= Cutoff[g]
              /\ \A r \in fixture : r.slot = SlotOf(g) => r.seq <= Cutoff[g]
<1> DEFINE Sequences(slot) == {r.seq : r \in {q \in fixture : q.slot = slot}}
           m == [g \in 1 .. GroupCount |-> SlotMaximum(SlotOf(g))]
<1>1. GroupCount \in Nat /\ configSequence \in Nat
  BY SlotsAreRanked, SessionAssumption DEF Inv, Frame
<1>2. ASSUME NEW g \in 1 .. GroupCount
      PROVE  /\ SlotMaximum(SlotOf(g)) \in Nat
             /\ \A r \in fixture : r.slot = SlotOf(g) => r.seq <= SlotMaximum(SlotOf(g))
  <2>1. PICK slot : slot = SlotOf(g)
    OBVIOUS
  <2>2. slot \in Slots
    BY <2>1, SlotsAreRanked DEF SlotOf
  <2>3. PICK q \in fixture : q.slot = slot
    BY <2>2 DEF Slots
  <2>4. Sequences(slot) # {} /\ \A n \in Sequences(slot) : n \in Nat
    <3>1. q.seq \in Sequences(slot)
      BY <2>3
    <3>2. \A r \in fixture : r.seq \in Nat
      BY RowsAssumption DEF Inv, Frame
    <3> QED BY <3>1, <3>2
  <2>5. IsFiniteSet(Sequences(slot))
    <3> DEFINE there == {r \in fixture : r.slot = slot}
               seq == [r \in there |-> r.seq]
    <3>1. IsFiniteSet(there)
      <4>1. there \in SUBSET fixture
        OBVIOUS
      <4> HIDE DEF there
      <4> QED BY <4>1, FS_Subset DEF Inv, Frame
    <3>2. seq \in [there -> Sequences(slot)] /\ \A n \in Sequences(slot) : \E r \in there : seq[r] = n
      OBVIOUS
    <3> HIDE DEF there, seq, Sequences
    <3> QED BY <3>1, <3>2, FiniteImage
  <2>6. Max(Sequences(slot)) \in Sequences(slot) /\ \A n \in Sequences(slot) : Max(Sequences(slot)) >= n
    <3> HIDE DEF Sequences
    <3> QED BY <2>4, <2>5, Greatest
  <2>7. SlotMaximum(slot) = Max(Sequences(slot))
    BY DEF SlotMaximum
  <2>8. \A r \in fixture : r.slot = slot => r.seq \in Sequences(slot)
    OBVIOUS
  <2> HIDE DEF Sequences
  <2>9. SlotMaximum(slot) \in Nat
    BY <2>4, <2>6, <2>7
  <2>10. \A r \in fixture : r.slot = slot => r.seq <= SlotMaximum(slot)
    BY <2>4, <2>6, <2>7, <2>8
  <2> QED BY <2>1, <2>9, <2>10
<1>3. \A g \in 1 .. GroupCount : m[g] \in Nat /\ m[g] = SlotMaximum(SlotOf(g))
  BY <1>2
<1>4. MaximaEquation(Cutoff, configSequence, m, GroupCount)
  <2> DEFINE Step(f) == [g \in 0 .. GroupCount |->
                           IF g = 0 THEN configSequence ELSE Max({f[g - 1], SlotMaximum(SlotOf(g))})]
  <2>1. ASSUME NEW f PROVE MaximaEquation(f, configSequence, m, GroupCount) <=> f = Step(f)
    <3>1. [g \in 0 .. GroupCount |-> IF g = 0 THEN configSequence ELSE Max({f[g - 1], m[g]})] = Step(f)
      <4>1. \A g \in 0 .. GroupCount : g # 0 => m[g] = SlotMaximum(SlotOf(g))
        BY <1>3
      <4> HIDE DEF m
      <4> QED BY <4>1
    <3> HIDE DEF m, Step
    <3> QED BY <3>1 DEF MaximaEquation
  <2>2. \E f : MaximaEquation(f, configSequence, m, GroupCount)
    <3> HIDE DEF m
    <3> QED BY <1>1, <1>3, RunningMaxima
  <2>3. \E f : f = Step(f)
    <3> HIDE DEF m, Step
    <3> QED BY <2>1, <2>2
  <2>4. Cutoff = CHOOSE f : f = Step(f)
    BY DEF Cutoff
  <2>5. Cutoff = Step(Cutoff)
    <3> HIDE DEF Step
    <3> QED BY <2>3, <2>4
  <2> HIDE DEF m, Step
  <2> QED BY <2>1, <2>5
<1>5. \A g \in 1 .. GroupCount : /\ Cutoff[g - 1] \in Nat /\ Cutoff[g] \in Nat
                                 /\ Cutoff[g - 1] <= Cutoff[g] /\ m[g] <= Cutoff[g]
  <2> HIDE DEF m
  <2> QED BY <1>1, <1>3, <1>4, MaximaCover
<1>6. ASSUME NEW g \in 1 .. GroupCount, NEW r \in fixture, r.slot = SlotOf(g) PROVE r.seq <= Cutoff[g]
  <2>1. r.seq <= m[g] /\ m[g] <= Cutoff[g] /\ m[g] \in Nat /\ Cutoff[g] \in Nat
    BY <1>2, <1>3, <1>5, <1>6
  <2>2. r.seq \in Nat
    BY RowsAssumption DEF Inv, Frame
  <2> HIDE DEF m
  <2> QED BY <2>1, <2>2
<1> QED BY <1>5, <1>6

\* For every fixture: what the receipts schedule and what the events say are
\* the same groups, each with events; a group's cutoff covers whatever was
\* admitted for it and never falls (run_inputs.py:615).
THEOREM CutoffsCover == Spec => []CutoffsCoverGroups
<1>1. Inv => CutoffsCoverGroups
  <2> SUFFICES ASSUME Inv, Verified
               PROVE  /\ \A e \in events : e.group = GroupOf(e.receipt.slot) /\ e.receipt.seq <= Cutoff[e.group]
                      /\ \A g \in 1 .. GroupCount : Cutoff[g - 1] <= Cutoff[g]
                      /\ \A g \in 1 .. GroupCount : \E e \in events : e.group = g
    BY DEF CutoffsCoverGroups
  <2>1. ASSUME NEW e \in events PROVE e.group = GroupOf(e.receipt.slot) /\ e.receipt.seq <= Cutoff[e.group]
    <3>1. e.receipt.slot \in Slots /\ e.group = GroupOf(e.receipt.slot) /\ e.receipt \in fixture
      BY GroupsAgree, EventsAreFiles
    <3>2. e.group \in 1 .. GroupCount
      BY <3>1, SlotsAreRanked
    <3>3. SlotOf(e.group) = e.receipt.slot
      <4>1. SlotOf(e.group) \in Slots /\ GroupOf(SlotOf(e.group)) = e.group
        BY <3>1 DEF SlotOf
      <4> QED BY <3>1, <4>1, SlotsAreRanked
    <3> QED BY <3>1, <3>2, <3>3, CutoffsGrow
  <2>2. ASSUME NEW g \in 1 .. GroupCount PROVE \E e \in events : e.group = g
    <3>1. PICK s \in Slots : GroupOf(s) = g
      BY SlotsAreRanked
    <3> QED BY <3>1, GroupsAgree
  <2> QED BY <2>1, <2>2, CutoffsGrow
<1> QED BY <1>1, Invariance, PTL

-----------------------------------------------------------------------------
(* The model requests *)

LEMMA Division ==
    ASSUME NEW a \in Nat, NEW m \in Nat \ {0}
    PROVE  a \div m \in Nat /\ a % m \in 0 .. (m - 1) /\ a = m * (a \div m) + (a % m)
OBVIOUS

LEMMA Quotient ==
    ASSUME NEW a \in Nat, NEW m \in Nat \ {0}, NEW g \in Nat, a \div m <= g - 1
    PROVE  a + 1 <= m * g
<1>1. PICK q, r : q = a \div m /\ r = a % m
  OBVIOUS
<1>2. q \in Nat /\ r \in 0 .. (m - 1) /\ a = m * q + r /\ q <= g - 1
  BY <1>1, Division
<1>3. PICK d \in Nat : g = q + 1 + d
  <2>1. g - q - 1 \in Nat
    BY <1>2
  <2> QED BY <1>2, <2>1
<1>4. m * g = m * q + m + m * d
  BY <1>2, <1>3
<1>5. m * d >= 0
  OBVIOUS
<1> QED BY <1>2, <1>4, <1>5

\* Markets are counted by their numbers.
LEMMA MarketsCounted ==
    /\ MarketCount \in Nat /\ DOMAIN AllowedMarkets = 1 .. MarketCount
    /\ DOMAIN AllowedMarkets # {} => MarketCount \in Nat \ {0}
BY RequestsAssumption, FS_CardinalityType, FS_EmptySet DEF MarketCount

\* For every set of requests: a verified run asks each decision of one market
\* and with one horizon, when a decision budget has passed after events between
\* the start and the end of the session (run_inputs.py:1203).
THEOREM RequestsFall == Spec => []RequestsFallOnEvents
<1>1. Inv => RequestsFallOnEvents
  <2> SUFFICES ASSUME Inv, Verified
               PROVE  /\ \A q \in requests :
                            /\ \E e \in events : /\ e.receipt.slot \in SessionStart .. SessionEnd
                                                 /\ q.close = e.clock + DecisionBudget
                            /\ q.decision <= DecisionCount /\ q.close <= U64Max
                      /\ \A q, p \in requests : q.decision = p.decision => q.market = p.market /\ q.horizon = p.horizon
    BY DEF RequestsFallOnEvents
  <2>1. /\ \A q \in requests : RequestScheduled(q) /\ q.decision \in Nat \ {0}
        /\ \A q, p \in requests : q.decision = p.decision /\ q.market = p.market => q.horizon = p.horizon
        /\ SessionStart \in Slots /\ SessionEnd \in Slots
    BY DEF Inv, Frame, Checked, RequestsBound, SessionScheduled
  <2>2. ASSUME NEW q \in requests
        PROVE  /\ \E e \in events : /\ e.receipt.slot \in SessionStart .. SessionEnd
                                    /\ q.close = e.clock + DecisionBudget
               /\ q.decision <= DecisionCount /\ q.close <= U64Max
    <3>1. PICK first, last, group, later :
             /\ first = GroupOf(SessionStart) /\ last = GroupOf(SessionEnd)
             /\ later = (q.decision - 1) \div MarketCount /\ group = first + later
      OBVIOUS
    <3>2. q.decision - 1 \in Nat /\ MarketCount \in Nat \ {0} /\ GroupCount \in Nat
      BY <2>1, MarketsCounted, SlotsAreRanked DEF RequestScheduled
    <3>3. later \in Nat
      BY <3>1, <3>2, Division
    <3>4. first \in 1 .. GroupCount /\ last \in 1 .. GroupCount
      BY <2>1, <3>1, SlotsAreRanked
    <3>5. group <= last /\ q.close = (group - 1) * ReplayTick + DecisionBudget /\ q.close <= U64Max
      BY <2>1, <3>1 DEF RequestScheduled, RequestGroup, TerminalGroup, ExpectedClose
    <3>6. group \in 1 .. GroupCount /\ first <= group
      BY <3>1, <3>2, <3>3, <3>4, <3>5
    <3>7. PICK s \in Slots : GroupOf(s) = group
      BY <3>6, SlotsAreRanked
    <3>8. s \in SessionStart .. SessionEnd
      <4>1. s \in Nat /\ SessionStart \in Nat /\ SessionEnd \in Nat
        BY SlotsAreRanked, SessionAssumption
      <4>2. (s < SessionStart <=> group < first) /\ (SessionEnd < s <=> last < group)
        BY <2>1, <3>1, <3>7, SlotsAreRanked
      <4>3. ~(group < first) /\ ~(last < group)
        BY <3>2, <3>4, <3>5, <3>6
      <4> QED BY <4>1, <4>2, <4>3
    <3>9. PICK e \in events : e.receipt.slot = s
      BY GroupsAgree
    <3>10. e.group = group /\ e.clock = (e.group - 1) * ReplayTick
      BY <3>7, <3>9, GroupsAgree DEF Inv, Events
    <3>11. q.decision <= DecisionCount
      <4>1. later <= GroupCount - 1
        BY <3>1, <3>2, <3>3, <3>4, <3>6
      <4>2. q.decision - 1 + 1 <= MarketCount * GroupCount
        BY <3>1, <3>2, <4>1, Quotient
      <4> QED BY <2>1, <4>2 DEF DecisionCount
    <3>12. q.close = e.clock + DecisionBudget
      BY <3>5, <3>10
    <3> QED BY <3>5, <3>8, <3>9, <3>11, <3>12
  <2>3. ASSUME NEW q \in requests, NEW p \in requests, q.decision = p.decision
        PROVE  q.market = p.market /\ q.horizon = p.horizon
    <3>1. q.market \in 1 .. MarketCount /\ p.market \in 1 .. MarketCount /\ MarketCount \in Nat
      BY <2>1, MarketsCounted DEF RequestScheduled
    <3>2. q.market - 1 = p.market - 1
      BY <2>1, <2>3 DEF RequestScheduled
    <3>3. q.market = p.market
      BY <3>1, <3>2
    <3> QED BY <2>1, <2>3, <3>3
  <2> QED BY <2>2, <2>3
<1> QED BY <1>1, Invariance, PTL

-----------------------------------------------------------------------------
(* The closure says what it was made of *)

\* What a closure repeats of the things it names.
SaysWhatItNames(closure) ==
    /\ closure.body.policy = closure.names.fixture.policy
    /\ closure.body.config = (closure.names.config # Null)
    /\ closure.names.config # Null => closure.body.proof_limit = closure.names.config.proof_rows

Frozen == {"fixture", "raw", "config", "registry", "manifest"}
Issued == {"config_receipt", "closure", "run"}

\* From the closure to the verdict there is a closure, about something that may
\* have been replaced since; a verified bundle has it.
ClosureInv ==
    /\ stage \in {"config", "closure", "run", "verify"} =>
          DOMAIN inputs = Frozen /\ DOMAIN issued = Issued
    /\ stage \in {"run", "verify"} => SaysWhatItNames(issued.closure)
    /\ stage = "verified" => Verifiable(bundle) /\ SaysWhatItNames(bundle.closure)

LEMMA ClosureSays ==
    ASSUME NEW i, NEW markets
    PROVE  SaysWhatItNames(Closure(i, markets))
BY DEF Closure, SaysWhatItNames

LEMMA RetainedClosure ==
    ASSUME DOMAIN inputs = Frozen, DOMAIN issued = Issued
    PROVE  Retained.closure = issued.closure
BY DEF Retained, Frozen, Issued

LEMMA ClosureInit == ReceiptsInit => ClosureInv
<1> SUFFICES ASSUME ReceiptsInit PROVE ClosureInv
  OBVIOUS
<1>1. stage = "config" /\ issued = NoReceipts
  BY DEF ReceiptsInit
<1>2. DOMAIN inputs = Frozen
  BY DEF ReceiptsInit, Frozen
<1>3. DOMAIN issued = Issued
  BY <1>1 DEF NoReceipts, Issued
<1> QED BY <1>1, <1>2, <1>3 DEF ClosureInv

LEMMA ClosureStep == ClosureInv /\ [ReceiptsNext]_receiptsVars => ClosureInv'
<1> SUFFICES ASSUME ClosureInv, [ReceiptsNext]_receiptsVars PROVE ClosureInv'
  OBVIOUS
<1>1. CASE AdmitConfig
  <2>1. stage = "config" /\ stage' = "closure"
    BY <1>1 DEF AdmitConfig
  <2>2. DOMAIN inputs = Frozen /\ DOMAIN issued = Issued
    BY <2>1 DEF ClosureInv
  <2>3. DOMAIN inputs' = DOMAIN inputs /\ DOMAIN issued' = DOMAIN issued
    BY <1>1 DEF AdmitConfig
  <2> QED BY <2>1, <2>2, <2>3 DEF ClosureInv
<1>2. CASE Close
  <2>1. stage = "closure" /\ stage' = "run" /\ inputs' = inputs
    BY <1>2 DEF Close
  <2>2. DOMAIN inputs = Frozen /\ DOMAIN issued = Issued
    BY <2>1 DEF ClosureInv
  <2>3. PICK markets : issued' = [issued EXCEPT !.closure = Closure(inputs, markets)]
    BY <1>2 DEF Close
  <2>4. PICK new : new = Closure(inputs, markets)
    OBVIOUS
  <2>5. SaysWhatItNames(new)
    BY <2>4, ClosureSays
  <2>6. DOMAIN issued' = Issued /\ issued'.closure = new
    BY <2>2, <2>3, <2>4 DEF Issued
  <2> QED BY <2>1, <2>2, <2>5, <2>6 DEF ClosureInv
<1>3. CASE IssueRun
  <2>1. stage = "run" /\ stage' = "verify" /\ inputs' = inputs
    BY <1>3 DEF IssueRun
  <2>2. DOMAIN inputs = Frozen /\ DOMAIN issued = Issued /\ SaysWhatItNames(issued.closure)
    BY <2>1 DEF ClosureInv
  <2>3. PICK new : issued' = [issued EXCEPT !.run = new]
    BY <1>3 DEF IssueRun
  <2>4. DOMAIN issued' = Issued /\ issued'.closure = issued.closure
    BY <2>2, <2>3 DEF Issued
  <2> QED BY <2>1, <2>2, <2>4 DEF ClosureInv
<1>4. ASSUME NEW new, NEW back \in {"closure", stage}, Replace(new, back), DOMAIN new = Frozen
      PROVE  ClosureInv'
  <2>1. /\ stage \in {"run", "verify"} /\ inputs' = new /\ stage' = back
        /\ issued' = IF back = "closure" THEN [issued EXCEPT !.closure = Null, !.run = Null] ELSE issued
    BY <1>4 DEF Replace, Replaceable
  <2>2. DOMAIN issued = Issued /\ SaysWhatItNames(issued.closure)
    BY <2>1 DEF ClosureInv
  <2>3. DOMAIN issued' = Issued
    BY <2>1, <2>2 DEF Issued
  <2>4. stage' = "closure" \/ (stage' \in {"run", "verify"} /\ issued' = issued)
    BY <2>1
  <2> QED BY <1>4, <2>1, <2>2, <2>3, <2>4 DEF ClosureInv
<1>5. stage \in {"run", "verify"} => DOMAIN inputs = Frozen
  BY DEF ClosureInv
<1>6. CASE ReplaceFixture
  <2>1. PICK f \in Fixtures, back \in {"closure", stage} :
           Replace([inputs EXCEPT !.fixture = f], back)
    BY <1>6 DEF ReplaceFixture
  <2>2. stage \in {"run", "verify"}
    BY <2>1 DEF Replace, Replaceable
  <2>3. DOMAIN [inputs EXCEPT !.fixture = f] = Frozen
    BY <1>5, <2>2
  <2> QED BY <1>4, <2>1, <2>3
<1>7. CASE ReplaceSignals
  <2>1. PICK models \in Models, back \in {"closure", stage} :
           Replace([inputs EXCEPT !.registry = models.registry, !.manifest = models.manifest], back)
    BY <1>7 DEF ReplaceSignals
  <2>2. stage \in {"run", "verify"}
    BY <2>1 DEF Replace, Replaceable
  <2>3. DOMAIN [inputs EXCEPT !.registry = models.registry, !.manifest = models.manifest] = Frozen
    BY <1>5, <2>2
  <2> QED BY <1>4, <2>1, <2>3
<1>8. CASE ReplaceConfig
  <2>1. PICK config, new :
           /\ inputs' = [inputs EXCEPT !.raw = <<config>>, !.config = config]
           /\ issued' = [issued EXCEPT !.config_receipt = new]
    BY <1>8 DEF ReplaceConfig
  <2>2. stage \in {"run", "verify"} /\ stage' = stage
    BY <1>8 DEF ReplaceConfig, Replaceable
  <2>3. DOMAIN inputs = Frozen /\ DOMAIN issued = Issued /\ SaysWhatItNames(issued.closure)
    BY <2>2 DEF ClosureInv
  <2>4. DOMAIN inputs' = Frozen /\ DOMAIN issued' = Issued /\ issued'.closure = issued.closure
    BY <2>1, <2>3 DEF Issued
  <2> QED BY <2>2, <2>3, <2>4 DEF ClosureInv
<1>9. CASE VerifyRetained
  <2>1. stage = "verify" /\ stage' \in {"verified", "benchmark"}
    BY <1>9 DEF VerifyRetained
  <2>2. SaysWhatItNames(Retained.closure)
    BY <2>1, RetainedClosure DEF ClosureInv
  <2>3. stage' = "verified" => Verifiable(Retained) /\ bundle' = Retained
    BY <1>9 DEF VerifyRetained
  <2>4. PICK kept : kept = Retained
    OBVIOUS
  <2>5. stage' = "verified" => Verifiable(bundle') /\ SaysWhatItNames(bundle'.closure)
    BY <2>2, <2>3
  <2> QED BY <2>1, <2>5 DEF ClosureInv
<1>10. CASE Prove \/ UNCHANGED receiptsVars
  <2>1. stage' = stage /\ inputs' = inputs /\ issued' = issued /\ bundle' = bundle
    BY <1>10 DEF Prove, receiptsVars
  <2> QED BY <2>1 DEF ClosureInv
<1>11. CASE StartRun \/ ValidateSignal \/ Reconcile \/ Quarantine \/ Measure \/ EndRepetition \/ Benchmark
  <2>1. stage' \in {"replay", "done"}
    BY <1>11 DEF StartRun, ValidateSignal, Reconcile, Quarantine, Measure, EndRepetition, Benchmark, During
  <2> QED BY <2>1 DEF ClosureInv
<1> QED BY <1>1, <1>2, <1>3, <1>6, <1>7, <1>8, <1>9, <1>10, <1>11 DEF ReceiptsNext

-----------------------------------------------------------------------------
(* What a verified bundle entails *)

LEMMA VerifiedCloses ==
    ASSUME NEW b, Verifiable(b), SaysWhatItNames(b.closure), b.config # Null,
           b.fixture.policy = "FORCE_CLOSE_NEXT_EVENT"
    PROVE  LET c == b.closure.body
           IN  /\ \A row \in ToSet(c.rows) : row.codes = {} /\ "proof_root" \in row.evidence
               /\ c.rows # <<>>
               /\ SumFunction([i \in DOMAIN c.rows |-> c.rows[i].proof_rows]) <= b.config.proof_rows
<1> DEFINE c == b.closure.body
<1>1. /\ RunClosureValid(c) /\ RiskConfigValid(b.config) /\ ConfigReceiptValid(b.config_receipt.body)
      /\ ConfigBound(b) /\ ClosureBound(b) /\ FixtureBound(b)
  BY DEF Verifiable, SelfContained
<1>2. b.config_receipt.body.status = "VALID"
  <2>1. b.config_receipt.body.status \in {"MISSING", "INVALID", "VALID"}
    BY <1>1 DEF ConfigReceiptValid
  <2>2. RetainedConfig(b)
    BY <1>1 DEF ConfigBound
  <2> QED BY <2>1, <2>2 DEF RetainedConfig
<1>3. c.status = "PASS" /\ b.closure.names.config = b.config
  BY <1>1, <1>2 DEF ConfigBound
<1>4. c.policy = "FORCE_CLOSE_NEXT_EVENT"
  BY <1>1 DEF ClosureBound, FixtureBound
<1>5. c.config = TRUE /\ c.proof_limit = b.config.proof_rows
  BY <1>3 DEF SaysWhatItNames
<1> HIDE DEF c
<1>6. ForceClosed(c)
  BY <1>4, <1>5 DEF ForceClosed
<1>7. <<c.status, c.reasons>> = ClosureVerdict(c) /\ ProofBudget(c) /\ MarketRowsValid(c)
      /\ {c.terminal, c.proof_total} \ {Null} \subseteq U64
  BY <1>1 DEF RunClosureValid
<1>8. ClosureVerdict(c)[1] = "PASS"
  BY <1>3, <1>7
<1>9. c.budget # "EXCEEDED" /\ \A row \in ToSet(c.rows) : row.codes = {}
  BY <1>4, <1>8 DEF ClosureVerdict
<1>10. /\ c.rows # <<>> /\ c.proof_total = ProofTotal(c)
       /\ c.proof_total # Null /\ ~(c.proof_total > c.proof_limit) /\ c.budget = "WITHIN_LIMIT"
  BY <1>6, <1>7, <1>9 DEF ProofBudget
<1>11. ProofGateOpen(c)
  BY <1>9, <1>10 DEF ProofGateOpen
<1>12. \A row \in ToSet(c.rows) : "proof_root" \in row.evidence
  BY <1>7, <1>9, <1>11 DEF MarketRowsValid, EvidenceFor
<1>13. \A i \in DOMAIN c.rows : c.rows[i] \in ToSet(c.rows)
  BY DEF ToSet
<1>14. \A i \in DOMAIN c.rows : c.rows[i].proof_rows # Null
  BY <1>7, <1>9, <1>13 DEF MarketRowsValid
<1>15. {i \in DOMAIN c.rows : c.rows[i].proof_rows # Null} = DOMAIN c.rows
  BY <1>14
<1>16. ProofTotal(c) = SumFunction([i \in DOMAIN c.rows |-> c.rows[i].proof_rows])
  <2>1. ProofTotal(c) = LET total == SumFunction([i \in DOMAIN c.rows |-> c.rows[i].proof_rows])
                        IN  IF SomeRow(c, "PROOF_ROW_COUNT_RANGE") \/ total > MaxU64 THEN Null ELSE total
    BY <1>15 DEF ProofTotal
  <2> QED BY <1>10, <2>1
<1>17. c.proof_total <= b.config.proof_rows
  <2>1. c.proof_total \in Int
    BY <1>7, <1>10 DEF U64
  <2>2. b.config.proof_rows \in Int
    BY <1>1 DEF RiskConfigValid
  <2> QED BY <1>5, <1>10, <2>1, <2>2
<1> QED BY <1>9, <1>10, <1>12, <1>16, <1>17 DEF c

LEMMA VerifiedWithoutConfig ==
    ASSUME NEW b, Verifiable(b), SaysWhatItNames(b.closure), b.config = Null
    PROVE  b.closure.body.status = "NOT_REQUIRED_ZERO_AUTHORITY" /\ b.closure.body.rows = <<>>
<1>1. RunClosureValid(b.closure.body) /\ ConfigBound(b)
  BY DEF Verifiable, SelfContained
<1>2. RetainedConfig(b) /\ b.closure.names.config = b.config
  BY <1>1 DEF ConfigBound
<1>3. b.config_receipt.body.status # "VALID"
  BY <1>2 DEF RetainedConfig
<1>4. b.closure.body.config = FALSE
  BY <1>2 DEF SaysWhatItNames
<1>5. ProofBudget(b.closure.body)
  BY <1>1 DEF RunClosureValid
<1> QED BY <1>1, <1>3, <1>4, <1>5 DEF ConfigBound, ProofBudget, ForceClosed

LEMMA ClosureSuffices == ASSUME ClosureInv PROVE VerifiedRunCanClose
<1> SUFFICES ASSUME stage = "verified" PROVE VerifiedRunCanClose
  BY DEF VerifiedRunCanClose
<1>1. PICK b : b = bundle
  OBVIOUS
<1>2. Verifiable(b) /\ SaysWhatItNames(b.closure)
  BY <1>1 DEF ClosureInv
<1>3. ClosureBound(b) /\ FixtureBound(b) /\ ModelsBound(b) /\ CountersBound(b)
  BY <1>2 DEF Verifiable
<1>4. b.closure.body.terminal = b.fixture.terminal
  BY <1>3 DEF ClosureBound, FixtureBound
<1>5. LedgerBound(b.fixture, IF b.manifest = Null THEN 0 ELSE Len(b.manifest.candidates)) <= MaxU64
  BY <1>3 DEF ClosureBound, CountersBound, CounterCapacity
<1>6. Requests(IF b.manifest = Null THEN [candidates |-> <<>>] ELSE b.manifest) = ToSet(b.run.body.scopes)
  <2>1. CASE b.run.body.mode = "DISABLED"
    <3>1. b.manifest = Null /\ b.run.body.scopes = <<>>
      BY <1>3, <2>1 DEF ModelsBound
    <3>2. ToSet(<<>>) = {}
      BY DEF ToSet
    <3>3. Requests([candidates |-> <<>>]) = {}
      BY <3>2 DEF Requests
    <3> QED BY <3>1, <3>2, <3>3
  <2>2. CASE b.run.body.mode # "DISABLED"
    BY <1>3, <2>2 DEF ModelsBound
  <2> QED BY <2>1, <2>2
<1> QED BY <1>1, <1>2, <1>4, <1>5, <1>6, VerifiedCloses, VerifiedWithoutConfig DEF VerifiedRunCanClose

\* What verify_contract_run_inputs lets through (run_inputs.py:709-1371) can be
\* run to its end, whatever was frozen and however often inputs were replaced
\* after receipts were issued about them: its counters fit, its scopes are the
\* candidates', its terminal is the fixture's, a forced close has its proofs.
THEOREM VerifiedRunCanCloseAlways == ReceiptsSpec => []VerifiedRunCanClose
<1>1. ClosureInv => VerifiedRunCanClose
  BY ClosureSuffices
<1> QED BY <1>1, ClosureInit, ClosureStep, PTL DEF ReceiptsSpec

-----------------------------------------------------------------------------
(* The codes of a market and of a signal *)

\* What the checks of a market end in, code by code.
LEMMA MarketCodesReached ==
    ASSUME NEW m, NEW triggered \in BOOLEAN, NEW x
    PROVE  x \in PreproofFailures(m, triggered)
           <=> \/ x \in m.faults /\ x \in {"H_MISSING", "Q_CAP_RANGE", "REFERENCE_SET_INVALID"}
               \/ x \in MarketCandidate(m)
               \/ x = "PROOF_ROW_COUNT_RANGE" /\ Countable(m) /\ ProofRows(m) > MaxU64
               \/ x = "STATE_ENVELOPE_RANGE" /\ x \in m.faults /\ triggered
<1>1. PICK all : all = PreproofFailures(m, triggered)
  OBVIOUS
<1>2. PICK candidates : candidates = MarketCandidate(m)
  OBVIOUS
<1>3. PICK base : base = m.faults \cap {"H_MISSING", "Q_CAP_RANGE", "REFERENCE_SET_INVALID"}
  OBVIOUS
<1>4. PICK rows : rows = IF Countable(m) /\ ProofRows(m) > MaxU64 THEN {"PROOF_ROW_COUNT_RANGE"} ELSE {}
  OBVIOUS
<1>5. PICK state : state = IF triggered THEN m.faults \cap {"STATE_ENVELOPE_RANGE"} ELSE {}
  OBVIOUS
<1>6. all = base \cup candidates \cup rows \cup state
  BY <1>1, <1>2, <1>3, <1>4, <1>5 DEF PreproofFailures
<1>7. x \in base <=> x \in m.faults /\ x \in {"H_MISSING", "Q_CAP_RANGE", "REFERENCE_SET_INVALID"}
  BY <1>3
<1>8. x \in rows <=> x = "PROOF_ROW_COUNT_RANGE" /\ Countable(m) /\ ProofRows(m) > MaxU64
  BY <1>4
<1>9. x \in state <=> x = "STATE_ENVELOPE_RANGE" /\ x \in m.faults /\ triggered
  BY <1>5
<1>10. x \in all <=> x \in base \/ x \in candidates \/ x \in rows \/ x \in state
  BY ONLY <1>6
<1> QED BY Zenon, <1>1, <1>2, <1>7, <1>8, <1>9, <1>10

LEMMA CandidateReached ==
    ASSUME NEW m
    PROVE  /\ "H_MISSING" \in m.faults => MarketCandidate(m) = {}
           /\ "H_MISSING" \notin m.faults /\ "CANDIDATE_CARDINALITY" \in m.faults =>
                 MarketCandidate(m) = {"CANDIDATE_CARDINALITY"}
           /\ /\ "H_MISSING" \notin m.faults /\ "CANDIDATE_CARDINALITY" \notin m.faults
              /\ "CANDIDATE_SCHEMA_INVALID" \in m.faults
              => MarketCandidate(m) = {"CANDIDATE_SCHEMA_INVALID"}
           /\ m.faults \cap {"H_MISSING", "CANDIDATE_CARDINALITY", "CANDIDATE_SCHEMA_INVALID"} = {} =>
                 MarketCandidate(m) = {x \in m.faults \cap CandidateVerdicts :
                                          "Q_CAP_RANGE" \in m.faults => x # "CAPACITY_INSUFFICIENT"}
BY DEF MarketCandidate

LEMMA FiniteList ==
    ASSUME NEW a, NEW b, NEW c, NEW d
    PROVE  IsFiniteSet({a, b}) /\ IsFiniteSet({a, b, c, d})
<1>1. IsFiniteSet({a})
  BY FS_Singleton
<1>2. IsFiniteSet({a} \cup {b})
  BY ONLY <1>1, FS_AddElement
<1>3. IsFiniteSet({a} \cup {b} \cup {c})
  BY ONLY <1>2, FS_AddElement
<1>4. IsFiniteSet({a} \cup {b} \cup {c} \cup {d})
  BY ONLY <1>3, FS_AddElement
<1>5. {a, b} = {a} \cup {b} /\ {a, b, c, d} = {a} \cup {b} \cup {c} \cup {d}
  OBVIOUS
<1> QED BY <1>2, <1>4, <1>5

LEMMA OneCandidate ==
    ASSUME NEW codes \in SUBSET PreproofCodes
    PROVE  Cardinality(codes \cap (CandidateStops \cup CandidateVerdicts)) = 1
           <=> \E x : codes \cap (CandidateStops \cup CandidateVerdicts) = {x}
<1>1. IsFiniteSet(CandidateStops \cup CandidateVerdicts)
  <2>1. IsFiniteSet(CandidateStops)
    BY FiniteList DEF CandidateStops
  <2>2. IsFiniteSet(CandidateVerdicts)
    BY FiniteList DEF CandidateVerdicts
  <2> QED BY <2>1, <2>2, FS_Union
<1>2. IsFiniteSet(codes \cap (CandidateStops \cup CandidateVerdicts))
  BY <1>1, FS_Subset
<1> QED BY <1>2, FS_Singleton

\* What the checks of a market end in has the order the validators expect.
LEMMA FailuresFit ==
    ASSUME NEW m, m.faults \subseteq MarketCodes,
           NEW triggered \in BOOLEAN, triggered => "H_MISSING" \notin m.faults,
           NEW codes, codes = PreproofFailures(m, triggered)
    PROVE  /\ codes \subseteq PreproofCodes /\ FailurePhases(codes)
           /\ \A x \in {"H_MISSING", "Q_CAP_RANGE", "REFERENCE_SET_INVALID"} : x \in codes <=> x \in m.faults
           /\ "STATE_ENVELOPE_RANGE" \in codes <=> "STATE_ENVELOPE_RANGE" \in m.faults /\ triggered
           /\ "PROOF_ROW_COUNT_RANGE" \in codes <=> Countable(m) /\ ProofRows(m) > MaxU64
<1>1. PICK f : f = m.faults
  OBVIOUS
<1>2. PICK got : got = MarketCandidate(m)
  OBVIOUS
<1>3. PICK large \in BOOLEAN : large <=> Countable(m) /\ ProofRows(m) > MaxU64
  OBVIOUS
<1>4. \A x : x \in codes <=>
               \/ x \in f /\ x \in {"H_MISSING", "Q_CAP_RANGE", "REFERENCE_SET_INVALID"}
               \/ x \in got
               \/ x = "PROOF_ROW_COUNT_RANGE" /\ large
               \/ x = "STATE_ENVELOPE_RANGE" /\ x \in f /\ triggered
  BY <1>1, <1>2, <1>3, MarketCodesReached
<1>5. /\ "H_MISSING" \in f => got = {}
      /\ "H_MISSING" \notin f /\ "CANDIDATE_CARDINALITY" \in f => got = {"CANDIDATE_CARDINALITY"}
      /\ "H_MISSING" \notin f /\ "CANDIDATE_CARDINALITY" \notin f /\ "CANDIDATE_SCHEMA_INVALID" \in f
            => got = {"CANDIDATE_SCHEMA_INVALID"}
      /\ f \cap {"H_MISSING", "CANDIDATE_CARDINALITY", "CANDIDATE_SCHEMA_INVALID"} = {} =>
            got = {x \in f \cap CandidateVerdicts : "Q_CAP_RANGE" \in f => x # "CAPACITY_INSUFFICIENT"}
  BY <1>1, <1>2, CandidateReached
<1>6. got \subseteq CandidateStops \cup CandidateVerdicts
  BY <1>5 DEF CandidateStops, CandidateVerdicts
<1>7. codes \subseteq PreproofCodes
  BY <1>4, <1>6 DEF PreproofCodes
<1>8. codes \cap (CandidateStops \cup CandidateVerdicts) = got
  BY <1>4, <1>6 DEF CandidateStops, CandidateVerdicts
<1>9. \A x \in {"H_MISSING", "Q_CAP_RANGE", "REFERENCE_SET_INVALID"} : x \in codes <=> x \in f
  BY <1>4, <1>6 DEF CandidateStops, CandidateVerdicts
<1>10. got \cap CandidateStops # {} => \E x : got = {x}
  BY <1>5 DEF CandidateStops, CandidateVerdicts
<1>11. got \cap CandidateStops # {} => Cardinality(got) = 1
  BY <1>7, <1>8, <1>10, OneCandidate
<1>12. "CAPACITY_INSUFFICIENT" \in codes => "CAPACITY_INSUFFICIENT" \in got
  BY <1>4
<1>13. "Q_CAP_RANGE" \in codes => "CAPACITY_INSUFFICIENT" \notin codes
  BY <1>5, <1>9, <1>12
<1>14. "PROOF_ROW_COUNT_RANGE" \in codes <=> large
  BY <1>4, <1>6 DEF CandidateStops, CandidateVerdicts
<1>15. large => codes \cap {"Q_CAP_RANGE", "REFERENCE_SET_INVALID"} = {}
  BY <1>1, <1>3, <1>9 DEF Countable
<1>16. "PROOF_PREDICATE_FAILED" \notin codes
  BY <1>7 DEF PreproofCodes, CandidateStops, CandidateVerdicts
<1>17. "H_MISSING" \in codes => got = {}
  BY <1>5, <1>9
<1>18. FailurePhases(codes)
  BY <1>8, <1>11, <1>13, <1>14, <1>15, <1>16, <1>17 DEF FailurePhases
<1>19. "STATE_ENVELOPE_RANGE" \in codes <=> "STATE_ENVELOPE_RANGE" \in f /\ triggered
  BY <1>4, <1>6 DEF CandidateStops, CandidateVerdicts
<1> QED BY <1>1, <1>3, <1>7, <1>9, <1>14, <1>18, <1>19

LEMMA ReachedAreAccepted == ReachedCodes \subseteq AcceptedCodes
<1> SUFFICES ASSUME NEW codes \in ReachedCodes PROVE codes \in AcceptedCodes
  OBVIOUS
<1>1. PICK f \in SUBSET (PreproofCodes \ {"PROOF_ROW_COUNT_RANGE"}), q \in {1, MaxU64 + 1} :
         codes = PreproofFailures([faults |-> f, q_cap |-> q, references |-> 1, extremes |-> 1],
                                  "H_MISSING" \notin f)
  BY DEF ReachedCodes
<1>2. PICK m : m = [faults |-> f, q_cap |-> q, references |-> 1, extremes |-> 1]
  OBVIOUS
<1>3. m.faults = f /\ f \subseteq MarketCodes
  BY <1>2 DEF MarketCodes
<1>4. PICK triggered \in BOOLEAN : triggered <=> "H_MISSING" \notin f
  OBVIOUS
<1>5. codes = PreproofFailures(m, triggered)
  BY <1>1, <1>2, <1>4
<1>6. codes \subseteq PreproofCodes /\ FailurePhases(codes)
  BY <1>3, <1>4, <1>5, FailuresFit
<1>7. "H_MISSING" \in codes => "STATE_ENVELOPE_RANGE" \notin codes
  BY <1>3, <1>4, <1>5, FailuresFit
<1> QED BY <1>6, <1>7 DEF AcceptedCodes

LEMMA AcceptedAreReached == AcceptedCodes \subseteq ReachedCodes
<1> SUFFICES ASSUME NEW codes \in SUBSET PreproofCodes, FailurePhases(codes),
                    "H_MISSING" \in codes => "STATE_ENVELOPE_RANGE" \notin codes
             PROVE  codes \in ReachedCodes
  BY DEF AcceptedCodes
<1> DEFINE row == "PROOF_ROW_COUNT_RANGE"
           f == codes \ {row}
           q == IF row \in codes THEN MaxU64 + 1 ELSE 1
           m == [faults |-> f, q_cap |-> q, references |-> 1, extremes |-> 1]
           both == codes \cap (CandidateStops \cup CandidateVerdicts)
<1>1. f \in SUBSET (PreproofCodes \ {row}) /\ q \in {1, MaxU64 + 1} /\ q \in Nat
  BY RangeAssumption
<1>2. q > MaxU64 <=> row \in codes
  BY RangeAssumption
<1>3. PICK got : got = MarketCandidate(m)
  OBVIOUS
<1>31. m.faults = f /\ (Countable(m) <=> f \cap {"Q_CAP_RANGE", "REFERENCE_SET_INVALID"} = {}) /\ ProofRows(m) = q
  BY <1>1 DEF Countable, ProofRows
<1>4. /\ "H_MISSING" \in f => got = {}
      /\ "H_MISSING" \notin f /\ "CANDIDATE_CARDINALITY" \in f => got = {"CANDIDATE_CARDINALITY"}
      /\ "H_MISSING" \notin f /\ "CANDIDATE_CARDINALITY" \notin f /\ "CANDIDATE_SCHEMA_INVALID" \in f
            => got = {"CANDIDATE_SCHEMA_INVALID"}
      /\ f \cap {"H_MISSING", "CANDIDATE_CARDINALITY", "CANDIDATE_SCHEMA_INVALID"} = {} =>
            got = {x \in f \cap CandidateVerdicts : "Q_CAP_RANGE" \in f => x # "CAPACITY_INSUFFICIENT"}
  <2> HIDE DEF m
  <2> QED BY <1>3, <1>31, CandidateReached
<1>32. PICK triggered \in BOOLEAN : triggered <=> "H_MISSING" \notin f
  OBVIOUS
<1>33. PreproofFailures(m, "H_MISSING" \notin f) = PreproofFailures(m, triggered)
  BY <1>32
<1>5. \A x : x \in PreproofFailures(m, triggered) <=>
               \/ x \in f /\ x \in {"H_MISSING", "Q_CAP_RANGE", "REFERENCE_SET_INVALID"}
               \/ x \in got
               \/ x = row /\ q > MaxU64 /\ "Q_CAP_RANGE" \notin f /\ "REFERENCE_SET_INVALID" \notin f
               \/ x = "STATE_ENVELOPE_RANGE" /\ x \in f /\ "H_MISSING" \notin f
  <2> HIDE DEF m
  <2> QED BY <1>3, <1>31, <1>32, MarketCodesReached
<1> HIDE DEF m, q
<1>6. /\ "H_MISSING" \in codes => both = {}
      /\ both \cap CandidateStops # {} => \E x : both = {x}
      /\ "Q_CAP_RANGE" \in codes => "CAPACITY_INSUFFICIENT" \notin codes
      /\ row \in codes => "Q_CAP_RANGE" \notin codes /\ "REFERENCE_SET_INVALID" \notin codes
  BY OneCandidate DEF FailurePhases
<1>7. got = both
  <2>1. CASE "H_MISSING" \in codes
    BY <1>4, <1>6, <2>1
  <2>2. CASE "H_MISSING" \notin codes /\ "CANDIDATE_CARDINALITY" \in codes
    <3>1. PICK x : both = {x}
      BY <1>6, <2>2 DEF CandidateStops
    <3>2. both = {"CANDIDATE_CARDINALITY"}
      BY <2>2, <3>1 DEF CandidateStops
    <3> QED BY <1>4, <2>2, <3>2
  <2>3. CASE "H_MISSING" \notin codes /\ "CANDIDATE_CARDINALITY" \notin codes /\ "CANDIDATE_SCHEMA_INVALID" \in codes
    <3>1. PICK x : both = {x}
      BY <1>6, <2>3 DEF CandidateStops
    <3>2. both = {"CANDIDATE_SCHEMA_INVALID"}
      BY <2>3, <3>1 DEF CandidateStops
    <3> QED BY <1>4, <2>3, <3>2
  <2>4. CASE codes \cap {"H_MISSING", "CANDIDATE_CARDINALITY", "CANDIDATE_SCHEMA_INVALID"} = {}
    <3>1. got = {x \in f : x \in CandidateVerdicts /\ ("Q_CAP_RANGE" \in f => x # "CAPACITY_INSUFFICIENT")}
      BY <1>4, <2>4
    <3>2. both = {x \in codes : x \in CandidateVerdicts}
      BY <2>4 DEF CandidateStops
    <3>3. \A x \in CandidateVerdicts : x # row /\ x # "Q_CAP_RANGE"
      BY DEF CandidateVerdicts
    <3> QED BY <1>6, <3>1, <3>2, <3>3
  <2> QED BY <2>1, <2>2, <2>3, <2>4
<1>8. \A x : x \in PreproofFailures(m, triggered) <=> x \in codes
  <2>1. \A x \in codes : \/ x \in {"H_MISSING", "Q_CAP_RANGE", "REFERENCE_SET_INVALID", "STATE_ENVELOPE_RANGE", row}
                         \/ x \in both
    BY DEF PreproofCodes
  <2>2. \A x \in {"H_MISSING", "Q_CAP_RANGE", "REFERENCE_SET_INVALID", "STATE_ENVELOPE_RANGE"} : x # row
    OBVIOUS
  <2>3. "STATE_ENVELOPE_RANGE" \in codes => "H_MISSING" \notin codes
    OBVIOUS
  <2> QED BY <1>2, <1>5, <1>6, <1>7, <2>1, <2>2, <2>3
<1>9. PreproofFailures(m, "H_MISSING" \notin f) = codes
  BY <1>8, <1>33
<1> QED BY <1>1, <1>9 DEF ReachedCodes, m

\* Which stage a signal's flaws end in.
LEMMA VerdictStages ==
    ASSUME NEW codes \in SUBSET SignalCodes
    PROVE  /\ "BYTES_INVALID" \in codes => SignalVerdict(codes) = {"BYTES_INVALID"}
           /\ "BYTES_INVALID" \notin codes /\ "ORDER_SHAPED" \in codes =>
                 SignalVerdict(codes) = {"SCHEMA_UNKNOWN", "ORDER_SHAPED"}
           /\ codes \cap {"BYTES_INVALID", "ORDER_SHAPED"} = {} /\ "SCHEMA_UNKNOWN" \in codes =>
                 SignalVerdict(codes) = {"SCHEMA_UNKNOWN"}
           /\ codes \cap {"BYTES_INVALID", "ORDER_SHAPED", "SCHEMA_UNKNOWN"} = {} /\ "ID_MISMATCH" \in codes =>
                 SignalVerdict(codes) = {"ID_MISMATCH"}
           /\ codes \cap {"BYTES_INVALID", "ORDER_SHAPED", "SCHEMA_UNKNOWN", "ID_MISMATCH"} = {} =>
                 /\ codes \cap IdentityCodes # {} =>
                       SignalVerdict(codes) = codes \cap (IdentityCodes \cup {"DRIFT_DISABLED"})
                 /\ codes \cap IdentityCodes = {} /\ "PRODUCER_SEQUENCE_INVALID" \in codes =>
                       SignalVerdict(codes) = codes \cap {"PRODUCER_SEQUENCE_INVALID", "DRIFT_DISABLED"}
                 /\ codes \cap (IdentityCodes \cup {"PRODUCER_SEQUENCE_INVALID"}) = {} /\ "REPLAYED" \in codes =>
                       SignalVerdict(codes) = codes \cap {"REPLAYED", "DRIFT_DISABLED"}
                 /\ codes \cap (IdentityCodes \cup SequenceCodes) = {} =>
                       SignalVerdict(codes) = IF "TIME_INVALID" \in codes THEN codes \ LateCodes ELSE codes
BY Zenon DEF SignalVerdict, SequenceCodes

LEMMA StagesAgree ==
    ASSUME NEW codes \in SUBSET SignalCodes
    PROVE  ValidationStage(codes) <=> SignalVerdict(codes) = codes
<1> DEFINE verdict == SignalVerdict(codes)
<1>1. CASE "BYTES_INVALID" \in codes
  BY <1>1 DEF ValidationStage, SignalVerdict, IdentityCodes, SequenceCodes, LateCodes
<1>2. CASE "BYTES_INVALID" \notin codes /\ "ORDER_SHAPED" \in codes
  BY <1>2 DEF ValidationStage, SignalVerdict, IdentityCodes, SequenceCodes, LateCodes
<1>3. CASE "BYTES_INVALID" \notin codes /\ "ORDER_SHAPED" \notin codes /\ "SCHEMA_UNKNOWN" \in codes
  BY <1>3 DEF ValidationStage, SignalVerdict, IdentityCodes, SequenceCodes, LateCodes
<1>4. CASE codes \cap {"BYTES_INVALID", "ORDER_SHAPED", "SCHEMA_UNKNOWN"} = {} /\ "ID_MISMATCH" \in codes
  BY <1>4 DEF ValidationStage, SignalVerdict, IdentityCodes, SequenceCodes, LateCodes
<1>5. ASSUME codes \cap {"BYTES_INVALID", "ORDER_SHAPED", "SCHEMA_UNKNOWN", "ID_MISMATCH"} = {}
      PROVE  ValidationStage(codes) <=> SignalVerdict(codes) = codes
  <2>1. CASE codes \cap IdentityCodes # {}
    <3>1. SignalVerdict(codes) = codes \cap (IdentityCodes \cup {"DRIFT_DISABLED"})
      BY <1>5, <2>1 DEF SignalVerdict
    <3>2. \A code \in codes \cap SequenceCodes : code \notin IdentityCodes /\ code # "DRIFT_DISABLED"
      BY DEF SequenceCodes, IdentityCodes
    <3>3. "TIME_INVALID" \notin IdentityCodes
      BY DEF IdentityCodes
    <3>4. (SignalVerdict(codes) = codes) <=> codes \subseteq IdentityCodes \cup {"DRIFT_DISABLED"}
      BY <3>1
    <3>5. ValidationStage(codes) <=> codes \subseteq IdentityCodes \cup {"DRIFT_DISABLED"}
      BY <1>5, <2>1, <3>2, <3>3 DEF ValidationStage
    <3> QED BY <3>4, <3>5
  <2>2. CASE codes \cap IdentityCodes = {} /\ codes \cap SequenceCodes # {}
    BY <1>5, <2>2 DEF ValidationStage, SignalVerdict, SequenceCodes, LateCodes
  <2>3. CASE codes \cap IdentityCodes = {} /\ codes \cap SequenceCodes = {}
    BY <1>5, <2>3 DEF ValidationStage, SignalVerdict, SequenceCodes, LateCodes
  <2> QED BY <2>1, <2>2, <2>3
<1> QED BY <1>1, <1>2, <1>3, <1>4, <1>5

LEMMA CodesReachable == ReasonsAreReachable
<1>1. AcceptedCodes = ReachedCodes
  BY ReachedAreAccepted, AcceptedAreReached
<1>2. \A codes \in FewOf(SignalCodes, 3) : codes \in SUBSET SignalCodes
  BY DEF FewOf, ToSet
<1>3. \A codes \in SUBSET SignalCodes :
         ValidationStage(codes) \in BOOLEAN /\ (SignalVerdict(codes) = codes) \in BOOLEAN
  BY DEF ValidationStage
<1>4. \A codes \in FewOf(SignalCodes, 3) : ValidationStage(codes) = (SignalVerdict(codes) = codes)
  BY <1>2, <1>3, StagesAgree
<1> QED BY <1>1, <1>4 DEF ReasonsAreReachable

\* The order of the checks that contract_semantics.py:2310-2423 and 2913-2971
\* expect is the order in which a market and a signal are checked: a list of
\* codes passes just when some flaws make the checks, run in turn, give it.
THEOREM ReasonsAreReachableAlways == ReceiptsSpec => []ReasonsAreReachable
BY CodesReachable, PTL

-----------------------------------------------------------------------------
(* Sorted lists *)

LEMMA Least ==
    ASSUME NEW T \in SUBSET Nat, T # {}
    PROVE  \E n \in T : \A m \in T : n <= m
<1>1. PICK n \in T : \A m \in T : ~(<<m, n>> \in OpToRel(<, Nat))
  BY WFMin, NatLessThanWellFounded
<1>2. \A m \in T : ~(m < n)
  BY <1>1 DEF OpToRel
<1> QED BY <1>2

Tuple(k, n) == DOMAIN k = 1 .. n /\ \A i \in 1 .. n : k[i] \in Int

\* The order of tuples of one length, the first number that differs deciding.
LEMMA TupleOrder ==
    ASSUME NEW n \in Nat, NEW k, NEW l, NEW m, Tuple(k, n), Tuple(l, n), Tuple(m, n)
    PROVE  /\ ~LexLess(k, k)
           /\ LexLess(k, l) /\ LexLess(l, m) => LexLess(k, m)
           /\ LexLess(k, l) \/ LexLess(l, k) \/ \A i \in 1 .. n : k[i] = l[i]
<1>0. \A i \in 1 .. n : k[i] \in Int /\ l[i] \in Int /\ m[i] \in Int
  BY DEF Tuple
<1>d. DOMAIN k = 1 .. n /\ DOMAIN l = 1 .. n
  BY DEF Tuple
<1>1. ~LexLess(k, k)
  BY <1>0, <1>d DEF LexLess
<1>2. ASSUME LexLess(k, l), LexLess(l, m) PROVE LexLess(k, m)
  <2>1. PICK i \in 1 .. n : k[i] < l[i] /\ \A j \in 1 .. i - 1 : k[j] = l[j]
    BY <1>2, <1>d DEF LexLess
  <2>2. PICK j \in 1 .. n : l[j] < m[j] /\ \A h \in 1 .. j - 1 : l[h] = m[h]
    BY <1>2, <1>d DEF LexLess
  <2>3. CASE i <= j
    <3>1. l[i] <= m[i]
      BY <1>0, <2>2, <2>3
    <3>2. k[i] < m[i] /\ \A h \in 1 .. i - 1 : k[h] = m[h]
      BY <1>0, <2>1, <2>2, <2>3, <3>1
    <3> QED BY <1>d, <3>2 DEF LexLess
  <2>4. CASE j < i
    <3>1. k[j] < m[j] /\ \A h \in 1 .. j - 1 : k[h] = m[h]
      BY <1>0, <2>1, <2>2, <2>4
    <3> QED BY <1>d, <3>1 DEF LexLess
  <2> QED BY <2>3, <2>4
<1>3. LexLess(k, l) \/ LexLess(l, k) \/ \A i \in 1 .. n : k[i] = l[i]
  <2> DEFINE T == {i \in 1 .. n : k[i] # l[i]}
  <2>1. CASE T = {}
    BY <2>1
  <2>2. CASE T # {}
    <3>1. PICK i \in T : \A j \in T : i <= j
      <4>1. T \in SUBSET Nat
        OBVIOUS
      <4> HIDE DEF T
      <4> QED BY <2>2, <4>1, Least
    <3>2. i \in 1 .. n /\ k[i] # l[i] /\ \A j \in 1 .. i - 1 : k[j] = l[j]
      BY <3>1
    <3>3. k[i] < l[i] \/ l[i] < k[i]
      BY <1>0, <3>2
    <3> HIDE DEF T
    <3> QED BY <1>d, <3>2, <3>3 DEF LexLess
  <2> QED BY <2>1, <2>2
<1> QED BY <1>1, <1>2, <1>3

\* The elements of a finite set have tuples of length n for keys, which differ.
Keyed(S, key, n) ==
    /\ IsFiniteSet(S) /\ \A x \in S : Tuple(key[x], n)
    /\ \A x, y \in S : (\A i \in 1 .. n : key[x][i] = key[y][i]) => x = y

Smaller(S, key, x) == {y \in S : LexLess(key[y], key[x])}

Placed(S, key, place) == \A x \in S : place[x] = Cardinality(Smaller(S, key, x))

\* Elements have different numbers of smaller ones, from none to all others.
LEMMA Places ==
    ASSUME NEW S, NEW key, NEW n \in Nat, Keyed(S, key, n), NEW place, Placed(S, key, place)
    PROVE  /\ \A x, y \in S : LexLess(key[x], key[y]) <=> place[x] < place[y]
           /\ \A x \in S : place[x] \in 0 .. Cardinality(S) - 1
           /\ \A i \in 0 .. Cardinality(S) - 1 : \E x \in S : place[x] = i
           /\ \A x, y \in S : place[x] = place[y] => x = y
<1> DEFINE Below(x) == {y \in S : LexLess(key[y], key[x])}
<1>k. /\ IsFiniteSet(S) /\ \A x \in S : Tuple(key[x], n)
      /\ \A x, y \in S : (\A i \in 1 .. n : key[x][i] = key[y][i]) => x = y
      /\ \A x \in S : place[x] = Cardinality(Below(x))
  BY DEF Keyed, Placed, Smaller
<1>0. Cardinality(S) \in Nat
  BY <1>k, FS_CardinalityType
<1>1. ASSUME NEW x \in S
      PROVE  /\ IsFiniteSet(Below(x)) /\ place[x] = Cardinality(Below(x))
             /\ place[x] \in 0 .. Cardinality(S) - 1
  <2>1. Below(x) \in SUBSET S /\ x \notin Below(x)
    BY <1>k, TupleOrder
  <2>2. place[x] = Cardinality(Below(x))
    BY <1>k
  <2> HIDE DEF Below
  <2>3. IsFiniteSet(Below(x)) /\ Cardinality(Below(x)) \in Nat
    BY <1>k, <2>1, FS_Subset, FS_CardinalityType
  <2>4. Cardinality(Below(x)) <= Cardinality(S) /\ Cardinality(S) # Cardinality(Below(x))
    BY <1>k, <2>1, FS_Subset
  <2> QED BY <1>0, <2>2, <2>3, <2>4
<1>10. \A x \in S : place[x] \in 0 .. Cardinality(S) - 1
  BY <1>1
<1>11. \A x \in S : place[x] \in Nat
  BY ONLY <1>0, <1>10
<1>2. ASSUME NEW x \in S, NEW y \in S, LexLess(key[x], key[y]) PROVE place[x] < place[y]
  <2>1. Below(x) \in SUBSET Below(y)
    <3>1. ASSUME NEW z \in S, LexLess(key[z], key[x]) PROVE LexLess(key[z], key[y])
      BY <1>k, <1>2, <3>1, TupleOrder
    <3> QED BY <3>1
  <2>2. x \in Below(y) /\ x \notin Below(x)
    BY <1>k, <1>2, TupleOrder
  <2>3. Cardinality(Below(x)) <= Cardinality(Below(y)) /\ Cardinality(Below(x)) # Cardinality(Below(y))
    <3> HIDE DEF Below
    <3> QED BY <1>1, <2>1, <2>2, FS_Subset
  <2> HIDE DEF Below
  <2> QED BY <1>0, <1>1, <2>3
<1>3. ASSUME NEW x \in S, NEW y \in S PROVE x = y \/ LexLess(key[x], key[y]) \/ LexLess(key[y], key[x])
  BY <1>k, TupleOrder
<1>4. ASSUME NEW x \in S, NEW y \in S, place[x] = place[y] PROVE x = y
  <2>1. place[x] \in Nat /\ place[y] \in Nat
    BY ONLY <1>11, x \in S, y \in S
  <2>2. ~(place[x] < place[y]) /\ ~(place[y] < place[x])
    BY ONLY <1>4, <2>1
  <2> QED BY <1>2, <1>3, <2>2
<1>5. ASSUME NEW x \in S, NEW y \in S, place[x] < place[y] PROVE LexLess(key[x], key[y])
  <2>1. place[x] \in Nat /\ place[y] \in Nat
    BY ONLY <1>11, x \in S, y \in S
  <2>2. x # y /\ ~(place[y] < place[x])
    BY ONLY <1>5, <2>1
  <2> QED BY <1>2, <1>3, <2>2
<1>6. PICK f : f = [x \in S |-> place[x]]
  OBVIOUS
<1>7. f \in Surjection(S, 0 .. Cardinality(S) - 1)
  <2>1. f \in [S -> 0 .. Cardinality(S) - 1]
    BY <1>10, <1>6
  <2>2. \A x, y \in S : f[x] = f[y] => x = y
    BY <1>4, <1>6
  <2>3. f \in Injection(S, 0 .. Cardinality(S) - 1)
    BY <2>1, <2>2, Fun_IsInj
  <2>4. IsFiniteSet(0 .. Cardinality(S) - 1) /\ Cardinality(0 .. Cardinality(S) - 1) = Cardinality(S)
    <3>1. PICK c \in Nat : c = Cardinality(S)
      BY <1>0
    <3>2. IsFiniteSet(0 .. c - 1) /\ Cardinality(0 .. c - 1) = IF 0 > c - 1 THEN 0 ELSE (c - 1) - 0 + 1
      <4>1. 0 \in Int /\ c - 1 \in Int
        OBVIOUS
      <4> QED BY ONLY <4>1, FS_Interval
    <3> QED BY <3>1, <3>2
  <2> QED BY <1>k, <2>3, <2>4, FS_Injection
<1>8. \A i \in 0 .. Cardinality(S) - 1 : \E x \in S : place[x] = i
  BY <1>6, <1>7 DEF Surjection
<1> QED BY <1>2, <1>4, <1>5, <1>8, <1>10

\* A sorted list has every element once, in the order of their keys.
LEMMA Sorted ==
    ASSUME NEW S, NEW key, NEW n \in Nat, Keyed(S, key, n), NEW s, s = SortedBy(S, key)
    PROVE  /\ s \in Seq(S) /\ Len(s) = Cardinality(S) /\ Len(s) \in Nat
           /\ \A x \in S : \E i \in 1 .. Len(s) : s[i] = x
           /\ \A i, j \in 1 .. Len(s) : i < j <=> LexLess(key[s[i]], key[s[j]])
           /\ \A i \in 1 .. Len(s) : i - 1 = Cardinality(Smaller(S, key, s[i]))
<1>1. PICK place : Placed(S, key, place)
  <2>1. PICK f : f = [x \in S |-> Cardinality(Smaller(S, key, x))]
    OBVIOUS
  <2> QED BY <2>1 DEF Placed
<1>2. /\ \A x, y \in S : LexLess(key[x], key[y]) <=> place[x] < place[y]
      /\ \A x \in S : place[x] \in 0 .. Cardinality(S) - 1
      /\ \A i \in 0 .. Cardinality(S) - 1 : \E x \in S : place[x] = i
      /\ \A x, y \in S : place[x] = place[y] => x = y
  BY <1>1, Places
<1>3. PICK c \in Nat : c = Cardinality(S)
  BY FS_CardinalityType DEF Keyed
<1>4. \A x \in S : place[x] = Cardinality(Smaller(S, key, x))
  BY <1>1 DEF Placed
<1>5. DOMAIN s = 1 .. c /\ \A i \in 1 .. c : s[i] \in S /\ place[s[i]] = i - 1
  <2>1. DOMAIN s = 1 .. c
    BY <1>3 DEF SortedBy
  <2>2. ASSUME NEW i \in 1 .. c PROVE s[i] \in S /\ place[s[i]] = i - 1
    <3>1. i - 1 \in 0 .. c - 1
      OBVIOUS
    <3>2. PICK x \in S : place[x] = i - 1
      BY ONLY <1>2, <1>3, <3>1
    <3>3. s[i] = CHOOSE z \in S : Cardinality(Smaller(S, key, z)) = i - 1
      BY <1>3 DEF SortedBy, Smaller
    <3>4. \E z \in S : Cardinality(Smaller(S, key, z)) = i - 1
      BY <1>4, <3>2
    <3>5. s[i] \in S /\ Cardinality(Smaller(S, key, s[i])) = i - 1
      BY ONLY <3>3, <3>4
    <3> QED BY <1>4, <3>5
  <2> QED BY <2>1, <2>2
<1>6. s \in Seq(S) /\ Len(s) = c
  <2> DEFINE At(i) == CHOOSE x \in S : Cardinality({y \in S : LexLess(key[y], key[x])}) = i - 1
  <2>1. s = [i \in 1 .. c |-> At(i)]
    BY <1>3 DEF SortedBy
  <2> HIDE DEF At
  <2>2. \A i \in 1 .. c : At(i) \in S
    BY ONLY <1>5, <2>1
  <2>3. s \in [1 .. c -> S]
    BY ONLY <2>1, <2>2
  <2> QED BY <1>3, <2>3
<1>7. ASSUME NEW x \in S PROVE \E i \in 1 .. c : s[i] = x
  <2>1. place[x] \in 0 .. c - 1
    BY <1>2, <1>3
  <2>2. place[x] + 1 \in 1 .. c /\ (place[x] + 1) - 1 = place[x]
    BY <2>1
  <2>3. PICK i \in 1 .. c : i = place[x] + 1 /\ i - 1 = place[x]
    BY <2>2
  <2>4. s[i] \in S /\ place[s[i]] = place[x]
    BY <1>5, <2>3
  <2> QED BY <1>2, <2>4
<1>8. \A i, j \in 1 .. c : i < j <=> LexLess(key[s[i]], key[s[j]])
  BY <1>2, <1>5
<1>9. \A i \in 1 .. c : i - 1 = Cardinality(Smaller(S, key, s[i]))
  BY <1>4, <1>5
<1> QED BY <1>3, <1>6, <1>7, <1>8, <1>9

-----------------------------------------------------------------------------
(* Receipts of the configuration, the run and the proofs *)

LEMMA ConfigAccepted ==
    ASSUME NEW config \in Optional(Configs), NEW reasons \in SUBSET ConfigReasons, NEW raw,
           raw = IF config # Null THEN <<config>> ELSE IF "MISSING" \in reasons THEN Null ELSE <<>>,
           (config = Null) = (reasons # {}), "MISSING" \in reasons => reasons = {"MISSING"}
    PROVE  ReceiptAccepted("config", ConfigReceipt(raw, config, reasons).body)
<1>1. config # Null => /\ config \in Configs /\ raw = <<config>> /\ raw # Null
                       /\ RawLength(raw) = 2 /\ reasons = {}
  BY NullAssumption DEF Optional, RawLength
<1>2. config = Null /\ "MISSING" \in reasons => raw = Null /\ RawLength(raw) = 0
  BY DEF RawLength
<1>3. config = Null /\ "MISSING" \notin reasons => raw # Null /\ RawLength(raw) = 1
  BY NullAssumption DEF RawLength
<1>4. PICK doc : doc = ConfigReceipt(raw, config, reasons).body
  OBVIOUS
<1>5. doc = [status |-> IF raw = Null THEN "MISSING" ELSE IF config = Null THEN "INVALID" ELSE "VALID",
             reasons |-> reasons, raw |-> raw # Null, validated |-> config # Null,
             length |-> RawLength(raw), admission |-> 1]
  BY <1>4 DEF ConfigReceipt
<1>6. doc.length \in U64 /\ doc.admission \in U64 \ {0} /\ RawLength(raw) \in Nat
  <2>1. {0, 1, 2} \subseteq U64
    BY WidthAssumption, RangeAssumption DEF U64
  <2> QED BY <1>1, <1>2, <1>3, <1>5, <2>1
<1>7. doc \in ConfigReceiptSchema
  BY <1>5, <1>6 DEF ConfigReceiptSchema
<1>8. ConfigReceiptValid(doc)
  <2>1. CASE config # Null
    <3>1. doc.status = "VALID" /\ doc.reasons = {} /\ doc.length = 2
      BY <1>1, <1>5, <2>1
    <3>2. doc.raw /\ doc.validated
      BY <1>1, <1>5, <2>1
    <3> QED BY <1>6, <3>1, <3>2 DEF ConfigReceiptValid
  <2>2. CASE config = Null /\ "MISSING" \in reasons
    BY <1>2, <1>5, <1>6, <2>2 DEF ConfigReceiptValid
  <2>3. CASE config = Null /\ "MISSING" \notin reasons
    BY <1>3, <1>5, <1>6, <2>3 DEF ConfigReceiptValid
  <2> QED BY <2>1, <2>2, <2>3
<1> QED BY <1>4, <1>7, <1>8 DEF ReceiptAccepted

IsFunction(f) == f = [x \in DOMAIN f |-> f[x]]

\* What a set of proofs is made of, where its validator does not say.
ProofSchema == [reference : Int, residual : Int, adverse : Int]
ProofsShape(p) ==
    DOMAIN p = {"proof_rows", "rows"} /\ IsFunction(p) /\ p.rows \in Seq(ProofSchema) /\ p.rows # <<>>

LEMMA ProofsAccepted ==
    ASSUME NEW references \in SUBSET (1 .. 2), NEW residuals \in SUBSET (1 .. 2),
           NEW doc, doc = ProofSet(references, residuals, {0, 5}), doc.proof_rows <= MaxProofRows
    PROVE  /\ ReceiptAccepted("proofs", doc)
           /\ references # {} /\ residuals # {} => ProofsShape(doc)
<1> DEFINE All == [reference : 1 .. 2, residual : 1 .. 2, adverse : {0, 5}]
           rows == [reference : references, residual : residuals, adverse : {0, 5}]
           key == [row \in rows |-> <<row.reference, row.residual, row.adverse>>]
<1>1. doc = [proof_rows |-> Cardinality(rows), rows |-> SortedBy(rows, key)]
  BY DEF ProofSet
<1>2. rows \in SUBSET All
  <2>1. ASSUME NEW row \in rows PROVE row \in All
    OBVIOUS
  <2> QED BY <2>1
<1>3. IsFiniteSet(rows)
  <2> DEFINE code == [row \in rows |-> 100 * row.reference + 10 * row.residual + row.adverse]
  <2>1. \A row \in rows : /\ code[row] \in 0 .. 225 /\ row.reference \in 1 .. 2
                          /\ row.residual \in 1 .. 2 /\ row.adverse \in {0, 5}
    BY <1>2
  <2>2. ASSUME NEW x \in rows, NEW y \in rows, code[x] = code[y] PROVE x = y
    <3>1. 100 * x.reference + 10 * x.residual + x.adverse = 100 * y.reference + 10 * y.residual + y.adverse
      BY <2>2
    <3>2. x.reference = y.reference /\ x.residual = y.residual /\ x.adverse = y.adverse
      <4> HIDE DEF rows
      <4> QED BY ONLY <2>1, <3>1, x \in rows, y \in rows
    <3> QED BY <1>2, <3>2
  <2>3. code \in [rows -> 0 .. 225]
    <3> HIDE DEF rows
    <3> QED BY <2>1
  <2>4. code \in Injection(rows, 0 .. 225)
    <3> HIDE DEF rows, code
    <3> QED BY <2>2, <2>3, Fun_IsInj
  <2>5. IsFiniteSet(0 .. 225)
    <3>1. 0 \in Int /\ 225 \in Int
      OBVIOUS
    <3> QED BY ONLY <3>1, FS_Interval
  <2> HIDE DEF rows, code
  <2> QED BY <2>4, <2>5, FS_Injection
<1>4. \A row \in rows : /\ Tuple(key[row], 3) /\ key[row][1] = row.reference
                        /\ key[row][2] = row.residual /\ key[row][3] = row.adverse
  BY <1>2 DEF Tuple
<1>5. Keyed(rows, key, 3)
  <2>1. ASSUME NEW x \in rows, NEW y \in rows, \A i \in 1 .. 3 : key[x][i] = key[y][i] PROVE x = y
    <3>1. x.reference = y.reference /\ x.residual = y.residual /\ x.adverse = y.adverse
      <4>1. 1 \in 1 .. 3 /\ 2 \in 1 .. 3 /\ 3 \in 1 .. 3
        OBVIOUS
      <4> QED BY ONLY <1>4, <2>1, <4>1
    <3> QED BY <1>2, <3>1
  <2> HIDE DEF rows, key
  <2> QED BY <1>3, <1>4, <2>1 DEF Keyed
<1> HIDE DEF key
<1>6. PICK s : s = SortedBy(rows, key)
  OBVIOUS
<1>7. /\ s \in Seq(rows) /\ Len(s) = Cardinality(rows) /\ Len(s) \in Nat
      /\ \A i, j \in 1 .. Len(s) : i < j => LexLess(key[s[i]], key[s[j]])
  <2> HIDE DEF rows
  <2> QED BY <1>5, <1>6, Sorted
<1>8. DOMAIN s = 1 .. Len(s) /\ \A i \in DOMAIN s : s[i] \in rows
  <2> HIDE DEF rows
  <2> QED BY <1>7
<1>9. \A i \in DOMAIN s : key[s[i]] = <<s[i].reference, s[i].residual, s[i].adverse>>
  BY <1>8 DEF key
<1>10. Increasing([i \in DOMAIN s |-> <<s[i].reference, s[i].residual, s[i].adverse>>])
  <2> HIDE DEF rows
  <2>1. PICK tuples : tuples = [i \in DOMAIN s |-> <<s[i].reference, s[i].residual, s[i].adverse>>]
    OBVIOUS
  <2>2. DOMAIN tuples = DOMAIN s /\ \A i \in DOMAIN s : tuples[i] = key[s[i]]
    BY <1>9, <2>1
  <2>3. Increasing(tuples)
    BY <1>7, <1>8, <2>2 DEF Increasing
  <2> QED BY <2>1, <2>3
<1>11. doc.rows = s /\ doc.proof_rows = Len(s)
  <2> HIDE DEF rows
  <2> QED BY <1>1, <1>6, <1>7
<1>12. references # {} /\ residuals # {} => ProofsShape(doc)
  <2> SUFFICES ASSUME references # {}, residuals # {} PROVE ProofsShape(doc)
    OBVIOUS
  <2>1. PICK r \in references, q \in residuals : TRUE
    OBVIOUS
  <2>2. PICK x : x = [reference |-> r, residual |-> q, adverse |-> 0]
    OBVIOUS
  <2>3. x \in rows
    BY <2>1, <2>2
  <2>4. s # <<>>
    <3> HIDE DEF rows
    <3>1. \E i \in 1 .. Len(s) : s[i] = x
      <4>1. \A z \in rows : \E i \in 1 .. Len(s) : s[i] = z
        BY ONLY <1>5, <1>6, 3 \in Nat, Sorted, SMTT(30)
      <4> QED BY ONLY <2>3, <4>1
    <3>2. Len(s) # 0
      BY <1>7, <3>1
    <3> QED BY <3>2
  <2>5. rows \subseteq ProofSchema
    BY <1>2 DEF ProofSchema
  <2> HIDE DEF rows
  <2>6. s \in Seq(ProofSchema)
    BY <1>7, <2>5
  <2>7. DOMAIN doc = {"proof_rows", "rows"} /\ IsFunction(doc)
    BY <1>1 DEF IsFunction
  <2> QED BY <1>11, <2>4, <2>6, <2>7 DEF ProofsShape
<1> HIDE DEF rows
<1>13. doc.proof_rows \in 0 .. MaxProofRows
  BY <1>7, <1>11, CapsAssumption
<1>14. ReceiptAccepted("proofs", doc)
  BY <1>10, <1>11, <1>13 DEF ReceiptAccepted, ProofSetValid
<1> QED BY <1>12, <1>14

-----------------------------------------------------------------------------
(* The receipt of the run *)

LEMMA Candidates ==
    ASSUME NEW s \in Signals, NEW m, m = ManifestOf(s.registry, s.candidates)
    PROVE  ToSet(m.candidates) = s.candidates
<1> DEFINE S == s.candidates
           key == [c \in S |-> StorageKey(c)]
<1>1. /\ IsFiniteSet(S) /\ S \subseteq CandidateSchema
      /\ \A c, d \in S : c.path = d.path => c = d
  BY FilesAssumption
<1>2. ASSUME NEW c \in S PROVE Tuple(key[c], 8) /\ key[c][8] = c.path
  <2>1. /\ {c.requested, c.decision, c.snapshot, c.horizon, c.raw, c.path} \subseteq Int
        /\ c.producer = Null \/ c.producer \in Int
    BY <1>1 DEF CandidateSchema, Optional
  <2>2. PICK none \in Int, producer \in Int :
           key[c] = <<c.requested, none, producer, c.decision, c.snapshot, c.horizon, c.raw, c.path>>
    <3>1. key[c] = <<c.requested, IF c.producer = Null THEN 1 ELSE 0, IF c.producer = Null THEN 0 ELSE c.producer,
                     c.decision, c.snapshot, c.horizon, c.raw, c.path>>
      BY DEF StorageKey
    <3> HIDE DEF key
    <3>2. CASE c.producer = Null
      BY <3>1, <3>2
    <3>3. CASE c.producer # Null
      BY <2>1, <3>1, <3>3
    <3> QED BY <3>2, <3>3
  <2> HIDE DEF key
  <2> QED BY <2>1, <2>2 DEF Tuple
<1>3. Keyed(S, key, 8)
  <2> HIDE DEF S, key
  <2>1. 8 \in 1 .. 8
    OBVIOUS
  <2> QED BY <1>1, <1>2, <2>1 DEF Keyed
<1>4. m.candidates = SortedBy(S, key)
  BY DEF ManifestOf
<1> HIDE DEF S, key
<1>5. PICK list : list = m.candidates /\ list = SortedBy(S, key)
  BY <1>4
<1>6. list \in Seq(S) /\ Len(list) \in Nat /\ \A x \in S : \E i \in 1 .. Len(list) : list[i] = x
  <2>1. PICK n \in Nat : Keyed(S, key, n)
    BY ONLY <1>3, 8 \in Nat
  <2>2. list \in Seq(S)
    BY ONLY <1>5, <2>1, Sorted
  <2>3. Len(list) \in Nat
    BY ONLY <1>5, <2>1, Sorted
  <2>4. \A x \in S : \E i \in 1 .. Len(list) : list[i] = x
    BY ONLY <1>5, <2>1, Sorted
  <2> QED BY ONLY <2>2, <2>3, <2>4
<1>7. DOMAIN list = 1 .. Len(list) /\ \A i \in DOMAIN list : list[i] \in S
  BY <1>6
<1>8. ToSet(list) = S
  BY <1>6, <1>7 DEF ToSet
<1> QED BY <1>5, <1>8 DEF S

Scope == [decision : Nat, market : Nat, horizon : Nat]

LEMMA ScopesSorted ==
    ASSUME NEW s \in Signals, NEW scopes, scopes = Requests(ManifestOf(s.registry, s.candidates)),
           NEW list, list = SortedBy(scopes, [scope \in scopes |-> <<scope.decision, scope.market>>])
    PROVE  list \in Seq(Scope) /\ list # <<>> /\ ModelScopes(list)
<1> DEFINE key == [scope \in scopes |-> <<scope.decision, scope.market>>]
<1>1. /\ IsFiniteSet(s.candidates) /\ s.candidates # {}
      /\ \A c \in s.candidates : /\ c.decision \in Nat /\ c.requested \in Nat /\ c.horizon \in Nat
                                 /\ c.decision \in U64 \ {0} /\ c.horizon \in U64
      /\ \A c, d \in s.candidates :
            c.decision = d.decision /\ c.requested = d.requested => c.horizon = d.horizon
  BY FilesAssumption DEF CandidateSchema
<1>2. scopes = {[decision |-> c.decision, market |-> c.requested, horizon |-> c.horizon] : c \in s.candidates}
  BY Candidates DEF Requests
<1>3. PICK f : f = [c \in s.candidates |->
                      [decision |-> c.decision, market |-> c.requested, horizon |-> c.horizon]]
  OBVIOUS
<1>4. f \in Surjection(s.candidates, scopes)
  BY <1>2, <1>3 DEF Surjection
<1>5. IsFiniteSet(scopes)
  BY <1>1, <1>4, FS_Surjection
<1>6. \A x \in scopes : \E c \in s.candidates :
         x = [decision |-> c.decision, market |-> c.requested, horizon |-> c.horizon]
  BY <1>2
<1>7. \A x \in scopes : x \in Scope /\ x.decision \in U64 \ {0} /\ x.horizon \in U64
  BY <1>1, <1>6 DEF Scope
<1>8. scopes # {}
  BY <1>1, <1>2
<1>9. \A x \in scopes : Tuple(key[x], 2) /\ key[x][1] = x.decision /\ key[x][2] = x.market
  BY <1>7 DEF Scope, Tuple
<1>10. Keyed(scopes, key, 2)
  <2>1. ASSUME NEW x \in scopes, NEW y \in scopes, \A i \in 1 .. 2 : key[x][i] = key[y][i] PROVE x = y
    <3>1. 1 \in 1 .. 2 /\ 2 \in 1 .. 2
      OBVIOUS
    <3>2. x.decision = y.decision /\ x.market = y.market
      BY ONLY <1>9, <2>1, <3>1
    <3>3. PICK c \in s.candidates : x = [decision |-> c.decision, market |-> c.requested, horizon |-> c.horizon]
      BY <1>6
    <3>4. PICK d \in s.candidates : y = [decision |-> d.decision, market |-> d.requested, horizon |-> d.horizon]
      BY <1>6
    <3>5. c.horizon = d.horizon
      BY <1>1, <3>2, <3>3, <3>4
    <3> QED BY <3>2, <3>3, <3>4, <3>5
  <2> HIDE DEF key
  <2> QED BY <1>5, <1>9, <2>1 DEF Keyed
<1>11. list = SortedBy(scopes, key)
  OBVIOUS
<1> HIDE DEF key
<1>12. /\ list \in Seq(scopes) /\ Len(list) \in Nat /\ \A x \in scopes : \E i \in 1 .. Len(list) : list[i] = x
       /\ \A i, j \in 1 .. Len(list) : i < j => LexLess(key[list[i]], key[list[j]])
  <2>1. PICK n \in Nat : Keyed(scopes, key, n)
    BY <1>10
  <2>2. list \in Seq(scopes) /\ Len(list) \in Nat /\ \A x \in scopes : \E i \in 1 .. Len(list) : list[i] = x
    <3>1. list \in Seq(scopes)
      BY ONLY <2>1, <1>11, Sorted
    <3>2. Len(list) \in Nat
      BY ONLY <2>1, <1>11, Sorted
    <3>3. \A x \in scopes : \E i \in 1 .. Len(list) : list[i] = x
      BY ONLY <2>1, <1>11, Sorted
    <3> QED BY ONLY <3>1, <3>2, <3>3
  <2>3. \A i, j \in 1 .. Len(list) : i < j <=> LexLess(key[list[i]], key[list[j]])
    BY ONLY <2>1, <1>11, Sorted
  <2> QED BY ONLY <2>2, <2>3
<1>13. DOMAIN list = 1 .. Len(list) /\ \A i \in DOMAIN list : list[i] \in scopes
  BY ONLY <1>12
<1>14. list \in Seq(Scope) /\ list # <<>>
  BY <1>7, <1>8, <1>12, <1>13
<1>15. Increasing([i \in DOMAIN list |-> <<list[i].decision, list[i].market>>])
  <2>1. PICK tuples : tuples = [i \in DOMAIN list |-> <<list[i].decision, list[i].market>>]
    OBVIOUS
  <2>2. DOMAIN tuples = DOMAIN list /\ \A i \in DOMAIN list : tuples[i] = key[list[i]]
    BY <1>13, <2>1 DEF key
  <2>3. Increasing(tuples)
    BY ONLY <1>12, <1>13, <2>2 DEF Increasing
  <2> QED BY <2>1, <2>3
<1>16. \A x \in ToSet(list) : x \in scopes
  BY <1>13 DEF ToSet
<1> QED BY <1>7, <1>14, <1>15, <1>16 DEF ModelScopes

\* What is frozen was drawn from the constants.
InputsFit(i) ==
    /\ i.fixture \in Fixtures /\ i.config \in Optional(Configs)
    /\ \E models \in Models : i.registry = models.registry /\ i.manifest = models.manifest

LEMMA ModelsFit ==
    ASSUME NEW models \in Models
    PROVE  \/ models.registry = Null /\ models.manifest = Null
           \/ \E s \in Signals : /\ models.manifest = ManifestOf(s.registry, s.candidates)
                                 /\ models.registry # Null /\ models.manifest # Null
BY NullAssumption DEF Models

LEMMA RunAccepted ==
    ASSUME NEW i, InputsFit(i)
    PROVE  ReceiptAccepted("run", RunReceipt(i).body)
<1>1. PICK f \in Fixtures : f = i.fixture
  BY DEF InputsFit
<1>2. \/ i.registry = Null /\ i.manifest = Null
      \/ \E s \in Signals : i.manifest = ManifestOf(s.registry, s.candidates) /\ i.registry # Null /\ i.manifest # Null
  BY ModelsFit DEF InputsFit
<1>3. PICK scopes : scopes = IF i.manifest = Null THEN {} ELSE Requests(i.manifest)
  OBVIOUS
<1>4. PICK list : list = SortedBy(scopes, [scope \in scopes |-> <<scope.decision, scope.market>>])
  OBVIOUS
<1>5. PICK doc : doc = [tick |-> f.tick, budget |-> IF i.manifest = Null THEN 0 ELSE 1, terminal |-> f.terminal,
             mode |-> IF i.manifest = Null THEN "DISABLED" ELSE "CACHED_FIXTURES", policy |-> f.policy,
             registry |-> i.manifest # Null, manifest |-> i.manifest # Null,
             scopes |-> list, groups |-> f.schedule]
  OBVIOUS
<1>6. RunReceipt(i).body = doc
  BY <1>1, <1>3, <1>4, <1>5 DEF RunReceipt
<1>7. /\ f.tick \in 2 .. MaxU64 /\ f.terminal \in 1 .. MaxU64
      /\ f.policy \in {"FORCE_CLOSE_NEXT_EVENT", "LEAVE_MARKED_OPEN"}
      /\ f.schedule \in Seq([slot : Nat, group : Nat, cutoff : Nat]) \ {<<>>}
      /\ AvailabilitySchedule(f.schedule)
  BY FixturesAssumption
<1>8. i.manifest = Null => list = <<>> /\ list \in Seq(Scope) /\ ModelScopes(list)
  <2> SUFFICES ASSUME i.manifest = Null PROVE list = <<>> /\ list \in Seq(Scope) /\ ModelScopes(list)
    OBVIOUS
  <2>1. Cardinality(scopes) = 0
    BY <1>3, FS_EmptySet
  <2>2. list = <<>>
    BY <1>4, <2>1 DEF SortedBy
  <2>3. ToSet(list) = {} /\ DOMAIN list = {}
    BY <2>2 DEF ToSet
  <2> QED BY <2>2, <2>3 DEF ModelScopes, Increasing
<1>9. i.manifest # Null => list # <<>> /\ list \in Seq(Scope) /\ ModelScopes(list)
  BY <1>2, <1>3, <1>4, ScopesSorted
<1>10. {0, 1} \subseteq U64 /\ f.tick \in U64 \ {0} /\ f.terminal \in U64 \ {0} /\ f.tick \in Nat
       /\ f.terminal \in Nat /\ 1 < f.tick
  BY <1>7, WidthAssumption, RangeAssumption DEF U64
<1>11. doc \in RunReceiptSchema
  BY <1>5, <1>7, <1>8, <1>9, <1>10 DEF RunReceiptSchema, Scope
<1>12. ModelMode(doc)
  <2>1. CASE i.manifest = Null
    BY <1>5, <1>8, <2>1 DEF ModelMode
  <2>2. CASE i.manifest # Null
    <3>1. doc.mode # "DISABLED" /\ doc.budget = 1 /\ doc.tick = f.tick /\ doc.scopes # <<>>
      BY <1>5, <1>9, <2>2
    <3>2. doc.registry /\ doc.manifest
      BY <1>5, <2>2
    <3> QED BY <1>10, <3>1, <3>2 DEF ModelMode
  <2> QED BY <2>1, <2>2
<1>13. RunReceiptValid(doc)
  BY <1>5, <1>7, <1>8, <1>9, <1>10, <1>12 DEF RunReceiptValid
<1> QED BY <1>6, <1>11, <1>13 DEF ReceiptAccepted

-----------------------------------------------------------------------------
(* The receipts of a signal, of a broken journal, of a measurement *)

LEMMA VerdictFits ==
    ASSUME NEW flaws \in SUBSET SignalCodes, NEW codes, codes = SignalVerdict(flaws)
    PROVE  codes \subseteq SignalCodes /\ ValidationStage(codes)
<1>1. CASE "BYTES_INVALID" \in flaws
  <2>1. codes = {"BYTES_INVALID"}
    BY <1>1, VerdictStages
  <2> QED BY <2>1 DEF ValidationStage, SignalCodes, IdentityCodes, SequenceCodes, LateCodes
<1>2. CASE "BYTES_INVALID" \notin flaws /\ "ORDER_SHAPED" \in flaws
  <2>1. codes = {"SCHEMA_UNKNOWN", "ORDER_SHAPED"}
    BY <1>2, VerdictStages
  <2> QED BY <2>1 DEF ValidationStage, SignalCodes, IdentityCodes, SequenceCodes, LateCodes
<1>3. CASE flaws \cap {"BYTES_INVALID", "ORDER_SHAPED"} = {} /\ "SCHEMA_UNKNOWN" \in flaws
  <2>1. codes = {"SCHEMA_UNKNOWN"}
    BY <1>3, VerdictStages
  <2> QED BY <2>1 DEF ValidationStage, SignalCodes, IdentityCodes, SequenceCodes, LateCodes
<1>4. CASE flaws \cap {"BYTES_INVALID", "ORDER_SHAPED", "SCHEMA_UNKNOWN"} = {} /\ "ID_MISMATCH" \in flaws
  <2>1. codes = {"ID_MISMATCH"}
    BY <1>4, VerdictStages
  <2> QED BY <2>1 DEF ValidationStage, SignalCodes, IdentityCodes, SequenceCodes, LateCodes
<1>5. ASSUME flaws \cap {"BYTES_INVALID", "ORDER_SHAPED", "SCHEMA_UNKNOWN", "ID_MISMATCH"} = {}
      PROVE  codes \subseteq SignalCodes /\ ValidationStage(codes)
  <2> DEFINE early == {"BYTES_INVALID", "ORDER_SHAPED", "SCHEMA_UNKNOWN", "ID_MISMATCH"}
  <2>1. CASE flaws \cap IdentityCodes # {}
    <3>1. codes = flaws \cap (IdentityCodes \cup {"DRIFT_DISABLED"})
      BY <1>5, <2>1, VerdictStages
    <3>2. \A code \in codes : code \in flaws /\ (code \in IdentityCodes \/ code = "DRIFT_DISABLED")
      BY <3>1
    <3>3. codes \cap (early \cup SequenceCodes \cup {"TIME_INVALID"}) = {}
      BY <3>2 DEF IdentityCodes, SequenceCodes
    <3> QED BY <3>2, <3>3 DEF ValidationStage
  <2>2. CASE flaws \cap IdentityCodes = {} /\ "PRODUCER_SEQUENCE_INVALID" \in flaws
    <3>1. codes = flaws \cap {"PRODUCER_SEQUENCE_INVALID", "DRIFT_DISABLED"}
      BY <1>5, <2>2, VerdictStages
    <3> QED BY <3>1 DEF ValidationStage, SignalCodes, IdentityCodes, SequenceCodes, LateCodes
  <2>3. CASE flaws \cap (IdentityCodes \cup {"PRODUCER_SEQUENCE_INVALID"}) = {} /\ "REPLAYED" \in flaws
    <3>1. codes = flaws \cap {"REPLAYED", "DRIFT_DISABLED"}
      BY <1>5, <2>3, VerdictStages
    <3> QED BY <3>1 DEF ValidationStage, SignalCodes, IdentityCodes, SequenceCodes, LateCodes
  <2>4. CASE flaws \cap (IdentityCodes \cup SequenceCodes) = {}
    <3>1. codes = IF "TIME_INVALID" \in flaws THEN flaws \ LateCodes ELSE flaws
      BY <1>5, <2>4, VerdictStages
    <3>2. codes \subseteq flaws /\ ("TIME_INVALID" \in codes => codes \cap LateCodes = {})
      BY <3>1
    <3>3. codes \cap (early \cup IdentityCodes \cup SequenceCodes) = {}
      BY <1>5, <2>4, <3>2
    <3> QED BY <3>2, <3>3 DEF ValidationStage
  <2> QED BY <2>1, <2>2, <2>3, <2>4 DEF SequenceCodes
<1> QED BY <1>1, <1>2, <1>3, <1>4, <1>5

LEMMA ModelAccepted ==
    ASSUME NEW flaws \in SUBSET SignalCodes, NEW opinion \in Opinions,
           NEW partly \in {{}, {"declared_signal_id"}},
           NEW codes, codes = SignalVerdict(flaws),
           NEW said, said = IF codes = {} THEN opinion ELSE Fallback,
           NEW doc, doc =
              [status |-> CASE codes = {} -> "ACCEPTED"
                            [] codes = {"DRIFT_DISABLED"} -> "DRIFT_DISABLED"
                            [] "EXPIRED" \in codes /\ codes \subseteq LateCodes -> "EXPIRED"
                            [] OTHER -> "REJECTED",
               reasons |-> codes,
               evidence |-> CASE "BYTES_INVALID" \in codes -> {}
                              [] "SCHEMA_UNKNOWN" \in codes -> partly
                              [] OTHER -> CandidateEvidence,
               accepted |-> said.accepted, action |-> said.action, score |-> said.score,
               abstain |-> said.abstain, long_bias |-> said.long_bias, exit_bias |-> said.exit_bias,
               uncertainty |-> said.uncertainty, ood |-> said.ood]
    PROVE  ReceiptAccepted("model", doc)
<1>1. codes \subseteq SignalCodes /\ ValidationStage(codes)
  BY VerdictFits
<1>2. PICK status : status = SignalStatus(codes)
  OBVIOUS
<1>3. status \in {"ACCEPTED", "REJECTED", "EXPIRED", "DRIFT_DISABLED"} /\ (status = "ACCEPTED" <=> codes = {})
  BY <1>2 DEF SignalStatus
<1>4. doc.status = status
  <2>1. "DRIFT_DISABLED" \notin LateCodes
    BY DEF LateCodes
  <2>2. CASE codes = {}
    BY <1>2, <2>2 DEF SignalStatus
  <2>3. CASE codes = {"DRIFT_DISABLED"}
    BY <1>2, <2>1, <2>3 DEF SignalStatus
  <2>4. CASE codes # {} /\ codes # {"DRIFT_DISABLED"} /\ "EXPIRED" \in codes /\ codes \subseteq LateCodes
    BY <1>2, <2>4 DEF SignalStatus
  <2>5. CASE codes # {} /\ codes # {"DRIFT_DISABLED"} /\ ~("EXPIRED" \in codes /\ codes \subseteq LateCodes)
    BY <1>2, <2>5 DEF SignalStatus
  <2> QED BY <2>2, <2>3, <2>4, <2>5
<1>5. PICK evidence : evidence = IF "BYTES_INVALID" \in codes THEN {}
                                 ELSE IF "SCHEMA_UNKNOWN" \in codes THEN partly ELSE CandidateEvidence
  OBVIOUS
<1>6. doc.evidence = evidence
  <2>1. "BYTES_INVALID" \in codes => "SCHEMA_UNKNOWN" \notin codes
    BY <1>1 DEF ValidationStage
  <2> QED BY <1>5, <2>1
<1>7. evidence \subseteq CandidateEvidence
  BY <1>5 DEF CandidateEvidence
<1>8. /\ said.accepted \in BOOLEAN /\ said.action \in {"ABSTAIN", "LONG_BIAS", "EXIT_BIAS"}
      /\ said.score \in I128 /\ said.score \in Int
      /\ \A n \in {said.abstain, said.long_bias, said.exit_bias, said.uncertainty, said.ood} :
            n \in 0 .. Unit /\ n \in Nat
      /\ said.abstain + said.long_bias + said.exit_bias = Unit
  <2>1. CASE codes = {}
    <3>1. said = opinion
      BY <2>1
    <3>2. /\ said.accepted = TRUE /\ said.action \in {"ABSTAIN", "LONG_BIAS", "EXIT_BIAS"} /\ said.score \in I128
          /\ {said.abstain, said.long_bias, said.exit_bias, said.uncertainty, said.ood} \subseteq 0 .. Unit
          /\ said.abstain + said.long_bias + said.exit_bias = Unit
      BY <3>1, OpinionsAssumption
    <3>3. said.score \in Int
      BY <3>2 DEF I128
    <3>4. \A n \in 0 .. Unit : n \in Nat
      OBVIOUS
    <3> QED BY ONLY <3>2, <3>3, <3>4
  <2>2. CASE codes # {}
    <3>1. said = Fallback
      BY <2>2
    <3>2. /\ said.accepted = FALSE /\ said.action = "ABSTAIN" /\ said.score = 0 /\ said.abstain = Unit
          /\ said.long_bias = 0 /\ said.exit_bias = 0 /\ said.uncertainty = Unit /\ said.ood = Unit
      BY <3>1 DEF Fallback
    <3>3. Unit \in Nat /\ 0 \in I128
      BY RangeAssumption DEF I128
    <3>4. 0 \in 0 .. Unit /\ Unit \in 0 .. Unit /\ Unit + 0 + 0 = Unit
      BY ONLY <3>3
    <3>5. said.abstain + said.long_bias + said.exit_bias = Unit
      BY ONLY <3>2, <3>4
    <3>6. \A n \in {said.abstain, said.long_bias, said.exit_bias, said.uncertainty, said.ood} :
             n \in 0 .. Unit /\ n \in Nat
      BY ONLY <3>2, <3>3, <3>4
    <3>7. said.accepted \in BOOLEAN /\ said.action \in {"ABSTAIN", "LONG_BIAS", "EXIT_BIAS"}
      BY ONLY <3>2
    <3>8. said.score \in I128 /\ said.score \in Int
      BY ONLY <3>2, <3>3
    <3> QED BY ONLY <3>5, <3>6, <3>7, <3>8
  <2> QED BY <2>1, <2>2
<1>9. doc = [status |-> status, reasons |-> codes, evidence |-> evidence,
             accepted |-> said.accepted, action |-> said.action, score |-> said.score,
             abstain |-> said.abstain, long_bias |-> said.long_bias, exit_bias |-> said.exit_bias,
             uncertainty |-> said.uncertainty, ood |-> said.ood]
  BY <1>4, <1>6
<1>10. doc \in ModelReceiptSchema
  BY ONLY <1>1, <1>3, <1>7, <1>8, <1>9 DEF ModelReceiptSchema
<1>11. SignalAuthority(doc)
  <2>1. CASE codes = {}
    <3>1. said.accepted = TRUE
      BY <2>1, OpinionsAssumption
    <3> QED BY <1>3, <1>9, <2>1, <3>1 DEF SignalAuthority
  <2>2. CASE codes # {}
    <3>1. said = Fallback
      BY <2>2
    <3>2. DOMAIN Fallback = {"accepted", "action", "score", "abstain", "long_bias", "exit_bias",
                             "uncertainty", "ood"}
      BY DEF Fallback
    <3>3. \A field \in DOMAIN Fallback : doc[field] = said[field]
      BY ONLY <1>9, <3>2
    <3> QED BY <1>3, <1>9, <2>2, <3>1, <3>3 DEF SignalAuthority
  <2> QED BY <2>1, <2>2
<1>12. /\ "BYTES_INVALID" \in codes => evidence = {}
       /\ codes \cap {"BYTES_INVALID", "SCHEMA_UNKNOWN"} = {} => evidence = CandidateEvidence
  BY <1>5
<1>13. ModelReceiptValid(doc)
  BY ONLY <1>1, <1>2, <1>8, <1>9, <1>11, <1>12 DEF ModelReceiptValid
<1> QED BY <1>10, <1>13 DEF ReceiptAccepted

LEMMA QuarantineAccepted ==
    ASSUME NEW j \in Journals, NEW anchored \in BOOLEAN
    PROVE  ReceiptAccepted("quarantine", QuarantineReceipt(j, anchored))
<1>1. PICK q : q = QuarantineReceipt(j, anchored)
  OBVIOUS
<1>2. PICK slots, components : slots = j.slots /\ components = j.components
  OBVIOUS
<1> DEFINE of(rows, class) == \E i \in DOMAIN rows : rows[i].class = class
           found(name, rows) == {<<name, class>> : class \in {c \in Classifications : of(rows, c)}}
<1>3. PICK reasons : reasons = found("LEDGER_SLOT", slots) \cup found("COMPONENT", components)
            \cup {<<"FOOTPRINT", "MISMATCH">>}
            \cup (IF anchored THEN {} ELSE {<<"INITIAL_PREFIX_ANCHOR", "MISSING">>})
            \cup (IF of(slots, "WRONG") \/ of(slots, "EXTRA") THEN {<<"APPEND_SLOT", "OCCUPIED">>} ELSE {})
  OBVIOUS
<1>4. q = [head |-> IF anchored THEN 1 ELSE Null, state |-> IF anchored THEN 1 ELSE Null,
           expected |-> 1, observed |-> 2, slots |-> slots, components |-> components,
           first_unsafe |-> IF slots = <<>> THEN Null ELSE Head(slots).sequence, reasons |-> reasons]
  BY <1>1, <1>2, <1>3 DEF QuarantineReceipt
<1>5. /\ slots # <<>> \/ components # <<>>
      /\ slots \in Seq(SlotSchema) /\ components \in Seq(ComponentSchema)
      /\ \A i \in DOMAIN slots : SlotRow(slots[i]) /\ slots[i].sequence = slots[1].sequence + i - 1
      /\ \A i \in DOMAIN components : ComponentRow(components[i])
      /\ Increasing([i \in DOMAIN components |->
            <<components[i].rank, IF components[i].ordinal = Null THEN -1 ELSE components[i].ordinal>>])
  BY <1>2, JournalsAssumption
<1>6. \A rows \in {slots, components} :
         /\ \A i \in DOMAIN rows : rows[i].class \in Classifications
         /\ \A class : class \in Faults(rows) <=> of(rows, class)
  <2>1. \A i \in DOMAIN slots : slots[i].class \in Classifications
    <3>1. \A i \in DOMAIN slots : slots[i] \in SlotSchema
      BY <1>5
    <3> QED BY <3>1 DEF SlotSchema
  <2>2. \A i \in DOMAIN components : components[i].class \in Classifications
    <3>1. \A i \in DOMAIN components : components[i] \in ComponentSchema
      BY <1>5
    <3> QED BY <3>1 DEF ComponentSchema
  <2>3. \A rows, class : class \in Faults(rows) <=> of(rows, class)
    BY DEF Faults, ToSet
  <2> QED BY <2>1, <2>2, <2>3
<1>7. \A rows \in {slots, components} : Faults(rows) = {c \in Classifications : of(rows, c)}
  BY <1>6
<1>8. (Faults(slots) \ {"MISSING"} # {}) <=> of(slots, "WRONG") \/ of(slots, "EXTRA")
  <2>1. \A c \in Classifications : c # "MISSING" <=> c = "WRONG" \/ c = "EXTRA"
    BY DEF Classifications
  <2>2. {"WRONG", "EXTRA"} \subseteq Classifications
    BY DEF Classifications
  <2> HIDE DEF of
  <2> QED BY <1>7, <2>1, <2>2
<1>9. (q.head = Null) <=> ~anchored
  BY <1>4, NullAssumption
<1>10. (q.state = Null) <=> ~anchored
  BY <1>4, NullAssumption
<1>11. q.reasons = QuarantineReasons(q)
  <2>1. found("LEDGER_SLOT", slots) = {<<"LEDGER_SLOT", class>> : class \in Faults(slots)}
    BY <1>7
  <2>2. found("COMPONENT", components) = {<<"COMPONENT", class>> : class \in Faults(components)}
    BY <1>7
  <2>3. PICK a, b : a = found("LEDGER_SLOT", slots) /\ b = found("COMPONENT", components)
    OBVIOUS
  <2>4. PICK anchor : anchor = IF anchored THEN {} ELSE {<<"INITIAL_PREFIX_ANCHOR", "MISSING">>}
    OBVIOUS
  <2>5. PICK append : append = IF of(slots, "WRONG") \/ of(slots, "EXTRA") THEN {<<"APPEND_SLOT", "OCCUPIED">>} ELSE {}
    OBVIOUS
  <2>6. q.reasons = a \cup b \cup {<<"FOOTPRINT", "MISMATCH">>} \cup anchor \cup append
    BY <1>3, <1>4, <2>3, <2>4, <2>5
  <2>7. QuarantineReasons(q) = {<<"FOOTPRINT", "MISMATCH">>} \cup anchor \cup a \cup append \cup b
    <3>1. q.slots = slots /\ q.components = components
      BY <1>4
    <3>2. (IF q.head = Null THEN {<<"INITIAL_PREFIX_ANCHOR", "MISSING">>} ELSE {}) = anchor
      BY <1>9, <2>4
    <3>3. (IF Faults(slots) \ {"MISSING"} # {} THEN {<<"APPEND_SLOT", "OCCUPIED">>} ELSE {}) = append
      BY <1>8, <2>5
    <3> HIDE DEF found, of
    <3> QED BY <2>1, <2>2, <2>3, <3>1, <3>2, <3>3 DEF QuarantineReasons
  <2> QED BY ONLY <2>6, <2>7
<1>12. q.first_unsafe = IF q.slots = <<>> THEN Null ELSE q.slots[1].sequence
  BY <1>4, <1>5
<1>13. q.slots = slots /\ q.components = components /\ q.expected # q.observed
  BY <1>4
<1>14. (\A row \in ToSet(slots) : SlotRow(row)) /\ (\A row \in ToSet(components) : ComponentRow(row))
  BY <1>5 DEF ToSet
<1> HIDE DEF found, of
<1>15. QuarantineValid(q)
  BY <1>5, <1>9, <1>10, <1>11, <1>12, <1>13, <1>14 DEF QuarantineValid
<1> QED BY <1>1, <1>15 DEF ReceiptAccepted

LEMMA FirstIsOne ==
    ASSUME NEW failures, failures \subseteq ToSet(Counters)
    PROVE  FirstOf(failures) \in Optional(ToSet(Counters))
<1>1. CASE failures = {}
  BY <1>1 DEF FirstOf, Optional
<1>2. CASE failures # {}
  <2> DEFINE T == {i \in DOMAIN Counters : Counters[i] \in failures}
  <2>1. DOMAIN Counters = 1 .. 7
    BY DEF Counters
  <2>2. T # {}
    BY <1>2 DEF ToSet
  <2>3. T \in SUBSET Nat
    BY <2>1
  <2>4. PICK i \in T : \A j \in T : i <= j
    <3> HIDE DEF T
    <3> QED BY <2>2, <2>3, Least
  <2>5. i \in DOMAIN Counters /\ Counters[i] \in failures /\ \A j \in 1 .. i - 1 : Counters[j] \notin failures
    BY <2>1, <2>4
  <2> DEFINE first == CHOOSE k \in DOMAIN Counters :
                         Counters[k] \in failures /\ \A j \in 1 .. k - 1 : Counters[j] \notin failures
  <2>6. first \in DOMAIN Counters /\ Counters[first] \in failures
    BY <2>5
  <2>7. FirstOf(failures) = Counters[first]
    BY <1>2 DEF FirstOf
  <2> HIDE DEF first, T
  <2> QED BY <2>6, <2>7 DEF Optional
<1> QED BY <1>1, <1>2

LEMMA MeasurementAccepted ==
    ASSUME NEW t \in Timings
    PROVE  ReceiptAccepted("measurement", Measurement(t))
<1> DEFINE fits(c) == t.raw[c] # Null /\ t.raw[c] <= MaxU64
           broken == {c \in ToSet(Counters) : t.raw[c] # Null /\ ~fits(c)}
           converted == [c \in ToSet(Counters) |-> IF fits(c) THEN t.raw[c] ELSE Null]
           counts == [p \in Phases |-> Len(t.samples[p])]
<1>1. PICK doc : doc =
         [status |-> IF broken = {} THEN "COMPLETE" ELSE "RANGE_FAILED",
          first |-> FirstOf(broken), failures |-> broken, raw |-> t.raw, converted |-> converted,
          samples |-> t.samples, counts |-> counts,
          warmup_events |-> t.warmup, events |-> Len(t.samples["admission"]),
          warmup_groups |-> t.warmup, groups |-> Len(t.samples["end_to_end"]),
          boundary |-> IF t.warmup = 0 THEN Null ELSE 1]
  OBVIOUS
<1>2. Measurement(t) = doc
  BY <1>1 DEF Measurement
<1>3. /\ t.raw \in [ToSet(Counters) -> Optional(Nat)] /\ t.warmup \in U64
      /\ \A c \in ToSet(Counters) : t.raw[c] = Null => c = "ALLOCATION_COUNT"
      /\ t.samples \in [Phases -> Seq(U64)]
      /\ Len(t.samples["admission"]) \in U64 /\ Len(t.samples["end_to_end"]) \in U64
      /\ t.raw["MEASURED_WALL_DURATION"] = SumFunction(t.samples["end_to_end"])
  BY TimingsAssumption
<1>4. U64 \subseteq Nat /\ 0 \in U64 /\ 1 \in U64
  BY WidthAssumption, RangeAssumption DEF U64
<1>5. t.samples \in [Phases -> Seq(Nat)]
  <2>1. ASSUME NEW p \in Phases PROVE t.samples[p] \in Seq(Nat)
    <3>1. PICK s \in Seq(U64) : s = t.samples[p]
      BY <1>3
    <3>2. s \in Seq(Nat)
      <4>1. Len(s) \in Nat /\ DOMAIN s = 1 .. Len(s) /\ \A i \in 1 .. Len(s) : s[i] \in U64
        OBVIOUS
      <4>2. \A i \in 1 .. Len(s) : s[i] \in Nat
        BY <1>4, <4>1
      <4> QED BY <4>1, <4>2
    <3> QED BY <3>1, <3>2
  <2>2. t.samples \in [Phases -> Seq(U64)]
    BY <1>3
  <2> QED BY ONLY <2>1, <2>2
<1>6. counts \in [Phases -> Nat]
  <2>1. \A p \in Phases : Len(t.samples[p]) \in Nat
    BY <1>5
  <2> QED BY ONLY <2>1
<1>7. \A c \in ToSet(Counters) : t.raw[c] = Null \/ t.raw[c] \in Nat
  BY <1>3 DEF Optional
<1>8. converted \in [ToSet(Counters) -> Optional(Nat)]
  BY ONLY <1>7 DEF Optional
<1>9. broken \subseteq ToSet(Counters) /\ FirstOf(broken) \in Optional(ToSet(Counters))
  BY FirstIsOne
<1>10. PICK all, conv, lens : all = broken /\ conv = converted /\ lens = counts
  OBVIOUS
<1>11. \A c \in ToSet(Counters) :
          /\ c \in all <=> t.raw[c] # Null /\ t.raw[c] > MaxU64
          /\ conv[c] = IF t.raw[c] # Null /\ c \notin all THEN t.raw[c] ELSE Null
  <2>1. MaxU64 \in Nat
    BY RangeAssumption
  <2>2. ASSUME NEW c \in ToSet(Counters), t.raw[c] # Null
        PROVE  t.raw[c] > MaxU64 <=> ~(t.raw[c] <= MaxU64)
    BY ONLY <1>7, <2>1, <2>2
  <2> QED BY <1>10, <2>2
<1>12. lens \in [Phases -> Nat] /\ \A p \in Phases : lens[p] = Len(t.samples[p])
  BY <1>6, <1>10
<1>13. doc = [status |-> IF all = {} THEN "COMPLETE" ELSE "RANGE_FAILED",
          first |-> FirstOf(all), failures |-> all, raw |-> t.raw, converted |-> conv,
          samples |-> t.samples, counts |-> lens,
          warmup_events |-> t.warmup, events |-> Len(t.samples["admission"]),
          warmup_groups |-> t.warmup, groups |-> Len(t.samples["end_to_end"]),
          boundary |-> IF t.warmup = 0 THEN Null ELSE 1]
  BY <1>1, <1>10
<1>14. conv \in [ToSet(Counters) -> Optional(Nat)] /\ all \subseteq ToSet(Counters)
       /\ FirstOf(all) \in Optional(ToSet(Counters))
  BY <1>8, <1>9, <1>10
<1> HIDE DEF fits, broken, converted, counts
<1>15. doc \in MeasurementSchema
  <2>1. PICK boundary : boundary = IF t.warmup = 0 THEN Null ELSE 1
    OBVIOUS
  <2>2. boundary \in Optional(Nat)
    BY <2>1 DEF Optional
  <2>3. PICK count \in Nat, groups \in Nat, warmup \in Nat :
           /\ count = Len(t.samples["admission"]) /\ groups = Len(t.samples["end_to_end"]) /\ warmup = t.warmup
    BY <1>3, <1>4
  <2>4. PICK status \in {"COMPLETE", "RANGE_FAILED"} : status = IF all = {} THEN "COMPLETE" ELSE "RANGE_FAILED"
    OBVIOUS
  <2>5. PICK raw \in [ToSet(Counters) -> Optional(Nat)], samples \in [Phases -> Seq(Nat)], first \in Optional(ToSet(Counters)) :
           raw = t.raw /\ samples = t.samples /\ first = FirstOf(all)
    BY <1>3, <1>5, <1>14
  <2>6. doc = [status |-> status, first |-> first, failures |-> all, raw |-> raw, converted |-> conv,
          samples |-> samples, counts |-> lens, warmup_events |-> warmup, events |-> count,
          warmup_groups |-> warmup, groups |-> groups, boundary |-> boundary]
    BY ONLY <1>13, <2>1, <2>3, <2>4, <2>5
  <2> QED BY ONLY <1>12, <1>14, <2>2, <2>6 DEF MeasurementSchema
<1>16. RangeFailures(doc) = all
  BY <1>11, <1>13, <1>14 DEF RangeFailures
<1>17. \A c \in ToSet(Counters) : Conversion(doc, c)
  <2>1. doc.raw = t.raw /\ doc.converted = conv
    BY <1>13
  <2> QED BY <1>3, <1>11, <1>16, <2>1 DEF Conversion
<1>18. PhaseCensus(doc)
  <2>1. \A p \in Phases : ToSet(t.samples[p]) \subseteq U64
    <3> SUFFICES ASSUME NEW p \in Phases PROVE ToSet(t.samples[p]) \subseteq U64
      OBVIOUS
    <3>1. PICK s \in Seq(U64) : s = t.samples[p]
      BY <1>3
    <3> QED BY <3>1 DEF ToSet
  <2>2. "admission" \in Phases /\ "end_to_end" \in Phases
    BY DEF Phases
  <2>3. /\ doc.raw = t.raw /\ doc.samples = t.samples /\ doc.counts = lens
        /\ doc.events = Len(t.samples["admission"]) /\ doc.groups = Len(t.samples["end_to_end"])
    BY <1>13
  <2> QED BY <1>3, <1>12, <2>1, <2>2, <2>3 DEF PhaseCensus
<1>19. doc.boundary = Null <=> t.warmup = 0
  BY <1>13, NullAssumption
<1>20. MeasurementValid(doc)
  <2>1. {doc.warmup_events, doc.events, doc.warmup_groups, doc.groups} \cup ({doc.boundary} \ {Null}) \subseteq U64
    BY <1>3, <1>4, <1>13
  <2>2. (doc.boundary = Null) = (doc.warmup_events = 0 /\ doc.warmup_groups = 0)
    BY <1>13, <1>19
  <2>3. doc.failures = all /\ doc.first = FirstOf(all)
        /\ doc.status = IF all = {} THEN "COMPLETE" ELSE "RANGE_FAILED"
    BY <1>13
  <2> QED BY <1>16, <1>17, <1>18, <2>1, <2>2, <2>3 DEF MeasurementValid
<1> QED BY <1>2, <1>15, <1>20 DEF ReceiptAccepted

-----------------------------------------------------------------------------
(* The receipt of a reconciliation *)

ResidualNames == {"realized", "unrealized", "fee", "peak_equity", "drawdown", "equity", "unmatched"}
ResidualReasons == {"PNL_RESIDUAL", "FEE_RESIDUAL", "EQUITY_RESIDUAL", "RESERVATION_RESIDUAL"}

LEMMA ResidualsFit ==
    /\ DOMAIN Residuals = ResidualNames
    /\ \A name \in ResidualNames : Residuals[name] \in ResidualReasons
    /\ {Residuals[name] : name \in DOMAIN Residuals} \subseteq ResidualReasons
<1>1. DOMAIN Residuals = ResidualNames
  BY DEF Residuals, ResidualNames
<1>2. \A name \in ResidualNames : Residuals[name] \in ResidualReasons
  BY DEF Residuals, ResidualNames, ResidualReasons
<1> QED BY <1>1, <1>2

AllReasons == OwnedCodes \cup {"ACCOUNT_RESIDUAL", "ASSET_RESIDUAL", "MISMATCH"} \cup ResidualReasons

LEMMA ReasonsFinite == IsFiniteSet(AllReasons)
<1>1. IsFiniteSet(ResidualReasons)
  BY FiniteList DEF ResidualReasons
<1>2. IsFiniteSet({"ACCOUNT_RESIDUAL", "ASSET_RESIDUAL", "MISMATCH"})
  <2>1. {"ACCOUNT_RESIDUAL", "ASSET_RESIDUAL", "MISMATCH"} = {"ACCOUNT_RESIDUAL", "ASSET_RESIDUAL"} \cup {"MISMATCH"}
    OBVIOUS
  <2>2. IsFiniteSet({"ACCOUNT_RESIDUAL", "ASSET_RESIDUAL"})
    BY ONLY FiniteList
  <2> QED BY ONLY <2>1, <2>2, FS_AddElement
<1>3. IsFiniteSet(Integrity)
  BY FiniteList DEF Integrity
<1>4. IsFiniteSet(Terminal)
  BY <1>3, FiniteList, FS_Union DEF Terminal
<1>5. IsFiniteSet(GateCodes)
  <2>1. GateCodes = {"INTENT_CARDINALITY", "INTENT_RESERVATION_BIJECTION"} \cup {"ABSOLUTE_STATE_INVARIANT"}
    BY DEF GateCodes
  <2> QED BY <2>1, FiniteList, FS_AddElement
<1>6. IsFiniteSet(Terminal \cup GateCodes)
  BY <1>4, <1>5, FS_Union
<1>7. IsFiniteSet(OwnedCodes)
  BY <1>6, FS_AddElement DEF OwnedCodes
<1>8. IsFiniteSet(OwnedCodes \cup {"ACCOUNT_RESIDUAL", "ASSET_RESIDUAL", "MISMATCH"})
  BY <1>2, <1>7, FS_Union
<1> QED BY <1>1, <1>8, FS_Union DEF AllReasons

LEMMA TwoReasons ==
    ASSUME NEW reasons \in SUBSET AllReasons, NEW x \in reasons, NEW y \in reasons, x # y
    PROVE  Cardinality(reasons) >= 2
<1>1. IsFiniteSet(reasons)
  BY ReasonsFinite, FS_Subset
<1>2. Cardinality(reasons) \in Nat /\ Cardinality(reasons) # 0
  BY <1>1, FS_CardinalityType, FS_EmptySet
<1>3. Cardinality(reasons) # 1
  BY <1>1, FS_Singleton
<1> QED BY <1>2, <1>3

\* What a receipt whose residuals are off says of them.
LEMMA ResidualsSay ==
    ASSUME NEW off \in SUBSET (DOMAIN Residuals \cup {"ACCOUNT_RESIDUAL", "ASSET_RESIDUAL"}), NEW r,
           r.assets = IF "ASSET_RESIDUAL" \in off THEN <<[key |-> 1, residual |-> -1]>> ELSE <<>>,
           r.accounts = IF "ACCOUNT_RESIDUAL" \in off
                        THEN <<[key |-> <<1, 1>>, residual |-> 0], [key |-> <<1, 2>>, residual |-> 1]>> ELSE <<>>,
           r.residuals = [name \in DOMAIN Residuals |-> IF name \in off THEN 1 ELSE 0]
    PROVE  ResidualCodes(r) = (off \cap {"ACCOUNT_RESIDUAL", "ASSET_RESIDUAL"})
                              \cup {Residuals[name] : name \in off \cap DOMAIN Residuals}
<1>1. NonZero(r.accounts) <=> "ACCOUNT_RESIDUAL" \in off
  <2>1. CASE "ACCOUNT_RESIDUAL" \in off
    <3>1. 2 \in DOMAIN r.accounts /\ r.accounts[2].residual = 1
      BY <2>1
    <3> QED BY <2>1, <3>1 DEF NonZero, ToSet
  <2>2. CASE "ACCOUNT_RESIDUAL" \notin off
    <3>1. DOMAIN r.accounts = {}
      BY <2>2
    <3> QED BY <2>2, <3>1 DEF NonZero, ToSet
  <2> QED BY <2>1, <2>2
<1>2. NonZero(r.assets) <=> "ASSET_RESIDUAL" \in off
  <2>1. CASE "ASSET_RESIDUAL" \in off
    <3>1. 1 \in DOMAIN r.assets /\ r.assets[1].residual = -1
      BY <2>1
    <3> QED BY <2>1, <3>1 DEF NonZero, ToSet
  <2>2. CASE "ASSET_RESIDUAL" \notin off
    <3>1. DOMAIN r.assets = {}
      BY <2>2
    <3> QED BY <2>2, <3>1 DEF NonZero, ToSet
  <2> QED BY <2>1, <2>2
<1>3. {n \in DOMAIN Residuals : r.residuals[n] # 0} = off \cap DOMAIN Residuals
  OBVIOUS
<1>4. PICK a, b : /\ a = IF NonZero(r.accounts) THEN {"ACCOUNT_RESIDUAL"} ELSE {}
                  /\ b = IF NonZero(r.assets) THEN {"ASSET_RESIDUAL"} ELSE {}
  OBVIOUS
<1>5. a \cup b = off \cap {"ACCOUNT_RESIDUAL", "ASSET_RESIDUAL"}
  BY <1>1, <1>2, <1>4
<1>6. ResidualCodes(r) = a \cup b \cup {Residuals[name] : name \in off \cap DOMAIN Residuals}
  BY <1>3, <1>4 DEF ResidualCodes
<1> QED BY ONLY <1>5, <1>6

LEMMA CausesFit ==
    ASSUME NEW kind
    PROVE  /\ CauseCount(kind) \in {1, 3, 4}
           /\ Len([n \in 1 .. CauseCount(kind) |-> n]) = CauseCount(kind)
           /\ [n \in 1 .. CauseCount(kind) |-> n] \in Seq(Nat)
           /\ \A causes : causes = [n \in 1 .. CauseCount(kind) |-> n] =>
                 Increasing([i \in DOMAIN causes |-> <<causes[i]>>])
<1>1. CauseCount(kind) \in {1, 3, 4}
  BY DEF CauseCount
<1>2. PICK n \in Nat : n = CauseCount(kind)
  BY <1>1
<1>3. PICK causes : causes = [i \in 1 .. n |-> i]
  OBVIOUS
<1>4. causes \in Seq(Nat) /\ Len(causes) = n
  BY <1>3
<1>5. Increasing([i \in DOMAIN causes |-> <<causes[i]>>])
  <2>1. PICK tuples : tuples = [i \in 1 .. n |-> <<i>>]
    OBVIOUS
  <2>2. [i \in DOMAIN causes |-> <<causes[i]>>] = tuples
    BY <1>3, <2>1
  <2>3. ASSUME NEW i \in 1 .. n, NEW j \in 1 .. n, i < j PROVE LexLess(tuples[i], tuples[j])
    <3>1. PICK k, l : k = <<i>> /\ l = <<j>>
      OBVIOUS
    <3>2. DOMAIN k = 1 .. 1 /\ k[1] = i /\ l[1] = j
      BY <3>1
    <3>3. LexLess(k, l)
      BY <2>3, <3>2 DEF LexLess
    <3> QED BY <2>1, <3>1, <3>3
  <2>4. Increasing(tuples)
    BY <2>1, <2>3 DEF Increasing
  <2> QED BY <2>2, <2>4
<1> QED BY <1>1, <1>2, <1>3, <1>4, <1>5

LEMMA ResidualKeysIncrease ==
    /\ \A assets : assets \in {<<[key |-> 1, residual |-> -1]>>, <<>>} =>
          Increasing([i \in DOMAIN assets |-> <<assets[i].key>>])
    /\ \A accounts :
          accounts \in {<<[key |-> <<1, 1>>, residual |-> 0], [key |-> <<1, 2>>, residual |-> 1]>>, <<>>} =>
              Increasing([i \in DOMAIN accounts |-> accounts[i].key])
<1>1. ASSUME NEW assets \in {<<[key |-> 1, residual |-> -1]>>, <<>>}
      PROVE  Increasing([i \in DOMAIN assets |-> <<assets[i].key>>])
  <2>1. \A i, j \in DOMAIN assets : i = j /\ i \in Int
    OBVIOUS
  <2> QED BY <2>1 DEF Increasing
<1>2. ASSUME NEW accounts \in {<<[key |-> <<1, 1>>, residual |-> 0], [key |-> <<1, 2>>, residual |-> 1]>>, <<>>}
      PROVE  Increasing([i \in DOMAIN accounts |-> accounts[i].key])
  <2>1. CASE accounts = <<>>
    BY <2>1 DEF Increasing
  <2>2. CASE accounts # <<>>
    <3>1. PICK k, l : k = <<1, 1>> /\ l = <<1, 2>>
      OBVIOUS
    <3>2. DOMAIN k = 1 .. 2 /\ k[1] = l[1] /\ k[2] < l[2]
      BY <3>1
    <3>3. LexLess(k, l)
      <4>1. 2 \in 1 .. 2 /\ 1 .. 2 - 1 = {1}
        OBVIOUS
      <4> QED BY <3>2, <4>1 DEF LexLess
    <3>4. DOMAIN accounts = 1 .. 2 /\ accounts[1].key = k /\ accounts[2].key = l
      BY <2>2, <3>1
    <3>5. \A i, j \in 1 .. 2 : i < j => i = 1 /\ j = 2
      OBVIOUS
    <3> QED BY <3>3, <3>4, <3>5 DEF Increasing
  <2> QED BY <2>1, <2>2
<1> QED BY <1>1, <1>2

GateReasons == GateCodes \cup {"RUN_END_UNCLOSED"}

LEMMA ResidualsAreNoGates ==
    ASSUME NEW r
    PROVE  ResidualCodes(r) \cap (GateReasons \cup Terminal \cup {"MISMATCH"}) = {}
<1>1. ResidualCodes(r) \subseteq {"ACCOUNT_RESIDUAL", "ASSET_RESIDUAL"} \cup ResidualReasons
  <2>1. {Residuals[name] : name \in {n \in DOMAIN Residuals : r.residuals[n] # 0}} \subseteq ResidualReasons
    BY ResidualsFit
  <2> QED BY <2>1 DEF ResidualCodes
<1>2. ({"ACCOUNT_RESIDUAL", "ASSET_RESIDUAL"} \cup ResidualReasons)
         \cap (GateReasons \cup Terminal \cup {"MISMATCH"}) = {}
  BY DEF ResidualReasons, GateReasons, GateCodes, Terminal, Integrity
<1> QED BY <1>1, <1>2

\* No receipt that passes ends a run with something that does not add up.
LEMMA EndsWithoutResidual ==
    ASSUME NEW r \in ReconciliationSchema, ReconciliationValid(r), r.kind = "FINAL_GATE"
    PROVE  ResidualCodes(r) = {}
<1>1. ReconciliationVerdict(r) /\ KindRules(r) /\ r.status \in {"PASS", "KILLED"}
  BY DEF ReconciliationValid, ReconciliationSchema
<1>2. CASE r.status = "PASS"
  BY <1>1, <1>2 DEF ReconciliationVerdict
<1>3. CASE r.status = "KILLED"
  <2>1. PICK residual : residual = ResidualCodes(r)
    OBVIOUS
  <2>2. residual \subseteq r.reasons
    BY <1>1, <1>3, <2>1 DEF ReconciliationVerdict
  <2>3. r.reasons = {"RUN_END_UNCLOSED", "MISMATCH"}
    BY <1>1, <1>3 DEF KindRules
  <2>4. residual \cap {"RUN_END_UNCLOSED", "MISMATCH"} = {}
    BY <2>1, ResidualsAreNoGates DEF GateReasons
  <2> QED BY <2>1, <2>2, <2>3, <2>4
<1> QED BY <1>1, <1>2, <1>3

LEMMA ReconciliationAccepted ==
    ASSUME NEW kind \in Kinds,
           NEW off \in SUBSET (DOMAIN Residuals \cup {"ACCOUNT_RESIDUAL", "ASSET_RESIDUAL"}),
           NEW gate \in SUBSET GateCodes, NEW unclosed \in BOOLEAN,
           kind \in Terminal \cup {"GENESIS", "TERMINAL_KILL_PROMOTION"} => off = {},
           gate # {} => kind = "GROUP_GATE",
           unclosed => kind = "FINAL_GATE",
           NEW doc, doc = Reconciliation(kind, off, gate, unclosed)
    PROVE  /\ doc \in ReconciliationSchema
           /\ ReceiptAccepted("reconciliation", doc) <=> ~Unsayable("reconciliation", doc)
<1>1. PICK resid : resid = (off \cap {"ACCOUNT_RESIDUAL", "ASSET_RESIDUAL"})
                           \cup {Residuals[name] : name \in off \cap DOMAIN Residuals}
  OBVIOUS
<1>2. PICK last : last = IF unclosed THEN {"RUN_END_UNCLOSED"} ELSE {}
  OBVIOUS
<1>3. PICK own : own = gate \cup ({kind} \cap Terminal) \cup last
  OBVIOUS
<1>4. PICK codes : codes = resid \cup own
  OBVIOUS
<1>5. PICK amounts : amounts = [name \in DOMAIN Residuals |-> IF name \in off THEN 1 ELSE 0]
  OBVIOUS
<1>6. PICK assets : assets = IF "ASSET_RESIDUAL" \in off THEN <<[key |-> 1, residual |-> -1]>> ELSE <<>>
  OBVIOUS
<1>7. PICK accounts : accounts = IF "ACCOUNT_RESIDUAL" \in off
                      THEN <<[key |-> <<1, 1>>, residual |-> 0], [key |-> <<1, 2>>, residual |-> 1]>> ELSE <<>>
  OBVIOUS
<1>8. PICK causes : causes = [n \in 1 .. CauseCount(kind) |-> n]
  OBVIOUS
<1>9. PICK after : after = IF kind \notin Terminal \cup {"GENESIS", "GROUP_GATE", "FINAL_GATE"} THEN 2 ELSE 1
  OBVIOUS
<1>10. PICK evidence : evidence = IF kind \in Integrity THEN {kind, "footprints"} ELSE {kind} \cap Terminal
  OBVIOUS
<1>11. PICK observed : observed = IF kind \in Integrity THEN 2 ELSE 1
  OBVIOUS
<1>12. PICK latched \in BOOLEAN : latched <=> codes # {} \/ kind \in {"RISK_KILL", "TERMINAL_KILL_PROMOTION"}
  OBVIOUS
<1>13. PICK r : r = [status |-> IF codes = {} THEN "PASS" ELSE "KILLED", kind |-> kind,
         reasons |-> IF codes = {} THEN {} ELSE codes \cup {"MISMATCH"},
         decision |-> Null, ingest |-> 0, group |-> 0, clock |-> 0, before |-> 1, after |-> after,
         causes |-> causes, assets |-> assets, accounts |-> accounts, residuals |-> amounts,
         evidence |-> evidence, expected |-> 1, observed |-> observed, latched |-> latched]
  OBVIOUS
<1>14. Reconciliation(kind, off, gate, unclosed) = r
  <2>1. codes = (off \cap {"ACCOUNT_RESIDUAL", "ASSET_RESIDUAL"})
                 \cup {Residuals[name] : name \in off \cap DOMAIN Residuals}
                 \cup gate \cup ({kind} \cap Terminal)
                 \cup (IF unclosed THEN {"RUN_END_UNCLOSED"} ELSE {})
    <3>1. codes = resid \cup gate \cup ({kind} \cap Terminal) \cup last
      BY ONLY <1>3, <1>4
    <3> QED BY ONLY <1>1, <1>2, <3>1
  <2>2. (codes # {} \/ kind \in {"RISK_KILL", "TERMINAL_KILL_PROMOTION"}) = latched
    BY <1>12
  <2> QED BY Zenon, <1>5, <1>6, <1>7, <1>8, <1>9, <1>10, <1>11, <1>13, <2>1, <2>2 DEF Reconciliation
<1> DEFINE noted == {"ACCOUNT_RESIDUAL", "ASSET_RESIDUAL"} \cup ResidualReasons
<1>15. resid \subseteq noted
  BY <1>1, ResidualsFit
<1>16. noted \cap OwnedCodes = {} /\ "MISMATCH" \notin noted \cup OwnedCodes
  BY DEF ResidualReasons, OwnedCodes, Terminal, Integrity, GateCodes
<1>17. own \subseteq OwnedCodes
  BY <1>2, <1>3 DEF OwnedCodes
<1>18. codes \subseteq AllReasons /\ "MISMATCH" \notin codes /\ "MISMATCH" \in AllReasons
  BY <1>4, <1>15, <1>16, <1>17 DEF AllReasons
<1>19. off = {} => resid = {}
  BY <1>1
<1>20. r.residuals = amounts /\ r.assets = assets /\ r.accounts = accounts /\ r.kind = kind /\ r.causes = causes
       /\ r.evidence = evidence /\ r.before = 1 /\ r.after = after /\ r.expected = 1 /\ r.observed = observed
       /\ r.decision = Null /\ r.ingest = 0 /\ r.group = 0 /\ r.clock = 0
  BY <1>13
<1>21. /\ codes = {} => r.status = "PASS" /\ r.reasons = {}
       /\ codes # {} => r.status = "KILLED" /\ r.reasons = codes \cup {"MISMATCH"}
       /\ codes # {} \/ kind \in {"RISK_KILL", "TERMINAL_KILL_PROMOTION"} => r.latched
  BY <1>12, <1>13
<1>22. ResidualCodes(r) = resid
  BY <1>1, <1>5, <1>6, <1>7, <1>20, ResidualsSay
<1>23. /\ {"GROUP_GATE", "FINAL_GATE", "GENESIS", "TERMINAL_KILL_PROMOTION", "RISK_KILL"} \cap Terminal = {}
       /\ Integrity \subseteq Terminal
  BY DEF Terminal, Integrity
<1>24. /\ kind \in Terminal => resid = {} /\ own = {kind}
       /\ kind = "FINAL_GATE" => own = last
       /\ kind = "GROUP_GATE" => own = gate
       /\ kind \notin Terminal \cup {"GROUP_GATE", "FINAL_GATE"} => own = {}
       /\ kind \in {"GENESIS", "TERMINAL_KILL_PROMOTION"} => resid = {}
  BY <1>2, <1>3, <1>19, <1>23
<1> DEFINE sayable == kind = "FINAL_GATE" => resid = {}
<1>25. codes # {} /\ sayable => KindCodes(r) = own
  <2> SUFFICES ASSUME codes # {}, sayable PROVE KindCodes(r) = own
    OBVIOUS
  <2>1. CASE kind = "FINAL_GATE"
    BY <1>2, <1>4, <1>20, <1>24, <2>1 DEF KindCodes
  <2>2. CASE kind \in Terminal
    BY <1>20, <1>23, <1>24, <2>2 DEF KindCodes
  <2>3. CASE kind = "GROUP_GATE"
    <3>1. GateCodes \subseteq OwnedCodes
      BY DEF OwnedCodes
    <3>2. r.reasons = codes \cup {"MISMATCH"}
      BY <1>21
    <3>3. r.reasons \cap GateCodes = gate
      BY <1>4, <1>15, <1>16, <1>24, <2>3, <3>1, <3>2
    <3> QED BY <1>20, <1>23, <1>24, <2>3, <3>3 DEF KindCodes
  <2>4. CASE kind \notin Terminal \cup {"GROUP_GATE", "FINAL_GATE"}
    BY <1>20, <1>24, <2>4 DEF KindCodes
  <2> QED BY <2>1, <2>2, <2>3, <2>4
<1>26. sayable => ReconciliationVerdict(r)
  <2> SUFFICES ASSUME sayable PROVE ReconciliationVerdict(r)
    OBVIOUS
  <2>1. CASE codes = {}
    BY <1>4, <1>21, <1>22, <2>1 DEF ReconciliationVerdict
  <2>2. CASE codes # {}
    <3>1. PICK x \in codes : x # "MISMATCH"
      BY <1>18, <2>2
    <3>2. Cardinality(r.reasons) >= 2
      <4>1. r.reasons \in SUBSET AllReasons /\ x \in r.reasons /\ "MISMATCH" \in r.reasons
        BY <1>18, <1>21, <2>2
      <4> QED BY <3>1, <4>1, TwoReasons
    <3>3. r.reasons = ResidualCodes(r) \cup KindCodes(r) \cup {"MISMATCH"}
      BY <1>4, <1>21, <1>22, <1>25, <2>2
    <3> QED BY <1>21, <2>2, <3>2, <3>3 DEF ReconciliationVerdict
  <2> QED BY <2>1, <2>2
<1>27. \A code \in r.reasons \cap OwnedCodes : ReasonOwner(code) = r.kind
  <2> SUFFICES ASSUME NEW code \in r.reasons, code \in OwnedCodes PROVE ReasonOwner(code) = kind
    BY <1>20
  <2>1. code \in own
    BY <1>4, <1>15, <1>16, <1>21
  <2>2. CASE code \in gate
    <3>1. code # "RUN_END_UNCLOSED"
      BY <2>2 DEF GateCodes
    <3> QED BY <2>2, <3>1 DEF ReasonOwner
  <2>3. CASE code = kind /\ kind \in Terminal
    <3>1. code \notin GateCodes /\ code # "RUN_END_UNCLOSED"
      BY <2>3 DEF Terminal, Integrity, GateCodes
    <3> QED BY <2>3, <3>1 DEF ReasonOwner
  <2>4. CASE code \in last
    <3>1. code = "RUN_END_UNCLOSED" /\ kind = "FINAL_GATE" /\ code \notin GateCodes
      BY <1>2, <2>4 DEF GateCodes
    <3> QED BY <3>1 DEF ReasonOwner
  <2> QED BY <1>3, <2>1, <2>2, <2>3, <2>4
<1>28. sayable => KindRules(r)
  <2> SUFFICES ASSUME sayable PROVE KindRules(r)
    OBVIOUS
  <2>1. kind \in {"GENESIS", "TERMINAL_KILL_PROMOTION"} => r.status = "PASS"
    BY <1>4, <1>21, <1>23, <1>24
  <2>2. kind \in Terminal => r.status = "KILLED" /\ r.reasons = {kind, "MISMATCH"}
    BY <1>4, <1>21, <1>24
  <2>3. kind = "FINAL_GATE" /\ r.status = "KILLED" => r.reasons = {"RUN_END_UNCLOSED", "MISMATCH"}
    BY <1>2, <1>4, <1>21, <1>24
  <2> QED BY <1>20, <1>21, <1>27, <2>1, <2>2, <2>3 DEF KindRules
<1>29. EvidenceGroups(r)
  BY <1>10, <1>11, <1>20 DEF EvidenceGroups
<1>30. StateAndShape(r)
  <2>1. kind \in Terminal \cup {"GENESIS", "GROUP_GATE", "FINAL_GATE"} => after = 1
    BY <1>9
  <2>2. kind = "TERMINAL_KILL_PROMOTION" => after = 2
    BY <1>9, <1>23
  <2>3. off = {} => assets = <<>> /\ accounts = <<>> /\ \A name \in DOMAIN Residuals : amounts[name] = 0
    BY <1>5, <1>6, <1>7
  <2> QED BY <1>20, <2>1, <2>2, <2>3 DEF StateAndShape
<1>31. amounts \in [DOMAIN Residuals -> {0, 1}]
  BY <1>5
<1>32. {0, 1} \subseteq U64 /\ {-1, 0, 1} \subseteq I128
  BY WidthAssumption, RangeAssumption DEF U64, I128
<1>33. /\ causes \in Seq(Nat) /\ Len(causes) = CauseCount(kind)
       /\ Increasing([i \in DOMAIN causes |-> <<causes[i]>>])
  BY <1>8, CausesFit
<1>34. /\ assets \in Seq([key : Nat, residual : Int]) /\ \A row \in ToSet(assets) : row.residual \in I128
  <2>1. CASE assets = <<>>
    <3>1. ToSet(assets) = {}
      BY <2>1 DEF ToSet
    <3> QED BY <2>1, <3>1
  <2>2. CASE assets = <<[key |-> 1, residual |-> -1]>>
    <3>1. \A row \in ToSet(assets) : row.residual = -1
      BY <2>2 DEF ToSet
    <3> QED BY <1>32, <2>2, <3>1
  <2> QED BY <1>6, <2>1, <2>2
<1>35. /\ accounts \in Seq([key : Nat \X Nat, residual : Int]) /\ \A row \in ToSet(accounts) : row.residual \in I128
  <2>1. CASE accounts = <<>>
    <3>1. ToSet(accounts) = {}
      BY <2>1 DEF ToSet
    <3> QED BY <2>1, <3>1
  <2>2. CASE accounts = <<[key |-> <<1, 1>>, residual |-> 0], [key |-> <<1, 2>>, residual |-> 1]>>
    <3>1. \A row \in ToSet(accounts) : row.residual \in {0, 1}
      BY <2>2 DEF ToSet
    <3> QED BY <1>32, <2>2, <3>1
  <2> QED BY <1>7, <2>1, <2>2
<1>36. Increasing([i \in DOMAIN assets |-> <<assets[i].key>>]) /\ Increasing([i \in DOMAIN accounts |-> accounts[i].key])
  <2>1. assets \in {<<[key |-> 1, residual |-> -1]>>, <<>>}
    BY <1>6
  <2>2. accounts \in {<<[key |-> <<1, 1>>, residual |-> 0], [key |-> <<1, 2>>, residual |-> 1]>>, <<>>}
    BY <1>7
  <2> QED BY <2>1, <2>2, ResidualKeysIncrease
<1>37. ({r.decision} \ {Null}) \cup {r.ingest, r.group, r.clock, r.residuals.unmatched} \subseteq U64
       /\ {r.residuals[name] : name \in DOMAIN Residuals} \subseteq I128
  <2>1. "unmatched" \in DOMAIN Residuals
    BY ResidualsFit DEF ResidualNames
  <2> QED BY <1>20, <1>31, <1>32, <2>1
<1>38. sayable => ReconciliationValid(r)
  BY ONLY <1>20, <1>26, <1>28, <1>29, <1>30, <1>33, <1>34, <1>35, <1>36, <1>37 DEF ReconciliationValid
<1>39. r \in ReconciliationSchema
  <2>1. PICK all : all = OwnedCodes \cup {"ACCOUNT_RESIDUAL", "ASSET_RESIDUAL", "MISMATCH"}
                         \cup {Residuals[n] : n \in DOMAIN Residuals}
    OBVIOUS
  <2>2. codes \cup {"MISMATCH"} \subseteq all
    BY <1>1, <1>4, <1>17, <2>1
  <2>3. amounts \in [DOMAIN Residuals -> Int]
    BY <1>31
  <2>4. evidence \subseteq Terminal \cup {"footprints"}
    BY <1>10, <1>23
  <2>5. after \in Nat /\ observed \in Nat
    BY <1>9, <1>11
  <2>6. PICK status \in {"PASS", "KILLED"}, reasons \in SUBSET all :
           /\ status = IF codes = {} THEN "PASS" ELSE "KILLED"
           /\ reasons = IF codes = {} THEN {} ELSE codes \cup {"MISMATCH"}
    BY <2>2
  <2>7. PICK rows \in Seq([key : Nat, residual : Int]), books \in Seq([key : Nat \X Nat, residual : Int]), by \in Seq(Nat) :
           rows = assets /\ books = accounts /\ by = causes
    BY <1>33, <1>34, <1>35
  <2>8. r = [status |-> status, kind |-> kind, reasons |-> reasons,
         decision |-> Null, ingest |-> 0, group |-> 0, clock |-> 0, before |-> 1, after |-> after,
         causes |-> by, assets |-> rows, accounts |-> books, residuals |-> amounts,
         evidence |-> evidence, expected |-> 1, observed |-> observed, latched |-> latched]
    BY ONLY <1>13, <2>6, <2>7
  <2>9. Null \in Optional(Nat)
    BY DEF Optional
  <2>10. ReconciliationSchema =
            [status : {"PASS", "KILLED"}, kind : Kinds, reasons : SUBSET all,
             decision : Optional(Nat), ingest : Nat, group : Nat, clock : Nat, before : Nat, after : Nat,
             causes : Seq(Nat), assets : Seq([key : Nat, residual : Int]),
             accounts : Seq([key : Nat \X Nat, residual : Int]), residuals : [DOMAIN Residuals -> Int],
             evidence : SUBSET (Terminal \cup {"footprints"}), expected : Nat, observed : Nat, latched : BOOLEAN]
    BY Zenon, <2>1 DEF ReconciliationSchema
  <2> QED BY ONLY <2>3, <2>4, <2>5, <2>8, <2>9, <2>10, kind \in Kinds
<1>40. Unsayable("reconciliation", r) <=> ~sayable
  BY <1>20, <1>22 DEF Unsayable
<1>41. ReceiptAccepted("reconciliation", r) => sayable
  BY <1>39, EndsWithoutResidual, <1>20, <1>22 DEF ReceiptAccepted
<1> QED BY <1>14, <1>38, <1>39, <1>40, <1>41 DEF ReceiptAccepted

-----------------------------------------------------------------------------
(* The outputs of the repetitions and the receipt of the benchmark *)

Earlier(rows, x) == {y \in rows : y.case = x.case /\ y.repetition < x.repetition}

\* Outputs in order, the repetitions of a case counted from zero.
OutputsFit(rows) ==
    /\ rows \in Seq(RunOutputSchema) /\ Len(rows) <= MaxOutputs
    /\ \A i \in DOMAIN rows : TerminalShape(rows[i]) /\ rows[i].run = 1
    /\ \A i, j \in DOMAIN rows : i < j => LexLess(OutputKey(rows[i]), OutputKey(rows[j]))
    /\ \A x \in ToSet(rows) : x.repetition = Cardinality(Earlier(ToSet(rows), x))

LEMMA Counted ==
    ASSUME NEW D, IsFiniteSet(D), NEW s, NEW E, \A j \in D : s[j] \in E,
           \A y \in E : \E j \in D : s[j] = y, \A i, j \in D : s[i] = s[j] => i = j
    PROVE  IsFiniteSet(E) /\ Cardinality(E) = Cardinality(D)
<1>1. PICK f : f = [j \in D |-> s[j]]
  OBVIOUS
<1>2. f \in Surjection(D, E)
  BY <1>1 DEF Surjection
<1>3. \A i, j \in D : f[i] = f[j] => i = j
  BY <1>1
<1>4. f \in Injection(D, E)
  BY <1>2, <1>3, Fun_IsInj DEF Surjection
<1> QED BY <1>2, <1>4, FS_Surjection

LEMMA OutputTuple ==
    ASSUME NEW row \in RunOutputSchema
    PROVE  /\ Tuple(OutputKey(row), 3) /\ OutputKey(row)[1] = row.case
           /\ OutputKey(row)[2] = row.run /\ OutputKey(row)[3] = row.repetition
BY DEF RunOutputSchema, OutputKey, Tuple

\* The order of two outputs of one case is that of their repetitions.
LEMMA OutputOrder ==
    ASSUME NEW x \in RunOutputSchema, NEW y \in RunOutputSchema, x.run = 1, y.run = 1, x.case = y.case
    PROVE  LexLess(OutputKey(x), OutputKey(y)) <=> x.repetition < y.repetition
<1>1. PICK k, l : k = OutputKey(x) /\ l = OutputKey(y)
  OBVIOUS
<1>2. /\ DOMAIN k = 1 .. 3 /\ k[1] = x.case /\ k[2] = x.run /\ k[3] = x.repetition
      /\ l[1] = y.case /\ l[2] = y.run /\ l[3] = y.repetition
  BY <1>1, OutputTuple DEF Tuple
<1>3. x.case \in Nat /\ x.repetition \in Nat /\ y.repetition \in Nat
  BY DEF RunOutputSchema
<1>4. k[1] = l[1] /\ k[2] = l[2] /\ k[1] \in Int /\ k[2] \in Int
  BY <1>2, <1>3
<1>5. LexLess(k, l) => k[3] < l[3]
  <2> SUFFICES ASSUME LexLess(k, l) PROVE k[3] < l[3]
    OBVIOUS
  <2>1. PICK i \in 1 .. 3 : k[i] < l[i]
    BY <1>2 DEF LexLess
  <2>2. i # 1 /\ i # 2
    BY <1>4, <2>1
  <2>3. i = 3
    BY <2>2
  <2> QED BY <2>1, <2>3
<1>6. k[3] < l[3] => LexLess(k, l)
  <2>1. 3 \in 1 .. 3 /\ \A j \in 1 .. 3 - 1 : j = 1 \/ j = 2
    OBVIOUS
  <2> QED BY <1>2, <1>4, <2>1 DEF LexLess
<1> QED BY <1>1, <1>2, <1>5, <1>6

LEMMA OutputsDiffer ==
    ASSUME NEW rows, OutputsFit(rows)
    PROVE  /\ DOMAIN rows = 1 .. Len(rows) /\ Len(rows) \in Nat /\ IsFiniteSet(DOMAIN rows)
           /\ \A i \in DOMAIN rows : rows[i] \in RunOutputSchema
           /\ \A i, j \in DOMAIN rows :
                 (\A n \in 1 .. 3 : OutputKey(rows[i])[n] = OutputKey(rows[j])[n]) => i = j
           /\ IsFiniteSet(ToSet(rows)) /\ Cardinality(ToSet(rows)) = Len(rows)
<1>1. rows \in Seq(RunOutputSchema)
  BY DEF OutputsFit
<1>2. DOMAIN rows = 1 .. Len(rows) /\ Len(rows) \in Nat /\ \A i \in DOMAIN rows : rows[i] \in RunOutputSchema
  BY ONLY <1>1
<1>3. ASSUME NEW i \in DOMAIN rows, NEW j \in DOMAIN rows, i < j,
             \A n \in 1 .. 3 : OutputKey(rows[i])[n] = OutputKey(rows[j])[n]
      PROVE  FALSE
  <2>1. PICK k, l : k = OutputKey(rows[i]) /\ l = OutputKey(rows[j])
    OBVIOUS
  <2>2. LexLess(k, l)
    BY <1>3, <2>1 DEF OutputsFit
  <2>3. DOMAIN k = 1 .. 3 /\ \A n \in 1 .. 3 : k[n] \in Int /\ k[n] = l[n]
    BY <1>2, <1>3, <2>1, OutputTuple DEF Tuple
  <2> QED BY <2>2, <2>3 DEF LexLess
<1>4. ASSUME NEW i \in DOMAIN rows, NEW j \in DOMAIN rows,
             \A n \in 1 .. 3 : OutputKey(rows[i])[n] = OutputKey(rows[j])[n]
      PROVE  i = j
  <2>1. ~(i < j) /\ ~(j < i)
    BY <1>3, <1>4
  <2>2. i \in Int /\ j \in Int
    BY <1>2
  <2> QED BY <2>1, <2>2
<1>5. PICK n \in Nat : n = Len(rows)
  BY <1>2
<1>6. IsFiniteSet(1 .. n) /\ Cardinality(1 .. n) = n
  <2>1. 1 \in Int /\ n \in Int
    OBVIOUS
  <2>2. IsFiniteSet(1 .. n) /\ Cardinality(1 .. n) = IF 1 > n THEN 0 ELSE n - 1 + 1
    BY ONLY <2>1, FS_Interval
  <2> QED BY <2>2
<1>7. \A i, j \in DOMAIN rows : rows[i] = rows[j] => i = j
  BY <1>4
<1>8. (\A j \in DOMAIN rows : rows[j] \in ToSet(rows)) /\ \A y \in ToSet(rows) : \E j \in DOMAIN rows : rows[j] = y
  BY DEF ToSet
<1>9. IsFiniteSet(DOMAIN rows) /\ Cardinality(DOMAIN rows) = n
  BY <1>2, <1>5, <1>6
<1>10. IsFiniteSet(ToSet(rows)) /\ Cardinality(ToSet(rows)) = Cardinality(DOMAIN rows)
  BY ONLY <1>7, <1>8, <1>9, Counted
<1> QED BY <1>2, <1>4, <1>5, <1>9, <1>10

LEMMA RepetitionsCounted ==
    ASSUME NEW rows, OutputsFit(rows)
    PROVE  Repetitions(rows)
<1> SUFFICES ASSUME NEW i \in DOMAIN rows
             PROVE  rows[i].repetition = Cardinality({j \in 1 .. i - 1 :
                       <<rows[j].case, rows[j].run>> = <<rows[i].case, rows[i].run>>})
  BY Zenon DEF Repetitions
<1> DEFINE same == {j \in 1 .. i - 1 : <<rows[j].case, rows[j].run>> = <<rows[i].case, rows[i].run>>}
<1>1. PICK x : x = rows[i]
  OBVIOUS
<1>2. /\ DOMAIN rows = 1 .. Len(rows) /\ Len(rows) \in Nat /\ \A j \in DOMAIN rows : rows[j] \in RunOutputSchema
      /\ \A h, j \in DOMAIN rows : (\A n \in 1 .. 3 : OutputKey(rows[h])[n] = OutputKey(rows[j])[n]) => h = j
  BY OutputsDiffer
<1>3. \A j \in DOMAIN rows : rows[j].run = 1
  BY DEF OutputsFit
<1>4. i \in Int /\ 1 <= i /\ i <= Len(rows)
  BY <1>2
<1>5. \A j \in same : j \in DOMAIN rows /\ j < i /\ rows[j].case = x.case
  BY <1>1, <1>2, <1>4
<1>6. \A j \in DOMAIN rows : j < i /\ rows[j].case = x.case => j \in same
  BY <1>1, <1>2, <1>3, <1>4
<1>7. IsFiniteSet(same)
  <2>1. 1 \in Int /\ i - 1 \in Int
    BY <1>4
  <2>2. IsFiniteSet(1 .. i - 1)
    BY ONLY <2>1, FS_Interval
  <2> QED BY <2>2, FS_Subset
<1> HIDE DEF same
<1>8. x \in ToSet(rows) /\ x \in RunOutputSchema /\ x.run = 1
  BY <1>1, <1>2, <1>3 DEF ToSet
<1>9. \A j \in DOMAIN rows :
         rows[j].case = x.case => (LexLess(OutputKey(rows[j]), OutputKey(x)) <=> rows[j].repetition < x.repetition)
  BY <1>2, <1>3, <1>8, OutputOrder
<1>10. \A h, j \in DOMAIN rows : h < j => LexLess(OutputKey(rows[h]), OutputKey(rows[j]))
  BY DEF OutputsFit
<1>11. \A j \in same : rows[j] \in Earlier(ToSet(rows), x)
  BY <1>1, <1>5, <1>9, <1>10 DEF Earlier, ToSet
<1>12. ASSUME NEW y \in Earlier(ToSet(rows), x) PROVE \E j \in same : rows[j] = y
  <2>1. PICK j \in DOMAIN rows : rows[j] = y
    BY DEF Earlier, ToSet
  <2>2. y.case = x.case /\ y.repetition < x.repetition
    BY DEF Earlier
  <2>3. j # i
    <3>1. x.repetition \in Nat
      BY <1>8 DEF RunOutputSchema
    <3> QED BY <1>1, <2>1, <2>2, <3>1
  <2>4. ~(i < j)
    <3> SUFFICES ASSUME i < j PROVE FALSE
      OBVIOUS
    <3>1. LexLess(OutputKey(x), OutputKey(y))
      BY <1>1, <1>10, <2>1
    <3>2. y \in RunOutputSchema /\ y.run = 1
      BY <1>2, <1>3, <2>1
    <3>3. x.repetition < y.repetition
      BY <1>8, <2>2, <3>1, <3>2, OutputOrder
    <3>4. x.repetition \in Nat /\ y.repetition \in Nat
      BY <1>8, <3>2 DEF RunOutputSchema
    <3> QED BY <2>2, <3>3, <3>4
  <2>5. j < i
    BY <1>2, <1>4, <2>3, <2>4
  <2> QED BY <1>6, <2>1, <2>2, <2>5
<1>13. \A h, j \in same : rows[h] = rows[j] => h = j
  BY <1>2, <1>5
<1>14. Cardinality(Earlier(ToSet(rows), x)) = Cardinality(same)
  BY ONLY <1>7, <1>11, <1>12, <1>13, Counted
<1>15. x.repetition = Cardinality(Earlier(ToSet(rows), x))
  BY <1>8 DEF OutputsFit
<1> QED BY <1>1, <1>14, <1>15 DEF same

LEMMA OutputAdded ==
    ASSUME NEW rows, OutputsFit(rows), Len(rows) < MaxOutputs,
           NEW row \in RunOutputSchema, TerminalShape(row), row.run = 1,
           row.repetition = Cardinality({i \in DOMAIN rows : rows[i].case = row.case}),
           NEW S, S = ToSet(rows) \cup {row},
           NEW list, list = SortedBy(S, [r \in S |-> OutputKey(r)])
    PROVE  OutputsFit(list)
<1> DEFINE R == ToSet(rows)
           alike == {y \in R : y.case = row.case}
           key == [r \in S |-> OutputKey(r)]
<1>1. /\ DOMAIN rows = 1 .. Len(rows) /\ Len(rows) \in Nat /\ IsFiniteSet(DOMAIN rows)
      /\ \A i \in DOMAIN rows : rows[i] \in RunOutputSchema
      /\ \A i, j \in DOMAIN rows : (\A n \in 1 .. 3 : OutputKey(rows[i])[n] = OutputKey(rows[j])[n]) => i = j
      /\ IsFiniteSet(R) /\ Cardinality(R) = Len(rows)
  BY OutputsDiffer
<1>2. \A x \in R : \E i \in DOMAIN rows : x = rows[i]
  BY DEF ToSet
<1>3. \A x \in R : /\ x \in RunOutputSchema /\ x.run = 1 /\ TerminalShape(x)
                   /\ x.repetition = Cardinality(Earlier(R, x))
  BY <1>1, <1>2 DEF OutputsFit
<1>4. \A x \in R : x.repetition \in Nat /\ x.case \in Nat
  BY <1>3 DEF RunOutputSchema
<1>5. row.repetition \in Nat /\ row.case \in Nat
  BY DEF RunOutputSchema
<1>6. IsFiniteSet(alike) /\ Cardinality(alike) = row.repetition
  <2> DEFINE D == {i \in DOMAIN rows : rows[i].case = row.case}
  <2>1. IsFiniteSet(D)
    BY <1>1, FS_Subset
  <2>2. \A j \in D : rows[j] \in alike
    BY DEF ToSet
  <2>3. \A y \in alike : \E j \in D : rows[j] = y
    BY <1>2
  <2>4. \A i, j \in D : rows[i] = rows[j] => i = j
    BY <1>1
  <2>5. Cardinality(D) = row.repetition
    OBVIOUS
  <2> HIDE DEF D, alike, R
  <2>6. IsFiniteSet(alike) /\ Cardinality(alike) = Cardinality(D)
    BY ONLY <2>1, <2>2, <2>3, <2>4, Counted
  <2> QED BY <2>5, <2>6
<1>7. ASSUME NEW x \in R, x.case = row.case PROVE x.repetition < row.repetition
  <2>1. Earlier(R, x) \in SUBSET alike /\ x \in alike /\ x \notin Earlier(R, x)
    BY <1>4, <1>7 DEF Earlier
  <2> HIDE DEF alike, R
  <2>2. Cardinality(Earlier(R, x)) <= Cardinality(alike) /\ Cardinality(Earlier(R, x)) # Cardinality(alike)
    BY <1>6, <2>1, FS_Subset
  <2> QED BY <1>3, <1>4, <1>5, <1>6, <2>2
<1>8. IsFiniteSet(S) /\ Cardinality(S) <= Len(rows) + 1
  <2>1. S = R \cup {row}
    OBVIOUS
  <2> HIDE DEF R
  <2>2. IsFiniteSet(R \cup {row}) /\ Cardinality(R \cup {row}) = IF row \in R THEN Cardinality(R) ELSE Cardinality(R) + 1
    BY <1>1, FS_AddElement
  <2>3. Cardinality(R) \in Nat /\ Cardinality(R) = Len(rows)
    BY <1>1
  <2> QED BY ONLY <2>1, <2>2, <2>3
<1>9. \A x \in S : x \in RunOutputSchema /\ x.run = 1 /\ TerminalShape(x)
  BY <1>3
<1>10. \A x \in S : /\ Tuple(key[x], 3) /\ key[x][1] = x.case /\ key[x][2] = x.run /\ key[x][3] = x.repetition
  BY <1>9, OutputTuple
<1>11. Keyed(S, key, 3)
  <2>1. ASSUME NEW x \in S, NEW y \in S, \A n \in 1 .. 3 : key[x][n] = key[y][n] PROVE x = y
    <3>1. 1 \in 1 .. 3 /\ 3 \in 1 .. 3
      OBVIOUS
    <3>2. x.case = y.case /\ x.repetition = y.repetition
      BY ONLY <1>10, <2>1, <3>1
    <3>3. CASE x \in R /\ y \in R
      <4>1. PICK i \in DOMAIN rows : x = rows[i]
        BY <1>2, <3>3
      <4>2. PICK j \in DOMAIN rows : y = rows[j]
        BY <1>2, <3>3
      <4>3. key[x] = OutputKey(rows[i]) /\ key[y] = OutputKey(rows[j])
        BY <4>1, <4>2
      <4> HIDE DEF key
      <4>4. i = j
        BY <1>1, <2>1, <4>3
      <4> QED BY <4>1, <4>2, <4>4
    <3>4. CASE x \in R /\ y = row
      BY <1>4, <1>5, <1>7, <3>2, <3>4
    <3>5. CASE x = row /\ y \in R
      BY <1>4, <1>5, <1>7, <3>2, <3>5
    <3>6. CASE x = row /\ y = row
      BY <3>6
    <3> QED BY <3>3, <3>4, <3>5, <3>6
  <2> HIDE DEF key
  <2> QED BY <1>8, <1>10, <2>1 DEF Keyed
<1>12. list = SortedBy(S, key)
  OBVIOUS
<1>13. PICK n \in Nat : Keyed(S, key, n)
  BY <1>11
<1> HIDE DEF key
<1>14. /\ list \in Seq(S) /\ Len(list) = Cardinality(S) /\ Len(list) \in Nat
       /\ \A x \in S : \E i \in 1 .. Len(list) : list[i] = x
  BY ONLY <1>12, <1>13, Sorted
<1>15. \A i, j \in 1 .. Len(list) : i < j <=> LexLess(key[list[i]], key[list[j]])
  BY ONLY <1>12, <1>13, Sorted
<1>16. DOMAIN list = 1 .. Len(list) /\ \A i \in DOMAIN list : list[i] \in S
  BY ONLY <1>14
<1>17. ToSet(list) = S
  BY ONLY <1>14, <1>16 DEF ToSet
<1>18. list \in Seq(RunOutputSchema)
  BY ONLY <1>9, <1>14, <1>16
<1>19. Len(list) <= MaxOutputs
  BY <1>1, <1>8, <1>14, OutputsAssumption
<1>20. \A i, j \in DOMAIN list : i < j => LexLess(OutputKey(list[i]), OutputKey(list[j]))
  <2>1. \A x \in S : key[x] = OutputKey(x)
    BY ONLY DEF key
  <2>2. \A i \in DOMAIN list : key[list[i]] = OutputKey(list[i])
    BY ONLY <1>16, <2>1
  <2> QED BY ONLY <1>15, <1>16, <2>2
<1>21. \A x \in S : x.repetition = Cardinality(Earlier(S, x))
  <2>1. ASSUME NEW x \in R PROVE x.repetition = Cardinality(Earlier(S, x))
    <3>1. row \in Earlier(S, x) => FALSE
      <4> SUFFICES ASSUME row.case = x.case, row.repetition < x.repetition PROVE FALSE
        BY DEF Earlier
      <4> QED BY <1>4, <1>5, <1>7
    <3>2. Earlier(S, x) = Earlier(R, x)
      BY <3>1 DEF Earlier
    <3> QED BY <1>3, <3>2
  <2>2. Earlier(S, row) = alike
    <3>1. ~(row.repetition < row.repetition)
      BY <1>5
    <3>2. \A y \in Earlier(S, row) : y \in alike
      BY <3>1 DEF Earlier
    <3>3. \A y \in alike : y \in Earlier(S, row)
      BY <1>7 DEF Earlier
    <3> QED BY <3>2, <3>3
  <2> QED BY <1>6, <2>1, <2>2
<1>22. \A i \in DOMAIN list : TerminalShape(list[i]) /\ list[i].run = 1
  BY <1>9, <1>16
<1> QED BY <1>17, <1>18, <1>19, <1>20, <1>21, <1>22 DEF OutputsFit

LEMMA RepetitionEnds ==
    ASSUME OutputsFit(outputs), EndRepetition
    PROVE  OutputsFit(outputs')
<1> DEFINE Grown(row) == ToSet(outputs) \cup {row}
<1>1. PICK case \in 1 .. 2, terminal \in DOMAIN TerminalFields, code \in {"LAUNCH_FAILED", "NONZERO_EXIT", "TIMEOUT"} :
          outputs' = SortedBy(Grown(RunOutput(case, terminal, code)),
                              [r \in Grown(RunOutput(case, terminal, code)) |-> OutputKey(r)])
  BY Zenon DEF EndRepetition
<1>2. PICK failed \in BOOLEAN : failed <=> terminal = "PROCESS_FAILED"
  OBVIOUS
<1>3. PICK failure, exit_code :
         /\ failure = IF failed THEN code ELSE Null
         /\ exit_code = IF failed /\ code = "NONZERO_EXIT" THEN -1 ELSE Null
  OBVIOUS
<1>4. PICK empty_output \in BOOLEAN : empty_output <=> failed /\ code = "LAUNCH_FAILED"
  OBVIOUS
<1>5. PICK repetition : repetition = Cardinality({i \in DOMAIN outputs : outputs[i].case = case})
  OBVIOUS
<1>6. PICK row : row = [case |-> case, run |-> 1, repetition |-> repetition, terminal |-> terminal,
                      evidence |-> TerminalFields[terminal], failure |-> failure, exit_code |-> exit_code,
                      empty_output |-> empty_output]
  OBVIOUS
<1>7. PICK S : S = ToSet(outputs) \cup {row}
  OBVIOUS
<1>8. outputs' = SortedBy(S, [r \in S |-> OutputKey(r)])
  <2>1. row = RunOutput(case, terminal, code)
    BY ONLY <1>2, <1>3, <1>4, <1>5, <1>6 DEF RunOutput
  <2>2. S = Grown(RunOutput(case, terminal, code))
    BY ONLY <1>7, <2>1
  <2> QED BY ONLY <1>1, <2>2
<1> HIDE DEF Grown
<1>9. repetition \in Nat
  <2>1. IsFiniteSet(DOMAIN outputs)
    BY OutputsDiffer
  <2>2. IsFiniteSet({i \in DOMAIN outputs : outputs[i].case = case})
    BY <2>1, FS_Subset
  <2> QED BY <1>5, <2>2, FS_CardinalityType
<1>10. TerminalFields[terminal] \in SUBSET UNION {TerminalFields[t] : t \in DOMAIN TerminalFields}
  OBVIOUS
<1>11. row \in RunOutputSchema
  <2>1. PICK kinds : kinds = DOMAIN TerminalFields
    OBVIOUS
  <2>2. PICK fields, evidence :
           /\ fields = UNION {TerminalFields[t] : t \in DOMAIN TerminalFields} /\ evidence = TerminalFields[terminal]
           /\ evidence \in SUBSET fields
    BY <1>10
  <2>3. failure \in Optional({"LAUNCH_FAILED", "TIMEOUT", "NONZERO_EXIT", "SIGNALLED", "OUTPUT_INVALID"})
    BY <1>3 DEF Optional
  <2>4. exit_code \in Optional(Int)
    BY <1>3 DEF Optional
  <2>5. RunOutputSchema =
          [case : Nat, run : Nat, repetition : Nat, terminal : kinds, evidence : SUBSET fields,
           failure : Optional({"LAUNCH_FAILED", "TIMEOUT", "NONZERO_EXIT", "SIGNALLED", "OUTPUT_INVALID"}),
           exit_code : Optional(Int), empty_output : BOOLEAN]
    BY Zenon, <2>1, <2>2 DEF RunOutputSchema
  <2>6. row = [case |-> case, run |-> 1, repetition |-> repetition, terminal |-> terminal,
               evidence |-> evidence, failure |-> failure, exit_code |-> exit_code, empty_output |-> empty_output]
    BY <1>6, <2>2
  <2> QED BY ONLY <1>9, <2>1, <2>2, <2>3, <2>4, <2>5, <2>6, case \in 1 .. 2, terminal \in DOMAIN TerminalFields
<1>12. TerminalShape(row)
  <2>1. /\ row.terminal = terminal /\ row.evidence = TerminalFields[terminal] /\ row.failure = failure
        /\ row.exit_code = exit_code /\ row.empty_output = empty_output
    BY <1>6
  <2>2. -1 \in I128 /\ -1 # 0
    BY WidthAssumption, RangeAssumption DEF I128
  <2>3. exit_code # Null => failed /\ code = "NONZERO_EXIT" /\ exit_code = -1
    BY <1>3
  <2>4. failure = "LAUNCH_FAILED" => exit_code = Null /\ empty_output
    BY <1>3, <1>4, NullAssumption
  <2>5. failure = "NONZERO_EXIT" => exit_code # Null /\ exit_code # 0
    BY <1>3, NullAssumption
  <2> QED BY <1>2, <2>1, <2>2, <2>3, <2>4, <2>5 DEF TerminalShape
<1>13. Len(outputs) < MaxOutputs
  BY DEF EndRepetition
<1>14. row.repetition = Cardinality({i \in DOMAIN outputs : outputs[i].case = row.case}) /\ row.run = 1
  BY <1>5, <1>6
<1>15. PICK rows, list : rows = outputs /\ list = outputs'
  OBVIOUS
<1>16. OutputsFit(list)
  BY <1>7, <1>8, <1>11, <1>12, <1>13, <1>14, <1>15, OutputAdded
<1> QED BY <1>15, <1>16

LEMMA IneligibleAccepted ==
    ASSUME NEW reasons \in SUBSET Preflight, reasons # {}
    PROVE  ReceiptAccepted("benchmark", Ineligible(reasons))
<1>1. PICK b : b = Ineligible(reasons)
  OBVIOUS
<1>2. b = [status |-> "INELIGIBLE", reasons |-> reasons, attached |-> Attachments \ {"metrics_artifact"},
           samples |-> 0, outputs |-> <<>>]
  BY <1>1 DEF Ineligible
<1>3. b \in BenchmarkSchema
  BY <1>2 DEF BenchmarkSchema
<1>4. ToSet(b.outputs) = {} /\ DOMAIN b.outputs = {}
  BY <1>2 DEF ToSet
<1>5. 0 \in U64
  BY RangeAssumption DEF U64
<1>6. "RUN_FAILED" \notin reasons
  BY DEF Preflight
<1>7. BenchmarkVerdict(b)
  BY <1>2 DEF BenchmarkVerdict
<1>8. Repetitions(b.outputs) /\ Increasing([i \in DOMAIN b.outputs |->
          <<b.outputs[i].case, b.outputs[i].run, b.outputs[i].repetition>>])
  BY <1>4 DEF Repetitions, Increasing
<1>9. PICK rows : rows = b.outputs
  OBVIOUS
<1>10. ("RUN_FAILED" \in reasons) <=> (\E row \in ToSet(rows) : row.terminal # "RUN_END")
  <2>1. \A row \in ToSet(rows) : FALSE
    BY <1>4, <1>9
  <2>2. PICK failed \in BOOLEAN : failed <=> "RUN_FAILED" \in reasons
    OBVIOUS
  <2>3. (\E row \in ToSet(rows) : row.terminal # "RUN_END") <=> failed
    BY <1>6, <2>1, <2>2
  <2> QED BY <2>2, <2>3
<1>11. BenchmarkValid(b)
  <2>1. b.samples \in U64 /\ b.reasons = reasons
    BY <1>2, <1>5
  <2>2. \A row \in ToSet(rows) : row.repetition \in U64 /\ TerminalShape(row)
    BY <1>4, <1>9
  <2> QED BY ONLY <1>7, <1>8, <1>9, <1>10, <2>1, <2>2 DEF BenchmarkValid
<1> QED BY <1>1, <1>3, <1>11 DEF ReceiptAccepted

LEMMA BenchmarkedAccepted ==
    ASSUME OutputsFit(outputs), outputs # <<>>, NEW found \in SUBSET (Scheduled \ {"RUN_FAILED"})
    PROVE  ReceiptAccepted("benchmark", Benchmarked(found))
<1>1. PICK rows : rows = outputs
  OBVIOUS
<1>2. PICK broken \in BOOLEAN : broken <=> \E i \in DOMAIN rows : rows[i].terminal # "RUN_END"
  OBVIOUS
<1>3. PICK reasons : reasons = found \cup (IF broken THEN {"RUN_FAILED"} ELSE {})
  OBVIOUS
<1>4. PICK b : b = [status |-> IF reasons = {} THEN "PASS" ELSE "FAIL", reasons |-> reasons, attached |-> Attachments,
                    samples |-> Len(rows), outputs |-> rows]
  OBVIOUS
<1>5. Benchmarked(found) = b
  BY <1>1, <1>2, <1>3, <1>4 DEF Benchmarked
<1>6. /\ OutputsFit(rows) /\ rows # <<>> /\ rows \in Seq(RunOutputSchema)
      /\ DOMAIN rows = 1 .. Len(rows) /\ Len(rows) \in Nat /\ \A i \in DOMAIN rows : rows[i] \in RunOutputSchema
  BY <1>1, OutputsDiffer DEF OutputsFit
<1>7. Len(rows) \in U64 /\ Len(rows) > 0
  BY <1>6, OutputsAssumption, RangeAssumption DEF OutputsFit, U64
<1>8. reasons \subseteq Scheduled
  BY <1>3 DEF Scheduled
<1>9. b \in BenchmarkSchema
  BY <1>4, <1>6, <1>8 DEF BenchmarkSchema
<1>10. b.outputs = rows /\ b.reasons = reasons /\ b.attached = Attachments /\ b.samples = Len(rows)
  BY <1>4
<1>11. BenchmarkVerdict(b)
  BY <1>4, <1>6, <1>7, <1>8 DEF BenchmarkVerdict
<1>12. ASSUME NEW row \in ToSet(rows) PROVE row.repetition \in U64 /\ TerminalShape(row)
  <2>1. PICK i \in DOMAIN rows : row = rows[i]
    BY DEF ToSet
  <2>2. row.repetition = Cardinality(Earlier(ToSet(rows), row)) /\ TerminalShape(row)
    BY <1>6, <2>1 DEF OutputsFit
  <2>3. IsFiniteSet(ToSet(rows)) /\ Cardinality(ToSet(rows)) = Len(rows)
    BY <1>6, OutputsDiffer
  <2>4. Earlier(ToSet(rows), row) \in SUBSET ToSet(rows)
    BY DEF Earlier
  <2>5. row.repetition \in Nat /\ row.repetition <= Len(rows)
    BY <2>2, <2>3, <2>4, FS_Subset, FS_CardinalityType
  <2> QED BY <1>6, <1>7, <2>2, <2>5, RangeAssumption DEF U64
<1>13. Increasing([i \in DOMAIN rows |-> <<rows[i].case, rows[i].run, rows[i].repetition>>])
  BY <1>6 DEF OutputsFit, OutputKey, Increasing
<1>14. ("RUN_FAILED" \in reasons) <=> (\E row \in ToSet(rows) : row.terminal # "RUN_END")
  <2>1. (\E row \in ToSet(rows) : row.terminal # "RUN_END") <=> \E i \in DOMAIN rows : rows[i].terminal # "RUN_END"
    BY DEF ToSet
  <2>2. "RUN_FAILED" \in reasons <=> broken
    BY <1>3
  <2> QED BY <1>2, <2>1, <2>2
<1>15. BenchmarkValid(b)
  BY ONLY <1>6, <1>7, <1>10, <1>11, <1>12, <1>13, <1>14, RepetitionsCounted DEF BenchmarkValid
<1> QED BY <1>5, <1>9, <1>15 DEF ReceiptAccepted

-----------------------------------------------------------------------------
(* Sums *)

\* Induction over the subsets of a finite set, an element at a time.
LEMMA SubsetInduction ==
    ASSUME NEW D, IsFiniteSet(D), NEW Q, {} \in Q,
           \A T \in SUBSET D : (\A x \in T : T \ {x} \in Q) => T \in Q
    PROVE  SUBSET D \subseteq Q
<1> DEFINE N == {n \in Nat : \A T \in SUBSET D : Cardinality(T) = n => T \in Q}
<1>1. \A T \in SUBSET D : IsFiniteSet(T) /\ Cardinality(T) \in Nat
  BY FS_Subset, FS_CardinalityType
<1>2. 0 \in N
  BY <1>1, FS_EmptySet
<1>3. ASSUME NEW n \in Nat, n \in N PROVE n + 1 \in N
  <2>1. ASSUME NEW T \in SUBSET D, Cardinality(T) = n + 1 PROVE T \in Q
    <3>1. \A x \in T : Cardinality(T \ {x}) = n
      BY <1>1, <2>1, FS_RemoveElement
    <3>2. \A x \in T : T \ {x} \in Q
      BY <1>3, <3>1
    <3> QED BY <3>2
  <2> QED BY <2>1
<1>4. Nat \subseteq N
  <2> HIDE DEF N
  <2> QED BY <1>2, <1>3, Induction
<1> QED BY <1>1, <1>4

-----------------------------------------------------------------------------
(* What a sum over a finite set is *)

One(T) == CHOOSE x \in T : TRUE

\* What the library's sum chooses: its value on every subset.
SumEquation(h, f, D) ==
    h = [T \in SUBSET D |-> IF T = {} THEN 0 ELSE f[One(T)] + h[T \ {One(T)}]]

LEMMA SumExists ==
    ASSUME NEW D, IsFiniteSet(D), NEW f \in [D -> Int]
    PROVE  \E h \in [SUBSET D -> Int] : SumEquation(h, f, D)
<1> DEFINE Small(n) == {T \in SUBSET D : Cardinality(T) <= n}
           Fits(h, n) == \A T \in Small(n) :
                            h[T] = IF T = {} THEN 0 ELSE f[One(T)] + h[T \ {One(T)}]
           N == {n \in Nat : \E h \in [Small(n) -> Int] : Fits(h, n)}
<1>1. \A T \in SUBSET D : /\ IsFiniteSet(T) /\ Cardinality(T) \in Nat
                          /\ T # {} => One(T) \in T /\ Cardinality(T \ {One(T)}) = Cardinality(T) - 1
                          /\ Cardinality(T) = 0 <=> T = {}
  <2>1. \A T \in SUBSET D : T # {} => One(T) \in T
    BY DEF One
  <2> QED BY <2>1, FS_Subset, FS_CardinalityType, FS_RemoveElement, FS_EmptySet
<1>0. \A T \in SUBSET D : Cardinality(T) \in Nat
  BY <1>1
<1>2. 0 \in N
  <2> DEFINE h == [T \in Small(0) |-> 0]
  <2>1. ASSUME NEW T \in Small(0) PROVE T = {}
    <3>1. T \in SUBSET D /\ Cardinality(T) <= 0
      OBVIOUS
    <3>2. PICK c : c = Cardinality(T)
      OBVIOUS
    <3>3. c \in Nat /\ c <= 0
      BY <1>0, <3>1, <3>2
    <3>4. c = 0
      BY <3>3
    <3> QED BY <1>1, <3>1, <3>2, <3>4
  <2>2. h \in [Small(0) -> Int] /\ Fits(h, 0)
    BY <2>1
  <2> QED BY <2>2
<1>3. ASSUME NEW n \in Nat, n \in N PROVE n + 1 \in N
  <2>1. PICK h \in [Small(n) -> Int] : Fits(h, n)
    BY <1>3
  <2> DEFINE g == [T \in Small(n + 1) |-> IF T = {} THEN 0 ELSE f[One(T)] + h[T \ {One(T)}]]
  <2>2. \A T \in Small(n + 1) : T # {} => T \ {One(T)} \in Small(n) /\ T \ {One(T)} \in Small(n + 1)
    BY <1>1
  <2>3. g \in [Small(n + 1) -> Int]
    BY <1>1, <2>2
  <2>4. \A T \in Small(n) : T \in Small(n + 1) /\ g[T] = h[T]
    <3>1. ASSUME NEW T \in Small(n) PROVE T \in Small(n + 1)
      <4>1. T \in SUBSET D /\ Cardinality(T) <= n
        OBVIOUS
      <4>2. PICK c : c = Cardinality(T)
        OBVIOUS
      <4>3. c \in Nat /\ c <= n
        BY <1>0, <4>1, <4>2
      <4>4. c <= n + 1
        BY <4>3
      <4> QED BY <4>1, <4>2, <4>4
    <3> QED BY <2>1, <3>1
  <2>5. Fits(g, n + 1)
    <3> SUFFICES ASSUME NEW T \in Small(n + 1)
                 PROVE  g[T] = IF T = {} THEN 0 ELSE f[One(T)] + g[T \ {One(T)}]
      OBVIOUS
    <3>1. CASE T = {}
      BY <3>1
    <3>2. CASE T # {}
      <4>1. g[T \ {One(T)}] = h[T \ {One(T)}]
        BY <2>2, <2>4, <3>2
      <4>2. g[T] = f[One(T)] + h[T \ {One(T)}]
        BY <3>2
      <4> QED BY <3>2, <4>1, <4>2
    <3> QED BY <3>1, <3>2
  <2>6. n + 1 \in Nat
    OBVIOUS
  <2> HIDE DEF g, Fits, Small
  <2> QED BY <2>3, <2>5, <2>6
<1>4. Nat \subseteq N
  <2> HIDE DEF N
  <2> QED BY <1>2, <1>3, Induction
<1>5. PICK n \in Nat : n = Cardinality(D)
  BY <1>1
<1>6. Small(n) = SUBSET D
  BY <1>1, <1>5, FS_Subset
<1>7. PICK h \in [Small(n) -> Int] : Fits(h, n)
  BY <1>4
<1> QED BY <1>6, <1>7 DEF SumEquation

LEMMA SumsAreNatural ==
    ASSUME NEW D, IsFiniteSet(D), NEW f \in [D -> Nat], NEW h, SumEquation(h, f, D)
    PROVE  \A T \in SUBSET D : h[T] \in Nat
<1> DEFINE Q == {T \in SUBSET D : h[T] \in Nat}
<1>1. {} \in Q
  BY DEF SumEquation
<1>2. ASSUME NEW T \in SUBSET D, \A x \in T : T \ {x} \in Q PROVE T \in Q
  <2>1. CASE T = {}
    BY <1>1, <2>1
  <2>2. CASE T # {}
    <3>1. One(T) \in T
      BY <2>2 DEF One
    <3>2. h[T] = f[One(T)] + h[T \ {One(T)}]
      BY <2>2 DEF SumEquation
    <3> QED BY <1>2, <3>1, <3>2
  <2> QED BY <2>1, <2>2
<1>3. SUBSET D \subseteq Q
  <2> HIDE DEF Q
  <2> QED BY <1>1, <1>2, SubsetInduction
<1> QED BY <1>3

\* A sum of natural numbers is one.
LEMMA SumOfNaturals ==
    ASSUME NEW D, IsFiniteSet(D), NEW f \in [D -> Nat]
    PROVE  SumFunction(f) \in Nat
<1>1. f \in [D -> Int]
  OBVIOUS
<1>2. PICK h : h = CHOOSE g : SumEquation(g, f, D)
  OBVIOUS
<1>3. SumEquation(h, f, D)
  BY <1>1, <1>2, SumExists
<1>4. SumFunction(f) = h[D]
  BY <1>2 DEF SumFunction, SumFunctionOnSet, FoldFunctionOnSet, MapThenFoldSet, SumEquation, One
<1>5. h[D] \in Nat
  BY <1>3, SumsAreNatural
<1> QED BY <1>4, <1>5

-----------------------------------------------------------------------------
(* The closure *)

\* The evidence of a row, code by code.
RowEvidenceOf(codes, triggered, proving) ==
    (IF "H_MISSING" \in codes THEN {} ELSE {"trigger"})
    \cup (IF codes \cap ({"H_MISSING"} \cup CandidateStops) # {} THEN {} ELSE CandidateFields)
    \cup (IF "Q_CAP_RANGE" \in codes THEN {} ELSE {"q_cap"})
    \cup (IF "REFERENCE_SET_INVALID" \in codes THEN {} ELSE {"reference_count", "reference_root"})
    \cup (IF ~triggered \/ "STATE_ENVELOPE_RANGE" \in codes THEN {} ELSE {"state_envelope"})
    \cup (IF ~proving THEN {} ELSE {"proof_domain"} \cup (IF codes = {} THEN {"proof_root"} ELSE {}))

Market(m) ==
    /\ m.faults \subseteq MarketCodes /\ m.q_cap \in Nat /\ m.references \in Nat /\ m.extremes \in 1 .. 2

LEMMA RowsAreNatural == ASSUME NEW m, Market(m) PROVE ProofRows(m) \in Nat
<1>1. PICK q \in Nat, r \in Nat, x \in 1 .. 2 : q = m.q_cap /\ r = m.references /\ x = m.extremes
  BY DEF Market
<1>2. q * r \in Nat
  BY ONLY q \in Nat, r \in Nat
<1>3. PICK p \in Nat : p = q * r
  BY <1>2
<1>4. p * x \in Nat
  BY ONLY p \in Nat, x \in 1 .. 2
<1> QED BY <1>1, <1>3, <1>4 DEF ProofRows

LEMMA RowFits ==
    ASSUME NEW id \in Nat, NEW m, Market(m),
           NEW triggered \in BOOLEAN, triggered => "H_MISSING" \notin m.faults,
           NEW proving \in BOOLEAN, proving => PreproofFailures(m, triggered) = {},
           NEW row, row = MarketRow(id, m, triggered, proving)
    PROVE  /\ row \in MarketRowSchema /\ row.market = id /\ row.extremes \in 1 .. 2
           /\ FailurePhases(row.codes)
           /\ row.codes \cap PreproofCodes = PreproofFailures(m, triggered)
           /\ "H_MISSING" \in row.codes <=> "H_MISSING" \in m.faults
           /\ "PROOF_PREDICATE_FAILED" \in row.codes => proving
           /\ "STATE_ENVELOPE_RANGE" \in row.codes => triggered
           /\ "PROOF_ROW_COUNT_RANGE" \in row.codes
              <=> "PROOF_ROW_COUNT_RANGE" \in PreproofFailures(m, triggered)
           /\ row.evidence = RowEvidenceOf(row.codes, triggered, proving)
           /\ IF row.codes \cap {"Q_CAP_RANGE", "REFERENCE_SET_INVALID", "PROOF_ROW_COUNT_RANGE"} = {}
              THEN row.proof_rows # Null /\ row.proof_rows \in U64 ELSE row.proof_rows = Null
           /\ row.proof_rows # Null <=> Countable(m) /\ ProofRows(m) <= MaxU64
           /\ row.proof_rows # Null => row.proof_rows = ProofRows(m)
<1>1. PICK failed : failed = PreproofFailures(m, triggered)
  OBVIOUS
<1>2. PICK proof : proof = IF proving THEN m.faults \cap {"PROOF_PREDICATE_FAILED"} ELSE {}
  OBVIOUS
<1>3. PICK codes : codes = failed \cup proof
  OBVIOUS
<1>4. PICK count \in Nat : count = ProofRows(m)
  BY RowsAreNatural
<1>5. PICK can \in BOOLEAN : can <=> Countable(m)
  OBVIOUS
<1>6. PICK evidence : evidence =
            (IF "H_MISSING" \in failed THEN {} ELSE {"trigger"})
            \cup (IF failed \cap ({"H_MISSING"} \cup CandidateStops) # {} THEN {} ELSE CandidateFields)
            \cup (IF "Q_CAP_RANGE" \in failed THEN {} ELSE {"q_cap"})
            \cup (IF "REFERENCE_SET_INVALID" \in failed THEN {} ELSE {"reference_count", "reference_root"})
            \cup (IF ~triggered \/ "STATE_ENVELOPE_RANGE" \in failed THEN {} ELSE {"state_envelope"})
            \cup (IF ~proving THEN {} ELSE {"proof_domain"})
            \cup (IF ~proving \/ proof # {} THEN {} ELSE {"proof_root"})
  OBVIOUS
<1>7. row = [market |-> id, codes |-> codes, extremes |-> m.extremes,
             proof_rows |-> IF can /\ count <= MaxU64 THEN count ELSE Null, evidence |-> evidence]
  BY <1>1, <1>2, <1>3, <1>4, <1>5, <1>6 DEF MarketRow
<1>8. /\ failed \subseteq PreproofCodes /\ FailurePhases(failed)
      /\ \A x \in {"H_MISSING", "Q_CAP_RANGE", "REFERENCE_SET_INVALID"} : x \in failed <=> x \in m.faults
      /\ "STATE_ENVELOPE_RANGE" \in failed <=> "STATE_ENVELOPE_RANGE" \in m.faults /\ triggered
      /\ "PROOF_ROW_COUNT_RANGE" \in failed <=> can /\ count > MaxU64
  BY <1>1, <1>4, <1>5, FailuresFit DEF Market
<1>9. "PROOF_PREDICATE_FAILED" \notin PreproofCodes
  BY DEF PreproofCodes, CandidateStops, CandidateVerdicts
<1>10. proof \subseteq {"PROOF_PREDICATE_FAILED"} /\ (proving => failed = {}) /\ (~proving => proof = {})
  BY <1>1, <1>2
<1>11. \A x : x # "PROOF_PREDICATE_FAILED" => (x \in codes <=> x \in failed)
  BY <1>3, <1>10
<1>12. codes \cap PreproofCodes = failed
  BY <1>3, <1>8, <1>9, <1>10
<1>13. FailurePhases(codes)
  <2>1. CASE proof = {}
    BY <1>3, <1>8, <2>1
  <2>2. CASE proof # {}
    <3>1. codes = {"PROOF_PREDICATE_FAILED"}
      BY <1>3, <1>10, <2>2
    <3>2. codes \cap (CandidateStops \cup CandidateVerdicts) = {}
      BY <3>1 DEF CandidateStops, CandidateVerdicts
    <3>3. codes \cap (CandidateStops \cup CandidateVerdicts) \cap CandidateStops = {}
      BY <3>2
    <3> QED BY <3>1, <3>2, <3>3 DEF FailurePhases
  <2> QED BY <2>1, <2>2
<1>14. codes \cap ({"H_MISSING"} \cup CandidateStops) = failed \cap ({"H_MISSING"} \cup CandidateStops)
  BY <1>11 DEF CandidateStops
<1>15. proving => (codes = {} <=> proof = {})
  BY <1>3, <1>10
<1>16. evidence = RowEvidenceOf(codes, triggered, proving)
  <2>1. CASE proving
    <3>1. (IF ~proving THEN {} ELSE {"proof_domain"}) \cup (IF ~proving \/ proof # {} THEN {} ELSE {"proof_root"})
          = IF ~proving THEN {} ELSE {"proof_domain"} \cup (IF codes = {} THEN {"proof_root"} ELSE {})
      BY <1>15, <2>1
    <3> QED BY <1>6, <1>11, <1>14, <3>1 DEF RowEvidenceOf
  <2>2. CASE ~proving
    BY <1>6, <1>11, <1>14, <2>2 DEF RowEvidenceOf
  <2> QED BY <2>1, <2>2
<1>17. codes \subseteq MarketCodes
  BY <1>3, <1>8, <1>10 DEF MarketCodes
<1>18. evidence \subseteq RowEvidence
  BY <1>16 DEF RowEvidenceOf, RowEvidence
<1>19. row \in MarketRowSchema
  <2>1. m.extremes \in Nat
    BY DEF Market
  <2>2. PICK rows \in Optional(Nat) : rows = IF can /\ count <= MaxU64 THEN count ELSE Null
    BY DEF Optional
  <2>3. row = [market |-> id, codes |-> codes, extremes |-> m.extremes, proof_rows |-> rows, evidence |-> evidence]
    BY <1>7, <2>2
  <2>4. m.extremes \in Optional(Nat)
    BY <2>1 DEF Optional
  <2> QED BY ONLY <1>17, <1>18, <2>3, <2>4, id \in Nat, rows \in Optional(Nat) DEF MarketRowSchema
<1>20. can <=> codes \cap {"Q_CAP_RANGE", "REFERENCE_SET_INVALID"} = {}
  BY <1>5, <1>8, <1>11 DEF Countable
<1>21. MaxU64 \in Nat /\ Null \notin Int
  BY RangeAssumption, NullAssumption
<1>22. codes \cap {"Q_CAP_RANGE", "REFERENCE_SET_INVALID", "PROOF_ROW_COUNT_RANGE"} = {} <=> can /\ count <= MaxU64
  BY <1>8, <1>11, <1>20, <1>21
<1>23. count <= MaxU64 => count \in U64
  BY <1>21 DEF U64
<1>24. row.proof_rows = (IF can /\ count <= MaxU64 THEN count ELSE Null) /\ count # Null
  BY <1>7, <1>21
<1>25. /\ IF codes \cap {"Q_CAP_RANGE", "REFERENCE_SET_INVALID", "PROOF_ROW_COUNT_RANGE"} = {}
          THEN row.proof_rows # Null /\ row.proof_rows \in U64 ELSE row.proof_rows = Null
       /\ row.proof_rows # Null <=> can /\ count <= MaxU64
       /\ row.proof_rows # Null => row.proof_rows = count
  BY ONLY <1>22, <1>23, <1>24
<1>26. row.codes = codes /\ row.market = id /\ row.extremes = m.extremes /\ row.evidence = evidence
  BY <1>7
<1>27. m.extremes \in 1 .. 2
  BY DEF Market
<1>28. /\ row.codes \cap PreproofCodes = PreproofFailures(m, triggered)
       /\ "H_MISSING" \in row.codes <=> "H_MISSING" \in m.faults
       /\ "PROOF_ROW_COUNT_RANGE" \in row.codes
          <=> "PROOF_ROW_COUNT_RANGE" \in PreproofFailures(m, triggered)
  BY <1>1, <1>8, <1>11, <1>12, <1>26
<1>29. /\ "STATE_ENVELOPE_RANGE" \in row.codes => triggered
       /\ "PROOF_PREDICATE_FAILED" \in row.codes => proving
  BY <1>3, <1>8, <1>9, <1>10, <1>11, <1>26
<1>30. row.evidence = RowEvidenceOf(row.codes, triggered, proving) /\ FailurePhases(row.codes)
  BY <1>13, <1>16, <1>26
<1>31. /\ IF row.codes \cap {"Q_CAP_RANGE", "REFERENCE_SET_INVALID", "PROOF_ROW_COUNT_RANGE"} = {}
          THEN row.proof_rows # Null /\ row.proof_rows \in U64 ELSE row.proof_rows = Null
       /\ row.proof_rows # Null <=> Countable(m) /\ ProofRows(m) <= MaxU64
       /\ row.proof_rows # Null => row.proof_rows = ProofRows(m)
  BY ONLY <1>4, <1>5, <1>25, <1>26
<1> QED BY <1>19, <1>26, <1>27, <1>28, <1>29, <1>30, <1>31

\* The rows of a closure that has to close every market.
LEMMA RowsFit ==
    ASSUME NEW markets \in Outcomes,
           NEW triggered \in BOOLEAN, triggered <=> \A m \in DOMAIN markets : "H_MISSING" \notin markets[m].faults,
           NEW within \in BOOLEAN,
           NEW proving \in BOOLEAN,
           proving <=> within /\ \A m \in DOMAIN markets : PreproofFailures(markets[m], triggered) = {},
           NEW c, c.rows = [m \in DOMAIN markets |-> MarketRow(m, markets[m], triggered, proving)],
           c.budget = IF within THEN "WITHIN_LIMIT" ELSE "EXCEEDED"
    PROVE  /\ c.rows \in Seq(MarketRowSchema) /\ c.rows # <<>>
           /\ MarketRowsValid(c)
           /\ SomeRow(c, "PROOF_ROW_COUNT_RANGE") <=>
                 \E m \in DOMAIN markets : "PROOF_ROW_COUNT_RANGE" \in PreproofFailures(markets[m], triggered)
           /\ DOMAIN c.rows = DOMAIN markets
           /\ \A m \in DOMAIN markets :
                 /\ c.rows[m].proof_rows # Null <=> Countable(markets[m]) /\ ProofRows(markets[m]) <= MaxU64
                 /\ c.rows[m].proof_rows # Null => c.rows[m].proof_rows = ProofRows(markets[m])
<1>1. PICK n \in Nat \ {0} : n = Len(markets) /\ DOMAIN markets = 1 .. n
  BY FixturesAssumption
<1>2. \A m \in 1 .. n : Market(markets[m])
  BY <1>1, FixturesAssumption DEF Market
<1>3. PICK rows : rows = c.rows
  OBVIOUS
<1>4. rows = [m \in 1 .. n |-> MarketRow(m, markets[m], triggered, proving)]
  BY <1>1, <1>3
<1>5. ASSUME NEW m \in 1 .. n
      PROVE  /\ rows[m] \in MarketRowSchema /\ rows[m].market = m /\ rows[m].extremes \in 1 .. 2
             /\ FailurePhases(rows[m].codes)
             /\ rows[m].codes \cap PreproofCodes = PreproofFailures(markets[m], triggered)
             /\ "H_MISSING" \in rows[m].codes <=> "H_MISSING" \in markets[m].faults
             /\ "PROOF_PREDICATE_FAILED" \in rows[m].codes => proving
             /\ "STATE_ENVELOPE_RANGE" \in rows[m].codes => triggered
             /\ "PROOF_ROW_COUNT_RANGE" \in rows[m].codes
                <=> "PROOF_ROW_COUNT_RANGE" \in PreproofFailures(markets[m], triggered)
             /\ rows[m].evidence = RowEvidenceOf(rows[m].codes, triggered, proving)
             /\ IF rows[m].codes \cap {"Q_CAP_RANGE", "REFERENCE_SET_INVALID", "PROOF_ROW_COUNT_RANGE"} = {}
                THEN rows[m].proof_rows # Null /\ rows[m].proof_rows \in U64 ELSE rows[m].proof_rows = Null
             /\ rows[m].proof_rows # Null <=> Countable(markets[m]) /\ ProofRows(markets[m]) <= MaxU64
             /\ rows[m].proof_rows # Null => rows[m].proof_rows = ProofRows(markets[m])
  <2>1. PICK market : market = markets[m]
    OBVIOUS
  <2>2. Market(market) /\ m \in Nat
    BY <1>2, <2>1
  <2>3. triggered => "H_MISSING" \notin market.faults
    BY <1>1, <2>1
  <2>4. proving => PreproofFailures(market, triggered) = {}
    BY <1>1, <2>1
  <2>5. PICK row : row = MarketRow(m, market, triggered, proving)
    OBVIOUS
  <2>6. rows[m] = row
    BY <1>4, <2>1, <2>5
  <2> QED BY ONLY <2>1, <2>2, <2>3, <2>4, <2>5, <2>6, RowFits, triggered \in BOOLEAN, proving \in BOOLEAN
<1>6. DOMAIN rows = 1 .. n /\ rows \in Seq(MarketRowSchema) /\ rows # <<>>
  BY <1>4, <1>5
<1>7. ToSet(rows) = {rows[m] : m \in 1 .. n}
  BY <1>6 DEF ToSet
<1>8. \A code : SomeRow(c, code) <=> \E m \in 1 .. n : code \in rows[m].codes
  BY <1>3, <1>7 DEF SomeRow
<1>9. SomeRow(c, "H_MISSING") <=> ~triggered
  BY <1>1, <1>5, <1>8
<1>10. ProofGateOpen(c) <=> proving
  <2>1. (c.budget = "WITHIN_LIMIT") <=> within
    OBVIOUS
  <2>2. (\A row \in ToSet(rows) : row.codes \cap PreproofCodes = {})
        <=> \A m \in 1 .. n : PreproofFailures(markets[m], triggered) = {}
    BY <1>5, <1>7
  <2> QED BY <1>1, <1>3, <2>1, <2>2 DEF ProofGateOpen
<1>11. SomeRow(c, "STATE_ENVELOPE_RANGE") => triggered
  BY <1>5, <1>8
<1>12. SomeRow(c, "PROOF_PREDICATE_FAILED") => proving
  BY <1>5, <1>8
<1>13. GlobalPhases(c)
  BY <1>9, <1>10, <1>11, <1>12 DEF GlobalPhases
<1>14. \A codes : EvidenceFor(c, codes) = RowEvidenceOf(codes, triggered, proving)
  BY <1>9, <1>10 DEF EvidenceFor, RowEvidenceOf
<1>15. Increasing([i \in DOMAIN c.rows |-> <<c.rows[i].market>>])
  <2>1. PICK tuples : tuples = [i \in DOMAIN c.rows |-> <<c.rows[i].market>>]
    OBVIOUS
  <2>2. DOMAIN tuples = 1 .. n /\ \A i \in 1 .. n : tuples[i] = <<i>>
    BY <1>3, <1>5, <1>6, <2>1
  <2>3. Increasing(tuples)
    BY <2>2 DEF Increasing, LexLess
  <2> QED BY <2>1, <2>3
<1>16. \A row \in ToSet(rows) :
          /\ FailurePhases(row.codes)
          /\ row.evidence = EvidenceFor(c, row.codes)
          /\ row.extremes \in 1 .. 2
          /\ IF row.codes \cap {"Q_CAP_RANGE", "REFERENCE_SET_INVALID", "PROOF_ROW_COUNT_RANGE"} = {}
             THEN row.proof_rows # Null /\ row.proof_rows \in U64 ELSE row.proof_rows = Null
  BY <1>5, <1>7, <1>14
<1>17. MarketRowsValid(c)
  BY <1>3, <1>13, <1>15, <1>16 DEF MarketRowsValid
<1>18. SomeRow(c, "PROOF_ROW_COUNT_RANGE") <=>
          \E m \in DOMAIN markets : "PROOF_ROW_COUNT_RANGE" \in PreproofFailures(markets[m], triggered)
  BY <1>1, <1>5, <1>8
<1> QED BY <1>1, <1>3, <1>5, <1>6, <1>17, <1>18

\* What a closure adds up is the sum of the rows it lists.
RowsCounted(c, markets) ==
    /\ DOMAIN c.rows = DOMAIN markets
    /\ \A m \in DOMAIN markets :
          /\ c.rows[m].proof_rows # Null <=> Countable(markets[m]) /\ ProofRows(markets[m]) <= MaxU64
          /\ c.rows[m].proof_rows # Null => c.rows[m].proof_rows = ProofRows(markets[m])

LEMMA TotalsAgree ==
    ASSUME NEW markets \in Outcomes, NEW c, RowsCounted(c, markets)
    PROVE  /\ CountedRows(markets) \in Nat
           /\ ProofTotal(c) = IF SomeRow(c, "PROOF_ROW_COUNT_RANGE") \/ CountedRows(markets) > MaxU64 THEN Null
                              ELSE CountedRows(markets)
<1> DEFINE counted == {m \in DOMAIN markets : Countable(markets[m]) /\ ProofRows(markets[m]) <= MaxU64}
<1>1. PICK n \in Nat : DOMAIN markets = 1 .. n
  BY FixturesAssumption
<1>2. \A m \in 1 .. n : ProofRows(markets[m]) \in Nat
  BY <1>1, RowsAreNatural, FixturesAssumption DEF Market
<1>3. PICK f : f = [m \in counted |-> ProofRows(markets[m])]
  OBVIOUS
<1>4. IsFiniteSet(counted)
  <2>1. IsFiniteSet(1 .. n)
    BY FS_Interval, 1 \in Int, n \in Int
  <2>2. counted \subseteq 1 .. n
    BY <1>1
  <2> QED BY ONLY <2>1, <2>2, FS_Subset
<1>5. f \in [counted -> Nat]
  BY <1>1, <1>2, <1>3
<1>0. PICK total : total = SumFunction(f)
  OBVIOUS
<1>6. total \in Nat
  BY ONLY <1>4, <1>5, <1>0, SumOfNaturals
<1>7. PICK there : there = {i \in DOMAIN c.rows : c.rows[i].proof_rows # Null}
  OBVIOUS
<1>8. there = counted
  BY <1>7 DEF RowsCounted
<1>9. [i \in there |-> c.rows[i].proof_rows] = f
  BY <1>3, <1>7, <1>8 DEF RowsCounted
<1>10. SumFunction([i \in there |-> c.rows[i].proof_rows]) = total
  BY <1>0, <1>9
<1>11. ProofTotal(c) = IF SomeRow(c, "PROOF_ROW_COUNT_RANGE") \/ total > MaxU64 THEN Null ELSE total
  BY ONLY <1>7, <1>10 DEF ProofTotal
<1>12. CountedRows(markets) = total
  BY <1>0, <1>3 DEF CountedRows
<1> QED BY <1>6, <1>11, <1>12

ClosureAccounts(c) ==
    /\ c.rows \in Seq(MarketRowSchema) /\ MarketRowsValid(c) /\ ProofBudget(c)
    /\ {c.proof_total} \ {Null} \subseteq U64 /\ c.proof_total \in Optional(Nat)
    /\ c.budget \in {"NOT_REQUIRED", "WITHIN_LIMIT", "EXCEEDED"}

LEMMA ClosureAccepted ==
    ASSUME NEW i, InputsFit(i), NEW markets \in Outcomes
    PROVE  ReceiptAccepted("closure", Closure(i, markets).body)
<1>1. PICK f \in Fixtures : f = i.fixture
  BY DEF InputsFit
<1>2. PICK config \in Optional(Configs) : config = i.config
  BY DEF InputsFit
<1>3. PICK forced \in BOOLEAN : forced <=> config # Null /\ f.policy = "FORCE_CLOSE_NEXT_EVENT"
  OBVIOUS
<1>4. PICK counters : counters = CounterCapacity(i.fixture, i.manifest)
  OBVIOUS
<1>5. PICK triggered \in BOOLEAN :
         /\ triggered = Triggered(markets)
         /\ triggered <=> \A m \in DOMAIN markets : "H_MISSING" \notin markets[m].faults
  BY DEF Triggered
<1>6. PICK uncounted \in BOOLEAN :
         /\ uncounted <=> Uncounted(markets)
         /\ uncounted <=> \E m \in DOMAIN markets :
                             "PROOF_ROW_COUNT_RANGE" \in PreproofFailures(markets[m], triggered)
  BY <1>5 DEF Uncounted
<1>8. PICK total : total = CountedRows(markets)
  OBVIOUS
<1>15. PICK limit : limit = IF config = Null THEN Null ELSE config.proof_rows
  OBVIOUS
<1>9. PICK within \in BOOLEAN :
         /\ within <=> WithinBudget(limit, markets)
         /\ within <=> ~uncounted /\ total <= limit
  BY <1>6, <1>8 DEF WithinBudget
<1>10. PICK proving \in BOOLEAN :
          /\ proving = Proving(limit, markets)
          /\ proving <=> within /\ \A m \in DOMAIN markets : PreproofFailures(markets[m], triggered) = {}
  BY <1>5, <1>9 DEF Proving
<1>11. PICK rows : rows = IF ~forced THEN <<>>
                          ELSE [m \in DOMAIN markets |-> MarketRow(m, markets[m], triggered, proving)]
  OBVIOUS
<1>12. PICK failed \in BOOLEAN : failed <=> \E m \in DOMAIN rows : rows[m].codes # {}
  OBVIOUS
<1>13. PICK reasons : reasons = IF counters = "EXCEEDED" THEN {"COUNTER_CAPACITY", "RUN_END_UNCLOSED"}
                   ELSE IF ~forced THEN {}
                   ELSE IF ~within THEN {"RUN_END_PROOF_BUDGET", "RUN_END_UNCLOSED"}
                   ELSE IF failed THEN {"RUN_END_UNCLOSED"} ELSE {}
  OBVIOUS
<1>14. PICK sum : sum = IF ~forced THEN 0 ELSE IF uncounted \/ total > MaxU64 THEN Null ELSE total
  OBVIOUS
<1>16. PICK doc : doc =
            [status |-> IF reasons # {} THEN "FAIL"
                        ELSE IF config = Null THEN "NOT_REQUIRED_ZERO_AUTHORITY" ELSE "PASS",
             reasons |-> reasons, config |-> config # Null,
             mode |-> IF i.manifest = Null THEN "DISABLED" ELSE "CACHED_FIXTURES",
             registry |-> i.registry # Null, manifest |-> i.manifest # Null, counters |-> counters,
             policy |-> f.policy,
             terminal |-> IF reasons # {} THEN Null ELSE f.terminal,
             proof_limit |-> limit, proof_total |-> sum,
             budget |-> IF ~forced THEN "NOT_REQUIRED" ELSE IF within THEN "WITHIN_LIMIT" ELSE "EXCEEDED",
             rows |-> rows]
  OBVIOUS
<1>17. Closure(i, markets).body = doc
  BY ZenonT(90), <1>1, <1>2, <1>3, <1>4, <1>5, <1>6, <1>8, <1>9, <1>10, <1>11, <1>12, <1>13, <1>14, <1>15, <1>16
     DEF Closure
<1>18. /\ f.terminal \in U64 /\ f.terminal \in Nat
       /\ f.policy \in {"FORCE_CLOSE_NEXT_EVENT", "LEAVE_MARKED_OPEN"}
  BY FixturesAssumption DEF U64
<1>19. MaxU64 \in Nat /\ MaxProofRows \in Nat \ {0} /\ MaxProofRows <= MaxU64 /\ Null \notin Int
  BY RangeAssumption, CapsAssumption, WidthAssumption, NullAssumption
<1>20. config # Null => limit \in 1 .. MaxProofRows /\ limit = config.proof_rows
  BY <1>15, FilesAssumption DEF Optional, RiskConfigValid
<1>21. config = Null => limit = Null
  BY <1>15
<1>22. counters \in {"WITHIN_LIMIT", "EXCEEDED"}
  BY <1>4 DEF CounterCapacity
<1>23. (i.registry = Null <=> i.manifest = Null)
  BY ModelsFit DEF InputsFit
<1>24. ForceClosed(doc) <=> forced
  BY <1>3, <1>16 DEF ForceClosed
<1>25. ClosureAccounts(doc) /\ (forced <=> rows # <<>>) /\ (forced => (doc.budget = "EXCEEDED" <=> ~within))
  <2>1. CASE ~forced
    <3>1. rows = <<>> /\ sum = 0 /\ doc.rows = rows /\ doc.proof_total = 0 /\ doc.budget = "NOT_REQUIRED"
      BY <1>11, <1>14, <1>16, <2>1
    <3>2. ToSet(doc.rows) = {} /\ DOMAIN doc.rows = {} /\ doc.rows \in Seq(MarketRowSchema)
      BY <3>1 DEF ToSet
    <3>3. MarketRowsValid(doc)
      BY <3>1, <3>2 DEF MarketRowsValid, Increasing, GlobalPhases, SomeRow
    <3>4. (doc.proof_limit = Null) = ~doc.config
      <4>1. doc.proof_limit = limit /\ doc.config = (config # Null)
        BY <1>16
      <4>2. limit = Null <=> config = Null
        BY <1>19, <1>20, <1>21
      <4> QED BY <4>1, <4>2
    <3>5. ProofBudget(doc)
      BY <1>24, <2>1, <3>1, <3>4 DEF ProofBudget
    <3>6. 0 \in U64 /\ 0 \in Optional(Nat)
      BY <1>19 DEF U64, Optional
    <3> QED BY <2>1, <3>1, <3>2, <3>3, <3>5, <3>6 DEF ClosureAccounts
  <2>2. CASE forced
    <3>1. /\ doc.rows = [m \in DOMAIN markets |-> MarketRow(m, markets[m], triggered, proving)]
          /\ doc.budget = IF within THEN "WITHIN_LIMIT" ELSE "EXCEEDED"
      BY <1>11, <1>16, <2>2
    <3>2. /\ doc.rows \in Seq(MarketRowSchema) /\ doc.rows # <<>>
          /\ MarketRowsValid(doc)
          /\ SomeRow(doc, "PROOF_ROW_COUNT_RANGE") <=> uncounted
          /\ DOMAIN doc.rows = DOMAIN markets
          /\ \A m \in DOMAIN markets :
                 /\ doc.rows[m].proof_rows # Null <=> Countable(markets[m]) /\ ProofRows(markets[m]) <= MaxU64
                 /\ doc.rows[m].proof_rows # Null => doc.rows[m].proof_rows = ProofRows(markets[m])
      BY ONLY <1>5, <1>6, <1>10, <3>1, RowsFit, markets \in Outcomes
    <3>3. /\ total \in Nat
          /\ ProofTotal(doc) = IF uncounted \/ total > MaxU64 THEN Null ELSE total
      <4>1. RowsCounted(doc, markets)
        BY <3>2 DEF RowsCounted
      <4>2. /\ CountedRows(markets) \in Nat
            /\ ProofTotal(doc) = IF SomeRow(doc, "PROOF_ROW_COUNT_RANGE") \/ CountedRows(markets) > MaxU64 THEN Null
                                 ELSE CountedRows(markets)
        BY <4>1, TotalsAgree
      <4> QED BY <1>8, <3>2, <4>2
    <3>4. doc.proof_total = sum /\ sum = ProofTotal(doc)
      BY <1>14, <1>16, <2>2, <3>3
    <3>5. sum \in Optional(Nat) /\ {sum} \ {Null} \subseteq U64
      BY <1>14, <1>19, <2>2, <3>3 DEF Optional, U64
    <3>6. doc.proof_limit = limit /\ limit \in 1 .. MaxProofRows /\ limit = config.proof_rows /\ limit # Null
      BY <1>3, <1>16, <1>19, <1>20, <2>2
    <3>7. within <=> sum # Null /\ sum <= limit
      <4>1. PICK most \in Nat : most = limit /\ most <= MaxU64
        BY <1>19, <3>6
      <4>2. within <=> ~uncounted /\ total <= most
        BY <1>9, <3>6, <4>1
      <4>3. sum = IF uncounted \/ total > MaxU64 THEN Null ELSE total
        BY <1>14, <2>2
      <4>4. total # Null
        BY <1>19, <3>3
      <4> QED BY ONLY <1>19, <3>3, <4>1, <4>2, <4>3, <4>4
    <3>8. doc.budget = IF sum = Null \/ sum > limit THEN "EXCEEDED" ELSE "WITHIN_LIMIT"
      <4>1. sum # Null => (sum > limit <=> ~(sum <= limit))
        BY <1>19, <3>5, <3>6 DEF Optional
      <4> QED BY <3>1, <3>7, <4>1
    <3>9. ProofBudget(doc)
      BY <1>24, <2>2, <3>2, <3>4, <3>6, <3>8 DEF ProofBudget
    <3> QED BY <1>16, <2>2, <3>1, <3>2, <3>4, <3>5, <3>9 DEF ClosureAccounts
  <2> QED BY <2>1, <2>2
<1>26. doc.rows = rows /\ DOMAIN rows = 1 .. Len(rows)
  BY <1>16, <1>25 DEF ClosureAccounts
<1>27. failed <=> \E row \in ToSet(doc.rows) : row.codes # {}
  BY <1>12, <1>26 DEF ToSet
<1>28. <<doc.status, doc.reasons>> = ClosureVerdict(doc)
  <2>1. doc.counters = counters /\ doc.config = (config # Null) /\ doc.policy = f.policy /\ doc.reasons = reasons
        /\ doc.status = (IF reasons # {} THEN "FAIL"
                         ELSE IF config = Null THEN "NOT_REQUIRED_ZERO_AUTHORITY" ELSE "PASS")
    BY <1>16
  <2>2. CASE counters = "EXCEEDED"
    BY <1>13, <2>1, <2>2 DEF ClosureVerdict
  <2>3. CASE counters # "EXCEEDED" /\ ~forced
    BY <1>3, <1>13, <1>18, <2>1, <2>3 DEF ClosureVerdict
  <2>4. CASE counters # "EXCEEDED" /\ forced
    BY <1>3, <1>13, <1>25, <1>27, <2>1, <2>4 DEF ClosureVerdict
  <2> QED BY <2>2, <2>3, <2>4
<1>29. (doc.terminal = Null) = (doc.status = "FAIL")
  BY <1>16, <1>18, <1>19
<1>30. {doc.terminal, doc.proof_total} \ {Null} \subseteq U64
  <2>1. doc.terminal = Null \/ doc.terminal \in U64
    BY <1>16, <1>18
  <2> QED BY <1>25, <2>1 DEF ClosureAccounts
<1>31. doc.proof_limit # Null => doc.proof_limit \in 1 .. MaxProofRows
  BY <1>16, <1>20, <1>21
<1>32. ModelInputs(doc.mode, doc.registry, doc.manifest)
  BY <1>16, <1>23 DEF ModelInputs
<1>33. RunClosureValid(doc)
  BY <1>25, <1>28, <1>29, <1>30, <1>31, <1>32 DEF RunClosureValid, ClosureAccounts
<1>34. doc \in RunClosureSchema
  <2>1. PICK status \in {"NOT_REQUIRED_ZERO_AUTHORITY", "PASS", "FAIL"} : status = doc.status
    BY <1>16
  <2>2. reasons \in SUBSET {"COUNTER_CAPACITY", "RUN_END_PROOF_BUDGET", "RUN_END_UNCLOSED"}
    BY <1>13
  <2>3. PICK mode \in {"DISABLED", "CACHED_FIXTURES"} : mode = doc.mode
    BY <1>16
  <2>4. PICK terminal \in Optional(Nat) : terminal = doc.terminal
    BY <1>16, <1>18 DEF Optional
  <2>5. limit \in Optional(Nat) /\ sum \in Optional(Nat)
    <3>1. limit \in Optional(Nat)
      BY <1>19, <1>20, <1>21 DEF Optional
    <3>2. sum = doc.proof_total
      BY <1>16
    <3> QED BY <1>25, <3>1, <3>2 DEF ClosureAccounts
  <2>6. PICK budget \in {"NOT_REQUIRED", "WITHIN_LIMIT", "EXCEEDED"} : budget = doc.budget
    BY <1>25 DEF ClosureAccounts
  <2>7. rows \in Seq(MarketRowSchema)
    BY <1>25, <1>26 DEF ClosureAccounts
  <2>8. PICK has \in BOOLEAN, registry \in BOOLEAN, manifest \in BOOLEAN :
           has = doc.config /\ registry = doc.registry /\ manifest = doc.manifest
    BY <1>16
  <2>9. doc = [status |-> status, reasons |-> reasons, config |-> has, mode |-> mode, registry |-> registry,
               manifest |-> manifest, counters |-> counters, policy |-> f.policy, terminal |-> terminal,
               proof_limit |-> limit, proof_total |-> sum, budget |-> budget, rows |-> rows]
    BY <1>16, <2>1, <2>3, <2>4, <2>6, <2>8
  <2> QED BY ONLY <1>18, <1>22, <2>2, <2>5, <2>7, <2>9, status \in {"NOT_REQUIRED_ZERO_AUTHORITY", "PASS", "FAIL"},
         mode \in {"DISABLED", "CACHED_FIXTURES"}, terminal \in Optional(Nat), has \in BOOLEAN, registry \in BOOLEAN,
         manifest \in BOOLEAN, budget \in {"NOT_REQUIRED", "WITHIN_LIMIT", "EXCEEDED"} DEF RunClosureSchema
<1> QED BY <1>17, <1>33, <1>34 DEF ReceiptAccepted

-----------------------------------------------------------------------------
(* Every receipt is accepted *)

\* The documents a replay goes by, and the outputs it has so far.
DocumentsInv ==
    /\ stage \in {"config", "closure", "run", "verify"} => DOMAIN inputs = Frozen /\ InputsFit(inputs)
    /\ OutputsFit(outputs)
    /\ EveryOutcomeButOneAccepted

LEMMA IssuedAccepted ==
    ASSUME NEW kind, NEW doc, Issue(kind, doc), ReceiptAccepted(kind, doc), kind # "reconciliation"
    PROVE  EveryOutcomeButOneAccepted'
<1>1. receipt'.kind = kind /\ receipt'.doc = doc
  BY DEF Issue
<1>2. ReceiptAccepted(kind, doc) <=> ~Unsayable(kind, doc)
  BY DEF Unsayable
<1>3. (ReceiptAccepted(receipt.kind, receipt.doc) <=> ~Unsayable(receipt.kind, receipt.doc))'
  BY <1>1, <1>2 DEF ReceiptAccepted, Unsayable
<1> QED BY <1>3 DEF EveryOutcomeButOneAccepted

LEMMA FewAreMembers ==
    ASSUME NEW S, NEW n, NEW T \in FewOf(S, n)
    PROVE  T \in SUBSET S
<1>1. CASE T = {}
  BY <1>1
<1>2. ASSUME NEW f \in [1 .. n -> S], T = ToSet(f) PROVE T \in SUBSET S
  <2>1. DOMAIN f = 1 .. n /\ \A i \in 1 .. n : f[i] \in S
    OBVIOUS
  <2>2. T = {f[i] : i \in 1 .. n}
    BY <1>2, <2>1 DEF ToSet
  <2> QED BY <2>1, <2>2
<1> QED BY <1>1, <1>2 DEF FewOf

LEMMA DocumentsInit == ReceiptsInit => DocumentsInv
<1> SUFFICES ASSUME ReceiptsInit PROVE DocumentsInv
  OBVIOUS
<1>1. PICK f \in Fixtures, models \in Models :
         inputs = [fixture |-> f, raw |-> Null, config |-> Null, registry |-> models.registry,
                   manifest |-> models.manifest]
  BY DEF ReceiptsInit
<1>2. DOMAIN inputs = Frozen /\ InputsFit(inputs)
  BY <1>1 DEF Frozen, InputsFit, Optional
<1>3. outputs = <<>> /\ receipt = Null
  BY DEF ReceiptsInit
<1>4. OutputsFit(outputs)
  <2>1. outputs \in Seq(RunOutputSchema) /\ Len(outputs) = 0 /\ DOMAIN outputs = {} /\ ToSet(outputs) = {}
    BY <1>3 DEF ToSet
  <2>2. 0 <= MaxOutputs
    BY OutputsAssumption, RangeAssumption
  <2> QED BY <2>1, <2>2 DEF OutputsFit
<1> QED BY <1>2, <1>3, <1>4 DEF DocumentsInv, EveryOutcomeButOneAccepted

\* A receipt issued during the run changes nothing else.
LEMMA DuringTheRun ==
    ASSUME NEW kind, NEW doc, DocumentsInv, During(kind, doc), ReceiptAccepted(kind, doc),
           kind # "reconciliation"
    PROVE  DocumentsInv'
<1>1. Issue(kind, doc) /\ UNCHANGED <<stage, inputs, outputs>>
  BY DEF During
<1>2. EveryOutcomeButOneAccepted'
  BY <1>1, IssuedAccepted
<1> QED BY <1>1, <1>2 DEF DocumentsInv, InputsFit, OutputsFit

LEMMA SignalDocuments == DocumentsInv /\ ValidateSignal => DocumentsInv'
<1> SUFFICES ASSUME DocumentsInv, ValidateSignal PROVE DocumentsInv'
  OBVIOUS
<1>1. PICK flaws \in FewOf(SignalCodes, 2), opinion \in Opinions, partly \in {{}, {"declared_signal_id"}} :
          LET codes == SignalVerdict(flaws)
              said == IF codes = {} THEN opinion ELSE Fallback
          IN  During("model",
                [status |-> CASE codes = {} -> "ACCEPTED"
                              [] codes = {"DRIFT_DISABLED"} -> "DRIFT_DISABLED"
                              [] "EXPIRED" \in codes /\ codes \subseteq LateCodes -> "EXPIRED"
                              [] OTHER -> "REJECTED",
                 reasons |-> codes,
                 evidence |-> CASE "BYTES_INVALID" \in codes -> {}
                                [] "SCHEMA_UNKNOWN" \in codes -> partly
                                [] OTHER -> CandidateEvidence,
                 accepted |-> said.accepted, action |-> said.action, score |-> said.score,
                 abstain |-> said.abstain, long_bias |-> said.long_bias, exit_bias |-> said.exit_bias,
                 uncertainty |-> said.uncertainty, ood |-> said.ood])
  BY DEF ValidateSignal
<1>2. flaws \in SUBSET SignalCodes
  BY FewAreMembers
<1>3. PICK codes : codes = SignalVerdict(flaws)
  OBVIOUS
<1>4. PICK said : said = IF codes = {} THEN opinion ELSE Fallback
  OBVIOUS
<1>5. PICK doc : doc =
                [status |-> CASE codes = {} -> "ACCEPTED"
                              [] codes = {"DRIFT_DISABLED"} -> "DRIFT_DISABLED"
                              [] "EXPIRED" \in codes /\ codes \subseteq LateCodes -> "EXPIRED"
                              [] OTHER -> "REJECTED",
                 reasons |-> codes,
                 evidence |-> CASE "BYTES_INVALID" \in codes -> {}
                                [] "SCHEMA_UNKNOWN" \in codes -> partly
                                [] OTHER -> CandidateEvidence,
                 accepted |-> said.accepted, action |-> said.action, score |-> said.score,
                 abstain |-> said.abstain, long_bias |-> said.long_bias, exit_bias |-> said.exit_bias,
                 uncertainty |-> said.uncertainty, ood |-> said.ood]
  OBVIOUS
<1>6. During("model", doc)
  BY <1>1, <1>3, <1>4, <1>5
<1>7. ReceiptAccepted("model", doc)
  BY <1>2, <1>3, <1>4, <1>5, ModelAccepted
<1> QED BY <1>6, <1>7, DuringTheRun

\* What Reconcile draws up.
LEMMA ReconcileIssues ==
    ASSUME Reconcile
    PROVE  \E r \in ReconciliationSchema :
              /\ During("reconciliation", r)
              /\ ReceiptAccepted("reconciliation", r) <=> ~Unsayable("reconciliation", r)
<1>1. PICK kind \in Kinds, off \in FewOf(DOMAIN Residuals \cup {"ACCOUNT_RESIDUAL", "ASSET_RESIDUAL"}, 2),
           gate \in FewOf(GateCodes, 1), unclosed \in BOOLEAN :
        /\ kind \in Terminal \cup {"GENESIS", "TERMINAL_KILL_PROMOTION"} => off = {}
        /\ gate # {} => kind = "GROUP_GATE"
        /\ unclosed => kind = "FINAL_GATE"
        /\ During("reconciliation", Reconciliation(kind, off, gate, unclosed))
  BY DEF Reconcile
<1>2. off \in SUBSET (DOMAIN Residuals \cup {"ACCOUNT_RESIDUAL", "ASSET_RESIDUAL"})
  BY FewAreMembers
<1>3. gate \in SUBSET GateCodes
  BY FewAreMembers
<1>4. PICK r : r = Reconciliation(kind, off, gate, unclosed)
  OBVIOUS
<1>5. r \in ReconciliationSchema /\ (ReceiptAccepted("reconciliation", r) <=> ~Unsayable("reconciliation", r))
  BY <1>1, <1>2, <1>3, <1>4, ReconciliationAccepted
<1> QED BY <1>1, <1>4, <1>5

LEMMA ReconcileDocuments == DocumentsInv /\ Reconcile => DocumentsInv'
<1> SUFFICES ASSUME DocumentsInv, Reconcile PROVE DocumentsInv'
  OBVIOUS
<1>1. PICK r \in ReconciliationSchema :
              /\ During("reconciliation", r)
              /\ ReceiptAccepted("reconciliation", r) <=> ~Unsayable("reconciliation", r)
  BY ReconcileIssues
<1>2. Issue("reconciliation", r) /\ UNCHANGED <<stage, inputs, outputs>>
  BY <1>1 DEF During
<1>3. receipt'.kind = "reconciliation" /\ receipt'.doc = r
  BY <1>2 DEF Issue
<1>4. (ReceiptAccepted(receipt.kind, receipt.doc) <=> ~Unsayable(receipt.kind, receipt.doc))'
  BY <1>1, <1>3 DEF ReceiptAccepted, Unsayable
<1> QED BY <1>2, <1>4 DEF DocumentsInv, InputsFit, OutputsFit, EveryOutcomeButOneAccepted

\* The receipts that come before the run.
LEMMA EarlyDocuments ==
    ASSUME DocumentsInv, NEW kind, NEW doc, Issue(kind, doc), ReceiptAccepted(kind, doc), outputs' = outputs,
           kind # "reconciliation",
           stage' \in {"config", "closure", "run", "verify"}, DOMAIN inputs' = Frozen, InputsFit(inputs')
    PROVE  DocumentsInv'
<1>1. EveryOutcomeButOneAccepted'
  BY IssuedAccepted
<1>2. InputsFit(inputs)' /\ OutputsFit(outputs)'
  BY DEF DocumentsInv, InputsFit, OutputsFit
<1> QED BY <1>1, <1>2 DEF DocumentsInv

LEMMA AdmitDocuments == DocumentsInv /\ AdmitConfig => DocumentsInv'
<1> SUFFICES ASSUME DocumentsInv, AdmitConfig PROVE DocumentsInv'
  OBVIOUS
<1>1. PICK config \in Optional(Configs), reasons \in SUBSET ConfigReasons :
          LET raw == IF config # Null THEN <<config>> ELSE IF "MISSING" \in reasons THEN Null ELSE <<>>
              new == ConfigReceipt(raw, config, reasons)
          IN  /\ (config = Null) = (reasons # {})
              /\ "MISSING" \in reasons => reasons = {"MISSING"}
              /\ inputs' = [inputs EXCEPT !.raw = raw, !.config = config]
              /\ Issue("config", new.body)
  BY DEF AdmitConfig
<1>2. PICK raw : raw = IF config # Null THEN <<config>> ELSE IF "MISSING" \in reasons THEN Null ELSE <<>>
  OBVIOUS
<1>3. /\ inputs' = [inputs EXCEPT !.raw = raw, !.config = config]
      /\ Issue("config", ConfigReceipt(raw, config, reasons).body)
      /\ (config = Null) = (reasons # {})
      /\ "MISSING" \in reasons => reasons = {"MISSING"}
  BY <1>1, <1>2
<1>4. ReceiptAccepted("config", ConfigReceipt(raw, config, reasons).body)
  BY <1>2, <1>3, ConfigAccepted
<1>5. stage = "config" /\ stage' = "closure" /\ outputs' = outputs
  BY DEF AdmitConfig
<1>6. DOMAIN inputs = Frozen /\ InputsFit(inputs)
  BY <1>5 DEF DocumentsInv
<1>7. DOMAIN inputs' = Frozen /\ InputsFit(inputs')
  BY <1>3, <1>6 DEF InputsFit, Frozen
<1> QED BY <1>3, <1>4, <1>5, <1>7, EarlyDocuments

LEMMA CloseDocuments == DocumentsInv /\ Close => DocumentsInv'
<1> SUFFICES ASSUME DocumentsInv, Close PROVE DocumentsInv'
  OBVIOUS
<1>1. PICK markets \in Outcomes : Issue("closure", Closure(inputs, markets).body)
  BY DEF Close
<1>2. stage = "closure" /\ stage' = "run" /\ UNCHANGED <<inputs, outputs>>
  BY DEF Close
<1>3. DOMAIN inputs = Frozen /\ InputsFit(inputs)
  BY <1>2 DEF DocumentsInv
<1>4. ReceiptAccepted("closure", Closure(inputs, markets).body)
  BY <1>3, ClosureAccepted
<1>5. InputsFit(inputs') /\ DOMAIN inputs' = Frozen
  BY <1>2, <1>3
<1> QED BY <1>1, <1>2, <1>4, <1>5, EarlyDocuments

LEMMA ProveDocuments == DocumentsInv /\ Prove => DocumentsInv'
<1> SUFFICES ASSUME DocumentsInv, Prove PROVE DocumentsInv'
  OBVIOUS
<1>1. PICK references \in SUBSET (1 .. 2), residuals \in SUBSET (1 .. 2) :
         Issue("proofs", ProofSet(references, residuals, {0, 5}))
  BY DEF Prove
<1>2. PICK doc : doc = ProofSet(references, residuals, {0, 5})
  OBVIOUS
<1>3. Issue("proofs", doc)
  BY <1>1, <1>2
<1>4. doc.proof_rows <= MaxProofRows
  BY <1>3 DEF Prove, Issue
<1>5. ReceiptAccepted("proofs", doc)
  BY <1>2, <1>4, ProofsAccepted
<1>6. stage = "run" /\ UNCHANGED <<stage, inputs, outputs>>
  BY DEF Prove
<1>7. DOMAIN inputs' = Frozen /\ InputsFit(inputs')
  BY <1>6 DEF DocumentsInv
<1> QED BY <1>3, <1>5, <1>6, <1>7, EarlyDocuments

LEMMA IssueDocuments == DocumentsInv /\ IssueRun => DocumentsInv'
<1> SUFFICES ASSUME DocumentsInv, IssueRun PROVE DocumentsInv'
  OBVIOUS
<1>1. Issue("run", RunReceipt(inputs).body)
  BY DEF IssueRun
<1>2. stage = "run" /\ stage' = "verify" /\ UNCHANGED <<inputs, outputs>>
  BY DEF IssueRun
<1>3. DOMAIN inputs = Frozen /\ InputsFit(inputs)
  BY <1>2 DEF DocumentsInv
<1>4. ReceiptAccepted("run", RunReceipt(inputs).body)
  BY <1>3, RunAccepted
<1>5. DOMAIN inputs' = Frozen /\ InputsFit(inputs')
  BY <1>2, <1>3
<1> QED BY <1>1, <1>2, <1>4, <1>5, EarlyDocuments

LEMMA ReplaceDocuments ==
    ASSUME DocumentsInv, NEW new, NEW back, Replace(new, back), DOMAIN new = Frozen, InputsFit(new)
    PROVE  DocumentsInv'
<1>1. inputs' = new /\ receipt' = Null /\ outputs' = outputs
  BY DEF Replace
<1>2. DOMAIN inputs' = Frozen /\ InputsFit(inputs)' /\ OutputsFit(outputs)' /\ EveryOutcomeButOneAccepted'
  BY <1>1 DEF DocumentsInv, InputsFit, OutputsFit, EveryOutcomeButOneAccepted
<1> QED BY <1>2 DEF DocumentsInv

LEMMA FixtureReplaced == DocumentsInv /\ ReplaceFixture => DocumentsInv'
<1> SUFFICES ASSUME DocumentsInv, ReplaceFixture PROVE DocumentsInv'
  OBVIOUS
<1>1. PICK f \in Fixtures, back \in {"closure", stage} : Replace([inputs EXCEPT !.fixture = f], back)
  BY DEF ReplaceFixture
<1>2. DOMAIN inputs = Frozen /\ InputsFit(inputs)
  BY <1>1 DEF DocumentsInv, Replace, Replaceable
<1>3. PICK new : new = [inputs EXCEPT !.fixture = f]
  OBVIOUS
<1>4. DOMAIN new = Frozen /\ InputsFit(new)
  BY <1>2, <1>3 DEF InputsFit, Frozen
<1> QED BY <1>1, <1>3, <1>4, ReplaceDocuments

LEMMA SignalsReplaced == DocumentsInv /\ ReplaceSignals => DocumentsInv'
<1> SUFFICES ASSUME DocumentsInv, ReplaceSignals PROVE DocumentsInv'
  OBVIOUS
<1>1. PICK models \in Models, back \in {"closure", stage} :
         Replace([inputs EXCEPT !.registry = models.registry, !.manifest = models.manifest], back)
  BY DEF ReplaceSignals
<1>2. DOMAIN inputs = Frozen /\ InputsFit(inputs)
  BY <1>1 DEF DocumentsInv, Replace, Replaceable
<1>3. PICK new : new = [inputs EXCEPT !.registry = models.registry, !.manifest = models.manifest]
  OBVIOUS
<1>4. DOMAIN new = Frozen /\ InputsFit(new)
  BY <1>2, <1>3 DEF InputsFit, Frozen
<1> QED BY <1>1, <1>3, <1>4, ReplaceDocuments

LEMMA ConfigReplaced == DocumentsInv /\ ReplaceConfig => DocumentsInv'
<1> SUFFICES ASSUME DocumentsInv, ReplaceConfig PROVE DocumentsInv'
  OBVIOUS
<1>1. PICK config \in Configs :
         /\ inputs' = [inputs EXCEPT !.raw = <<config>>, !.config = config]
         /\ Issue("config", ConfigReceipt(<<config>>, config, {}).body)
  BY DEF ReplaceConfig
<1>2. stage \in {"run", "verify"} /\ UNCHANGED <<stage, outputs>>
  BY DEF ReplaceConfig, Replaceable
<1>3. DOMAIN inputs = Frozen /\ InputsFit(inputs)
  BY <1>2 DEF DocumentsInv
<1>4. config \in Optional(Configs) /\ config # Null
  BY NullAssumption DEF Optional
<1>5. DOMAIN inputs' = Frozen /\ InputsFit(inputs')
  BY <1>1, <1>3, <1>4 DEF InputsFit, Frozen
<1>6. ReceiptAccepted("config", ConfigReceipt(<<config>>, config, {}).body)
  <2>1. PICK raw : raw = <<config>>
    OBVIOUS
  <2>2. PICK reasons \in SUBSET ConfigReasons : reasons = {}
    OBVIOUS
  <2>3. ReceiptAccepted("config", ConfigReceipt(raw, config, reasons).body)
    BY <1>4, <2>1, <2>2, ConfigAccepted
  <2> QED BY <2>1, <2>2, <2>3
<1> QED BY <1>1, <1>2, <1>5, <1>6, EarlyDocuments

LEMMA BenchmarkDocuments == DocumentsInv /\ Benchmark => DocumentsInv'
<1> SUFFICES ASSUME DocumentsInv, Benchmark PROVE DocumentsInv'
  OBVIOUS
<1>1. stage' = "done" /\ outputs' = outputs
  BY DEF Benchmark
<1>2. EveryOutcomeButOneAccepted'
  <2>1. CASE \E reasons \in FewOf(Preflight, 2) \ {{}} : Issue("benchmark", Ineligible(reasons))
    <3>1. PICK reasons \in FewOf(Preflight, 2) \ {{}} : Issue("benchmark", Ineligible(reasons))
      BY <2>1
    <3>2. reasons \in SUBSET Preflight /\ reasons # {}
      BY FewAreMembers
    <3> QED BY <3>1, <3>2, IneligibleAccepted, IssuedAccepted
  <2>2. CASE outputs # <<>> /\ \E found \in FewOf(Scheduled \ {"RUN_FAILED"}, 2) :
                                  Issue("benchmark", Benchmarked(found))
    <3>1. PICK found \in FewOf(Scheduled \ {"RUN_FAILED"}, 2) : Issue("benchmark", Benchmarked(found))
      BY <2>2
    <3>2. found \in SUBSET (Scheduled \ {"RUN_FAILED"})
      BY FewAreMembers
    <3>3. ReceiptAccepted("benchmark", Benchmarked(found))
      BY <2>2, <3>2, BenchmarkedAccepted DEF DocumentsInv
    <3> QED BY <3>1, <3>3, IssuedAccepted
  <2> QED BY <2>1, <2>2 DEF Benchmark
<1>3. OutputsFit(outputs)'
  BY <1>1 DEF DocumentsInv, OutputsFit
<1> QED BY <1>1, <1>2, <1>3 DEF DocumentsInv

LEMMA DocumentsStep == DocumentsInv /\ [ReceiptsNext]_receiptsVars => DocumentsInv'
<1> SUFFICES ASSUME DocumentsInv, [ReceiptsNext]_receiptsVars PROVE DocumentsInv'
  OBVIOUS
<1>1. CASE AdmitConfig \/ Close \/ Prove \/ IssueRun
  BY <1>1, AdmitDocuments, CloseDocuments, ProveDocuments, IssueDocuments
<1>2. CASE ReplaceFixture \/ ReplaceSignals \/ ReplaceConfig
  BY <1>2, FixtureReplaced, SignalsReplaced, ConfigReplaced
<1>3. CASE VerifyRetained
  <2>1. stage' \in {"verified", "benchmark"} /\ receipt' = Null /\ outputs' = outputs
    BY <1>3 DEF VerifyRetained
  <2>2. OutputsFit(outputs)'
    BY <2>1 DEF DocumentsInv, OutputsFit
  <2> QED BY <2>1, <2>2 DEF DocumentsInv, EveryOutcomeButOneAccepted
<1>4. CASE StartRun
  <2>1. stage' = "replay" /\ receipt' = Null /\ outputs' = outputs
    BY <1>4 DEF StartRun
  <2>2. OutputsFit(outputs)'
    BY <2>1 DEF DocumentsInv, OutputsFit
  <2> QED BY <2>1, <2>2 DEF DocumentsInv, EveryOutcomeButOneAccepted
<1>5. CASE Quarantine
  <2>1. PICK journal \in Journals, anchored \in BOOLEAN :
           During("quarantine", QuarantineReceipt(journal, anchored))
    BY <1>5 DEF Quarantine
  <2> QED BY <2>1, QuarantineAccepted, DuringTheRun
<1>6. CASE Measure
  <2>1. PICK t \in Timings : During("measurement", Measurement(t))
    BY <1>6 DEF Measure
  <2> QED BY <2>1, MeasurementAccepted, DuringTheRun
<1>7. CASE EndRepetition
  <2>1. OutputsFit(outputs')
    BY <1>7, RepetitionEnds DEF DocumentsInv
  <2>2. stage = "replay" /\ UNCHANGED <<stage, inputs>> /\ receipt' = Null
    BY <1>7 DEF EndRepetition
  <2>3. OutputsFit(outputs)'
    BY <2>1 DEF OutputsFit
  <2> QED BY <2>2, <2>3 DEF DocumentsInv, EveryOutcomeButOneAccepted
<1>8. CASE UNCHANGED receiptsVars
  BY <1>8 DEF receiptsVars, DocumentsInv, InputsFit, OutputsFit, EveryOutcomeButOneAccepted
<1> QED BY <1>1, <1>2, <1>3, <1>4, <1>5, <1>6, <1>7, <1>8, SignalDocuments, ReconcileDocuments, BenchmarkDocuments
       DEF ReceiptsNext

\* Every receipt that comes about passes its validator (contract_semantics.py:1914-3809),
\* for every set of fixtures, configurations, signals, outcomes of checks, opinions,
\* journals and timings, and any number of repetitions that can be counted, except
\* the one of the end of a run that finds a residual, which never passes (3109-3119).
THEOREM EveryOutcomeButOneAcceptedAlways == ReceiptsSpec => []EveryOutcomeButOneAccepted
<1>1. DocumentsInv => EveryOutcomeButOneAccepted
  BY DEF DocumentsInv
<1> QED BY <1>1, DocumentsInit, DocumentsStep, PTL DEF ReceiptsSpec

-----------------------------------------------------------------------------
(* Conclusions follow from the evidence *)

\* A field that keeps its value changes nothing.
LEMMA SameField ==
    ASSUME NEW doc, IsFunction(doc), NEW field, NEW v, field \in DOMAIN doc => doc[field] = v
    PROVE  [doc EXCEPT ![field] = v] = doc
BY DEF IsFunction

LEMMA OtherFields ==
    ASSUME NEW doc, NEW field \in DOMAIN doc, NEW values, NEW d \in Rewritten(doc, field, values)
    PROVE  /\ d[field] \in values /\ DOMAIN d = DOMAIN doc
           /\ \A g \in DOMAIN doc : g # field => d[g] = doc[g]
           /\ d = [doc EXCEPT ![field] = d[field]]
<1>1. PICK v \in values : d = [doc EXCEPT ![field] = v]
  BY DEF Rewritten
<1>2. d[field] = v
  BY <1>1
<1> QED BY <1>1, <1>2

\* Enough to know that the field kept its value.
LEMMA KeptField ==
    ASSUME NEW doc, IsFunction(doc), NEW field \in DOMAIN doc, NEW values,
           NEW d \in Rewritten(doc, field, values), d[field] = doc[field]
    PROVE  d = doc
<1>1. d = [doc EXCEPT ![field] = d[field]]
  BY OtherFields
<1>2. PICK v : v = d[field]
  OBVIOUS
<1>3. [doc EXCEPT ![field] = v] = doc
  BY <1>2, SameField
<1> QED BY <1>1, <1>2, <1>3

\* What differs when one field of one row of a list is rewritten.
OneRow(doc, list, field, d, i) ==
    /\ i \in DOMAIN doc[list]
    /\ DOMAIN d = DOMAIN doc /\ \A g \in DOMAIN doc : g # list => d[g] = doc[g]
    /\ DOMAIN d[list] = DOMAIN doc[list]
    /\ \A j \in DOMAIN doc[list] : j # i => d[list][j] = doc[list][j]
    /\ DOMAIN d[list][i] = DOMAIN doc[list][i]
    /\ \A g \in DOMAIN doc[list][i] : g # field => d[list][i][g] = doc[list][i][g]
    /\ d[list][i][field] = doc[list][i][field] => d = doc

LEMMA OtherRows ==
    ASSUME NEW doc, IsFunction(doc), NEW list \in DOMAIN doc, IsFunction(doc[list]),
           NEW field, \A i \in DOMAIN doc[list] : IsFunction(doc[list][i]) /\ field \in DOMAIN doc[list][i],
           NEW values, NEW d \in RowsRewritten(doc, list, field, values)
    PROVE  \E i : OneRow(doc, list, field, d, i) /\ d[list][i][field] \in values
<1>1. PICK i \in DOMAIN doc[list] : d \in {[doc EXCEPT ![list][i][field] = v] : v \in values}
  BY DEF RowsRewritten
<1>2. PICK v \in values : d = [doc EXCEPT ![list][i][field] = v]
  BY <1>1
<1>3. PICK rows : rows = doc[list]
  OBVIOUS
<1>4. PICK row : row = rows[i]
  OBVIOUS
<1>5. PICK changed : changed = [row EXCEPT ![field] = v]
  OBVIOUS
<1>6. PICK list2 : list2 = [rows EXCEPT ![i] = changed]
  OBVIOUS
<1>7. d = [doc EXCEPT ![list] = list2]
  BY <1>2, <1>3, <1>4, <1>5, <1>6
<1>8. d[list] = list2 /\ DOMAIN d = DOMAIN doc /\ \A g \in DOMAIN doc : g # list => d[g] = doc[g]
  BY <1>7
<1>9. DOMAIN list2 = DOMAIN rows /\ list2[i] = changed /\ \A j \in DOMAIN rows : j # i => list2[j] = rows[j]
  BY <1>1, <1>3, <1>6
<1>10. /\ IsFunction(row) /\ field \in DOMAIN row
  BY <1>1, <1>3, <1>4
<1>11. DOMAIN changed = DOMAIN row /\ changed[field] = v /\ \A g \in DOMAIN row : g # field => changed[g] = row[g]
  BY <1>5, <1>10
<1>12. ASSUME changed[field] = row[field] PROVE d = doc
  <2>1. changed = row
    BY <1>5, <1>10, <1>11, <1>12, SameField
  <2>2. list2 = rows
    BY <1>3, <1>4, <1>6, <2>1, SameField
  <2> QED BY <1>3, <1>7, <2>2, SameField
<1> QED BY <1>1, <1>3, <1>4, <1>8, <1>9, <1>11, <1>12 DEF OneRow

\* Status and reasons rewritten, and nothing else.
LEMMA OtherVerdict ==
    ASSUME NEW doc, IsFunction(doc), "status" \in DOMAIN doc, "reasons" \in DOMAIN doc, NEW s, NEW codes,
           NEW d, d = [doc EXCEPT !.status = s, !.reasons = codes]
    PROVE  /\ d.status = s /\ d.reasons = codes /\ DOMAIN d = DOMAIN doc /\ IsFunction(d)
           /\ \A g \in DOMAIN doc : g \notin {"status", "reasons"} => d[g] = doc[g]
           /\ s = doc.status /\ codes = doc.reasons => d = doc
BY DEF IsFunction

LEMMA VerdictRewritten ==
    ASSUME NEW doc, IsFunction(doc), "status" \in DOMAIN doc, "reasons" \in DOMAIN doc, NEW S, NEW L,
           NEW d \in VerdictRewrites(doc, S, L)
    PROVE  /\ d.status \in S /\ d.reasons \in L /\ DOMAIN d = DOMAIN doc /\ IsFunction(d)
           /\ OnlyTheVerdict(doc, d)
           /\ \A g \in DOMAIN doc : g \notin {"status", "reasons"} => d[g] = doc[g]
           /\ d.status = doc.status /\ d.reasons = doc.reasons => d = doc
<1>1. PICK v \in S \X L : d = [doc EXCEPT !.status = v[1], !.reasons = v[2]]
  BY DEF VerdictRewrites
<1>2. PICK s \in S, codes \in L : s = v[1] /\ codes = v[2]
  OBVIOUS
<1>3. d = [doc EXCEPT !.status = s, !.reasons = codes]
  BY <1>1, <1>2
<1>4. d.status = s /\ d.reasons = codes
  BY ONLY <1>3, OtherVerdict, IsFunction(doc), "status" \in DOMAIN doc, "reasons" \in DOMAIN doc
<1>5. /\ DOMAIN d = DOMAIN doc /\ IsFunction(d)
      /\ \A g \in DOMAIN doc : g \notin {"status", "reasons"} => d[g] = doc[g]
      /\ s = doc.status /\ codes = doc.reasons => d = doc
  BY <1>3 DEF IsFunction
<1>6. OnlyTheVerdict(doc, d)
  BY <1>3, <1>4 DEF OnlyTheVerdict
<1> QED BY <1>2, <1>4, <1>5, <1>6

\* What is open of the kinds that leave something open.
LEMMA OpenVerdicts ==
    ASSUME NEW doc
    PROVE  /\ Verdicts("config", doc) =
                 IF doc.status = "INVALID" THEN {"INVALID"} \X ((SUBSET (ConfigReasons \ {"MISSING"})) \ {{}}) ELSE {}
           /\ Verdicts("model", doc) = IF doc.status # "ACCEPTED" THEN SignalVerdicts(doc) ELSE {}
           /\ Verdicts("reconciliation", doc) = GateVerdicts(doc)
           /\ Verdicts("benchmark", doc) = BenchmarkVerdicts(doc)
BY DEF Verdicts

ConfigFields == {"status", "reasons", "raw", "validated", "length", "admission"}

LEMMA ConfigForced ==
    ASSUME NEW r, ReceiptAccepted("config", r), NEW d \in Rewrites("config", r), ReceiptAccepted("config", d)
    PROVE  d = r \/ LeftOpen("config", r, d)
<1>1. /\ r \in ConfigReceiptSchema /\ ConfigReceiptValid(r) /\ ConfigReceiptValid(d)
      /\ d.reasons \in SUBSET ConfigReasons
  BY DEF ReceiptAccepted, ConfigReceiptSchema
<1>2. DOMAIN r = ConfigFields /\ IsFunction(r)
  BY <1>1 DEF ConfigReceiptSchema, IsFunction, ConfigFields
<1>3. /\ d.raw = r.raw /\ d.validated = r.validated
      /\ OnlyTheVerdict(r, d)
      /\ d.status = r.status /\ d.reasons = r.reasons => d = r
  <2>1. d \in VerdictRewrites(r, {"VALID", "INVALID", "MISSING"}, SUBSET ConfigReasons)
    BY DEF Rewrites, ConfigRewrites
  <2>2. {"status", "reasons", "raw", "validated"} \subseteq DOMAIN r
    BY <1>2 DEF ConfigFields
  <2>3. /\ OnlyTheVerdict(r, d)
        /\ \A g \in DOMAIN r : g \notin {"status", "reasons"} => d[g] = r[g]
        /\ d.status = r.status /\ d.reasons = r.reasons => d = r
    BY ONLY <1>2, <2>1, <2>2, VerdictRewritten
  <2> QED BY <2>2, <2>3
<1>4. d.status = r.status
  BY <1>1, <1>3 DEF ConfigReceiptValid
<1>5. CASE r.status = "INVALID"
  <2>1. d.reasons \in (SUBSET (ConfigReasons \ {"MISSING"})) \ {{}}
    BY <1>1, <1>4, <1>5 DEF ConfigReceiptValid
  <2>2. <<d.status, d.reasons>> \in Verdicts("config", r)
    BY <1>4, <1>5, <2>1, OpenVerdicts
  <2> QED BY <1>3, <2>2 DEF LeftOpen
<1>6. CASE r.status # "INVALID"
  <2>1. d.reasons = r.reasons
    BY <1>1, <1>4, <1>6 DEF ConfigReceiptValid
  <2> QED BY <1>3, <1>4, <2>1
<1> QED BY <1>5, <1>6

LEMMA ConfigOpen ==
    ASSUME NEW r, ReceiptAccepted("config", r), NEW d, LeftOpen("config", r, d)
    PROVE  ReceiptAccepted("config", d)
<1>1. r \in ConfigReceiptSchema /\ ConfigReceiptValid(r)
  BY DEF ReceiptAccepted
<1>2. DOMAIN r = ConfigFields /\ IsFunction(r)
  BY <1>1 DEF ConfigReceiptSchema, IsFunction, ConfigFields
<1>3. <<d.status, d.reasons>> \in Verdicts("config", r)
      /\ OnlyTheVerdict(r, d)
  BY DEF LeftOpen
<1>4. r.status = "INVALID" /\ d.status = "INVALID" /\ d.reasons \in (SUBSET (ConfigReasons \ {"MISSING"})) \ {{}}
  BY <1>3, OpenVerdicts
<1>5. PICK codes : codes = d.reasons
  OBVIOUS
<1>6. d = [r EXCEPT !.status = "INVALID", !.reasons = codes]
  BY <1>3, <1>4, <1>5 DEF OnlyTheVerdict
<1>7. /\ d.raw = r.raw /\ d.validated = r.validated /\ d.length = r.length /\ d.admission = r.admission
  BY <1>2, <1>6 DEF ConfigFields
<1>8. d \in ConfigReceiptSchema
  BY <1>1, <1>4, <1>5, <1>6 DEF ConfigReceiptSchema
<1>9. ConfigReceiptValid(d)
  BY <1>1, <1>4, <1>7 DEF ConfigReceiptValid
<1> QED BY <1>8, <1>9 DEF ReceiptAccepted

LEMMA RunForced ==
    ASSUME NEW r, ReceiptAccepted("run", r), NEW d \in Rewrites("run", r), ReceiptAccepted("run", d)
    PROVE  d = r
<1>1. r \in RunReceiptSchema /\ ModelMode(r) /\ ModelMode(d)
  BY DEF ReceiptAccepted, RunReceiptValid
<1>2. d \in Rewritten(r, "mode", {"DISABLED", "CACHED_FIXTURES"})
  BY DEF Rewrites
<1>3. DOMAIN r = {"tick", "budget", "terminal", "mode", "policy", "registry", "manifest", "scopes", "groups"}
      /\ IsFunction(r) /\ r.mode \in {"DISABLED", "CACHED_FIXTURES"}
  BY <1>1 DEF RunReceiptSchema, IsFunction
<1>4. d.registry = r.registry /\ d.mode \in {"DISABLED", "CACHED_FIXTURES"}
  BY <1>2, <1>3, OtherFields
<1>5. d.mode = r.mode
  BY <1>1, <1>3, <1>4 DEF ModelMode
<1> QED BY <1>2, <1>3, <1>5, KeptField

-----------------------------------------------------------------------------
(* The closure *)

LEMMA ClosureForced ==
    ASSUME NEW c, ReceiptAccepted("closure", c), NEW d \in Rewrites("closure", c), ReceiptAccepted("closure", d)
    PROVE  d = c
<1>1. c \in RunClosureSchema /\ RunClosureValid(c) /\ RunClosureValid(d)
  BY DEF ReceiptAccepted
<1>2. /\ DOMAIN c = {"status", "reasons", "config", "mode", "registry", "manifest", "counters", "policy",
                     "terminal", "proof_limit", "proof_total", "budget", "rows"}
      /\ IsFunction(c) /\ c.rows \in Seq(MarketRowSchema)
  BY <1>1 DEF RunClosureSchema, IsFunction
<1>3. /\ <<c.status, c.reasons>> = ClosureVerdict(c) /\ (c.terminal = Null) = (c.status = "FAIL")
      /\ <<d.status, d.reasons>> = ClosureVerdict(d) /\ (d.terminal = Null) = (d.status = "FAIL")
      /\ ProofBudget(c) /\ ProofBudget(d) /\ MarketRowsValid(c) /\ MarketRowsValid(d)
  BY <1>1 DEF RunClosureValid
<1>4. ASSUME NEW s, NEW r, NEW t \in {c.terminal, Null} \cup (IF c.terminal = Null THEN {1} ELSE {}),
             d = [c EXCEPT !.status = s, !.reasons = r, !.terminal = t]
      PROVE  d = c
  <2>1. /\ d.counters = c.counters /\ d.config = c.config /\ d.policy = c.policy /\ d.budget = c.budget
        /\ d.rows = c.rows /\ d.status = s /\ d.reasons = r /\ d.terminal = t
    BY <1>2, <1>4
  <2>2. ClosureVerdict(d) = ClosureVerdict(c)
    BY <2>1 DEF ClosureVerdict
  <2>3. s = c.status /\ r = c.reasons
    BY <1>3, <2>1, <2>2
  <2>4. t = c.terminal
    BY <1>3, <1>4, <2>1, <2>3
  <2> QED BY <1>2, <1>4, <2>3, <2>4 DEF IsFunction
<1>5. ASSUME NEW b, NEW t, d = [c EXCEPT !.budget = b, !.proof_total = t]
      PROVE  d = c
  <2>1. /\ d.config = c.config /\ d.policy = c.policy /\ d.rows = c.rows /\ d.proof_limit = c.proof_limit
        /\ d.budget = b /\ d.proof_total = t
    BY <1>2, <1>5
  <2>2. ForceClosed(d) = ForceClosed(c)
    BY <2>1 DEF ForceClosed
  <2>3. ProofTotal(d) = ProofTotal(c)
    BY <2>1 DEF ProofTotal, SomeRow
  <2>4. t = c.proof_total
    BY <1>3, <2>1, <2>2, <2>3 DEF ProofBudget
  <2>5. b = c.budget
    BY <1>3, <2>1, <2>2, <2>4 DEF ProofBudget
  <2> QED BY <1>2, <1>5, <2>4, <2>5 DEF IsFunction
<1>6. ASSUME NEW i, OneRow(c, "rows", "evidence", d, i)
      PROVE  d = c
  <2>1. /\ d.budget = c.budget /\ DOMAIN d.rows = DOMAIN c.rows /\ i \in DOMAIN c.rows
        /\ \A j \in DOMAIN c.rows : j # i => d.rows[j] = c.rows[j]
    BY <1>2, <1>6 DEF OneRow
  <2>2. c.rows[i] \in MarketRowSchema
    BY <1>2, <2>1
  <2>3. "codes" \in DOMAIN c.rows[i]
    BY <2>2 DEF MarketRowSchema
  <2>4. d.rows[i].codes = c.rows[i].codes /\ (d.rows[i].evidence = c.rows[i].evidence => d = c)
    BY <1>6, <2>3 DEF OneRow
  <2>5. \A j \in DOMAIN c.rows : d.rows[j].codes = c.rows[j].codes
    BY <2>1, <2>4
  <2>6. /\ ToSet(c.rows) = {c.rows[j] : j \in DOMAIN c.rows}
        /\ ToSet(d.rows) = {d.rows[j] : j \in DOMAIN c.rows}
    BY <2>1 DEF ToSet
  <2>7. \A code : SomeRow(c, code) <=> SomeRow(d, code)
    BY <2>5, <2>6 DEF SomeRow
  <2>8. ProofGateOpen(c) <=> ProofGateOpen(d)
    <3>1. (\A x \in ToSet(c.rows) : x.codes \cap PreproofCodes = {})
          <=> \A j \in DOMAIN c.rows : c.rows[j].codes \cap PreproofCodes = {}
      BY <2>6
    <3>2. (\A x \in ToSet(d.rows) : x.codes \cap PreproofCodes = {})
          <=> \A j \in DOMAIN c.rows : d.rows[j].codes \cap PreproofCodes = {}
      BY <2>6
    <3>3. (\A j \in DOMAIN c.rows : c.rows[j].codes \cap PreproofCodes = {})
          <=> \A j \in DOMAIN c.rows : d.rows[j].codes \cap PreproofCodes = {}
      BY <2>5
    <3> QED BY <2>1, <3>1, <3>2, <3>3 DEF ProofGateOpen
  <2>9. PICK codes : codes = c.rows[i].codes
    OBVIOUS
  <2>10. EvidenceFor(c, codes) = EvidenceFor(d, codes)
    BY <2>7, <2>8 DEF EvidenceFor
  <2>11. c.rows[i].evidence = EvidenceFor(c, codes) /\ d.rows[i].evidence = EvidenceFor(d, codes)
    BY <1>3, <2>1, <2>4, <2>6, <2>9 DEF MarketRowsValid
  <2> QED BY <2>4, <2>10, <2>11
<1>7. d \in ClosureRewrites(c)
  BY DEF Rewrites
<1>8. ASSUME NEW values, d \in RowsRewritten(c, "rows", "evidence", values) PROVE d = c
  <2>1. \A i \in DOMAIN c.rows : IsFunction(c.rows[i]) /\ "evidence" \in DOMAIN c.rows[i]
    <3> SUFFICES ASSUME NEW i \in DOMAIN c.rows PROVE IsFunction(c.rows[i]) /\ "evidence" \in DOMAIN c.rows[i]
      OBVIOUS
    <3>1. PICK row \in MarketRowSchema : row = c.rows[i]
      BY <1>2
    <3>2. IsFunction(row) /\ "evidence" \in DOMAIN row
      BY DEF MarketRowSchema, IsFunction
    <3> QED BY <3>1, <3>2
  <2>2. IsFunction(c["rows"]) /\ "rows" \in DOMAIN c
    BY <1>2 DEF IsFunction
  <2>3. \E i : OneRow(c, "rows", "evidence", d, i) /\ d["rows"][i]["evidence"] \in values
    BY <1>2, <1>8, <2>1, <2>2, OtherRows
  <2> QED BY <1>6, <2>3
<1>9. ASSUME NEW S, NEW R, NEW v \in S \X R \X ({c.terminal, Null} \cup (IF c.terminal = Null THEN {1} ELSE {})),
             d = [c EXCEPT !.status = v[1], !.reasons = v[2], !.terminal = v[3]]
      PROVE  d = c
  <2>1. v[3] \in {c.terminal, Null} \cup (IF c.terminal = Null THEN {1} ELSE {})
    OBVIOUS
  <2> QED BY <1>4, <1>9, <2>1
<1>10. CASE d \in {[c EXCEPT !.status = v[1], !.reasons = v[2], !.terminal = v[3]] :
        v \in {"NOT_REQUIRED_ZERO_AUTHORITY", "PASS", "FAIL"}
              \X (SUBSET {"COUNTER_CAPACITY", "RUN_END_PROOF_BUDGET", "RUN_END_UNCLOSED"})
              \X ({c.terminal, Null} \cup (IF c.terminal = Null THEN {1} ELSE {}))}
  BY <1>9, <1>10
<1>11. CASE d \in {[c EXCEPT !.budget = v[1], !.proof_total = v[2]] :
             v \in {"NOT_REQUIRED", "WITHIN_LIMIT", "EXCEEDED"} \X Optional(0 .. 9)}
  BY <1>5, <1>11
<1> QED BY <1>7, <1>8, <1>10, <1>11 DEF ClosureRewrites

LEMMA AuthorityDecided ==
    ASSUME NEW r, SignalAuthority(r), r.accepted \in BOOLEAN
    PROVE  r.accepted = (r.status = "ACCEPTED")
<1>1. CASE r.status = "ACCEPTED"
  <2>1. r.accepted
    BY <1>1 DEF SignalAuthority
  <2> QED BY <1>1, <2>1
<1>2. CASE r.status # "ACCEPTED"
  <2>1. \A field \in DOMAIN Fallback : r[field] = Fallback[field]
    BY <1>2 DEF SignalAuthority
  <2>2. "accepted" \in DOMAIN Fallback /\ Fallback["accepted"] = FALSE
    BY DEF Fallback
  <2>3. r["accepted"] = FALSE
    BY <2>1, <2>2
  <2> QED BY <1>2, <2>3
<1> QED BY <1>1, <1>2

ModelFields ==
    {"status", "reasons", "evidence", "accepted", "action", "score", "abstain", "long_bias", "exit_bias",
     "uncertainty", "ood"}

\* The status goes with the codes.
LEMMA StatusSays ==
    ASSUME NEW codes \in SUBSET SignalCodes
    PROVE  /\ SignalStatus(codes) \in {"ACCEPTED", "REJECTED", "EXPIRED", "DRIFT_DISABLED"}
           /\ SignalStatus(codes) = "ACCEPTED" <=> codes = {}
           /\ SignalStatus(codes) = "DRIFT_DISABLED" <=> codes = {"DRIFT_DISABLED"}
           /\ SignalStatus(codes) = "EXPIRED" <=> codes \in {{"EXPIRED"}, {"EXPIRED", "DEADLINE_MISS"}}
<1>1. codes \subseteq LateCodes /\ "EXPIRED" \in codes <=> codes \in {{"EXPIRED"}, {"EXPIRED", "DEADLINE_MISS"}}
  BY DEF LateCodes
<1>2. "DRIFT_DISABLED" \notin LateCodes
  BY DEF LateCodes
<1> QED BY <1>1, <1>2 DEF SignalStatus

LEMMA ModelForced ==
    ASSUME NEW r, ReceiptAccepted("model", r), NEW d \in Rewrites("model", r), ReceiptAccepted("model", d)
    PROVE  d = r \/ LeftOpen("model", r, d)
<1>1. r \in ModelReceiptSchema /\ d \in ModelReceiptSchema /\ ModelReceiptValid(r) /\ ModelReceiptValid(d)
  BY DEF ReceiptAccepted
<1>2. /\ DOMAIN r = ModelFields /\ IsFunction(r) /\ r.accepted \in BOOLEAN /\ d.accepted \in BOOLEAN
      /\ r.reasons \in SUBSET SignalCodes /\ d.reasons \in SUBSET SignalCodes
  BY <1>1 DEF ModelReceiptSchema, IsFunction, ModelFields
<1>3. r.status = SignalStatus(r.reasons) /\ d.status = SignalStatus(d.reasons)
  BY <1>1 DEF ModelReceiptValid
<1>4. r.accepted = (r.status = "ACCEPTED") /\ d.accepted = (d.status = "ACCEPTED")
  BY <1>1, <1>2, AuthorityDecided DEF ModelReceiptValid
<1>5. CASE d \in VerdictRewrites(r, {"ACCEPTED", "REJECTED", "EXPIRED", "DRIFT_DISABLED"},
                                 Miscounted(r.reasons, SignalCodes) \cup {{}, r.reasons})
  <2>1. /\ OnlyTheVerdict(r, d)
        /\ d.accepted = r.accepted /\ d.evidence = r.evidence
        /\ d.status = r.status /\ d.reasons = r.reasons => d = r
    <3>1. {"status", "reasons", "accepted", "evidence"} \subseteq DOMAIN r
      BY <1>2 DEF ModelFields
    <3>2. /\ OnlyTheVerdict(r, d)
          /\ \A g \in DOMAIN r : g \notin {"status", "reasons"} => d[g] = r[g]
          /\ d.status = r.status /\ d.reasons = r.reasons => d = r
      BY ONLY <1>2, <1>5, <3>1, VerdictRewritten
    <3> QED BY <3>1, <3>2
  <2>2. d.status = "ACCEPTED" <=> r.status = "ACCEPTED"
    BY ONLY <1>4, <2>1
  <2>3. CASE r.status = "ACCEPTED"
    <3>1. d.reasons = {} /\ r.reasons = {} /\ d.status = r.status
      BY ONLY <1>2, <1>3, <2>2, <2>3, StatusSays
    <3> QED BY <2>1, <3>1
  <2>4. CASE r.status # "ACCEPTED"
    <3>1. PICK s, codes : s = d.status /\ codes = d.reasons
      OBVIOUS
    <3>2. codes \in SUBSET SignalCodes /\ s = SignalStatus(codes) /\ s # "ACCEPTED"
      BY <1>2, <1>3, <2>2, <2>4, <3>1
    <3>3. ValidationStage(codes)
      BY <1>1, <3>1 DEF ModelReceiptValid
    <3>4. SignalVerdict(codes) = codes
      BY <3>2, <3>3, StagesAgree
    <3>5. /\ "BYTES_INVALID" \in codes => r.evidence = {}
          /\ codes \cap {"BYTES_INVALID", "SCHEMA_UNKNOWN"} = {} => r.evidence = CandidateEvidence
      BY <1>1, <2>1, <3>1 DEF ModelReceiptValid
    <3>6. /\ codes # {} /\ s \in {"REJECTED", "EXPIRED", "DRIFT_DISABLED"}
          /\ s = "DRIFT_DISABLED" <=> codes = {"DRIFT_DISABLED"}
          /\ s = "EXPIRED" <=> codes \in {{"EXPIRED"}, {"EXPIRED", "DEADLINE_MISS"}}
      BY <3>2, StatusSays
    <3>7. PICK v : v = <<s, codes>>
      OBVIOUS
    <3>8. v \in {"REJECTED", "EXPIRED", "DRIFT_DISABLED"} \X SUBSET SignalCodes /\ v[1] = s /\ v[2] = codes
      BY <3>2, <3>6, <3>7
    <3>9. v \in SignalVerdicts(r)
      BY ONLY <3>4, <3>5, <3>6, <3>8 DEF SignalVerdicts
    <3>10. <<d.status, d.reasons>> \in Verdicts("model", r)
      BY <2>4, <3>1, <3>7, <3>9, OpenVerdicts
    <3> QED BY <2>1, <3>10 DEF LeftOpen
  <2> QED BY <2>3, <2>4
<1>6. CASE d \in Rewritten(r, "accepted", BOOLEAN)
  <2>1. d.status = r.status
    <3>1. "accepted" \in DOMAIN r /\ "status" \in DOMAIN r
      BY <1>2 DEF ModelFields
    <3> QED BY ONLY <1>6, <3>1, OtherFields
  <2>2. d.accepted = r.accepted
    BY ONLY <1>4, <2>1
  <2>3. "accepted" \in DOMAIN r
    BY <1>2 DEF ModelFields
  <2> QED BY <1>2, <1>6, <2>2, <2>3, KeptField
<1>7. ASSUME r.status # "ACCEPTED", NEW o \in Opinions,
             d = [r EXCEPT !.accepted = o.accepted, !.action = o.action, !.score = o.score,
                           !.abstain = o.abstain, !.long_bias = o.long_bias, !.exit_bias = o.exit_bias,
                           !.uncertainty = o.uncertainty, !.ood = o.ood]
      PROVE  FALSE
  <2>1. d.status = r.status
    BY <1>2, <1>7 DEF ModelFields
  <2>2. PICK yes : yes = o.accepted
    OBVIOUS
  <2>3. d.accepted = yes
    BY <1>2, <1>7, <2>2 DEF ModelFields
  <2>4. yes = TRUE
    BY <2>2, OpinionsAssumption
  <2>5. d.accepted = FALSE
    BY ONLY <1>4, <1>7, <2>1
  <2> QED BY ONLY <2>3, <2>4, <2>5
<1>8. CASE r.status # "ACCEPTED" /\ d \in
          {[r EXCEPT !.accepted = o.accepted, !.action = o.action, !.score = o.score,
                     !.abstain = o.abstain, !.long_bias = o.long_bias, !.exit_bias = o.exit_bias,
                     !.uncertainty = o.uncertainty, !.ood = o.ood] : o \in Opinions}
  BY <1>7, <1>8
<1>9. d \in ModelRewrites(r)
  BY DEF Rewrites
<1> QED BY <1>5, <1>6, <1>8, <1>9 DEF ModelRewrites

LEMMA ModelOpen ==
    ASSUME NEW r, ReceiptAccepted("model", r), NEW d, LeftOpen("model", r, d)
    PROVE  ReceiptAccepted("model", d)
<1>1. r \in ModelReceiptSchema /\ ModelReceiptValid(r)
  BY DEF ReceiptAccepted
<1>2. DOMAIN r = ModelFields /\ IsFunction(r)
  BY <1>1 DEF ModelReceiptSchema, IsFunction, ModelFields
<1>3. <<d.status, d.reasons>> \in Verdicts("model", r)
      /\ OnlyTheVerdict(r, d)
  BY DEF LeftOpen
<1>4. r.status # "ACCEPTED" /\ <<d.status, d.reasons>> \in SignalVerdicts(r)
  BY <1>3, OpenVerdicts
<1>5. PICK s, codes : s = d.status /\ codes = d.reasons
  OBVIOUS
<1>6. PICK v : v = <<s, codes>> /\ v[1] = s /\ v[2] = codes
  <2>1. <<s, codes>>[1] = s /\ <<s, codes>>[2] = codes
    OBVIOUS
  <2> QED BY <2>1
<1>7. v \in SignalVerdicts(r)
  BY <1>4, <1>5, <1>6
<1>8. /\ s \in {"REJECTED", "EXPIRED", "DRIFT_DISABLED"} /\ codes \in SUBSET SignalCodes
      /\ codes # {} /\ SignalVerdict(codes) = codes
      /\ s = "DRIFT_DISABLED" <=> codes = {"DRIFT_DISABLED"}
      /\ s = "EXPIRED" <=> codes \in {{"EXPIRED"}, {"EXPIRED", "DEADLINE_MISS"}}
      /\ "BYTES_INVALID" \in codes => r.evidence = {}
      /\ codes \cap {"BYTES_INVALID", "SCHEMA_UNKNOWN"} = {} => r.evidence = CandidateEvidence
  BY ONLY <1>6, <1>7 DEF SignalVerdicts
<1>9. s = SignalStatus(codes)
  BY <1>8, StatusSays
<1>10. ValidationStage(codes)
  BY <1>8, StagesAgree
<1>11. d = [r EXCEPT !.status = s, !.reasons = codes]
  BY <1>3, <1>5 DEF OnlyTheVerdict
<1>12. /\ d.status = s /\ d.reasons = codes
       /\ \A g \in ModelFields : g \notin {"status", "reasons"} => d[g] = r[g]
  BY ONLY <1>2, <1>11, OtherVerdict DEF ModelFields
<1>13. d \in ModelReceiptSchema
  BY <1>1, <1>8, <1>11 DEF ModelReceiptSchema
<1>14. /\ d.evidence = r.evidence /\ d.accepted = r.accepted /\ d.action = r.action /\ d.score = r.score
       /\ d.abstain = r.abstain /\ d.long_bias = r.long_bias /\ d.exit_bias = r.exit_bias
       /\ d.uncertainty = r.uncertainty /\ d.ood = r.ood
  BY <1>12 DEF ModelFields
<1>15. SignalAuthority(d)
  <2>1. DOMAIN Fallback \subseteq ModelFields \ {"status", "reasons"}
    BY DEF Fallback, ModelFields
  <2>2. \A field \in DOMAIN Fallback : r[field] = Fallback[field]
    BY <1>1, <1>4 DEF ModelReceiptValid, SignalAuthority
  <2>3. \A field \in DOMAIN Fallback : d[field] = Fallback[field]
    BY <1>12, <2>1, <2>2
  <2>4. d.status # "ACCEPTED"
    BY <1>8, <1>12
  <2> QED BY <2>3, <2>4 DEF SignalAuthority
<1>16. ModelReceiptValid(d)
  <2>1. /\ r.score \in I128
        /\ {r.abstain, r.long_bias, r.exit_bias, r.uncertainty, r.ood} \subseteq 0 .. Unit
        /\ r.abstain + r.long_bias + r.exit_bias = Unit
    BY <1>1 DEF ModelReceiptValid
  <2> QED BY ONLY <1>8, <1>9, <1>10, <1>12, <1>14, <1>15, <2>1 DEF ModelReceiptValid
<1> QED BY <1>13, <1>16 DEF ReceiptAccepted

-----------------------------------------------------------------------------

LEMMA MeasurementForced ==
    ASSUME NEW m, ReceiptAccepted("measurement", m), m.boundary \in {Null, 1},
           NEW d \in Rewrites("measurement", m), ReceiptAccepted("measurement", d)
    PROVE  d = m
<1>1. m \in MeasurementSchema /\ MeasurementValid(m) /\ MeasurementValid(d)
  BY DEF ReceiptAccepted
<1>2. /\ DOMAIN m = {"status", "first", "failures", "raw", "converted", "samples", "counts", "warmup_events",
                     "events", "warmup_groups", "groups", "boundary"}
      /\ IsFunction(m)
  BY <1>1 DEF MeasurementSchema, IsFunction
<1>3. /\ m.failures = RangeFailures(m) /\ d.failures = RangeFailures(d)
      /\ m.status = (IF m.failures = {} THEN "COMPLETE" ELSE "RANGE_FAILED")
      /\ d.status = (IF d.failures = {} THEN "COMPLETE" ELSE "RANGE_FAILED")
      /\ m.first = FirstOf(m.failures) /\ d.first = FirstOf(d.failures)
      /\ (m.boundary = Null) = (m.warmup_events = 0 /\ m.warmup_groups = 0)
      /\ (d.boundary = Null) = (d.warmup_events = 0 /\ d.warmup_groups = 0)
      /\ \A c \in ToSet(Counters) : Conversion(m, c) /\ Conversion(d, c)
      /\ m.counts["end_to_end"] = m.groups /\ d.counts["end_to_end"] = d.groups
  BY <1>1 DEF MeasurementValid, PhaseCensus
<1>4. CASE d \in Rewritten(m, "status", {"COMPLETE", "RANGE_FAILED"})
  <2>1. d.failures = m.failures
    BY <1>2, <1>4, OtherFields
  <2> QED BY <1>2, <1>3, <1>4, <2>1, KeptField
<1>5. CASE d \in Rewritten(m, "first", Optional(ToSet(Counters)))
  <2>1. d.failures = m.failures
    BY <1>2, <1>5, OtherFields
  <2> QED BY <1>2, <1>3, <1>5, <2>1, KeptField
<1>6. CASE d \in Rewritten(m, "failures", Miscounted(m.failures, ToSet(Counters)))
  <2>1. d.raw = m.raw
    BY <1>2, <1>6, OtherFields
  <2>2. RangeFailures(d) = RangeFailures(m)
    BY <2>1 DEF RangeFailures
  <2> QED BY <1>2, <1>3, <1>6, <2>2, KeptField
<1>7. ASSUME NEW c \in ToSet(Counters), NEW v, d = [m EXCEPT !.converted[c] = v]
      PROVE  d = m
  <2>1. PICK converted : converted = m.converted
    OBVIOUS
  <2>2. IsFunction(converted)
    BY <1>1, <2>1 DEF MeasurementSchema, IsFunction
  <2>3. PICK changed : changed = [converted EXCEPT ![c] = v]
    OBVIOUS
  <2>4. d = [m EXCEPT !.converted = changed]
    BY <1>7, <2>1, <2>3
  <2>5. d.converted = changed /\ d.raw = m.raw
    BY <1>2, <2>4
  <2>6. c \in DOMAIN converted
    BY <1>1, <2>1 DEF MeasurementSchema
  <2>7. changed[c] = v
    BY <2>3, <2>6
  <2>8. RangeFailures(d) = RangeFailures(m)
    BY <2>5 DEF RangeFailures
  <2>9. changed[c] = converted[c]
    BY <1>3, <2>1, <2>5, <2>8 DEF Conversion
  <2>10. changed = converted
    BY <2>2, <2>3, <2>7, <2>9, SameField
  <2> QED BY <1>2, <2>1, <2>4, <2>10, SameField
<1>8. CASE d \in {[m EXCEPT !.converted[c] = Null] : c \in ToSet(Counters)}
  BY <1>7, <1>8
<1>9. CASE d \in {[m EXCEPT !.converted[c] = m.raw[c]] : c \in ToSet(Counters)}
  BY <1>7, <1>9
<1>10. CASE d \in Rewritten(m, "boundary", {Null, 1})
  <2>1. d.warmup_events = m.warmup_events /\ d.warmup_groups = m.warmup_groups /\ d.boundary \in {Null, 1}
    BY <1>2, <1>10, OtherFields
  <2>2. d.boundary = m.boundary
    BY <1>3, <2>1
  <2> QED BY <1>2, <1>10, <2>2, KeptField
<1>11. CASE d \in Rewritten(m, "groups", 0 .. 3)
  <2>1. d.counts = m.counts
    BY <1>2, <1>11, OtherFields
  <2> QED BY <1>2, <1>3, <1>11, <2>1, KeptField
<1>12. d \in MeasurementRewrites(m)
  BY DEF Rewrites
<1> QED BY <1>4, <1>5, <1>6, <1>8, <1>9, <1>10, <1>11, <1>12 DEF MeasurementRewrites

-----------------------------------------------------------------------------

BenchmarkFields == {"status", "reasons", "attached", "samples", "outputs"}

LEMMA BenchmarkForced ==
    ASSUME NEW b, ReceiptAccepted("benchmark", b), NEW d \in Rewrites("benchmark", b), ReceiptAccepted("benchmark", d)
    PROVE  d = b \/ LeftOpen("benchmark", b, d)
<1>1. b \in BenchmarkSchema /\ BenchmarkValid(b) /\ BenchmarkValid(d) /\ d.status \in {"PASS", "FAIL", "INELIGIBLE"}
  BY DEF ReceiptAccepted, BenchmarkSchema
<1>2. /\ DOMAIN b = BenchmarkFields /\ IsFunction(b)
      /\ b.outputs \in Seq(RunOutputSchema) /\ b.status \in {"PASS", "FAIL", "INELIGIBLE"}
  BY <1>1 DEF BenchmarkSchema, IsFunction, BenchmarkFields
<1>3. /\ BenchmarkVerdict(b) /\ BenchmarkVerdict(d)
      /\ Repetitions(b.outputs) /\ Repetitions(d.outputs)
      /\ \A row \in ToSet(b.outputs) : TerminalShape(row)
      /\ \A row \in ToSet(d.outputs) : TerminalShape(row)
      /\ ("RUN_FAILED" \in b.reasons) <=> (\E row \in ToSet(b.outputs) : row.terminal # "RUN_END")
      /\ ("RUN_FAILED" \in d.reasons) <=> (\E row \in ToSet(d.outputs) : row.terminal # "RUN_END")
  BY <1>1 DEF BenchmarkValid
<1>4. CASE d \in VerdictRewrites(b, {"PASS", "FAIL", "INELIGIBLE"},
                                 Miscounted(b.reasons, Preflight \cup Scheduled) \cup {{}, b.reasons})
  <2>1. OnlyTheVerdict(b, d) /\ d.samples = b.samples /\ d.outputs = b.outputs
    <3>1. {"status", "reasons", "samples", "outputs"} \subseteq DOMAIN b
      BY <1>2 DEF BenchmarkFields
    <3>2. /\ OnlyTheVerdict(b, d)
          /\ \A g \in DOMAIN b : g \notin {"status", "reasons"} => d[g] = b[g]
      BY ONLY <1>2, <1>4, <3>1, VerdictRewritten
    <3> QED BY <3>1, <3>2
  <2>2. "RUN_FAILED" \in d.reasons <=> "RUN_FAILED" \in b.reasons
    BY <1>3, <2>1
  <2>3. <<d.status, d.reasons>> \in BenchmarkVerdicts(b)
    <3>1. CASE b.status = "INELIGIBLE"
      <4>1. b.outputs = <<>>
        BY <1>3, <3>1 DEF BenchmarkVerdict
      <4>2. d.status = "INELIGIBLE"
        BY <1>3, <2>1, <4>1 DEF BenchmarkVerdict
      <4>3. d.reasons \in (SUBSET Preflight) \ {{}}
        BY <1>3, <4>2 DEF BenchmarkVerdict
      <4> QED BY <3>1, <4>2, <4>3 DEF BenchmarkVerdicts
    <3>2. CASE b.status # "INELIGIBLE"
      <4>1. b.outputs # <<>>
        BY <1>3, <3>2 DEF BenchmarkVerdict
      <4>2. d.status \in {"PASS", "FAIL"}
        BY <1>1, <1>3, <2>1, <4>1 DEF BenchmarkVerdict
      <4>3. CASE d.status = "PASS"
        <5>1. d.reasons = {} /\ b.samples # 0
          BY <1>3, <2>1, <4>3 DEF BenchmarkVerdict
        <5>2. "RUN_FAILED" \notin b.reasons
          BY <2>2, <5>1
        <5> QED BY <3>2, <4>3, <5>1, <5>2 DEF BenchmarkVerdicts
      <4>4. CASE d.status = "FAIL"
        <5>1. d.reasons \in (SUBSET Scheduled) \ {{}}
          BY <1>3, <4>4 DEF BenchmarkVerdict
        <5>2. PICK all : all = (SUBSET Scheduled) \ {{}}
          OBVIOUS
        <5>3. d.reasons \in {c \in all : "RUN_FAILED" \in c <=> "RUN_FAILED" \in b.reasons}
          BY <2>2, <5>1, <5>2
        <5> QED BY <3>2, <4>4, <5>2, <5>3 DEF BenchmarkVerdicts
      <4> QED BY <4>2, <4>3, <4>4
    <3> QED BY <3>1, <3>2
  <2> QED BY <2>1, <2>3, OpenVerdicts DEF LeftOpen
<1>5. CASE d \in Rewritten(b, "samples", 0 .. 2)
  <2>1. /\ d.status = b.status /\ d = [b EXCEPT !["samples"] = d["samples"]]
        /\ d.samples \in 0 .. 2 /\ "samples" \in DOMAIN b
    <3>1. {"status", "samples"} \subseteq DOMAIN b
      BY <1>2 DEF BenchmarkFields
    <3> QED BY ONLY <1>5, <3>1, OtherFields
  <2>2. CASE b.status = "INELIGIBLE"
    <3>1. d.samples = b.samples
      BY <1>3, <2>1, <2>2 DEF BenchmarkVerdict
    <3> QED BY <1>2, <1>5, <2>1, <3>1, KeptField
  <2>3. CASE b.status # "INELIGIBLE"
    <3>1. d.samples \in U64 /\ (b.status = "PASS" => d.samples # 0)
      BY <1>1, <1>3, <2>1, <2>3 DEF BenchmarkVerdict, BenchmarkValid
    <3> QED BY <2>1, <2>3, <3>1 DEF LeftOpen
  <2> QED BY <2>2, <2>3
<1>6. \A i \in DOMAIN b.outputs : /\ IsFunction(b.outputs[i])
                                 /\ DOMAIN b.outputs[i] = {"case", "run", "repetition", "terminal", "evidence",
                                                           "failure", "exit_code", "empty_output"}
                                 /\ b.outputs[i].terminal \in DOMAIN TerminalFields
  <2> SUFFICES ASSUME NEW i \in DOMAIN b.outputs
               PROVE  /\ IsFunction(b.outputs[i])
                      /\ DOMAIN b.outputs[i] = {"case", "run", "repetition", "terminal", "evidence",
                                                "failure", "exit_code", "empty_output"}
                      /\ b.outputs[i].terminal \in DOMAIN TerminalFields
    OBVIOUS
  <2>1. PICK row \in RunOutputSchema : row = b.outputs[i]
    BY <1>2
  <2> QED BY <2>1 DEF RunOutputSchema, IsFunction
<1>7. IsFunction(b["outputs"]) /\ "outputs" \in DOMAIN b
  BY <1>2 DEF IsFunction, BenchmarkFields
<1>8. CASE d \in RowsRewritten(b, "outputs", "terminal", DOMAIN TerminalFields)
  <2>1. PICK i : OneRow(b, "outputs", "terminal", d, i) /\ d.outputs[i].terminal \in DOMAIN TerminalFields
    BY <1>2, <1>6, <1>7, <1>8, OtherRows
  <2>2. i \in DOMAIN b.outputs /\ i \in DOMAIN d.outputs /\ d.outputs[i].evidence = b.outputs[i].evidence
    BY <1>6, <2>1 DEF OneRow
  <2>3. b.outputs[i] \in ToSet(b.outputs) /\ d.outputs[i] \in ToSet(d.outputs)
    BY <2>2 DEF ToSet
  <2>4. TerminalFields[d.outputs[i].terminal] = TerminalFields[b.outputs[i].terminal]
    BY <1>3, <2>2, <2>3 DEF TerminalShape
  <2>5. ASSUME NEW s \in DOMAIN TerminalFields, NEW t \in DOMAIN TerminalFields,
               TerminalFields[s] = TerminalFields[t]
        PROVE  s = t
    BY <2>5 DEF TerminalFields
  <2>6. d.outputs[i].terminal = b.outputs[i].terminal
    BY <1>6, <2>1, <2>2, <2>4, <2>5
  <2> QED BY <2>1, <2>6 DEF OneRow
<1>9. CASE d \in RowsRewritten(b, "outputs", "repetition", 0 .. 2)
  <2>1. PICK i : OneRow(b, "outputs", "repetition", d, i)
    BY <1>2, <1>6, <1>7, <1>9, OtherRows
  <2>2. /\ i \in DOMAIN b.outputs /\ i \in DOMAIN d.outputs
        /\ d.outputs[i].case = b.outputs[i].case /\ d.outputs[i].run = b.outputs[i].run
        /\ \A j \in DOMAIN b.outputs : j # i => d.outputs[j] = b.outputs[j]
    BY <1>6, <2>1 DEF OneRow
  <2>3. DOMAIN b.outputs = 1 .. Len(b.outputs) /\ Len(b.outputs) \in Nat
    BY <1>2
  <2>4. \A j \in 1 .. i - 1 : d.outputs[j] = b.outputs[j]
    BY <2>2, <2>3
  <2>5. {j \in 1 .. i - 1 : <<d.outputs[j].case, d.outputs[j].run>> = <<d.outputs[i].case, d.outputs[i].run>>}
        = {j \in 1 .. i - 1 : <<b.outputs[j].case, b.outputs[j].run>> = <<b.outputs[i].case, b.outputs[i].run>>}
    BY <2>2, <2>4
  <2>6. d.outputs[i].repetition = b.outputs[i].repetition
    BY <1>3, <2>2, <2>5 DEF Repetitions
  <2> QED BY <2>1, <2>6 DEF OneRow
<1>10. d \in BenchmarkRewrites(b)
  BY DEF Rewrites
<1> QED BY <1>4, <1>5, <1>8, <1>9, <1>10 DEF BenchmarkRewrites

LEMMA BenchmarkOpen ==
    ASSUME NEW b, ReceiptAccepted("benchmark", b), NEW d, LeftOpen("benchmark", b, d)
    PROVE  ReceiptAccepted("benchmark", d)
<1>1. b \in BenchmarkSchema /\ BenchmarkValid(b)
  BY DEF ReceiptAccepted
<1>2. DOMAIN b = BenchmarkFields /\ IsFunction(b) /\ b.reasons \in SUBSET (Preflight \cup Scheduled)
  BY <1>1 DEF BenchmarkSchema, IsFunction, BenchmarkFields
<1>3. /\ BenchmarkVerdict(b) /\ b.samples \in U64
      /\ "RUN_FAILED" \in b.reasons <=> \E row \in ToSet(b.outputs) : row.terminal # "RUN_END"
  BY <1>1 DEF BenchmarkValid
<1>4. U64 \subseteq Nat
  BY DEF U64
<1>5. CASE <<d.status, d.reasons>> \in BenchmarkVerdicts(b) /\ OnlyTheVerdict(b, d)
  <2>1. PICK s, codes : s = d.status /\ codes = d.reasons
    OBVIOUS
  <2>2. d = [b EXCEPT !.status = s, !.reasons = codes]
    BY <1>5, <2>1 DEF OnlyTheVerdict
  <2>3. /\ d.status = s /\ d.reasons = codes
        /\ d.attached = b.attached /\ d.samples = b.samples /\ d.outputs = b.outputs
    BY <1>2, <2>2 DEF BenchmarkFields
  <2>4. BenchmarkVerdict(d) /\ ("RUN_FAILED" \in d.reasons <=> "RUN_FAILED" \in b.reasons) => BenchmarkValid(d)
    <3>1. /\ b.samples \in U64 /\ Repetitions(b.outputs)
          /\ \A row \in ToSet(b.outputs) : row.repetition \in U64 /\ TerminalShape(row)
          /\ Increasing([i \in DOMAIN b.outputs |->
                <<b.outputs[i].case, b.outputs[i].run, b.outputs[i].repetition>>])
      BY <1>1 DEF BenchmarkValid
    <3>2. "RUN_FAILED" \in b.reasons <=> \E row \in ToSet(b.outputs) : row.terminal # "RUN_END"
      BY <1>3
    <3>3. ASSUME "RUN_FAILED" \in d.reasons <=> "RUN_FAILED" \in b.reasons
          PROVE  ("RUN_FAILED" \in d.reasons) <=> (\E row \in ToSet(d.outputs) : row.terminal # "RUN_END")
      BY ONLY <2>3, <3>2, <3>3
    <3>4. Increasing([i \in DOMAIN d.outputs |->
             <<d.outputs[i].case, d.outputs[i].run, d.outputs[i].repetition>>])
      BY <2>3, <3>1
    <3>5. /\ d.samples \in U64 /\ Repetitions(d.outputs)
          /\ \A row \in ToSet(d.outputs) : row.repetition \in U64 /\ TerminalShape(row)
      BY <2>3, <3>1
    <3> QED BY ONLY <3>3, <3>4, <3>5 DEF BenchmarkValid
  <2>5. CASE b.status = "INELIGIBLE"
    <3>1. s = "INELIGIBLE" /\ codes \in (SUBSET Preflight) \ {{}}
      BY <1>5, <2>1, <2>5 DEF BenchmarkVerdicts
    <3>2. d \in BenchmarkSchema
      BY <1>1, <2>2, <3>1 DEF BenchmarkSchema
    <3>3. BenchmarkVerdict(d)
      BY <1>3, <2>3, <2>5, <3>1 DEF BenchmarkVerdict
    <3>4. "RUN_FAILED" \notin codes /\ "RUN_FAILED" \notin b.reasons
      BY <1>3, <2>5, <3>1 DEF BenchmarkVerdict, Preflight
    <3>5. BenchmarkValid(d)
      BY <2>3, <2>4, <3>3, <3>4
    <3> QED BY <3>2, <3>5 DEF ReceiptAccepted
  <2>6. CASE b.status # "INELIGIBLE"
    <3>1. \/ s = "FAIL" /\ codes \in (SUBSET Scheduled) \ {{}}
             /\ ("RUN_FAILED" \in codes <=> "RUN_FAILED" \in b.reasons)
          \/ s = "PASS" /\ codes = {} /\ "RUN_FAILED" \notin b.reasons /\ b.samples # 0
      BY <1>5, <2>1, <2>6 DEF BenchmarkVerdicts
    <3>2. "RUN_FAILED" \in codes <=> "RUN_FAILED" \in b.reasons
      BY <3>1
    <3>3. d \in BenchmarkSchema
      BY <1>1, <2>2, <3>1 DEF BenchmarkSchema
    <3>4. BenchmarkVerdict(d)
      <4>1. b.attached = Attachments /\ b.outputs # <<>>
        BY <1>3, <2>6 DEF BenchmarkVerdict
      <4>2. b.samples \in Nat
        BY <1>3, <1>4
      <4> QED BY <2>3, <3>1, <4>1, <4>2 DEF BenchmarkVerdict
    <3>5. BenchmarkValid(d)
      BY <2>3, <2>4, <3>2, <3>4
    <3> QED BY <3>3, <3>5 DEF ReceiptAccepted
  <2> QED BY <2>5, <2>6
<1>6. CASE /\ b.status # "INELIGIBLE" /\ d.samples \in U64 /\ (b.status = "PASS" => d.samples # 0)
           /\ d = [b EXCEPT !.samples = d.samples]
  <2>1. PICK n \in Nat : n = d.samples
    BY <1>4, <1>6
  <2>2. d = [b EXCEPT !.samples = n]
    BY <1>6, <2>1
  <2>3. /\ d.status = b.status /\ d.reasons = b.reasons /\ d.attached = b.attached
        /\ d.outputs = b.outputs /\ d.samples = n
    BY <1>2, <2>2 DEF BenchmarkFields
  <2>4. d \in BenchmarkSchema
    BY <1>1, <2>2 DEF BenchmarkSchema
  <2>5. BenchmarkVerdict(d)
    BY <1>3, <1>6, <2>1, <2>3 DEF BenchmarkVerdict
  <2>6. BenchmarkValid(d)
    BY <1>1, <1>6, <2>3, <2>5 DEF BenchmarkValid
  <2> QED BY <2>4, <2>6 DEF ReceiptAccepted
<1> QED BY <1>5, <1>6, OpenVerdicts DEF LeftOpen

\* The reasons follow from the residuals, the kind and what a gate found.
LEMMA ReasonsDecided ==
    ASSUME NEW r \in ReconciliationSchema, ReconciliationValid(r), NEW known,
           known = ResidualCodes(r) \cup (r.reasons \cap GateReasons) \cup ({r.kind} \cap Terminal)
    PROVE  /\ r.reasons = IF known = {} THEN {} ELSE known \cup {"MISMATCH"}
           /\ r.status = IF r.reasons = {} THEN "PASS" ELSE "KILLED"
<1>1. ReconciliationVerdict(r) /\ KindRules(r) /\ r.status \in {"PASS", "KILLED"}
  BY DEF ReconciliationValid, ReconciliationSchema
<1>2. CASE r.status = "PASS"
  <2>1. r.reasons = {} /\ ResidualCodes(r) = {} /\ r.kind \notin Terminal
    BY <1>1, <1>2 DEF ReconciliationVerdict, KindRules
  <2> QED BY <1>2, <2>1
<1>3. CASE r.status = "KILLED"
  <2>1. PICK residual : residual = ResidualCodes(r)
    OBVIOUS
  <2>2. PICK own : own = KindCodes(r)
    OBVIOUS
  <2>3. r.reasons = residual \cup own \cup {"MISMATCH"} /\ Cardinality(r.reasons) >= 2
    BY <1>1, <1>3, <2>1, <2>2 DEF ReconciliationVerdict
  <2>4. residual \cap (GateReasons \cup Terminal \cup {"MISMATCH"}) = {}
    BY <2>1, ResidualsAreNoGates
  <2>5. "MISMATCH" \notin GateReasons /\ GateReasons \cap Terminal = {}
        /\ "FINAL_GATE" \notin Terminal /\ "GROUP_GATE" \notin Terminal
        /\ "RUN_END_UNCLOSED" \notin GateCodes /\ "RUN_END_UNCLOSED" \in GateReasons
    BY DEF GateReasons, GateCodes, Terminal, Integrity
  <2>6. own = (r.reasons \cap GateReasons) \cup ({r.kind} \cap Terminal)
    <3>1. CASE r.kind = "FINAL_GATE"
      <4>1. own = {"RUN_END_UNCLOSED"}
        BY <2>2, <3>1 DEF KindCodes
      <4> QED BY <2>3, <2>4, <2>5, <3>1, <4>1
    <3>2. CASE r.kind \in Terminal
      <4>1. own = {r.kind}
        BY <2>2, <2>5, <3>2 DEF KindCodes
      <4> QED BY <2>3, <2>4, <2>5, <3>2, <4>1
    <3>3. CASE r.kind = "GROUP_GATE"
      <4>1. own = r.reasons \cap GateCodes
        BY <2>2, <2>5, <3>3 DEF KindCodes
      <4>2. GateReasons = GateCodes \cup {"RUN_END_UNCLOSED"}
        BY DEF GateReasons
      <4>3. "RUN_END_UNCLOSED" \notin r.reasons
        BY <2>3, <2>4, <2>5, <4>1
      <4> QED BY <2>5, <3>3, <4>1, <4>2, <4>3
    <3>4. CASE r.kind \notin {"FINAL_GATE", "GROUP_GATE"} /\ r.kind \notin Terminal
      <4>1. own = {}
        BY <2>2, <3>4 DEF KindCodes
      <4> QED BY <2>3, <2>4, <2>5, <3>4, <4>1
    <3> QED BY <3>1, <3>2, <3>3, <3>4
  <2>7. known = residual \cup own
    BY <2>1, <2>6
  <2>8. known # {}
    <3>1. r.reasons # {"MISMATCH"}
      <4>1. Cardinality({"MISMATCH"}) = 1
        BY FS_Singleton
      <4> QED BY <2>3, <4>1
    <3> QED BY <2>3, <2>7, <3>1
  <2> QED BY <1>3, <2>3, <2>7, <2>8
<1> QED BY <1>1, <1>2, <1>3

LEMMA MiscountedWithin ==
    ASSUME NEW codes, NEW all, NEW c \in Miscounted(codes, all)
    PROVE  c \subseteq codes \cup all
BY DEF Miscounted

ReconciliationFields ==
    {"status", "kind", "reasons", "decision", "ingest", "group", "clock", "before", "after",
     "causes", "assets", "accounts", "residuals", "evidence", "expected", "observed", "latched"}

\* With the same rest, the same is off and the same verdicts are open.
LEMMA SameResiduals ==
    ASSUME NEW r, NEW d, d.kind = r.kind, d.assets = r.assets, d.accounts = r.accounts,
           d.residuals = r.residuals, d.latched = r.latched
    PROVE  ResidualCodes(d) = ResidualCodes(r) /\ GateVerdicts(d) = GateVerdicts(r)
<1>1. ResidualCodes(d) = ResidualCodes(r)
  BY DEF ResidualCodes
<1> QED BY <1>1 DEF GateVerdicts

\* What a gate says of itself is among what it may say.
LEMMA GateSays ==
    ASSUME NEW r \in ReconciliationSchema, ReconciliationValid(r), r.kind \in {"GROUP_GATE", "FINAL_GATE"}
    PROVE  <<r.status, r.reasons>> \in GateVerdicts(r)
<1>1. ReconciliationVerdict(r) /\ KindRules(r) /\ r.status \in {"PASS", "KILLED"}
  BY DEF ReconciliationValid, ReconciliationSchema
<1>2. PICK residual, g : residual = ResidualCodes(r) /\ g = r.reasons \cap GateReasons
  OBVIOUS
<1>3. r.kind \notin Terminal
  BY DEF Terminal, Integrity
<1>4. /\ r.reasons = IF residual \cup g = {} THEN {} ELSE residual \cup g \cup {"MISMATCH"}
      /\ r.status = IF residual \cup g = {} THEN "PASS" ELSE "KILLED"
  <2>1. residual \cup g = ResidualCodes(r) \cup (r.reasons \cap GateReasons) \cup ({r.kind} \cap Terminal)
    BY <1>2, <1>3
  <2>2. PICK known : known = residual \cup g
    OBVIOUS
  <2>3. /\ r.reasons = IF known = {} THEN {} ELSE known \cup {"MISMATCH"}
        /\ r.status = IF r.reasons = {} THEN "PASS" ELSE "KILLED"
    BY ONLY <2>1, <2>2, ReasonsDecided, r \in ReconciliationSchema, ReconciliationValid(r)
  <2> QED BY <2>2, <2>3
<1>5. residual \cup g # {} => r.latched
  BY <1>1, <1>4 DEF ReconciliationVerdict
<1>6. \A code \in g : ReasonOwner(code) = r.kind
  BY <1>1, <1>2 DEF KindRules, GateReasons, OwnedCodes
<1>7. PICK findings : findings = IF r.kind = "GROUP_GATE" THEN SUBSET GateCodes
                                 ELSE IF r.kind = "FINAL_GATE" /\ residual = {} THEN {{}, {"RUN_END_UNCLOSED"}}
                                 ELSE {}
  OBVIOUS
<1>8. g \in findings
  <2>1. CASE r.kind = "GROUP_GATE"
    <3>1. "RUN_END_UNCLOSED" \notin g
      <4>1. ReasonOwner("RUN_END_UNCLOSED") = "FINAL_GATE"
        BY DEF ReasonOwner, GateCodes
      <4> QED BY ONLY <1>6, <2>1, <4>1
    <3>2. g \subseteq GateCodes
      BY <1>2, <3>1 DEF GateReasons
    <3>3. findings = SUBSET GateCodes
      BY <1>7, <2>1
    <3> QED BY <3>2, <3>3
  <2>2. CASE r.kind = "FINAL_GATE"
    <3>1. residual = {}
      BY <1>2, <2>2, EndsWithoutResidual
    <3>2. \A code \in GateCodes : code # "RUN_END_UNCLOSED"
      BY DEF GateCodes
    <3>3. g \subseteq {"RUN_END_UNCLOSED"}
      BY <1>2, <1>6, <2>2, <3>2 DEF GateReasons, ReasonOwner
    <3> QED BY <1>7, <2>2, <3>1, <3>3
  <2> QED BY <2>1, <2>2
<1>9. <<r.status, r.reasons>>
         = IF residual \cup g = {} THEN <<"PASS", {}>> ELSE <<"KILLED", residual \cup g \cup {"MISMATCH"}>>
  BY <1>4
<1> QED BY ONLY <1>2, <1>5, <1>7, <1>8, <1>9 DEF GateVerdicts

\* Only the gates have a say.
LEMMA NoSay ==
    ASSUME NEW r, GateVerdicts(r) # {}
    PROVE  r.kind = "GROUP_GATE" \/ (r.kind = "FINAL_GATE" /\ ResidualCodes(r) = {})
BY DEF GateVerdicts

\* What rewriting a receipt leaves.
LEMMA ReconciliationRest ==
    ASSUME NEW r \in ReconciliationSchema, NEW d \in Rewrites("reconciliation", r)
    PROVE  /\ d.kind = r.kind /\ d.assets = r.assets /\ d.accounts = r.accounts
           /\ d.residuals = r.residuals /\ d.latched = r.latched
           /\ OnlyTheVerdict(r, d) \/ d.evidence = r.evidence \/ (d.status = r.status /\ d.reasons = r.reasons)
           /\ d.evidence = r.evidence => OnlyTheVerdict(r, d)
           /\ d.evidence = r.evidence /\ d.status = r.status /\ d.reasons = r.reasons => d = r
<1>1. DOMAIN r = ReconciliationFields /\ IsFunction(r)
  BY DEF ReconciliationSchema, IsFunction, ReconciliationFields
<1>2. PICK L, V : d \in VerdictRewrites(r, {"PASS", "KILLED"}, L) \cup Rewritten(r, "evidence", V)
  <2>1. d \in ReconciliationRewrites(r)
    BY DEF Rewrites
  <2> QED BY <2>1 DEF ReconciliationRewrites
<1>3. {"status", "reasons", "kind", "assets", "accounts", "residuals", "latched", "evidence"} \subseteq DOMAIN r
  BY <1>1 DEF ReconciliationFields
<1>4. CASE d \in VerdictRewrites(r, {"PASS", "KILLED"}, L)
  <2>1. /\ OnlyTheVerdict(r, d)
        /\ \A g \in DOMAIN r : g \notin {"status", "reasons"} => d[g] = r[g]
        /\ d.status = r.status /\ d.reasons = r.reasons => d = r
    BY ONLY <1>1, <1>3, <1>4, VerdictRewritten
  <2> QED BY <1>3, <2>1
<1>5. CASE d \in Rewritten(r, "evidence", V)
  <2>1. \A g \in DOMAIN r : g # "evidence" => d[g] = r[g]
    BY ONLY <1>3, <1>5, OtherFields
  <2>2. d.evidence = r.evidence => d = r
    BY ONLY <1>1, <1>3, <1>5, KeptField
  <2>3. d = r => OnlyTheVerdict(r, d)
    <3>1. [r EXCEPT !.status = r.status, !.reasons = r.reasons] = r
      BY <1>1 DEF IsFunction
    <3> QED BY <3>1 DEF OnlyTheVerdict
  <2> QED BY <1>3, <2>1, <2>2, <2>3
<1> QED BY <1>2, <1>4, <1>5

LEMMA ReconciliationForced ==
    ASSUME NEW r, ReceiptAccepted("reconciliation", r), NEW d \in Rewrites("reconciliation", r),
           ReceiptAccepted("reconciliation", d)
    PROVE  d = r \/ LeftOpen("reconciliation", r, d)
<1>1. r \in ReconciliationSchema /\ d \in ReconciliationSchema /\ ReconciliationValid(r) /\ ReconciliationValid(d)
  BY DEF ReceiptAccepted
<1>2. /\ d.kind = r.kind /\ d.assets = r.assets /\ d.accounts = r.accounts
      /\ d.residuals = r.residuals /\ d.latched = r.latched
  BY <1>1, ReconciliationRest
<1>3. d.evidence = r.evidence
  BY <1>1, <1>2 DEF ReconciliationValid, EvidenceGroups
<1>4. OnlyTheVerdict(r, d) /\ (d.status = r.status /\ d.reasons = r.reasons => d = r)
  BY <1>1, <1>3, ReconciliationRest
<1>5. ResidualCodes(d) = ResidualCodes(r) /\ GateVerdicts(d) = GateVerdicts(r)
  BY <1>2, SameResiduals
<1>6. CASE r.kind \in {"GROUP_GATE", "FINAL_GATE"}
  <2>1. <<d.status, d.reasons>> \in GateVerdicts(r)
    BY <1>1, <1>2, <1>5, <1>6, GateSays
  <2> QED BY <1>4, <2>1, OpenVerdicts DEF LeftOpen
<1>7. CASE r.kind \notin {"GROUP_GATE", "FINAL_GATE"}
  <2>1. ASSUME NEW x \in ReconciliationSchema, ReconciliationValid(x), x.kind = r.kind
        PROVE  x.reasons \cap GateReasons = {}
    <3>1. \A code \in x.reasons \cap GateReasons : ReasonOwner(code) = r.kind
      BY <2>1 DEF ReconciliationValid, KindRules, GateReasons, OwnedCodes
    <3>2. \A code \in GateReasons : ReasonOwner(code) \in {"GROUP_GATE", "FINAL_GATE"}
      BY DEF GateReasons, ReasonOwner
    <3> QED BY <1>7, <3>1, <3>2
  <2>2. PICK known : known = ResidualCodes(r) \cup ({r.kind} \cap Terminal)
    OBVIOUS
  <2>3. /\ known = ResidualCodes(r) \cup (r.reasons \cap GateReasons) \cup ({r.kind} \cap Terminal)
        /\ known = ResidualCodes(d) \cup (d.reasons \cap GateReasons) \cup ({d.kind} \cap Terminal)
    BY <1>1, <1>2, <1>5, <2>1, <2>2
  <2>4. /\ r.reasons = IF known = {} THEN {} ELSE known \cup {"MISMATCH"}
        /\ r.status = IF r.reasons = {} THEN "PASS" ELSE "KILLED"
    BY ONLY <1>1, <2>3, ReasonsDecided
  <2>5. /\ d.reasons = IF known = {} THEN {} ELSE known \cup {"MISMATCH"}
        /\ d.status = IF d.reasons = {} THEN "PASS" ELSE "KILLED"
    BY ONLY <1>1, <2>3, ReasonsDecided
  <2> QED BY <1>4, <2>4, <2>5
<1> QED BY <1>6, <1>7

LEMMA ReconciliationOpen ==
    ASSUME NEW r, ReceiptAccepted("reconciliation", r), NEW d, LeftOpen("reconciliation", r, d)
    PROVE  ReceiptAccepted("reconciliation", d)
<1>1. r \in ReconciliationSchema /\ ReconciliationValid(r)
  BY DEF ReceiptAccepted
<1>2. DOMAIN r = ReconciliationFields /\ IsFunction(r)
  BY <1>1 DEF ReconciliationSchema, IsFunction, ReconciliationFields
<1>3. <<d.status, d.reasons>> \in GateVerdicts(r) /\ OnlyTheVerdict(r, d)
  BY OpenVerdicts DEF LeftOpen
<1>4. PICK s, codes, residual : s = d.status /\ codes = d.reasons /\ residual = ResidualCodes(r)
  OBVIOUS
<1>5. r.kind = "GROUP_GATE" \/ (r.kind = "FINAL_GATE" /\ residual = {})
  BY <1>3, <1>4, NoSay
<1>6. PICK findings : findings = IF r.kind = "GROUP_GATE" THEN SUBSET GateCodes
                                 ELSE IF r.kind = "FINAL_GATE" /\ residual = {} THEN {{}, {"RUN_END_UNCLOSED"}}
                                 ELSE {}
  OBVIOUS
<1>7. PICK g \in {f \in findings : residual \cup f # {} => r.latched} :
         <<d.status, d.reasons>> = IF residual \cup g = {} THEN <<"PASS", {}>>
                                   ELSE <<"KILLED", residual \cup g \cup {"MISMATCH"}>>
  BY ONLY <1>3, <1>4, <1>6 DEF GateVerdicts
<1>8. /\ s = IF residual \cup g = {} THEN "PASS" ELSE "KILLED"
      /\ codes = IF residual \cup g = {} THEN {} ELSE residual \cup g \cup {"MISMATCH"}
      /\ residual \cup g # {} => r.latched
  BY ONLY <1>4, <1>7
<1>9. d = [r EXCEPT !.status = s, !.reasons = codes]
  BY <1>3, <1>4 DEF OnlyTheVerdict
<1>10. /\ d.status = s /\ d.reasons = codes
       /\ \A x \in ReconciliationFields : x \notin {"status", "reasons"} => d[x] = r[x]
  BY ONLY <1>2, <1>9, OtherVerdict DEF ReconciliationFields
<1>11. /\ d.kind = r.kind /\ d.decision = r.decision /\ d.ingest = r.ingest /\ d.group = r.group
       /\ d.clock = r.clock /\ d.before = r.before /\ d.after = r.after /\ d.causes = r.causes
       /\ d.assets = r.assets /\ d.accounts = r.accounts /\ d.residuals = r.residuals
       /\ d.evidence = r.evidence /\ d.expected = r.expected /\ d.observed = r.observed
       /\ d.latched = r.latched
  BY <1>10 DEF ReconciliationFields
<1>12. ResidualCodes(d) = residual
  BY <1>4, <1>11, SameResiduals
<1>13. /\ g \subseteq GateReasons /\ residual \cap (GateReasons \cup Terminal \cup {"MISMATCH"}) = {}
       /\ "MISMATCH" \notin GateReasons /\ GateReasons \cap Terminal = {} /\ "MISMATCH" \notin Terminal
       /\ r.kind \notin Terminal
       /\ r.kind = "GROUP_GATE" => g \subseteq GateCodes
       /\ r.kind = "FINAL_GATE" => g \subseteq {"RUN_END_UNCLOSED"}
  <2>1. r.kind = "GROUP_GATE" => g \subseteq GateCodes
    BY <1>6, <1>7
  <2>2. r.kind = "FINAL_GATE" => g \subseteq {"RUN_END_UNCLOSED"}
    BY <1>5, <1>6, <1>7
  <2>3. g \subseteq GateReasons
    BY <1>5, <2>1, <2>2 DEF GateReasons
  <2>4. residual \cap (GateReasons \cup Terminal \cup {"MISMATCH"}) = {}
    BY <1>4, ResidualsAreNoGates
  <2> QED BY <1>5, <2>1, <2>2, <2>3, <2>4 DEF GateReasons, GateCodes, Terminal, Integrity
<1>14. /\ codes \in SUBSET (OwnedCodes \cup {"ACCOUNT_RESIDUAL", "ASSET_RESIDUAL", "MISMATCH"}
                              \cup {Residuals[n] : n \in DOMAIN Residuals})
       /\ codes \in SUBSET AllReasons
  <2>1. residual \subseteq {"ACCOUNT_RESIDUAL", "ASSET_RESIDUAL"} \cup {Residuals[n] : n \in DOMAIN Residuals}
    BY <1>4 DEF ResidualCodes
  <2>2. g \subseteq OwnedCodes
    BY <1>13 DEF GateReasons, OwnedCodes
  <2> QED BY <1>8, <2>1, <2>2, ResidualsFit DEF AllReasons
<1>15. d \in ReconciliationSchema
  <2>1. s \in {"PASS", "KILLED"}
    BY <1>8
  <2> QED BY <1>1, <1>9, <1>14, <2>1 DEF ReconciliationSchema
<1>16. ReconciliationVerdict(d)
  <2>1. CASE residual \cup g = {}
    BY <1>8, <1>10, <1>12, <2>1 DEF ReconciliationVerdict
  <2>2. CASE residual \cup g # {}
    <3>1. s = "KILLED" /\ codes = residual \cup g \cup {"MISMATCH"} /\ r.latched
      BY <1>8, <2>2
    <3>2. Cardinality(codes) >= 2
      <4>1. PICK x : x \in residual \cup g
        BY <2>2
      <4>2. x # "MISMATCH" /\ x \in codes /\ "MISMATCH" \in codes
        BY <1>13, <3>1, <4>1
      <4> QED BY <1>14, <4>2, TwoReasons
    <3>3. KindCodes(d) = g
      <4>1. CASE r.kind = "GROUP_GATE"
        <5>1. KindCodes(d) = codes \cap GateCodes
          BY <1>10, <1>11, <1>13, <4>1 DEF KindCodes
        <5> QED BY <1>13, <3>1, <4>1, <5>1 DEF GateReasons
      <4>2. CASE r.kind = "FINAL_GATE"
        <5>1. KindCodes(d) = {"RUN_END_UNCLOSED"}
          BY <1>11, <4>2 DEF KindCodes
        <5>2. residual = {}
          BY <1>5, <4>2
        <5> QED BY <1>13, <2>2, <4>2, <5>1, <5>2
      <4> QED BY <1>5, <4>1, <4>2
    <3> QED BY ONLY <1>10, <1>11, <1>12, <3>1, <3>2, <3>3 DEF ReconciliationVerdict
  <2> QED BY <2>1, <2>2
<1>17. KindRules(d)
  <2>1. r.kind = "FINAL_GATE" /\ s = "KILLED" => codes = {"RUN_END_UNCLOSED", "MISMATCH"}
    BY <1>5, <1>8, <1>13
  <2>2. ASSUME NEW code \in codes \cap OwnedCodes PROVE ReasonOwner(code) = r.kind
    <3>1. code \in g
      <4>1. OwnedCodes \subseteq Terminal \cup GateReasons
        BY DEF OwnedCodes, GateReasons
      <4>2. code \in Terminal \cup GateReasons /\ code # "MISMATCH" /\ code \notin residual
        BY <1>13, <2>2, <4>1
      <4>3. code \in residual \cup g \cup {"MISMATCH"}
        BY ONLY <1>8, <2>2
      <4> QED BY <4>2, <4>3
    <3>2. CASE r.kind = "GROUP_GATE"
      BY <1>13, <3>1, <3>2 DEF ReasonOwner, GateCodes
    <3>3. CASE r.kind = "FINAL_GATE"
      BY <1>13, <3>1, <3>3 DEF ReasonOwner, GateCodes
    <3> QED BY <1>5, <3>2, <3>3
  <2> QED BY <1>5, <1>10, <1>11, <1>13, <2>1, <2>2 DEF KindRules
<1>18. ReconciliationValid(d)
  BY ONLY <1>1, <1>11, <1>16, <1>17 DEF ReconciliationValid, EvidenceGroups, StateAndShape
<1> QED BY <1>15, <1>18 DEF ReceiptAccepted

\* The end of a run with a residual has no receipt, whatever is said of it.
LEMMA UnsayableStays ==
    ASSUME NEW r \in ReconciliationSchema, Unsayable("reconciliation", r), NEW d \in Rewrites("reconciliation", r)
    PROVE  ~ReceiptAccepted("reconciliation", d) /\ ~LeftOpen("reconciliation", r, d)
           /\ Unsayable("reconciliation", d)
<1>1. r.kind = "FINAL_GATE" /\ ResidualCodes(r) # {}
  BY DEF Unsayable
<1>2. d.kind = "FINAL_GATE" /\ ResidualCodes(d) # {}
  BY <1>1, ReconciliationRest, SameResiduals
<1>3. ~ReceiptAccepted("reconciliation", d)
  BY <1>2, EndsWithoutResidual DEF ReceiptAccepted
<1>4. GateVerdicts(r) = {}
  BY <1>1, NoSay
<1>5. ~LeftOpen("reconciliation", r, d)
  BY <1>4, OpenVerdicts DEF LeftOpen
<1> QED BY <1>2, <1>3, <1>5 DEF Unsayable

LEMMA ShortReverse ==
    ASSUME NEW S, NEW s \in Seq(S), Len(s) <= 1
    PROVE  Reverse(s) = s
<1>1. PICK n \in Nat : n = Len(s) /\ DOMAIN s = 1 .. n
  OBVIOUS
<1>2. s = [i \in 1 .. n |-> s[i]]
  BY <1>1
<1>3. \A i \in 1 .. n : n - i + 1 = i
  BY <1>1
<1>4. [i \in 1 .. n |-> s[n - i + 1]] = [i \in 1 .. n |-> s[i]]
  BY <1>3
<1> QED BY <1>1, <1>2, <1>4 DEF Reverse

LEMMA OneWay ==
    ASSUME NEW n \in Nat, NEW k, NEW l, Tuple(k, n), Tuple(l, n), LexLess(k, l), LexLess(l, k)
    PROVE  FALSE
BY TupleOrder

\* What a drawn receipt is made of, where its validator does not say.
QuarantineShape(q) ==
    /\ DOMAIN q = {"head", "state", "expected", "observed", "slots", "components", "first_unsafe", "reasons"}
    /\ IsFunction(q) /\ q.slots \in Seq(SlotSchema) /\ q.components \in Seq(ComponentSchema)

ComponentKey(row) == <<row.rank, IF row.ordinal = Null THEN -1 ELSE row.ordinal>>

LEMMA ComponentKeys ==
    ASSUME NEW row \in ComponentSchema
    PROVE  Tuple(ComponentKey(row), 2)
<1>1. row.rank \in Int /\ (row.ordinal = Null \/ row.ordinal \in Nat)
  BY DEF ComponentSchema, Optional
<1>2. PICK place \in Int : place = IF row.ordinal = Null THEN -1 ELSE row.ordinal
  BY <1>1
<1>3. Tuple(<<row.rank, place>>, 2)
  BY <1>1, <1>2 DEF Tuple
<1> QED BY <1>2, <1>3 DEF ComponentKey

LEMMA ComponentsOneWay ==
    ASSUME NEW q, QuarantineShape(q), NEW d, QuarantineValid(q), QuarantineValid(d),
           d.components = Reverse(q.components)
    PROVE  d.components = q.components
<1>1. PICK s \in Seq(ComponentSchema) : s = q.components
  BY DEF QuarantineShape
<1>2. PICK n \in Nat : n = Len(s) /\ DOMAIN s = 1 .. n
  OBVIOUS
<1>3. PICK t : t = Reverse(s)
  OBVIOUS
<1>4. DOMAIN t = 1 .. n /\ \A i \in 1 .. n : t[i] = s[n - i + 1]
  BY <1>2, <1>3 DEF Reverse
<1>5. CASE n <= 1
  BY <1>1, <1>2, <1>5, ShortReverse
<1>6. CASE n > 1
  <2>1. \A i \in 1 .. n : [j \in DOMAIN s |-> <<s[j].rank, IF s[j].ordinal = Null THEN -1 ELSE s[j].ordinal>>][i]
                           = ComponentKey(s[i])
    BY <1>2 DEF ComponentKey
  <2>2. \A i \in 1 .. n : [j \in DOMAIN t |-> <<t[j].rank, IF t[j].ordinal = Null THEN -1 ELSE t[j].ordinal>>][i]
                           = ComponentKey(t[i])
    BY <1>4 DEF ComponentKey
  <2>3. Increasing([j \in DOMAIN s |-> <<s[j].rank, IF s[j].ordinal = Null THEN -1 ELSE s[j].ordinal>>])
    BY <1>1 DEF QuarantineValid
  <2>4. Increasing([j \in DOMAIN t |-> <<t[j].rank, IF t[j].ordinal = Null THEN -1 ELSE t[j].ordinal>>])
    BY <1>1, <1>3 DEF QuarantineValid
  <2>5. 1 \in 1 .. n /\ n \in 1 .. n /\ 1 < n
    BY <1>6
  <2>6. LexLess(ComponentKey(s[1]), ComponentKey(s[n]))
    BY <1>2, <2>1, <2>3, <2>5 DEF Increasing
  <2>7. LexLess(ComponentKey(t[1]), ComponentKey(t[n]))
    <3>1. PICK places : places = [j \in DOMAIN t |-> <<t[j].rank, IF t[j].ordinal = Null THEN -1 ELSE t[j].ordinal>>]
      OBVIOUS
    <3>2. DOMAIN places = 1 .. n /\ Increasing(places)
      BY <1>4, <2>4, <3>1
    <3>3. LexLess(places[1], places[n])
      BY <2>5, <3>2 DEF Increasing
    <3> QED BY <2>2, <2>5, <3>1, <3>3
  <2>8. t[1] = s[n] /\ t[n] = s[1]
    <3>1. n - 1 + 1 = n /\ n - n + 1 = 1
      OBVIOUS
    <3> QED BY <1>4, <2>5, <3>1
  <2>9. Tuple(ComponentKey(s[1]), 2) /\ Tuple(ComponentKey(s[n]), 2)
    BY <1>2, <2>5, ComponentKeys
  <2> QED BY <2>6, <2>7, <2>8, <2>9, OneWay
<1> QED BY <1>5, <1>6

LEMMA ClassDecided ==
    /\ \A x, y : /\ SlotRow(x) /\ SlotRow(y) /\ {x.class, y.class} \subseteq Classifications
                 /\ x.expected = y.expected /\ x.bytes = y.bytes
                 => x.class = y.class
    /\ \A x, y : /\ ComponentRow(x) /\ ComponentRow(y) /\ {x.class, y.class} \subseteq Classifications
                 /\ x.expected = y.expected /\ x.observed = y.observed
                 => x.class = y.class
BY DEF SlotRow, ComponentRow, Classifications

LEMMA QuarantineForced ==
    ASSUME NEW q, QuarantineShape(q), ReceiptAccepted("quarantine", q), NEW d \in Rewrites("quarantine", q),
           ReceiptAccepted("quarantine", d)
    PROVE  d = q
<1>1. QuarantineValid(q) /\ QuarantineValid(d)
  BY DEF ReceiptAccepted
<1>2. /\ {"head", "slots", "components", "first_unsafe", "reasons"} \subseteq DOMAIN q /\ IsFunction(q)
      /\ q.slots \in Seq(SlotSchema) /\ q.components \in Seq(ComponentSchema)
  BY DEF QuarantineShape
<1>3. ASSUME NEW values, d \in Rewritten(q, "reasons", values) PROVE d = q
  <2>1. d.head = q.head /\ d.slots = q.slots /\ d.components = q.components
    BY <1>2, <1>3, OtherFields
  <2>2. QuarantineReasons(d) = QuarantineReasons(q)
    BY <2>1 DEF QuarantineReasons
  <2>3. d.reasons = q.reasons
    BY <1>1, <2>2 DEF QuarantineValid
  <2> QED BY <1>2, <1>3, <2>3, KeptField
<1>4. ASSUME NEW values, d \in Rewritten(q, "first_unsafe", values) PROVE d = q
  <2>1. d.slots = q.slots
    BY <1>2, <1>4, OtherFields
  <2>2. d.first_unsafe = q.first_unsafe
    BY <1>1, <2>1 DEF QuarantineValid
  <2> QED BY <1>2, <1>4, <2>2, KeptField
<1>5. ASSUME d \in Rewritten(q, "components", {Reverse(q.components)}) PROVE d = q
  <2>1. d.components = Reverse(q.components)
    BY <1>2, <1>5, OtherFields
  <2>2. d.components = q.components
    BY <1>1, <2>1, ComponentsOneWay
  <2> QED BY <1>2, <1>5, <2>2, KeptField
<1>6. ASSUME d \in RowsRewritten(q, "slots", "class", Classifications) PROVE d = q
  <2>1. \A i \in DOMAIN q.slots : /\ IsFunction(q.slots[i]) /\ q.slots[i].class \in Classifications
                                  /\ {"class", "expected", "bytes"} \subseteq DOMAIN q.slots[i]
    <3> SUFFICES ASSUME NEW i \in DOMAIN q.slots
                 PROVE  /\ IsFunction(q.slots[i]) /\ q.slots[i].class \in Classifications
                        /\ {"class", "expected", "bytes"} \subseteq DOMAIN q.slots[i]
      OBVIOUS
    <3>1. PICK row \in SlotSchema : row = q.slots[i]
      BY <1>2
    <3> QED BY <3>1 DEF SlotSchema, IsFunction
  <2>2. IsFunction(q["slots"]) /\ "slots" \in DOMAIN q
    BY <1>2 DEF IsFunction
  <2>3. \A i \in DOMAIN q["slots"] : IsFunction(q["slots"][i]) /\ "class" \in DOMAIN q["slots"][i]
    BY <2>1
  <2>4. PICK i : OneRow(q, "slots", "class", d, i) /\ d["slots"][i]["class"] \in Classifications
    BY <1>2, <1>6, <2>2, <2>3, OtherRows
  <2>5. /\ i \in DOMAIN q.slots /\ i \in DOMAIN d.slots
        /\ d.slots[i].expected = q.slots[i].expected /\ d.slots[i].bytes = q.slots[i].bytes
    BY <2>1, <2>4 DEF OneRow
  <2>6. SlotRow(q.slots[i]) /\ SlotRow(d.slots[i])
    BY <1>1, <2>5 DEF QuarantineValid, ToSet
  <2>7. d.slots[i].class = q.slots[i].class
    BY <2>1, <2>4, <2>5, <2>6, ClassDecided
  <2> QED BY <2>4, <2>7 DEF OneRow
<1>7. ASSUME d \in RowsRewritten(q, "components", "class", Classifications) PROVE d = q
  <2>1. \A i \in DOMAIN q.components : /\ IsFunction(q.components[i]) /\ q.components[i].class \in Classifications
                                       /\ {"class", "expected", "observed"} \subseteq DOMAIN q.components[i]
    <3> SUFFICES ASSUME NEW i \in DOMAIN q.components
                 PROVE  /\ IsFunction(q.components[i]) /\ q.components[i].class \in Classifications
                        /\ {"class", "expected", "observed"} \subseteq DOMAIN q.components[i]
      OBVIOUS
    <3>1. PICK row \in ComponentSchema : row = q.components[i]
      BY <1>2
    <3> QED BY <3>1 DEF ComponentSchema, IsFunction
  <2>2. IsFunction(q["components"]) /\ "components" \in DOMAIN q
    BY <1>2 DEF IsFunction
  <2>3. \A i \in DOMAIN q["components"] : IsFunction(q["components"][i]) /\ "class" \in DOMAIN q["components"][i]
    BY <2>1
  <2>4. PICK i : OneRow(q, "components", "class", d, i) /\ d["components"][i]["class"] \in Classifications
    BY <1>2, <1>7, <2>2, <2>3, OtherRows
  <2>5. /\ i \in DOMAIN q.components /\ i \in DOMAIN d.components
        /\ d.components[i].expected = q.components[i].expected /\ d.components[i].observed = q.components[i].observed
    BY <2>1, <2>4 DEF OneRow
  <2>6. ComponentRow(q.components[i]) /\ ComponentRow(d.components[i])
    BY <1>1, <2>5 DEF QuarantineValid, ToSet
  <2>7. d.components[i].class = q.components[i].class
    BY <2>1, <2>4, <2>5, <2>6, ClassDecided
  <2> QED BY <2>4, <2>7 DEF OneRow
<1>8. d \in QuarantineRewrites(q)
  BY DEF Rewrites
<1> QED BY <1>3, <1>4, <1>5, <1>6, <1>7, <1>8 DEF QuarantineRewrites

-----------------------------------------------------------------------------

ProofKey(row) == <<row.reference, row.residual, row.adverse>>

LEMMA ProofsForced ==
    ASSUME NEW p, ProofsShape(p), ReceiptAccepted("proofs", p), NEW d \in Rewrites("proofs", p),
           ReceiptAccepted("proofs", d)
    PROVE  d = p
<1>1. ProofSetValid(p) /\ ProofSetValid(d)
  BY DEF ReceiptAccepted
<1>2. d \in Rewritten(p, "rows", {Reverse(p.rows), Tail(p.rows)})
  BY DEF Rewrites
<1>3. "rows" \in DOMAIN p /\ "proof_rows" \in DOMAIN p /\ IsFunction(p)
  BY DEF ProofsShape
<1>4. d.rows \in {Reverse(p.rows), Tail(p.rows)} /\ d.proof_rows = p.proof_rows
  BY <1>2, <1>3, OtherFields
<1>5. PICK s \in Seq(ProofSchema) : s = p.rows /\ s # <<>>
  BY DEF ProofsShape
<1>6. PICK n \in Nat : n = Len(s) /\ DOMAIN s = 1 .. n
  OBVIOUS
<1>7. Len(d.rows) = n
  BY <1>1, <1>4, <1>5, <1>6 DEF ProofSetValid
<1>8. d.rows # Tail(s)
  <2>1. Len(Tail(s)) = n - 1
    BY <1>5, <1>6
  <2> QED BY <1>6, <1>7, <2>1
<1>9. PICK t : t = Reverse(s) /\ d.rows = t
  BY <1>4, <1>5, <1>8
<1>10. DOMAIN t = 1 .. n /\ \A i \in 1 .. n : t[i] = s[n - i + 1]
  BY <1>6, <1>9 DEF Reverse
<1>11. CASE n <= 1
  <2>1. t = s
    BY <1>6, <1>9, <1>11, ShortReverse
  <2> QED BY <1>2, <1>3, <1>5, <1>9, <2>1, KeptField
<1>12. CASE n > 1
  <2>1. \A i \in 1 .. n : [j \in DOMAIN s |-> <<s[j].reference, s[j].residual, s[j].adverse>>][i] = ProofKey(s[i])
    BY <1>6 DEF ProofKey
  <2>2. \A i \in 1 .. n : [j \in DOMAIN t |-> <<t[j].reference, t[j].residual, t[j].adverse>>][i] = ProofKey(t[i])
    BY <1>10 DEF ProofKey
  <2>3. Increasing([j \in DOMAIN s |-> <<s[j].reference, s[j].residual, s[j].adverse>>])
    BY <1>1, <1>5 DEF ProofSetValid
  <2>4. Increasing([j \in DOMAIN t |-> <<t[j].reference, t[j].residual, t[j].adverse>>])
    BY <1>1, <1>9 DEF ProofSetValid
  <2>5. 1 \in 1 .. n /\ n \in 1 .. n /\ 1 < n
    BY <1>12
  <2>6. LexLess(ProofKey(s[1]), ProofKey(s[n]))
    BY <1>6, <2>1, <2>3, <2>5 DEF Increasing
  <2>7. LexLess(ProofKey(t[1]), ProofKey(t[n]))
    BY <1>10, <2>2, <2>4, <2>5 DEF Increasing
  <2>8. t[1] = s[n] /\ t[n] = s[1]
    <3>1. n - 1 + 1 = n /\ n - n + 1 = 1
      OBVIOUS
    <3> QED BY <1>10, <2>5, <3>1
  <2>9. \A row \in ProofSchema : Tuple(ProofKey(row), 3)
    BY DEF ProofSchema, ProofKey, Tuple
  <2>10. Tuple(ProofKey(s[1]), 3) /\ Tuple(ProofKey(s[n]), 3)
    BY <1>6, <2>5, <2>9
  <2> QED BY <2>6, <2>7, <2>8, <2>10, OneWay
<1> QED BY <1>11, <1>12

Shaped(kind, doc) ==
    /\ kind \in {"config", "closure", "proofs", "run", "model", "reconciliation", "quarantine", "measurement",
                 "benchmark"}
    /\ kind = "proofs" => ProofsShape(doc)
    /\ kind = "quarantine" => QuarantineShape(doc)
    /\ kind = "measurement" => doc.boundary \in {Null, 1}
    /\ kind = "reconciliation" => doc \in ReconciliationSchema

Drawn == receipt # Null => Shaped(receipt.kind, receipt.doc)

LEMMA QuarantineShaped ==
    ASSUME NEW j \in Journals, NEW anchored \in BOOLEAN
    PROVE  Shaped("quarantine", QuarantineReceipt(j, anchored))
<1>1. PICK q : q = QuarantineReceipt(j, anchored)
  OBVIOUS
<1>2. /\ DOMAIN q = {"head", "state", "expected", "observed", "slots", "components", "first_unsafe", "reasons"}
      /\ IsFunction(q) /\ q.slots = j.slots /\ q.components = j.components
  BY <1>1 DEF QuarantineReceipt, IsFunction
<1>3. q.slots \in Seq(SlotSchema) /\ q.components \in Seq(ComponentSchema)
  BY <1>2, JournalsAssumption
<1> QED BY <1>1, <1>2, <1>3 DEF Shaped, QuarantineShape

LEMMA MeasurementShaped ==
    ASSUME NEW t \in Timings
    PROVE  Shaped("measurement", Measurement(t))
<1>1. PICK m : m = Measurement(t)
  OBVIOUS
<1>2. m.boundary = IF t.warmup = 0 THEN Null ELSE 1
  BY <1>1 DEF Measurement
<1> QED BY <1>1, <1>2 DEF Shaped

LEMMA IssuedShaped ==
    ASSUME NEW kind, NEW doc, Issue(kind, doc), Shaped(kind, doc)
    PROVE  Drawn'
<1>1. receipt'.kind = kind /\ receipt'.doc = doc
  BY DEF Issue
<1>2. Shaped(receipt'.kind, receipt'.doc)
  BY <1>1
<1> QED BY <1>2 DEF Drawn, Shaped, ProofsShape, QuarantineShape

\* Of the other kinds nothing is needed.
LEMMA AnyShape ==
    ASSUME NEW doc
    PROVE  \A kind \in {"config", "closure", "run", "model", "benchmark"} : Shaped(kind, doc)
BY DEF Shaped

LEMMA DrawnStep == Drawn /\ [ReceiptsNext]_receiptsVars => Drawn'
<1> SUFFICES ASSUME Drawn, [ReceiptsNext]_receiptsVars PROVE Drawn'
  OBVIOUS
<1>1. ASSUME NEW kind \in {"config", "closure", "run", "model", "benchmark"}, NEW doc, Issue(kind, doc)
      PROVE  Drawn'
  <2>1. Shaped(kind, doc)
    BY AnyShape
  <2> QED BY <1>1, <2>1, IssuedShaped
<1>2. ASSUME receipt' = Null PROVE Drawn'
  BY <1>2 DEF Drawn
<1>3. CASE AdmitConfig
  <2>1. \E doc : Issue("config", doc)
    BY <1>3 DEF AdmitConfig
  <2> QED BY <1>1, <2>1
<1>4. CASE Close
  <2>1. \E doc : Issue("closure", doc)
    BY <1>4 DEF Close
  <2> QED BY <1>1, <2>1
<1>5. CASE Prove
  <2>1. PICK references \in (SUBSET (1 .. 2)) \ {{}}, residuals \in (SUBSET (1 .. 2)) \ {{}} :
           Issue("proofs", ProofSet(references, residuals, {0, 5}))
    BY <1>5 DEF Prove
  <2>2. PICK doc : doc = ProofSet(references, residuals, {0, 5})
    OBVIOUS
  <2>3. Issue("proofs", doc)
    BY <2>1, <2>2
  <2>4. doc.proof_rows <= MaxProofRows
    BY <1>5, <2>3 DEF Prove, Issue
  <2>5. ProofsShape(doc)
    BY <2>2, <2>4, ProofsAccepted
  <2>6. Shaped("proofs", doc)
    BY <2>5 DEF Shaped
  <2> QED BY <2>3, <2>6, IssuedShaped
<1>6. CASE IssueRun
  <2>1. \E doc : Issue("run", doc)
    BY <1>6 DEF IssueRun
  <2> QED BY <1>1, <2>1
<1>7. CASE ReplaceFixture \/ ReplaceSignals
  BY <1>2, <1>7 DEF ReplaceFixture, ReplaceSignals, Replace
<1>8. CASE ReplaceConfig
  <2>1. \E doc : Issue("config", doc)
    BY <1>8 DEF ReplaceConfig
  <2> QED BY <1>1, <2>1
<1>9. CASE VerifyRetained
  BY <1>2, <1>9 DEF VerifyRetained
<1>10. CASE StartRun
  BY <1>2, <1>10 DEF StartRun
<1>11. CASE ValidateSignal
  <2>1. \E doc : During("model", doc)
    BY <1>11 DEF ValidateSignal
  <2> QED BY <1>1, <2>1 DEF During
<1>12. CASE Reconcile
  <2>1. PICK r \in ReconciliationSchema : During("reconciliation", r)
    BY <1>12, ReconcileIssues
  <2>2. Issue("reconciliation", r)
    BY <2>1 DEF During
  <2>3. Shaped("reconciliation", r)
    BY <2>1 DEF Shaped
  <2> QED BY <2>2, <2>3, IssuedShaped
<1>13. CASE Quarantine
  <2>1. PICK journal \in Journals, anchored \in BOOLEAN :
           During("quarantine", QuarantineReceipt(journal, anchored))
    BY <1>13 DEF Quarantine
  <2>2. Issue("quarantine", QuarantineReceipt(journal, anchored))
    BY <2>1 DEF During
  <2> QED BY <2>2, QuarantineShaped, IssuedShaped
<1>14. CASE Measure
  <2>1. PICK t \in Timings : During("measurement", Measurement(t))
    BY <1>14 DEF Measure
  <2>2. Issue("measurement", Measurement(t))
    BY <2>1 DEF During
  <2> QED BY <2>2, MeasurementShaped, IssuedShaped
<1>15. CASE EndRepetition
  BY <1>2, <1>15 DEF EndRepetition
<1>16. CASE Benchmark
  <2>1. \E doc : Issue("benchmark", doc)
    BY <1>16 DEF Benchmark
  <2> QED BY <1>1, <2>1
<1>17. CASE UNCHANGED receiptsVars
  BY <1>17 DEF receiptsVars, Drawn, Shaped, ProofsShape, QuarantineShape
<1> QED BY <1>3, <1>4, <1>5, <1>6, <1>7, <1>8, <1>9, <1>10, <1>11, <1>12, <1>13, <1>14, <1>15, <1>16, <1>17
       DEF ReceiptsNext

\* What is left open exists for four kinds of receipts, and is accepted.
LEMMA OpenIsAccepted ==
    ASSUME NEW kind, NEW doc, ReceiptAccepted(kind, doc), NEW d, LeftOpen(kind, doc, d)
    PROVE  ReceiptAccepted(kind, d)
<1>1. kind \in {"config", "model", "reconciliation", "benchmark"}
  BY DEF LeftOpen
<1> QED BY <1>1, ConfigOpen, ModelOpen, ReconciliationOpen, BenchmarkOpen

\* Whatever else is accepted is the receipt itself.
LEMMA NothingElseIsAccepted ==
    ASSUME NEW kind, NEW doc, Shaped(kind, doc), ReceiptAccepted(kind, doc),
           NEW d \in Rewrites(kind, doc), ReceiptAccepted(kind, d)
    PROVE  d = doc \/ LeftOpen(kind, doc, d)
<1>1. CASE kind \in {"config", "model"}
  BY <1>1, ConfigForced, ModelForced
<1>2. CASE kind \in {"reconciliation", "benchmark"}
  BY <1>2, ReconciliationForced, BenchmarkForced
<1>3. CASE kind \in {"closure", "run"}
  BY <1>3, ClosureForced, RunForced
<1>4. CASE kind = "proofs"
  BY <1>4, ProofsForced DEF Shaped
<1>5. CASE kind = "quarantine"
  BY <1>5, QuarantineForced DEF Shaped
<1>6. CASE kind = "measurement"
  BY <1>6, MeasurementForced DEF Shaped
<1> QED BY <1>1, <1>2, <1>3, <1>4, <1>5, <1>6 DEF Shaped

\* A conclusion follows from the evidence it comes with (contract_semantics.py:2138-3809),
\* for every set of fixtures, configurations, signals, outcomes of checks, opinions,
\* journals and timings: of the documents that differ from a receipt in what they
\* conclude, in a count or in the order of the rows, the validators pass the receipt
\* itself, if there is one, and those that LeftOpen lists, and refuse every other.
THEOREM ConclusionsFollowEvidenceAlways == ReceiptsSpec => []ConclusionsFollowEvidence
<1>1. EveryOutcomeButOneAccepted /\ Drawn => ConclusionsFollowEvidence
  <2> SUFFICES ASSUME EveryOutcomeButOneAccepted, Drawn, receipt # Null,
                      NEW d \in Rewrites(receipt.kind, receipt.doc)
               PROVE  ReceiptAccepted(receipt.kind, d) <=>
                         \/ d = receipt.doc /\ ~Unsayable(receipt.kind, d)
                         \/ LeftOpen(receipt.kind, receipt.doc, d)
    BY DEF ConclusionsFollowEvidence
  <2>1. PICK kind, doc : kind = receipt.kind /\ doc = receipt.doc
    OBVIOUS
  <2>2. Shaped(kind, doc) /\ (ReceiptAccepted(kind, doc) <=> ~Unsayable(kind, doc)) /\ d \in Rewrites(kind, doc)
    BY <2>1 DEF EveryOutcomeButOneAccepted, Drawn
  <2>3. CASE Unsayable(kind, doc)
    <3>1. kind = "reconciliation" /\ doc \in ReconciliationSchema
      BY <2>2, <2>3 DEF Unsayable, Shaped
    <3>2. ~ReceiptAccepted(kind, d) /\ ~LeftOpen(kind, doc, d) /\ Unsayable(kind, d)
      BY <2>2, <2>3, <3>1, UnsayableStays
    <3> QED BY <2>1, <3>2
  <2>4. CASE ~Unsayable(kind, doc)
    <3>1. ReceiptAccepted(kind, doc)
      BY <2>2, <2>4
    <3>2. ReceiptAccepted(kind, d) => d = doc \/ LeftOpen(kind, doc, d)
      BY <2>2, <3>1, NothingElseIsAccepted
    <3>3. d = doc \/ LeftOpen(kind, doc, d) => ReceiptAccepted(kind, d)
      BY <3>1, OpenIsAccepted
    <3> QED BY <2>1, <2>4, <3>2, <3>3
  <2> QED BY <2>3, <2>4
<1>2. ReceiptsInit => Drawn
  BY DEF ReceiptsInit, Drawn
<1>3. ReceiptsSpec => []Drawn
  BY <1>2, DrawnStep, PTL DEF ReceiptsSpec
<1> QED BY <1>1, <1>3, EveryOutcomeButOneAcceptedAlways, PTL
=============================================================================
