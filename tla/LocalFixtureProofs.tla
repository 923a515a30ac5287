------------------------- MODULE LocalFixtureProofs -------------------------
(***************************************************************************)
(* What an admitted fixture and the receipts of a capture promise, for     *)
(* every fixture and whatever other programs write while it is read.       *)
(***************************************************************************)
EXTENDS LocalFixtureProps, FiniteSetTheorems, FunctionTheorems, WellFoundedInduction, TLAPS

\* What a capture can find wrong.
CaptureCodes ==
    {"NOT_LOCAL", "MANIFEST_MISMATCH", "RIGHTS_MISSING", "SET_NOT_CLOSED", "HASH_MISMATCH",
     "SEQUENCE_INVALID", "REVISION_CAUSALITY", "UNSAFE_PATH", "POINT_IN_TIME_MISSING"}

Payloads == Docs \cup {NoDoc}
Times == Maybe(Nat)
FileRecords ==
    [row : FileRows, payload : Maybe(Payloads), observed : Times, ingested : Times, issues : SUBSET CaptureCodes]
TermRecords == [path : Nat, digest : Maybe(Nat)]
Captures ==
    [manifest : Maybe(Manifests), rights : Maybe(RightsDocs), rights_bytes : Maybe(RightsDocs \cup {Garbled}),
     terms : Seq(TermRecords), files : Seq(FileRecords), issues : SUBSET CaptureCodes]

Ends == {"extra", "end", "admit", "done"}

TypeOK ==
    /\ writes \in Nat
    /\ job \in ({"root"} \cup Reads \cup Ends) \X Nat
    /\ captured \in Captures
    /\ \A p \in DOMAIN disk.files : EntryFits(p, disk.files[p])

\* How far the capture is, and what there is of it by then.
Progress ==
    /\ job[1] = "root" => captured.issues = {}
    /\ job[1] \in {"root", "manifest"} => captured.manifest = Null
    /\ job[1] \in {"root", "manifest", "rights"} =>
          captured.rights = Null /\ captured.rights_bytes = Null /\ captured.terms = <<>>
    /\ job[1] \in {"root", "manifest", "rights", "terms"} => captured.files = <<>>
    /\ job[1] = "terms" => captured.rights # Null /\ job[2] \in 1 .. TermCount
    /\ job[1] = "payloads" => job[2] = Len(captured.files) + 1 /\ job[2] <= RowCount
    /\ job[1] = "witnesses" => job[2] = Len(captured.files) /\ job[2] \in 1 .. RowCount
    /\ job[1] \in Ends => Len(captured.files) = RowCount

\* Manifest, rights and terms belong together unless there are issues.
DocumentsNamed ==
    /\ captured.rights # Null => captured.rights_bytes = captured.rights
    /\ captured.issues = {} /\ captured.manifest # Null =>
          /\ captured.manifest.sealed
          /\ captured.rights # Null => captured.manifest.rights = captured.rights_bytes
    /\ captured.issues = {} => \A i \in DOMAIN captured.terms :
          captured.terms[i].digest # Null =>
              \E j \in DOMAIN captured.rights.terms :
                  captured.rights.terms[j].digest \in {Null, captured.terms[i].digest}

\* The one witness there is of a row fits it.
Witnessed(d, row) ==
    \E seq \in {row.seq, -row.seq} :
        /\ On(d, <<"witnesses", seq>>).kind = "FILE"
        /\ WitnessFits(On(d, <<"witnesses", seq>>).data, row)
        /\ \A other \in {row.seq, -row.seq} :
              other # seq => On(d, <<"witnesses", other>>).kind = "NONE"

Waiting(i) == job = <<"witnesses", i>>

\* What is known of the i-th file.
FileNamed(i) ==
    LET file == captured.files[i]
        row == file.row
    IN  /\ row = captured.manifest.files[i]
        /\ row.path \notin SafePaths => file.payload = Null
        /\ Null \notin {file.observed, file.ingested} => file.observed <= file.ingested
        /\ file.issues = {} =>
              /\ file.payload = Null \/ row.digest \in {Null, file.payload}
              /\ row.path \in SafePaths /\ ValidSequence(row.seq) /\ row.slot # Null
              /\ \A j \in 1 .. i - 1 : captured.files[j].row.path # row.path
        /\ file.issues = {} /\ ~Waiting(i) =>
              /\ Null \notin {file.observed, file.ingested}
              /\ writes = 0 => Witnessed(disk, row)

FilesNamed == \A i \in DOMAIN captured.files : FileNamed(i)

Candidate(path) == \E i \in DOMAIN Candidates : Candidates[i] = path

\* What is known of the file that is open.
ReadingOK ==
    reading # Null =>
        /\ job[1] \in Reads /\ Candidate(reading.path)
        /\ reading = [path |-> reading.path, step |-> reading.step, id |-> reading.id, dir |-> reading.dir,
                      now |-> reading.now, data |-> reading.data, issues |-> reading.issues]
        /\ reading.step \in {"selected", "opened", "read"} /\ reading.issues \subseteq CaptureCodes
        /\ reading.step = "opened" => DataFits(reading.path, reading.now.data)
        /\ reading.step = "read" => DataFits(reading.path, reading.data)
        /\ writes = 0 =>
              /\ reading.step = "opened" => reading.now = EntryAt(reading.path) /\ reading.now.kind = "FILE"
              /\ reading.step = "read" =>
                    EntryAt(reading.path).kind = "FILE" /\ EntryAt(reading.path).data = reading.data
              /\ job[1] = "witnesses" /\ reading.issues = {} => \A i \in DOMAIN Candidates :
                    Candidates[i] # reading.path => EntryAt(Candidates[i]).kind = "NONE"

\* The batch is what admission makes of the capture.
Judgement ==
    job[1] = "done" =>
        batch = Batch({Judged(captured.files[i]) : i \in DOMAIN captured.files},
                      [issues |-> captured.issues, rights |-> RightsComplete,
                       biased |-> captured.manifest # Null /\ captured.manifest.biased])

Inv == TypeOK /\ Progress /\ DocumentsNamed /\ FilesNamed /\ ReadingOK /\ Judgement

-----------------------------------------------------------------------------
(* A file that is not read any further *)

\* What was read, or why it was not, when a job is finished.
Bytes(data) ==
    /\ job[1] = "manifest" => data \in Manifests \cup {Garbled}
    /\ job[1] = "rights" => data \in RightsDocs \cup {Garbled}
    /\ job[1] = "terms" => data \in Nat
    /\ job[1] = "payloads" => data \in Payloads
    /\ job[1] = "witnesses" => data \in WitnessDocs \cup {Garbled}

OnlyWitness(data, row) ==
    \E seq \in {row.seq, -row.seq} :
        /\ EntryAt(<<"witnesses", seq>>).kind = "FILE" /\ EntryAt(<<"witnesses", seq>>).data = data
        /\ \A other \in {row.seq, -row.seq} :
              other # seq => EntryAt(<<"witnesses", other>>).kind = "NONE"

Found(data, issues) ==
    /\ issues \subseteq CaptureCodes
    /\ data # Null => Bytes(data)
    /\ job[1] = "payloads" /\ CurrentRow.path \notin SafePaths => data = Null
    /\ job[1] = "witnesses" /\ issues = {} =>
          data # Null /\ (writes = 0 => OnlyWitness(data, CurrentRow))

\* The rows of the manifest, and those whose files were captured.
LEMMA Rows1 ==
    ASSUME TypeOK
    PROVE  /\ RowCount \in Nat /\ TermCount \in Nat
           /\ RowCount > 0 => captured.manifest \in Manifests /\ RowCount = Len(captured.manifest.files)
           /\ \A i \in 1 .. RowCount : captured.manifest.files[i] \in FileRows
           /\ \A i \in 1 .. TermCount :
                 captured.rights.terms[i] \in [source : Maybe(Nat), path : Nat, digest : Maybe(Nat)]
<1>1. captured.manifest \in Manifests \cup {Null} /\ captured.rights \in RightsDocs \cup {Null}
  BY DEF TypeOK, Captures, Maybe
<1>2. /\ RowCount \in Nat
      /\ RowCount > 0 => captured.manifest \in Manifests /\ RowCount = Len(captured.manifest.files)
      /\ \A i \in 1 .. RowCount : captured.manifest.files[i] \in FileRows
  <2>1. CASE captured.manifest # Null
    <3>1. captured.manifest \in Manifests /\ RowCount = Len(captured.manifest.files)
      BY <1>1, <2>1 DEF RowCount
    <3>2. captured.manifest.files \in Seq(FileRows)
      BY <3>1 DEF Manifests
    <3> QED BY <3>1, <3>2
  <2>2. CASE captured.manifest = Null
    BY <2>2 DEF RowCount
  <2> QED BY <2>1, <2>2
<1> DEFINE Requests == [source : Maybe(Nat), path : Nat, digest : Maybe(Nat)]
<1>4. TermCount \in Nat /\ \A i \in 1 .. TermCount : captured.rights.terms[i] \in Requests
  <2>1. CASE captured.rights # Null
    <3>1. captured.rights \in RightsDocs /\ TermCount = Len(captured.rights.terms)
      BY <1>1, <2>1 DEF TermCount
    <3>2. captured.rights.terms \in Seq(Requests)
      BY <3>1 DEF RightsDocs
    <3> HIDE DEF Requests
    <3> QED BY <3>1, <3>2
  <2>2. CASE captured.rights = Null
    BY <2>2 DEF TermCount
  <2> QED BY <2>1, <2>2
<1> QED BY <1>2, <1>4

LEMMA ManifestTaken ==
    ASSUME Inv, job[1] = "manifest", NEW data, NEW issues, Found(data, issues), Finish(data, issues)
    PROVE  Inv'
<1> USE DEF Inv
<1>1. /\ job' = <<"rights", 1>> /\ reading' = Null /\ UNCHANGED <<disk, writes, root, admissionVars>>
      /\ TakeManifest(data, issues)
  BY DEF Finish, After, Take
<1>2. captured \in Captures /\ captured.files = <<>> /\ captured.terms = <<>> /\ captured.rights = Null
      /\ captured.rights_bytes = Null
  BY DEF TypeOK, Progress
<1> DEFINE taken == IF data = Garbled THEN Null ELSE data
<1>3. captured' = [captured EXCEPT !.manifest = taken, !.issues = captured.issues \cup issues \cup ManifestIssues(data)]
  BY <1>1 DEF TakeManifest
<1>4. taken \in Maybe(Manifests)
  BY DEF Found, Bytes, Maybe
<1>5. ManifestIssues(data) \subseteq CaptureCodes /\ issues \subseteq CaptureCodes
  BY DEF ManifestIssues, CaptureCodes, Found
<1> HIDE DEF taken
<1>6. captured' \in Captures
  BY <1>2, <1>3, <1>4, <1>5 DEF Captures
<1>7. /\ captured'.manifest = taken /\ captured'.rights = Null /\ captured'.rights_bytes = Null
      /\ captured'.terms = <<>> /\ captured'.files = <<>>
      /\ captured'.issues = captured.issues \cup issues \cup ManifestIssues(data)
  BY <1>2, <1>3 DEF Captures
<1>8. TypeOK'
  BY <1>1, <1>6 DEF TypeOK, Reads, EntryFits, DataFits
<1>9. Progress'
  BY <1>1, <1>7 DEF Progress, Ends
<1>10. DocumentsNamed'
  <2>1. ASSUME captured'.issues = {}, taken # Null PROVE taken.sealed
    <3>1. ManifestIssues(data) = {} /\ data # Garbled /\ taken = data
      BY <1>7, <2>1 DEF taken
    <3> QED BY <2>1, <3>1 DEF ManifestIssues
  <2> QED BY <1>7, <2>1 DEF DocumentsNamed
<1>11. FilesNamed'
  BY <1>7 DEF FilesNamed
<1>12. ReadingOK' /\ Judgement'
  BY <1>1 DEF ReadingOK, Judgement
<1> QED BY <1>8, <1>9, <1>10, <1>11, <1>12

LEMMA RightsTaken ==
    ASSUME Inv, job[1] = "rights", NEW data, NEW issues, Found(data, issues), Finish(data, issues)
    PROVE  Inv'
<1> USE DEF Inv
<1> DEFINE rights == IF data = Garbled THEN Null ELSE data
           found == captured.issues \cup issues \cup RightsIssues(captured.manifest, data)
                      \cup (IF rights = Null THEN {} ELSE TermRequests(rights, SourceIds(captured.manifest)))
<1>1. /\ reading' = Null /\ UNCHANGED <<disk, writes, root, admissionVars>>
      /\ TakeRights(data, issues) /\ job' = After("rights", job[2])
  BY DEF Finish, Take
<1>2. captured \in Captures /\ captured.files = <<>> /\ captured.terms = <<>> /\ captured.rights = Null
      /\ captured.rights_bytes = Null /\ job[2] \in Nat
  BY DEF TypeOK, Progress
<1>3. captured' = [captured EXCEPT !.rights = rights, !.rights_bytes = data, !.issues = found]
  BY <1>1, Zenon DEF TakeRights
<1>4. rights \in Maybe(RightsDocs) /\ data \in Maybe(RightsDocs \cup {Garbled})
  BY DEF Found, Bytes, Maybe
<1>5. found \subseteq CaptureCodes
  <2>1. captured.issues \subseteq CaptureCodes /\ issues \subseteq CaptureCodes
    BY <1>2 DEF Captures, Found
  <2>2. RightsIssues(captured.manifest, data) \subseteq CaptureCodes
    BY DEF RightsIssues, CaptureCodes
  <2>3. TermRequests(rights, SourceIds(captured.manifest)) \subseteq CaptureCodes
    BY DEF TermRequests, CaptureCodes
  <2> QED BY <2>1, <2>2, <2>3
<1>6. RightsIssues(captured.manifest, data) \subseteq found
  OBVIOUS
<1>7. captured.issues \subseteq found
  OBVIOUS
<1>8. data # Garbled => rights = data
  OBVIOUS
<1>9. rights # Null => rights = data
  OBVIOUS
<1> HIDE DEF rights, found
<1>10. captured' \in Captures
  BY <1>2, <1>3, <1>4, <1>5 DEF Captures
<1>11. /\ captured'.manifest = captured.manifest /\ captured'.rights = rights
       /\ captured'.rights_bytes = data /\ captured'.terms = <<>> /\ captured'.files = <<>>
       /\ captured'.issues = found
  BY <1>2, <1>3 DEF Captures
<1>12. RowCount' = RowCount /\ RowCount \in Nat
  BY <1>11, Rows1 DEF RowCount
<1>13. \/ job' = <<"terms", 1>> /\ rights # Null /\ 1 \in 1 .. TermCount'
       \/ job' = <<"payloads", 1>> /\ 1 <= RowCount
       \/ job' = <<"extra", 1>> /\ RowCount = 0
  <2>1. CASE 1 <= TermCount'
    <3>1. job' = <<"terms", 1>>
      BY <1>1, <2>1 DEF After
    <3>2. rights # Null
      BY <1>11, <2>1 DEF TermCount
    <3>3. rights.terms \in Seq([source : Maybe(Nat), path : Nat, digest : Maybe(Nat)])
      BY <1>4, <3>2 DEF Maybe, RightsDocs
    <3>4. TermCount' = Len(rights.terms) /\ TermCount' \in Nat
      BY <1>11, <3>2, <3>3 DEF TermCount
    <3> QED BY <2>1, <3>1, <3>2, <3>4
  <2>2. CASE ~(1 <= TermCount')
    <3>1. job' = IF 1 <= RowCount THEN <<"payloads", 1>> ELSE <<"extra", 1>>
      BY <1>1, <2>2 DEF After
    <3> QED BY <3>1, <1>12
  <2> QED BY <2>1, <2>2
<1>14. TypeOK'
  BY <1>1, <1>10, <1>13 DEF TypeOK, Reads, Ends, EntryFits, DataFits
<1>15. Progress'
  BY <1>11, <1>12, <1>13 DEF Progress, Ends
<1>16. DocumentsNamed'
  <2>1. ASSUME found = {}, captured.manifest # Null
        PROVE  captured.manifest.sealed /\ (rights # Null => captured.manifest.rights = data)
    <3>1. captured.manifest.sealed
      BY <1>7, <2>1 DEF DocumentsNamed
    <3>2. ASSUME rights # Null PROVE captured.manifest.rights = data
      <4>1. data # Null
        BY <1>9, <3>2
      <4>2. {c \in {"MANIFEST_MISMATCH"} : captured.manifest # Null /\ data # Null
                                              /\ captured.manifest.rights # data} = {}
        BY <1>6, <2>1 DEF RightsIssues
      <4> QED BY <4>1, <4>2, <2>1
    <3> QED BY <3>1, <3>2
  <2> QED BY <1>9, <1>11, <2>1 DEF DocumentsNamed
<1>17. FilesNamed'
  BY <1>11 DEF FilesNamed
<1>18. ReadingOK' /\ Judgement'
  BY <1>1, <1>13 DEF ReadingOK, Judgement
<1> QED BY <1>14, <1>15, <1>16, <1>17, <1>18

LEMMA TermsTaken ==
    ASSUME Inv, job[1] = "terms", NEW data, NEW issues, Found(data, issues), Finish(data, issues)
    PROVE  Inv'
<1> USE DEF Inv
<1> DEFINE request == captured.rights.terms[job[2]]
           wrong == {c \in {"RIGHTS_MISSING"} : data # Null /\ request.digest \notin {Null, data}}
           term == [path |-> request.path, digest |-> data]
           found == captured.issues \cup issues \cup wrong
<1>1. /\ reading' = Null /\ UNCHANGED <<disk, writes, root, admissionVars>>
      /\ TakeTerms(data, issues) /\ job' = After("terms", job[2])
  BY DEF Finish, Take
<1>2. /\ captured \in Captures /\ captured.files = <<>> /\ captured.rights # Null
      /\ job[2] \in 1 .. TermCount /\ job[2] \in Nat
  BY DEF TypeOK, Progress
<1>3. captured' = [captured EXCEPT !.issues = found, !.terms = Append(captured.terms, term)]
  BY <1>1, Zenon DEF TakeTerms
<1>4. captured.rights \in RightsDocs /\ captured.rights.terms \in Seq([source : Maybe(Nat), path : Nat, digest : Maybe(Nat)])
  BY <1>2 DEF Captures, Maybe, RightsDocs
<1>5. /\ request \in [source : Maybe(Nat), path : Nat, digest : Maybe(Nat)]
      /\ job[2] \in DOMAIN captured.rights.terms
  <2>1. TermCount = Len(captured.rights.terms)
    BY <1>2 DEF TermCount
  <2> DEFINE Requests == [source : Maybe(Nat), path : Nat, digest : Maybe(Nat)]
  <2>2. PICK n, t : n = job[2] /\ t = captured.rights.terms
    OBVIOUS
  <2>3. t \in Seq(Requests) /\ n \in 1 .. Len(t)
    BY <1>2, <1>4, <2>1, <2>2
  <2>4. t[n] \in Requests /\ n \in DOMAIN t
    <3> HIDE DEF Requests
    <3> QED BY <2>3
  <2> QED BY <2>2, <2>4
<1>6. term \in TermRecords
  BY <1>5 DEF TermRecords, Found, Bytes, Maybe
<1>7. found \subseteq CaptureCodes
  BY <1>2 DEF Captures, Found, CaptureCodes
<1>8. found = {} => captured.issues = {} /\ wrong = {}
  OBVIOUS
<1>9. wrong = {} /\ data # Null => request.digest \in {Null, data}
  OBVIOUS
<1>10. term.digest = data
  OBVIOUS
<1> HIDE DEF term, found, wrong
<1>11. captured' \in Captures
  <2>1. Append(captured.terms, term) \in Seq(TermRecords)
    BY <1>2, <1>6 DEF Captures
  <2> QED BY <1>2, <1>3, <1>7, <2>1 DEF Captures
<1>12. /\ captured'.manifest = captured.manifest /\ captured'.rights = captured.rights
       /\ captured'.rights_bytes = captured.rights_bytes /\ captured'.files = <<>>
       /\ captured'.terms = Append(captured.terms, term) /\ captured'.issues = found
  BY <1>2, <1>3 DEF Captures
<1>13. RowCount' = RowCount /\ RowCount \in Nat /\ TermCount' = TermCount /\ TermCount \in Nat
  BY <1>12, Rows1 DEF RowCount, TermCount
<1>14. \/ job' = <<"terms", job[2] + 1>> /\ job[2] + 1 \in 1 .. TermCount'
       \/ job' = <<"payloads", 1>> /\ 1 <= RowCount
       \/ job' = <<"extra", 1>> /\ RowCount = 0
  <2>1. CASE job[2] + 1 <= TermCount'
    <3>1. job' = <<"terms", job[2] + 1>>
      BY <1>1, <2>1 DEF After
    <3> QED BY <1>2, <1>13, <2>1, <3>1
  <2>2. CASE ~(job[2] + 1 <= TermCount')
    <3>1. job' = IF 1 <= RowCount THEN <<"payloads", 1>> ELSE <<"extra", 1>>
      BY <1>1, <2>2 DEF After
    <3> QED BY <3>1, <1>13
  <2> QED BY <2>1, <2>2
<1>15. TypeOK'
  BY <1>1, <1>2, <1>11, <1>14 DEF TypeOK, Reads, Ends, EntryFits, DataFits
<1>16. Progress'
  BY <1>2, <1>12, <1>13, <1>14 DEF Progress, Ends
<1>17. DocumentsNamed'
  <2>1. ASSUME found = {}, NEW i \in DOMAIN captured'.terms, captured'.terms[i].digest # Null
        PROVE  \E j \in DOMAIN captured.rights.terms :
                   captured.rights.terms[j].digest \in {Null, captured'.terms[i].digest}
    <3>1. captured.terms \in Seq(TermRecords)
      BY <1>2 DEF Captures
    <3>2. CASE i = Len(captured.terms) + 1
      <4>1. captured'.terms[i] = term
        BY <1>12, <3>1, <3>2
      <4> QED BY <1>5, <1>8, <1>9, <1>10, <2>1, <4>1
    <3>3. CASE i # Len(captured.terms) + 1
      <4>1. i \in DOMAIN captured.terms /\ captured'.terms[i] = captured.terms[i]
        BY <1>12, <3>1, <3>3
      <4> QED BY <1>8, <2>1, <4>1 DEF DocumentsNamed
    <3> QED BY <3>2, <3>3
  <2>2. found = {} => captured.issues = {}
    BY <1>8
  <2> QED BY <1>12, <2>1, <2>2 DEF DocumentsNamed
<1>18. FilesNamed'
  BY <1>12 DEF FilesNamed
<1>19. ReadingOK' /\ Judgement'
  BY <1>1, <1>14 DEF ReadingOK, Judgement
<1> QED BY <1>15, <1>16, <1>17, <1>18, <1>19

LEMMA PayloadTaken ==
    ASSUME Inv, job[1] = "payloads", NEW data, NEW issues, Found(data, issues), Finish(data, issues)
    PROVE  Inv'
<1> USE DEF Inv
<1> DEFINE row == CurrentRow
           wrong == {c \in {"HASH_MISMATCH"} : data # Null /\ row.digest \notin {Null, data}}
           found == issues \cup wrong \cup RowIssues(row, captured.files)
           file == [row |-> row, payload |-> data, observed |-> Null, ingested |-> Null, issues |-> found]
<1>0. PICK n : n = Len(captured.files) + 1
  OBVIOUS
<1>1. /\ reading' = Null /\ UNCHANGED <<disk, writes, root, admissionVars>>
      /\ TakePayload(data, issues) /\ job' = <<"witnesses", job[2]>>
  BY DEF Finish, Take, After
<1>2. /\ captured \in Captures /\ captured.files \in Seq(FileRecords)
      /\ job = <<"payloads", n>> /\ n \in 1 .. RowCount /\ n \in Nat
  BY Rows1, <1>0 DEF TypeOK, Progress, Captures
<1>3. captured' = [captured EXCEPT !.files = Append(captured.files, file)]
  BY <1>1, Zenon DEF TakePayload
<1>4. row \in FileRows /\ row = captured.manifest.files[n]
  BY <1>2, Rows1 DEF CurrentRow
<1>5. file \in FileRecords
  <2>1. found \subseteq CaptureCodes
    BY DEF Found, CaptureCodes, RowIssues
  <2>2. data \in Maybe(Payloads)
    BY DEF Found, Bytes, Maybe
  <2> HIDE DEF found, row
  <2> QED BY <1>4, <2>1, <2>2 DEF FileRecords, Maybe, Times
<1>6. row.path \notin SafePaths => data = Null
  BY DEF Found
<1>7. ASSUME found = {}
      PROVE  /\ data = Null \/ row.digest \in {Null, data}
             /\ row.path \in SafePaths /\ ValidSequence(row.seq) /\ row.slot # Null
             /\ \A j \in 1 .. n - 1 : captured.files[j].row.path # row.path
  <2>1. wrong = {} /\ RowIssues(row, captured.files) = {}
    BY <1>7
  <2>2. row.path \in SafePaths /\ ValidSequence(row.seq) /\ row.slot # Null /\ row.path # Null
    BY <2>1 DEF RowIssues
  <2>3. ~\E i \in DOMAIN captured.files : captured.files[i].row.path = row.path
    BY <2>1, <2>2 DEF RowIssues
  <2>4. DOMAIN captured.files = 1 .. n - 1
    BY <1>0, <1>2
  <2>5. data = Null \/ row.digest \in {Null, data}
    BY <2>1
  <2> QED BY <2>2, <2>3, <2>4, <2>5
<1>8. /\ file.row = row /\ file.payload = data /\ file.observed = Null /\ file.issues = found
  OBVIOUS
<1> HIDE DEF file, found, row, wrong
<1>9. captured' \in Captures
  <2>1. Append(captured.files, file) \in Seq(FileRecords)
    BY <1>2, <1>5
  <2> QED BY <1>2, <1>3, <2>1 DEF Captures
<1>10. /\ captured'.manifest = captured.manifest /\ captured'.rights = captured.rights
       /\ captured'.rights_bytes = captured.rights_bytes /\ captured'.terms = captured.terms
       /\ captured'.files = Append(captured.files, file) /\ captured'.issues = captured.issues
  BY <1>2, <1>3 DEF Captures
<1>11. Len(captured'.files) = n /\ DOMAIN captured'.files = 1 .. n
       /\ captured'.files[n] = file /\ \A i \in 1 .. n - 1 : captured'.files[i] = captured.files[i]
  BY <1>0, <1>2, <1>5, <1>10
<1>12. RowCount' = RowCount /\ RowCount \in Nat /\ TermCount' = TermCount
  BY <1>10, Rows1 DEF RowCount, TermCount
<1>13. job' = <<"witnesses", n>>
  BY <1>1, <1>2
<1>14. TypeOK'
  BY <1>1, <1>2, <1>9, <1>13 DEF TypeOK, Reads, EntryFits, DataFits
<1>15. Progress'
  BY <1>2, <1>11, <1>12, <1>13 DEF Progress, Ends
<1>16. DocumentsNamed'
  BY <1>10 DEF DocumentsNamed
<1>17. FilesNamed'
  <2>1. FileNamed(n)'
    BY <1>4, <1>6, <1>7, <1>8, <1>10, <1>11, <1>13 DEF FileNamed, Waiting
  <2>2. ASSUME NEW i \in 1 .. n - 1 PROVE FileNamed(i)'
    <3>1. FileNamed(i) /\ ~Waiting(i)
      BY <1>0, <1>2 DEF FilesNamed, Waiting
    <3>2. \A j \in 1 .. i - 1 : captured'.files[j] = captured.files[j]
      BY <1>2, <1>11
    <3> QED BY <1>1, <1>10, <1>11, <3>1, <3>2 DEF FileNamed
  <2> QED BY <1>2, <1>11, <2>1, <2>2 DEF FilesNamed
<1>18. ReadingOK' /\ Judgement'
  BY <1>1, <1>13 DEF ReadingOK, Judgement
<1> QED BY <1>14, <1>15, <1>16, <1>17, <1>18

\* What a witness adds to its file.
LEMMA WitnessAdds ==
    ASSUME NEW file \in FileRecords, NEW data \in Maybe(WitnessDocs \cup {Garbled}),
           NEW issues \in SUBSET CaptureCodes, NEW taken, taken = WithWitness(file, data, issues)
    PROVE  /\ taken \in FileRecords /\ taken.row = file.row /\ taken.payload = file.payload
           /\ file.issues \cup issues \subseteq taken.issues
           /\ Null \notin {taken.observed, taken.ingested} => taken.observed <= taken.ingested
           /\ taken.issues = {} /\ data # Null =>
                 Null \notin {taken.observed, taken.ingested} /\ WitnessFits(data, file.row)
<1> DEFINE record == data \notin {Null, Garbled}
           times == IF record THEN {data.observed, data.ingested} ELSE {}
           late == record /\ Null \notin times /\ data.ingested < data.observed
           untimely == {c \in {"POINT_IN_TIME_MISSING"} : data = Garbled \/ Null \in times \/ late}
           unfit == {c \in {"MANIFEST_MISMATCH"} : record /\ ~WitnessFits(data, file.row)}
           found == file.issues \cup issues \cup untimely \cup unfit
           observed == IF record THEN data.observed ELSE Null
           ingested == IF record /\ ~late THEN data.ingested ELSE Null
<1>1. taken = [file EXCEPT !.issues = found, !.observed = observed, !.ingested = ingested]
  BY Zenon DEF WithWitness
<1>2. record => data.observed \in Maybe(Nat) /\ data.ingested \in Maybe(Nat)
  BY DEF Maybe, WitnessDocs
<1>3. observed \in Times /\ ingested \in Times
  BY <1>2 DEF Times, Maybe
<1>4. found \subseteq CaptureCodes
  BY DEF FileRecords, CaptureCodes
<1>5. Null \notin {observed, ingested} => observed <= ingested
  <2> SUFFICES ASSUME Null \notin {observed, ingested} PROVE observed <= ingested
    OBVIOUS
  <2>1. record /\ ~late /\ observed = data.observed /\ ingested = data.ingested
    OBVIOUS
  <2>2. data.observed \in Nat /\ data.ingested \in Nat
    BY <1>2, <2>1 DEF Maybe
  <2>3. ~(data.ingested < data.observed)
    BY <2>1
  <2> QED BY <2>1, <2>2, <2>3
<1>6. file.issues \cup issues \subseteq found
  OBVIOUS
<1>7. found = {} /\ data # Null => Null \notin {observed, ingested} /\ WitnessFits(data, file.row)
  <2> SUFFICES ASSUME found = {}, data # Null
               PROVE  Null \notin {observed, ingested} /\ WitnessFits(data, file.row)
    OBVIOUS
  <2>1. untimely = {} /\ unfit = {}
    OBVIOUS
  <2>2. record /\ ~late /\ Null \notin {data.observed, data.ingested}
    BY <2>1
  <2>3. WitnessFits(data, file.row)
    BY <2>1, <2>2
  <2> QED BY <2>2, <2>3
<1> HIDE DEF found, observed, ingested
<1>8. /\ taken \in FileRecords /\ taken.row = file.row /\ taken.payload = file.payload
      /\ taken.issues = found /\ taken.observed = observed /\ taken.ingested = ingested
  BY <1>1, <1>3, <1>4 DEF FileRecords
<1> QED BY <1>5, <1>6, <1>7, <1>8

LEMMA WitnessTaken ==
    ASSUME Inv, job[1] = "witnesses", NEW data, NEW issues, Found(data, issues), Finish(data, issues)
    PROVE  Inv'
<1> USE DEF Inv
<1>0. PICK n : n = Len(captured.files)
  OBVIOUS
<1>1. /\ reading' = Null /\ UNCHANGED <<disk, writes, root, admissionVars>>
      /\ TakeWitness(data, issues) /\ job' = After("witnesses", job[2])
  BY DEF Finish, Take
<1>2. /\ captured \in Captures /\ captured.files \in Seq(FileRecords)
      /\ job = <<"witnesses", n>> /\ n \in 1 .. RowCount /\ n \in 1 .. Len(captured.files) /\ n \in Nat
  BY <1>0, Rows1 DEF TypeOK, Progress, Captures
<1>3. PICK file : file = captured.files[n]
  OBVIOUS
<1>4. file \in FileRecords /\ file.row = CurrentRow /\ FileNamed(n)
  BY <1>2, <1>3 DEF CurrentRow, FilesNamed, FileNamed
<1>5. PICK taken : taken = WithWitness(file, data, issues)
  OBVIOUS
<1>6. data \in Maybe(WitnessDocs \cup {Garbled}) /\ issues \in SUBSET CaptureCodes
  BY DEF Found, Bytes, Maybe
<1>7. /\ taken \in FileRecords /\ taken.row = file.row /\ taken.payload = file.payload
      /\ file.issues \cup issues \subseteq taken.issues
      /\ Null \notin {taken.observed, taken.ingested} => taken.observed <= taken.ingested
      /\ taken.issues = {} /\ data # Null =>
            Null \notin {taken.observed, taken.ingested} /\ WitnessFits(data, file.row)
  BY <1>4, <1>5, <1>6, WitnessAdds
<1>8. captured' = [captured EXCEPT !.files = [captured.files EXCEPT ![n] = taken]]
  <2>1. job[2] = n
    BY <1>2
  <2>2. captured' = [captured EXCEPT !.files[n] = WithWitness(captured.files[n], data, issues)]
    BY <1>1, <2>1, Zenon DEF TakeWitness
  <2> QED BY <1>2, <1>3, <1>5, <2>2
<1>9. captured' \in Captures
  <2>1. [captured.files EXCEPT ![n] = taken] \in Seq(FileRecords)
    BY <1>2, <1>7
  <2> QED BY <1>2, <1>8, <2>1 DEF Captures
<1>10. /\ captured'.manifest = captured.manifest /\ captured'.rights = captured.rights
       /\ captured'.rights_bytes = captured.rights_bytes /\ captured'.terms = captured.terms
       /\ captured'.files = [captured.files EXCEPT ![n] = taken] /\ captured'.issues = captured.issues
  BY <1>2, <1>8 DEF Captures
<1>11. /\ Len(captured'.files) = n /\ DOMAIN captured'.files = 1 .. n
       /\ captured'.files[n] = taken /\ \A i \in 1 .. n - 1 : captured'.files[i] = captured.files[i]
  BY <1>0, <1>2, <1>7, <1>10
<1>12. RowCount' = RowCount /\ RowCount \in Nat /\ TermCount' = TermCount
  BY <1>10, Rows1 DEF RowCount, TermCount
<1>13. \/ job' = <<"payloads", n + 1>> /\ n + 1 <= RowCount
       \/ job' = <<"extra", 1>> /\ RowCount = n
  <2>1. job' = IF n + 1 <= RowCount THEN <<"payloads", n + 1>> ELSE <<"extra", 1>>
    BY <1>1, <1>2 DEF After
  <2> QED BY <1>2, <1>12, <2>1
<1>14. TypeOK'
  BY <1>1, <1>2, <1>9, <1>13 DEF TypeOK, Reads, Ends, EntryFits, DataFits
<1>15. Progress'
  BY <1>2, <1>11, <1>12, <1>13 DEF Progress, Ends
<1>16. DocumentsNamed'
  BY <1>10 DEF DocumentsNamed
<1>17. FilesNamed'
  <2>1. \A j \in 1 .. n : captured'.files[j].row = captured.files[j].row
    BY <1>3, <1>7, <1>11
  <2>2. FileNamed(n)'
    <3>1. taken.issues = {} => file.issues = {} /\ issues = {} /\ data # Null
      BY <1>2, <1>7 DEF Found
    <3>2. taken.issues = {} /\ writes = 0 => Witnessed(disk, file.row)
      <4> SUFFICES ASSUME taken.issues = {}, writes = 0 PROVE Witnessed(disk, file.row)
        OBVIOUS
      <4>1. OnlyWitness(data, file.row) /\ WitnessFits(data, file.row)
        BY <1>2, <1>4, <1>7, <3>1 DEF Found
      <4> QED BY <4>1 DEF OnlyWitness, Witnessed, EntryAt, On
    <3> QED BY <1>1, <1>2, <1>3, <1>4, <1>7, <1>10, <1>11, <2>1, <3>1, <3>2 DEF FileNamed
  <2>3. ASSUME NEW i \in 1 .. n - 1 PROVE FileNamed(i)'
    <3>1. FileNamed(i) /\ ~Waiting(i)
      BY <1>0, <1>2 DEF FilesNamed, Waiting
    <3>2. \A j \in 1 .. i - 1 : captured'.files[j] = captured.files[j]
      BY <1>2, <1>11
    <3> QED BY <1>1, <1>10, <1>11, <3>1, <3>2 DEF FileNamed
  <2> QED BY <1>2, <1>11, <2>2, <2>3 DEF FilesNamed
<1>18. ReadingOK' /\ Judgement'
  BY <1>1, <1>13 DEF ReadingOK, Judgement
<1> QED BY <1>14, <1>15, <1>16, <1>17, <1>18

LEMMA FinishKeeps ==
    ASSUME Inv, job[1] \in Reads, NEW data, NEW issues, Found(data, issues), Finish(data, issues)
    PROVE  Inv'
BY ManifestTaken, RightsTaken, TermsTaken, PayloadTaken, WitnessTaken DEF Reads

-----------------------------------------------------------------------------
(* One file, call by call *)

\* Some number of a set of them is the least.
LEMMA Least ==
    ASSUME NEW S, S \subseteq Nat, S # {}
    PROVE  Min(S) \in S /\ \A y \in S : Min(S) <= y
<1>1. PICK x \in S : \A y \in S : ~(<<y, x>> \in OpToRel(<, Nat))
  BY WFMin, NatLessThanWellFounded
<1>2. \A y \in S : ~(y < x)
  BY <1>1 DEF OpToRel
<1>3. \A y \in S : x <= y
  BY <1>2
<1> QED BY <1>3 DEF Min

\* Where the current job looks.
LEMMA CandidatesAre ==
    ASSUME Inv, job[1] \in Reads
    PROVE  /\ job[1] \in {"manifest", "rights"} =>
                 /\ \A i \in DOMAIN Candidates : Candidates[i] \in Range(Layout[job[1]])
                 /\ Candidates # <<>>
           /\ job[1] = "terms" => /\ Candidates # <<>>
                                  /\ \A i \in DOMAIN Candidates : Candidates[i][1] = "terms"
           /\ job[1] = "payloads" => \A i \in DOMAIN Candidates :
                 Candidates[i][1] = "payloads" /\ CurrentRow.path \in SafePaths
           /\ job[1] = "witnesses" =>
                 /\ Candidates = <<>> => ~ValidSequence(CurrentRow.seq)
                 /\ Candidates # <<>> =>
                       Candidates = <<(<<"witnesses", CurrentRow.seq>>), (<<"witnesses", -CurrentRow.seq>>)>>
           /\ Candidates # <<>> => 1 \in DOMAIN Candidates /\ DOMAIN Candidates \subseteq Nat
<1> USE DEF Inv
<1>1. CASE job[1] \in {"manifest", "rights"}
  <2>1. PICK l : l = Layout[job[1]]
    OBVIOUS
  <2>2. Candidates = l
    BY <1>1, <2>1 DEF Candidates
  <2>3. l \in Seq(Range(l)) /\ l # <<>>
    BY <1>1, <2>1, FixtureAssumption
  <2>4. PICK R : R = Range(l)
    OBVIOUS
  <2>5. l \in Seq(R)
    BY <2>3, <2>4
  <2>6. 1 \in DOMAIN l /\ DOMAIN l \subseteq Nat /\ \A i \in DOMAIN l : l[i] \in R
    BY <2>3, <2>5
  <2> QED BY <1>1, <2>1, <2>2, <2>3, <2>4, <2>6
<1>2. CASE job[1] = "terms"
  <2>1. Candidates = <<(<<"terms", captured.rights.terms[job[2]].path>>)>>
    BY <1>2 DEF Candidates
  <2>2. PICK p : p = <<"terms", captured.rights.terms[job[2]].path>>
    OBVIOUS
  <2>3. Candidates = <<p>> /\ p[1] = "terms"
    BY <2>1, <2>2
  <2> QED BY <1>2, <2>3
<1>3. CASE job[1] = "payloads"
  <2>1. Candidates = IF CurrentRow.path \in SafePaths THEN <<(<<"payloads", CurrentRow.path>>)>> ELSE <<>>
    BY <1>3 DEF Candidates
  <2>2. PICK p : p = <<"payloads", CurrentRow.path>>
    OBVIOUS
  <2>3. Candidates = IF CurrentRow.path \in SafePaths THEN <<p>> ELSE <<>>
    BY <2>1, <2>2
  <2>4. p[1] = "payloads"
    BY <2>2
  <2> QED BY <1>3, <2>3, <2>4
<1>4. CASE job[1] = "witnesses"
  <2>1. Candidates = IF ValidSequence(CurrentRow.seq)
                     THEN <<(<<"witnesses", CurrentRow.seq>>), (<<"witnesses", -CurrentRow.seq>>)>> ELSE <<>>
    BY <1>4 DEF Candidates
  <2> QED BY <1>4, <2>1
<1> QED BY <1>1, <1>2, <1>3, <1>4 DEF Reads

\* What is read where the job looks is what the job looks for.
LEMMA BytesFit ==
    ASSUME Inv, job[1] \in Reads, NEW path, Candidate(path), NEW data, DataFits(path, data)
    PROVE  Bytes(data) /\ data # Null /\ (job[1] = "payloads" => CurrentRow.path \in SafePaths)
<1>1. PICK i \in DOMAIN Candidates : Candidates[i] = path
  BY DEF Candidate
<1>2. Bytes(data) /\ (job[1] = "payloads" => CurrentRow.path \in SafePaths)
  <2>1. CASE job[1] \in {"manifest", "rights"}
    <3>1. path \in Range(Layout[job[1]])
      BY <1>1, <2>1, CandidatesAre
    <3> QED BY <2>1, <3>1 DEF Bytes, DataFits
  <2>2. CASE job[1] = "terms"
    BY <1>1, <2>2, CandidatesAre DEF Bytes, DataFits
  <2>3. CASE job[1] = "payloads"
    BY <1>1, <2>3, CandidatesAre DEF Bytes, DataFits, Payloads
  <2>4. CASE job[1] = "witnesses"
    <3>1. Candidates = <<(<<"witnesses", CurrentRow.seq>>), (<<"witnesses", -CurrentRow.seq>>)>>
      BY <1>1, <2>4, CandidatesAre
    <3>2. path[1] = "witnesses"
      BY <1>1, <3>1
    <3> QED BY <2>4, <3>2 DEF Bytes, DataFits
  <2> QED BY <2>1, <2>2, <2>3, <2>4 DEF Reads
<1>3. data # Null
  BY <1>2, FixtureAssumption DEF Bytes, Reads, Payloads
<1> QED BY <1>2, <1>3

\* A step that only looks.
LEMMA LookingKeeps ==
    ASSUME Inv, ReadingOK', UNCHANGED <<disk, writes, root, job, captured, admissionVars>>
    PROVE  Inv'
<1> USE DEF Inv
<1>1. TypeOK' /\ Progress' /\ DocumentsNamed'
  BY DEF TypeOK, Progress, DocumentsNamed, RowCount, TermCount, EntryFits, DataFits
<1>2. FilesNamed'
  BY DEF FilesNamed, FileNamed, Waiting
<1>3. Judgement'
  BY DEF Judgement, RightsComplete, SelectedTerms, RightsField, Judged, admissionVars
<1> QED BY <1>1, <1>2, <1>3

LEMMA SameCandidates ==
    ASSUME UNCHANGED <<job, captured>>
    PROVE  Candidates' = Candidates
BY DEF Candidates, CurrentRow

LEMMA SkipKeeps == ASSUME Inv, SkipUnnamed PROVE Inv'
<1> DEFINE issues == {c \in {"SEQUENCE_INVALID"} : job[1] = "witnesses"}
<1>1. job[1] \in Reads /\ Candidates = <<>> /\ Finish(Null, issues)
  BY DEF SkipUnnamed
<1>2. issues \subseteq CaptureCodes /\ (job[1] = "witnesses" => issues # {})
  BY DEF CaptureCodes
<1> HIDE DEF issues
<1>3. Found(Null, issues)
  BY <1>2 DEF Found
<1> QED BY <1>1, <1>3, FinishKeeps

\* The first of the places where something is, or the first of all.
LEMMA FirstThere ==
    ASSUME Inv, job[1] \in Reads, Candidates # <<>>, NEW there, there \subseteq DOMAIN Candidates,
           NEW first, first = IF there = {} THEN 1 ELSE Min(there)
    PROVE  first \in DOMAIN Candidates /\ (there # {} => first \in there)
<1>1. 1 \in DOMAIN Candidates /\ DOMAIN Candidates \subseteq Nat
  BY CandidatesAre
<1>2. CASE there = {}
  BY <1>1, <1>2
<1>3. CASE there # {}
  BY <1>1, <1>3, Least
<1> QED BY <1>2, <1>3

LEMMA SelectKeeps == ASSUME Inv, SelectLayoutPath PROVE Inv'
<1> DEFINE there == {i \in DOMAIN Candidates : EntryAt(Candidates[i]).kind # "NONE"}
           first == IF there = {} THEN 1 ELSE Min(there)
           issues == {c \in {"SET_NOT_CLOSED"} : Cardinality(there) > 1}
<1>1. /\ job[1] \in Reads /\ Candidates # <<>>
      /\ reading' = [path |-> Candidates[first], step |-> "selected", id |-> 0, dir |-> Null,
                     now |-> NoEntry, data |-> Null, issues |-> issues]
      /\ UNCHANGED <<disk, writes, root, job, captured, admissionVars>>
  BY DEF SelectLayoutPath
<1>2. first \in DOMAIN Candidates /\ (there # {} => first \in there)
  <2>1. there \subseteq DOMAIN Candidates
    OBVIOUS
  <2> HIDE DEF there
  <2> QED BY <1>1, <2>1, FirstThere
<1>3. issues \subseteq CaptureCodes
  BY DEF CaptureCodes
<1>4. ASSUME job[1] = "witnesses", issues = {}, NEW i \in DOMAIN Candidates, Candidates[i] # Candidates[first]
      PROVE  EntryAt(Candidates[i]).kind = "NONE"
  <2> SUFFICES ASSUME EntryAt(Candidates[i]).kind # "NONE" PROVE FALSE
    OBVIOUS
  <2>1. i \in there /\ first \in there /\ i # first
    BY <1>2, <1>4
  <2>2. ~(Cardinality(there) > 1)
    BY <1>4
  <2>3. there \subseteq 1 .. 2
    <3>1. DOMAIN Candidates = 1 .. 2
      BY <1>1, <1>4, CandidatesAre
    <3> QED BY <3>1
  <2> HIDE DEF there, first, issues
  <2>4. IsFiniteSet(1 .. 2)
    <3>1. 1 \in Int /\ 2 \in Int
      OBVIOUS
    <3> QED BY <3>1, FS_Interval, Zenon
  <2>5. IsFiniteSet(there) /\ Cardinality(there) \in Nat
    BY <2>3, <2>4, FS_Subset, FS_CardinalityType
  <2>6. IsFiniteSet(there \ {i}) /\ Cardinality(there \ {i}) = Cardinality(there) - 1
    BY <2>1, <2>5, FS_RemoveElement
  <2>7. Cardinality(there \ {i}) = 0
    BY <2>2, <2>5, <2>6, FS_CardinalityType
  <2>8. there \ {i} = {}
    BY <2>6, <2>7, FS_EmptySet
  <2> QED BY <2>1, <2>8
<1> HIDE DEF there, first, issues
<1>5. ReadingOK'
  <2>1. Candidates' = Candidates
    BY <1>1, SameCandidates
  <2>2. EntryAt(reading.path)' = EntryAt(Candidates[first])
    BY <1>1 DEF EntryAt
  <2>3. \A i \in DOMAIN Candidates : EntryAt(Candidates[i])' = EntryAt(Candidates[i])
    BY <1>1, <2>1 DEF EntryAt
  <2> QED BY <1>1, <1>2, <1>3, <1>4, <2>1, <2>2, <2>3 DEF ReadingOK, Candidate
<1> QED BY <1>1, <1>5, LookingKeeps

\* What a job may be missing.
LEMMA MissingIsACode ==
    ASSUME job[1] \in Reads
    PROVE  MissingCode \in CaptureCodes
BY DEF MissingCode, Reads, CaptureCodes

LEMMA FinishedWithout ==
    ASSUME Inv, job[1] \in Reads, NEW issues, issues \subseteq CaptureCodes, issues # {}, Finish(Null, issues)
    PROVE  Inv'
<1>1. Found(Null, issues)
  BY DEF Found
<1> QED BY <1>1, FinishKeeps

LEMMA OpenKeeps == ASSUME Inv, OpenLocalFile PROVE Inv'
<1> DEFINE entry == EntryAt(reading.path)
           dir == disk.dirs[DirOf(reading.path)]
           refused == IF RootMoved \/ dir = Null THEN {"NOT_LOCAL"}
                      ELSE IF entry.kind \in {"NONE", "LINK"} THEN {MissingCode}
                      ELSE IF entry.kind = "DIRECTORY" THEN {"SET_NOT_CLOSED"} ELSE {}
<1>1. /\ job[1] \in Reads /\ reading # Null /\ reading.step = "selected"
      /\ IF refused # {} THEN Finish(Null, reading.issues \cup refused)
         ELSE /\ reading' = [reading EXCEPT !.step = "opened", !.id = entry.id, !.dir = dir, !.now = entry]
              /\ UNCHANGED <<disk, writes, root, job, captured, admissionVars>>
  BY Zenon DEF OpenLocalFile, At
<1>2. reading.issues \subseteq CaptureCodes
  BY <1>1 DEF Inv, ReadingOK
<1>3. refused \subseteq CaptureCodes
  BY <1>1, MissingIsACode DEF CaptureCodes
<1>4. CASE refused # {}
  <2> HIDE DEF refused
  <2>1. Finish(Null, reading.issues \cup refused)
    BY <1>1, <1>4
  <2> QED BY <1>1, <1>2, <1>3, <1>4, <2>1, FinishedWithout
<1>5. CASE refused = {}
  <2>1. entry.kind \notin {"NONE", "LINK", "DIRECTORY"}
    BY <1>5
  <2>2. entry.kind = "FILE" /\ DataFits(reading.path, entry.data)
    BY <2>1 DEF EntryAt, NoEntry, Inv, TypeOK, EntryFits
  <2>3. /\ reading' = [reading EXCEPT !.step = "opened", !.id = entry.id, !.dir = dir, !.now = entry]
        /\ UNCHANGED <<disk, writes, root, job, captured, admissionVars>>
    BY <1>1, <1>5
  <2>4. Candidates' = Candidates
    BY <2>3, SameCandidates
  <2> HIDE DEF entry, dir, refused
  <2>5. /\ reading'.path = reading.path /\ reading'.step = "opened" /\ reading'.now = entry
        /\ reading'.issues = reading.issues
        /\ reading' = [path |-> reading'.path, step |-> reading'.step, id |-> reading'.id, dir |-> reading'.dir,
                       now |-> reading'.now, data |-> reading'.data, issues |-> reading'.issues]
    BY <1>1, <2>3 DEF Inv, ReadingOK
  <2>6. EntryAt(reading.path)' = entry
    BY <2>3, <2>5 DEF EntryAt, entry
  <2>7. \A i \in DOMAIN Candidates : EntryAt(Candidates[i])' = EntryAt(Candidates[i])
    BY <2>3, <2>4 DEF EntryAt
  <2>8. ReadingOK'
    BY <1>1, <2>2, <2>3, <2>4, <2>5, <2>6, <2>7 DEF Inv, ReadingOK, Candidate
  <2> QED BY <2>3, <2>8, LookingKeeps
<1> QED BY <1>4, <1>5

LEMMA ReadKeeps == ASSUME Inv, ReadChunks PROVE Inv'
<1> DEFINE moved == {c \in {"NOT_LOCAL"} : RootMoved}
<1>1. /\ job[1] \in Reads /\ reading # Null /\ reading.step = "opened"
      /\ IF reading.now.id # reading.id
         THEN Finish(Null, reading.issues \cup moved \cup {"MANIFEST_MISMATCH"})
         ELSE /\ reading' = [reading EXCEPT !.step = "read", !.data = reading.now.data,
                                            !.issues = reading.issues \cup moved]
              /\ UNCHANGED <<disk, writes, root, job, captured, admissionVars>>
  BY Zenon DEF ReadChunks, At
<1>2. reading.issues \subseteq CaptureCodes /\ moved \subseteq CaptureCodes
  BY <1>1 DEF Inv, ReadingOK, CaptureCodes
<1>3. CASE reading.now.id # reading.id
  <2>1. PICK issues : issues = reading.issues \cup moved \cup {"MANIFEST_MISMATCH"}
    OBVIOUS
  <2>2. issues \subseteq CaptureCodes /\ issues # {}
    BY <1>2, <2>1 DEF CaptureCodes
  <2> QED BY <1>1, <1>3, <2>1, <2>2, FinishedWithout
<1>4. CASE reading.now.id = reading.id
  <2>1. /\ reading' = [reading EXCEPT !.step = "read", !.data = reading.now.data,
                                      !.issues = reading.issues \cup moved]
        /\ UNCHANGED <<disk, writes, root, job, captured, admissionVars>>
    BY <1>1, <1>4
  <2> HIDE DEF moved
  <2>2. /\ reading'.path = reading.path /\ reading'.step = "read" /\ reading'.data = reading.now.data
        /\ reading'.issues = reading.issues \cup moved
        /\ reading' = [path |-> reading'.path, step |-> reading'.step, id |-> reading'.id, dir |-> reading'.dir,
                       now |-> reading'.now, data |-> reading'.data, issues |-> reading'.issues]
    BY <1>1, <2>1 DEF Inv, ReadingOK
  <2>3. Candidates' = Candidates
    BY <2>1, SameCandidates
  <2>4. EntryAt(reading.path)' = EntryAt(reading.path)
    BY <2>1, <2>2 DEF EntryAt
  <2>5. \A i \in DOMAIN Candidates : EntryAt(Candidates[i])' = EntryAt(Candidates[i])
    BY <2>1, <2>3 DEF EntryAt
  <2>6. ReadingOK'
    BY <1>1, <1>2, <2>1, <2>2, <2>3, <2>4, <2>5 DEF Inv, ReadingOK, Candidate
  <2> QED BY <2>1, <2>6, LookingKeeps
<1> QED BY <1>3, <1>4

LEMMA RevalidateKeeps == ASSUME Inv, Revalidate PROVE Inv'
<1> DEFINE found == (reading.issues \ {"SET_NOT_CLOSED"}) \cup Unstable
           issues == reading.issues \cup Unstable
           data == IF found = {} THEN reading.data ELSE Null
<1>1. job[1] \in Reads /\ reading # Null /\ reading.step = "read" /\ Finish(data, issues)
  BY DEF Revalidate, At
<1>2. Unstable \subseteq CaptureCodes
  BY DEF Unstable, CaptureCodes
<1>3. issues \subseteq CaptureCodes /\ Candidate(reading.path) /\ DataFits(reading.path, reading.data)
  BY <1>1, <1>2 DEF Inv, ReadingOK
<1>4. /\ Bytes(reading.data) /\ reading.data # Null
      /\ job[1] = "payloads" => CurrentRow.path \in SafePaths
  BY <1>1, <1>3, BytesFit
<1>5. issues = {} => data = reading.data /\ reading.issues = {}
  OBVIOUS
<1>6. data # Null => data = reading.data
  OBVIOUS
<1> HIDE DEF found, issues, data
<1>7. ASSUME job[1] = "witnesses", issues = {}, writes = 0
      PROVE  OnlyWitness(reading.data, CurrentRow)
  <2>1. PICK seq : seq = CurrentRow.seq
    OBVIOUS
  <2>2. Candidates = <<(<<"witnesses", seq>>), (<<"witnesses", -seq>>)>>
    <3>1. Candidates # <<>>
      BY <1>3 DEF Candidate
    <3> QED BY <1>1, <1>7, <2>1, <3>1, CandidatesAre
  <2>3. reading.path \in {<<"witnesses", seq>>, <<"witnesses", -seq>>}
    BY <1>3, <2>2 DEF Candidate
  <2>4. /\ EntryAt(reading.path).kind = "FILE" /\ EntryAt(reading.path).data = reading.data
        /\ \A i \in DOMAIN Candidates : Candidates[i] # reading.path => EntryAt(Candidates[i]).kind = "NONE"
    BY <1>1, <1>5, <1>7 DEF Inv, ReadingOK
  <2>5. \A p \in {<<"witnesses", seq>>, <<"witnesses", -seq>>} : p # reading.path => EntryAt(p).kind = "NONE"
    <3>1. DOMAIN Candidates = 1 .. 2 /\ Candidates[1] = <<"witnesses", seq>> /\ Candidates[2] = <<"witnesses", -seq>>
      BY <2>2
    <3>2. 1 \in DOMAIN Candidates /\ 2 \in DOMAIN Candidates
      BY <3>1
    <3> QED BY <2>4, <3>1, <3>2
  <2>6. PICK own \in {seq, -seq} : reading.path = <<"witnesses", own>>
    BY <2>3
  <2>7. \A other \in {seq, -seq} : other # own => EntryAt(<<"witnesses", other>>).kind = "NONE"
    <3>1. TAKE other \in {seq, -seq}
    <3>2. other # own => <<"witnesses", other>> # reading.path
      BY <2>6
    <3>3. <<"witnesses", other>> \in {<<"witnesses", seq>>, <<"witnesses", -seq>>}
      OBVIOUS
    <3> QED BY <2>5, <3>2, <3>3
  <2> QED BY <2>1, <2>4, <2>6, <2>7 DEF OnlyWitness
<1>8. Found(data, issues)
  BY <1>3, <1>4, <1>5, <1>6, <1>7 DEF Found
<1> QED BY <1>1, <1>8, FinishKeeps

-----------------------------------------------------------------------------
(* Other programs, and the capture as a whole *)

LEMMA WriteKeeps == ASSUME Inv, Write PROVE Inv'
<1> USE DEF Inv
<1>1. PICK w \in Writes :
          LET old == EntryAt(w.path)
              new == [kind |-> w.kind, data |-> w.data, id |-> 10 + writes]
              opened == reading # Null /\ reading.path = w.path /\ reading.now.id = old.id
          IN  /\ w.in_place => old.kind = "FILE" /\ w.kind = "FILE"
              /\ disk' = [files |-> [p \in DOMAIN disk.files \cup {w.path} |->
                                       IF p = w.path THEN new ELSE disk.files[p]],
                          dirs |-> IF w.in_place THEN disk.dirs
                                   ELSE [disk.dirs EXCEPT ![DirOf(w.path)] = 10 + writes]]
              /\ reading' = IF opened /\ w.in_place THEN [reading EXCEPT !.now = new] ELSE reading
  BY Zenon DEF Write
<1>2. /\ writes' = writes + 1 /\ writes \in Nat /\ job[1] # "done"
      /\ UNCHANGED <<root, job, captured, admissionVars>>
  BY DEF Write, TypeOK
<1>3. EntryFits(w.path, w)
  BY FixtureAssumption
<1>4. PICK new : new = [kind |-> w.kind, data |-> w.data, id |-> 10 + writes]
  OBVIOUS
<1>5. EntryFits(w.path, new) /\ new.data = w.data /\ new.kind = w.kind
  BY <1>3, <1>4 DEF EntryFits
<1>6. \A p \in DOMAIN disk'.files : EntryFits(p, disk'.files[p])
  <2> SUFFICES ASSUME NEW p \in DOMAIN disk'.files PROVE EntryFits(p, disk'.files[p])
    OBVIOUS
  <2>1. disk'.files = [x \in DOMAIN disk.files \cup {w.path} |-> IF x = w.path THEN new ELSE disk.files[x]]
    BY <1>1, <1>4
  <2> QED BY <1>5, <2>1 DEF TypeOK
<1>7. TypeOK'
  BY <1>2, <1>6 DEF TypeOK, EntryFits, DataFits
<1>8. Progress' /\ DocumentsNamed' /\ Judgement'
  BY <1>2 DEF Progress, DocumentsNamed, Judgement, RowCount, TermCount
<1>9. FilesNamed'
  BY <1>2 DEF FilesNamed, FileNamed, Waiting
<1>10. ReadingOK'
  <2>1. Candidates' = Candidates
    BY <1>2, SameCandidates
  <2>2. CASE reading' = reading
    BY <1>2, <2>1, <2>2 DEF ReadingOK, Candidate, DataFits
  <2>3. CASE reading' # reading
    <3>1. reading # Null /\ reading.path = w.path /\ w.in_place /\ reading' = [reading EXCEPT !.now = new]
      BY <1>1, <1>4, <2>3
    <3>2. /\ reading'.path = reading.path /\ reading'.step = reading.step /\ reading'.now = new
          /\ reading'.data = reading.data /\ reading'.issues = reading.issues
          /\ reading' = [path |-> reading'.path, step |-> reading'.step, id |-> reading'.id, dir |-> reading'.dir,
                         now |-> reading'.now, data |-> reading'.data, issues |-> reading'.issues]
      BY <3>1 DEF ReadingOK
    <3>3. DataFits(reading.path, new.data)
      BY <1>1, <1>5, <3>1 DEF EntryFits
    <3> QED BY <1>2, <2>1, <3>1, <3>2, <3>3 DEF ReadingOK, Candidate, DataFits
  <2> QED BY <2>2, <2>3
<1> QED BY <1>7, <1>8, <1>9, <1>10

\* Issues of the capture as a whole.
LEMMA IssuesKeep ==
    ASSUME Inv, reading = Null, NEW issues \in SUBSET CaptureCodes, captured.issues \subseteq issues,
           captured' = [captured EXCEPT !.issues = issues], UNCHANGED <<disk, writes, reading>>,
           \/ job[1] = "root" /\ job' = <<"manifest", 1>>
           \/ job[1] = "root" /\ job' = <<"admit", 1>>
           \/ job[1] = "extra" /\ job' = <<"end", 1>>
           \/ job[1] = "end" /\ job' = <<"admit", 1>>
    PROVE  Inv'
<1> USE DEF Inv
<1>1. captured \in Captures
  BY DEF TypeOK
<1>2. /\ captured' \in Captures /\ captured'.manifest = captured.manifest /\ captured'.rights = captured.rights
      /\ captured'.rights_bytes = captured.rights_bytes /\ captured'.terms = captured.terms
      /\ captured'.files = captured.files /\ captured'.issues = issues
  BY <1>1 DEF Captures
<1>3. TypeOK'
  BY <1>2 DEF TypeOK, Reads, Ends, EntryFits, DataFits
<1>4. RowCount' = RowCount /\ (job[1] = "root" => RowCount = 0 /\ Len(captured.files) = 0)
  BY <1>2 DEF RowCount, Progress
<1>5. Progress'
  BY <1>2, <1>4 DEF Progress, Ends
<1>6. DocumentsNamed'
  BY <1>2 DEF DocumentsNamed
<1>7. FilesNamed'
  BY <1>2 DEF FilesNamed, FileNamed, Waiting
<1>8. ReadingOK' /\ Judgement'
  BY DEF ReadingOK, Judgement
<1> QED BY <1>3, <1>5, <1>6, <1>7, <1>8

LEMMA RootKeeps == ASSUME Inv, CaptureRoot PROVE Inv'
<1> DEFINE issues == {c \in {"NOT_LOCAL"} : disk.dirs["root"] = Null}
<1>1. /\ job[1] = "root" /\ captured' = [captured EXCEPT !.issues = issues]
      /\ UNCHANGED <<disk, writes, reading>> /\ job' \in {<<"admit", 1>>, <<"manifest", 1>>}
  BY DEF CaptureRoot, After
<1>2. reading = Null
  BY <1>1 DEF Inv, ReadingOK, Reads
<1>3. issues \in SUBSET CaptureCodes
  BY DEF CaptureCodes
<1>4. captured.issues \subseteq issues
  BY <1>1 DEF Inv, Progress
<1> HIDE DEF issues
<1> QED BY <1>1, <1>2, <1>3, <1>4, IssuesKeep

LEMMA ExtraKeeps == ASSUME Inv, CaptureExtraPayloadEntries PROVE Inv'
<1>1. /\ job[1] = "extra" /\ captured' = [captured EXCEPT !.issues = captured.issues \cup ExtraIssues]
      /\ job' = <<"end", 1>> /\ UNCHANGED <<disk, writes, reading>>
  BY Zenon DEF CaptureExtraPayloadEntries
<1>2. reading = Null
  BY <1>1 DEF Inv, ReadingOK, Reads
<1>3. ExtraIssues \subseteq CaptureCodes
  BY DEF ExtraIssues, CaptureCodes
<1>4. captured.issues \cup ExtraIssues \in SUBSET CaptureCodes
  BY <1>3 DEF Inv, TypeOK, Captures
<1> QED BY <1>1, <1>2, <1>4, IssuesKeep

LEMMA EndKeeps == ASSUME Inv, CheckRootStable PROVE Inv'
<1> DEFINE moved == {c \in {"NOT_LOCAL"} : RootMoved}
<1>1. /\ job[1] = "end" /\ captured' = [captured EXCEPT !.issues = captured.issues \cup moved]
      /\ job' = <<"admit", 1>> /\ UNCHANGED <<disk, writes, reading>>
  BY Zenon DEF CheckRootStable
<1>2. reading = Null
  BY <1>1 DEF Inv, ReadingOK, Reads
<1>3. captured.issues \cup moved \in SUBSET CaptureCodes
  BY DEF Inv, TypeOK, Captures, CaptureCodes
<1> HIDE DEF moved
<1> QED BY <1>1, <1>2, <1>3, IssuesKeep

LEMMA AdmitKeeps == ASSUME Inv, Admit PROVE Inv'
<1> USE DEF Inv
<1>1. job[1] = "admit" /\ job' = <<"done", 1>> /\ UNCHANGED <<disk, writes, root, reading, captured>>
  BY DEF Admit
<1>2. TypeOK'
  BY <1>1 DEF TypeOK, Ends, EntryFits, DataFits
<1>3. Progress' /\ DocumentsNamed'
  BY <1>1 DEF Progress, DocumentsNamed, RowCount, TermCount, Ends
<1>4. FilesNamed'
  BY <1>1 DEF FilesNamed, FileNamed, Waiting
<1>5. ReadingOK'
  BY <1>1 DEF ReadingOK, Reads
<1>6. Judgement'
  BY <1>1 DEF Judgement, Admit, RightsComplete, SelectedTerms, RightsField, Judged
<1> QED BY <1>2, <1>3, <1>4, <1>5, <1>6

LEMMA InitInv == Init => Inv
<1> SUFFICES ASSUME Init PROVE Inv
  OBVIOUS
<1>1. /\ writes = 0 /\ reading = Null /\ job = <<"root", 0>>
      /\ captured = [manifest |-> Null, rights |-> Null, rights_bytes |-> Null, terms |-> <<>>,
                     files |-> <<>>, issues |-> {}]
      /\ \A p \in DOMAIN disk.files : EntryFits(p, disk.files[p])
  BY FixtureAssumption DEF Init
<1>2. captured \in Captures
  BY <1>1 DEF Captures, Maybe
<1>3. TypeOK
  BY <1>1, <1>2 DEF TypeOK
<1>4. Progress /\ DocumentsNamed /\ FilesNamed
  BY <1>1 DEF Progress, DocumentsNamed, FilesNamed, Ends
<1> QED BY <1>1, <1>3, <1>4 DEF Inv, ReadingOK, Judgement

LEMMA StutterKeeps == ASSUME Inv, UNCHANGED vars PROVE Inv'
<1>1. UNCHANGED <<disk, writes, root, job, reading, captured, admissionVars>>
  BY DEF vars, captureVars
<1>2. ReadingOK'
  <2>1. Candidates' = Candidates
    BY <1>1, SameCandidates
  <2> QED BY <1>1, <2>1 DEF Inv, ReadingOK, Candidate, DataFits, EntryAt
<1> QED BY <1>1, <1>2, LookingKeeps

LEMMA NextInv == Inv /\ [Next]_vars => Inv'
BY WriteKeeps, RootKeeps, SkipKeeps, SelectKeeps, OpenKeeps, ReadKeeps, RevalidateKeeps, ExtraKeeps,
   EndKeeps, AdmitKeeps, StutterKeeps, Zenon DEF Next

LEMMA Invariance == Spec => []Inv
BY InitInv, NextInv, PTL DEF Spec

\* The shape of what is captured, and of the disk it is read from.
THEOREM TypeCorrect == Spec => []TypeOK
<1>1. Inv => TypeOK
  BY DEF Inv
<1> QED BY <1>1, Invariance, PTL

-----------------------------------------------------------------------------
(* What admission says of a capture *)

LEMMA NothingDropped ==
    ASSUME NEW reasons, NEW rows, NEW env
    PROVE  /\ DropClosure(reasons, rows, env) = {} <=> reasons = {}
           /\ \A c : c # "SET_NOT_CLOSED" => (c \in DropClosure(reasons, rows, env) <=> c \in reasons)
BY DEF DropClosure

\* An admitted batch has a reason against nothing.
LEMMA AdmittedBatch ==
    ASSUME NEW rows, rows # {}, NEW env, Batch(rows, env).status = "ADMITTED"
    PROVE  /\ FixtureReasons(rows, env) = {}
           /\ \A r \in rows : ReceiptReasons(r, rows, env) = {} /\ LocalReasons(r, env.biased) = {}
<1> DEFINE receipts == [r \in rows |-> ReceiptReasons(r, rows, env)]
           reasons == UNION {receipts[r] : r \in rows}
<1>1. Batch(rows, env).status = Status(reasons)
  BY DEF Batch
<1>2. reasons = {}
  <2> HIDE DEF reasons
  <2> QED BY <1>1 DEF Status
<1>3. \A r \in rows : ReceiptReasons(r, rows, env) = {}
  BY <1>2
<1>4. ASSUME NEW r \in rows PROVE FixtureReasons(rows, env) = {} /\ LocalReasons(r, env.biased) = {}
  <2> DEFINE comparable == {q \in rows : LocalReasons(q, env.biased) = {}}
             lineage == IF r \in comparable THEN LineageReasons(r, comparable) ELSE {}
  <2>1. DropClosure(FixtureReasons(rows, env) \cup LocalReasons(r, env.biased) \cup lineage, rows, env) = {}
    BY <1>3 DEF ReceiptReasons
  <2>2. FixtureReasons(rows, env) \cup LocalReasons(r, env.biased) \cup lineage = {}
    BY <2>1, NothingDropped
  <2> QED BY <2>2
<1> QED BY <1>3, <1>4

LEMMA SoundFixture ==
    ASSUME NEW rows, NEW env, FixtureReasons(rows, env) = {}
    PROVE  /\ env.issues = {} /\ (\A r \in rows : r.issues = {})
           /\ env.rights /\ ~env.biased
<1>1. Codes(CaptureIssues(rows, env)) = {}
  BY DEF FixtureReasons
<1>2. CaptureIssues(rows, env) = {}
  BY <1>1 DEF Codes
<1>3. env.issues = {} /\ (\A r \in rows : r.issues = {})
  BY <1>2 DEF CaptureIssues
<1>4. {c \in {"RIGHTS_MISSING"} : ~env.rights} = {}
  BY DEF FixtureReasons
<1>5. {c \in {"UNIVERSE_BIASED", "SET_NOT_CLOSED"} : env.biased} = {}
  BY DEF FixtureReasons
<1> QED BY <1>3, <1>4, <1>5

LEMMA SoundFile ==
    ASSUME NEW r, NEW biased, ~biased, LocalReasons(r, biased) = {}
    PROVE  /\ r.read /\ r.doc # NoDoc /\ r.doc.source = r.source /\ r.doc.market = r.market
           /\ r.doc.market \in DOMAIN AllowedMarkets /\ r.doc.slot = r.slot
<1>1. FileReasons(r) = {} /\ ProfileReasons(r, biased) = {} /\ RevisionReasons(r) = {}
  BY DEF LocalReasons
<1>2. {c \in {"NOT_LOCAL"} : ~r.read} = {}
  BY <1>1 DEF FileReasons
<1>3. r.read
  BY <1>2
<1>4. /\ r.doc # NoDoc /\ r.doc.source = r.source /\ r.doc.market = r.market
      /\ r.doc.market \in DOMAIN AllowedMarkets
  BY <1>1, <1>3 DEF ProfileReasons
<1>5. r.doc.slot = r.slot
  BY <1>1 DEF RevisionReasons
<1> QED BY <1>3, <1>4, <1>5

\* What is known of every file of an admitted capture.
LEMMA AdmittedCapture ==
    ASSUME Inv, Admitted, captured.files # <<>>
    PROVE  /\ captured.issues = {} /\ RightsComplete
           /\ \A i \in DOMAIN captured.files :
                 LET file == captured.files[i]
                 IN  /\ file.issues = {} /\ file.payload \in Docs
                     /\ file.payload.source = file.row.source /\ file.payload.market = file.row.market
                     /\ file.row.market \in DOMAIN AllowedMarkets
<1>1. PICK rows : rows = {Judged(captured.files[i]) : i \in DOMAIN captured.files}
  OBVIOUS
<1>2. PICK env : env = [issues |-> captured.issues, rights |-> RightsComplete,
                        biased |-> captured.manifest # Null /\ captured.manifest.biased]
  OBVIOUS
<1>3. batch = Batch(rows, env) /\ captured.files \in Seq(FileRecords)
  BY <1>1, <1>2 DEF Inv, Judgement, Admitted, Done, TypeOK, Captures
<1>4. rows # {}
  <2>1. 1 \in DOMAIN captured.files
    BY <1>3
  <2> QED BY <1>1, <2>1
<1>5. FixtureReasons(rows, env) = {} /\ \A r \in rows : LocalReasons(r, env.biased) = {}
  BY <1>3, <1>4, AdmittedBatch DEF Admitted
<1>6. env.issues = {} /\ (\A r \in rows : r.issues = {}) /\ env.rights /\ ~env.biased
  BY <1>5, SoundFixture
<1>7. ASSUME NEW i \in DOMAIN captured.files
      PROVE  LET file == captured.files[i]
             IN  /\ file.issues = {} /\ file.payload \in Docs
                 /\ file.payload.source = file.row.source /\ file.payload.market = file.row.market
                 /\ file.row.market \in DOMAIN AllowedMarkets
  <2>1. PICK file, r : file = captured.files[i] /\ r = Judged(file)
    OBVIOUS
  <2>2. r \in rows /\ file \in FileRecords
    BY <1>1, <1>3, <2>1
  <2>3. /\ r.issues = {} /\ r.read /\ r.doc # NoDoc /\ r.doc.source = r.source /\ r.doc.market = r.market
        /\ r.doc.market \in DOMAIN AllowedMarkets
    BY <1>5, <1>6, <2>2, SoundFile
  <2>4. /\ r.issues = file.issues /\ (r.read <=> file.payload # Null)
        /\ r.doc = (IF file.payload = Null THEN NoDoc ELSE file.payload)
        /\ r.source = file.row.source /\ r.market = file.row.market
    BY <2>1 DEF Judged
  <2>5. file.payload \in Docs
    BY <2>2, <2>3, <2>4 DEF FileRecords, Payloads, Maybe
  <2> QED BY <2>1, <2>3, <2>4, <2>5
<1>8. captured.issues = {} /\ RightsComplete
  BY <1>2, <1>6
<1> QED BY <1>7, <1>8

\* The terms selected are among those captured, if there are any.
LEMMA SelectedIs ==
    ASSUME Inv, \E i \in DOMAIN captured.terms : captured.terms[i].digest # Null
    PROVE  \E i \in DOMAIN captured.terms :
               captured.terms[i].digest # Null /\ SelectedTerms = captured.terms[i].digest
<1> DEFINE with == {i \in DOMAIN captured.terms : captured.terms[i].digest # Null}
           best == CHOOSE i \in with : \A j \in with : captured.terms[i].path <= captured.terms[j].path
<1>1. with # {} /\ SelectedTerms = captured.terms[best].digest
  BY DEF SelectedTerms
<1>2. captured.terms \in Seq(TermRecords)
  BY DEF Inv, TypeOK, Captures
<1>3. best \in with
  <2>1. PICK terms : terms = captured.terms
    OBVIOUS
  <2>2. ASSUME NEW i \in with PROVE terms[i].path \in Nat
    <3>1. i \in DOMAIN terms
      BY <2>1
    <3>2. terms[i] \in TermRecords
      <4> HIDE DEF with
      <4> QED BY <1>2, <2>1, <3>1
    <3> QED BY <3>2 DEF TermRecords
  <2> DEFINE paths == {terms[i].path : i \in with}
  <2> HIDE DEF with
  <2>3. paths \subseteq Nat /\ paths # {}
    BY <1>1, <2>2
  <2>4. PICK i \in with : terms[i].path = Min(paths)
    <3>1. Min(paths) \in paths
      <4> HIDE DEF paths
      <4> QED BY <2>3, Least
    <3> QED BY <3>1
  <2>5. \A j \in with : terms[i].path <= terms[j].path
    <3>1. \A y \in paths : Min(paths) <= y
      <4> HIDE DEF paths
      <4> QED BY <2>3, Least
    <3> QED BY <2>4, <3>1
  <2>6. \E k \in with : \A j \in with : captured.terms[k].path <= captured.terms[j].path
    BY <2>1, <2>4, <2>5
  <2> QED BY <2>6
<1> HIDE DEF best
<1> QED BY <1>1, <1>3

\* They are stated by the rights.
LEMMA SelectedIsStated ==
    ASSUME Inv, captured.issues = {}, SelectedTerms # Null
    PROVE  \E i \in DOMAIN captured.rights.terms : captured.rights.terms[i].digest \in {Null, SelectedTerms}
<1>1. \E i \in DOMAIN captured.terms : captured.terms[i].digest # Null
  BY DEF SelectedTerms
<1>2. PICK i \in DOMAIN captured.terms :
          captured.terms[i].digest # Null /\ SelectedTerms = captured.terms[i].digest
  BY <1>1, SelectedIs
<1> QED BY <1>2 DEF Inv, DocumentsNamed

(***************************************************************************)
(* An admitted fixture is what one manifest names, whatever was written    *)
(* while it was read.                                                      *)
(***************************************************************************)
LEMMA CaptureIsNamed == Inv => AdmittedAsNamed
<1> SUFFICES ASSUME Inv, Admitted, captured.files # <<>> PROVE AdmittedAsNamed
  BY DEF AdmittedAsNamed
<1> USE DEF Inv
<1>1. PICK manifest, files, rows : manifest = captured.manifest /\ files = captured.files /\ rows = manifest.files
  OBVIOUS
<1>2. /\ job[1] = "done" /\ captured \in Captures /\ files \in Seq(FileRecords) /\ files # <<>>
      /\ captured.issues = {} /\ RightsComplete
  BY <1>1, AdmittedCapture DEF TypeOK, Captures, Admitted, Done
<1>3. manifest \in Manifests /\ manifest # Null /\ Len(files) = Len(rows) /\ rows \in Seq(FileRows)
  <2>1. Len(files) = RowCount /\ Len(files) > 0
    BY <1>1, <1>2 DEF Progress, Ends
  <2>2. manifest \in Manifests /\ RowCount = Len(rows)
    BY <1>1, <1>2, <2>1, Rows1
  <2>3. rows \in Seq(FileRows)
    BY <1>1, <2>2 DEF Manifests
  <2> QED BY <2>1, <2>2, <2>3, FixtureAssumption
<1>4. DOMAIN files = DOMAIN rows /\ DOMAIN rows \subseteq Nat /\ \A i \in DOMAIN rows : rows[i] \in FileRows
  BY <1>2, <1>3
<1>5. manifest.sealed /\ manifest.rights = captured.rights_bytes
  <2>1. captured.rights # Null
    BY <1>2, FixtureAssumption DEF RightsComplete, RightsField
  <2> QED BY <1>1, <1>2, <1>3, <2>1 DEF DocumentsNamed
<1>6. \E i \in DOMAIN captured.rights.terms : captured.rights.terms[i].digest \in {Null, SelectedTerms}
  BY <1>2, SelectedIsStated DEF RightsComplete
<1>7. \A i \in DOMAIN rows : FileNamed(i) /\ ~Waiting(i)
  BY <1>1, <1>2, <1>4 DEF FilesNamed, Waiting
<1>8. ASSUME NEW i \in DOMAIN rows
      PROVE  /\ files[i].row = rows[i] /\ files[i].issues = {} /\ files[i].payload \in Docs
             /\ files[i].payload.source = rows[i].source /\ files[i].payload.market = rows[i].market
             /\ rows[i].market \in DOMAIN AllowedMarkets
             /\ rows[i].digest \in {Null, files[i].payload}
             /\ rows[i].path \in SafePaths /\ ValidSequence(rows[i].seq) /\ rows[i].slot # Null
             /\ \A j \in 1 .. i - 1 : files[j].row.path # rows[i].path
             /\ files[i].observed <= files[i].ingested
             /\ writes = 0 => Witnessed(disk, rows[i])
  <2>1. FileNamed(i) /\ ~Waiting(i)
    BY <1>7
  <2>2. PICK file : file = files[i]
    OBVIOUS
  <2>3. file.row = rows[i] /\ file.issues = {} /\ file.payload \in Docs
    BY <1>1, <1>2, <1>4, <2>1, <2>2, AdmittedCapture DEF FileNamed
  <2>4. /\ file.payload.source = rows[i].source /\ file.payload.market = rows[i].market
        /\ rows[i].market \in DOMAIN AllowedMarkets
    BY <1>1, <1>2, <1>4, <2>2, <2>3, AdmittedCapture
  <2>5. file.payload # Null
    BY <2>3, FixtureAssumption
  <2> QED BY <1>1, <2>1, <2>2, <2>3, <2>4, <2>5 DEF FileNamed
<1>9. ASSUME NEW i \in DOMAIN rows
      PROVE  FileRowValid([rows[i] EXCEPT !.digest = files[i].payload])
  <2>1. PICK row, doc : row = rows[i] /\ doc = files[i].payload
    OBVIOUS
  <2>2. /\ row \in FileRows /\ doc \in Docs /\ doc.source = row.source /\ row.market \in DOMAIN AllowedMarkets
        /\ row.path \in SafePaths /\ ValidSequence(row.seq) /\ row.slot # Null
    BY <1>4, <1>8, <2>1
  <2>3. row.source # Null /\ doc # Null
    BY <2>2, FixtureAssumption DEF Docs
  <2>4. row.market \in Markets
    BY <2>2, FixtureAssumption
  <2>5. row.seq \in Nat \ {0} /\ row.slot \in Nat
    BY <2>2 DEF FileRows, Maybe, ValidSequence
  <2>6. PICK named : named = [row EXCEPT !.digest = doc]
    OBVIOUS
  <2>7. /\ named.path = row.path /\ named.source = row.source /\ named.digest = doc
        /\ named.market = row.market /\ named.seq = row.seq /\ named.slot = row.slot
    BY <2>2, <2>6 DEF FileRows
  <2> QED BY <2>1, <2>2, <2>3, <2>4, <2>5, <2>6, <2>7 DEF FileRowValid
<1>10. ASSUME NEW i \in DOMAIN rows, NEW j \in DOMAIN rows, i # j
       PROVE  rows[i].path # rows[j].path /\ (writes = 0 => rows[i].seq # rows[j].seq)
  <2>1. rows[i].path # rows[j].path
    <3>1. i \in Nat /\ j \in Nat /\ i >= 1 /\ j >= 1
      BY <1>2, <1>3, <1>4
    <3>2. CASE j < i
      BY <1>8, <3>1, <3>2
    <3>3. CASE i < j
      BY <1>8, <3>1, <3>3
    <3> QED BY <1>10, <3>1, <3>2, <3>3
  <2>2. ASSUME writes = 0, rows[i].seq = rows[j].seq PROVE FALSE
    <3>1. PICK seq, p, q : seq = rows[i].seq /\ p = rows[i] /\ q = rows[j]
      OBVIOUS
    <3>2. Witnessed(disk, p) /\ Witnessed(disk, q) /\ p.seq = seq /\ q.seq = seq /\ p.path # q.path
      BY <1>8, <2>1, <2>2, <3>1
    <3>3. PICK s \in {seq, -seq} :
              /\ On(disk, <<"witnesses", s>>).kind = "FILE" /\ WitnessFits(On(disk, <<"witnesses", s>>).data, p)
              /\ \A t \in {seq, -seq} : t # s => On(disk, <<"witnesses", t>>).kind = "NONE"
      BY <3>2 DEF Witnessed
    <3>4. PICK t \in {seq, -seq} :
              On(disk, <<"witnesses", t>>).kind = "FILE" /\ WitnessFits(On(disk, <<"witnesses", t>>).data, q)
      BY <3>2 DEF Witnessed
    <3>5. s = t
      BY <3>3, <3>4
    <3> QED BY <3>2, <3>3, <3>4, <3>5 DEF WitnessFits
  <2> QED BY <2>1, <2>2
<1> QED BY <1>1, <1>3, <1>4, <1>5, <1>6, <1>8, <1>9, <1>10 DEF AdmittedAsNamed

THEOREM AdmittedIsNamed == Spec => []AdmittedAsNamed
BY CaptureIsNamed, Invariance, PTL

-----------------------------------------------------------------------------
(* What a receipt says and keeps *)

\* The reasons of a receipt: those of the fixture, and of the first check a
\* file does not pass.
LEMMA ReceiptCodes ==
    ASSUME NEW rows, NEW env, NEW r \in rows, env.issues \subseteq CaptureCodes,
           \A q \in rows : q.issues \subseteq CaptureCodes
    PROVE  LET found == ReceiptReasons(r, rows, env)
               fits == r.doc # NoDoc /\ r.doc.source = r.source
           IN  /\ ~env.rights => "RIGHTS_MISSING" \in found
               /\ ~r.read => "NOT_LOCAL" \in found
               /\ r.read /\ r.issues = {} /\ ~fits => "PROFILE_MISMATCH" \in found
               /\ r.issues # {} => "PROFILE_MISMATCH" \notin found
               /\ found = {} => r.issues = {}
<1> DEFINE found == ReceiptReasons(r, rows, env)
           comparable == {q \in rows : LocalReasons(q, env.biased) = {}}
           lineage == IF r \in comparable THEN LineageReasons(r, comparable) ELSE {}
           all == FixtureReasons(rows, env) \cup LocalReasons(r, env.biased) \cup lineage
           fits == r.doc # NoDoc /\ r.doc.source = r.source
<1>1. found = DropClosure(all, rows, env)
  BY DEF ReceiptReasons
<1>2. /\ found = {} <=> all = {}
      /\ \A c : c # "SET_NOT_CLOSED" => (c \in found <=> c \in all)
  <2> HIDE DEF all, found
  <2> QED BY <1>1, NothingDropped
<1>3. ~env.rights => "RIGHTS_MISSING" \in all
  BY DEF FixtureReasons
<1>4. ~r.read => "NOT_LOCAL" \in all
  <2>1. ASSUME ~r.read PROVE "NOT_LOCAL" \in LocalReasons(r, env.biased)
    BY <2>1 DEF LocalReasons, FileReasons
  <2> QED BY <2>1
<1>5. ASSUME r.read, r.issues = {}, ~fits PROVE "PROFILE_MISMATCH" \in all
  <2>1. FileReasons(r) = {}
    BY <1>5 DEF FileReasons, Codes
  <2>2. "PROFILE_MISMATCH" \in ProfileReasons(r, env.biased)
    BY <1>5 DEF ProfileReasons
  <2>3. "PROFILE_MISMATCH" \in LocalReasons(r, env.biased)
    BY <2>1, <2>2 DEF LocalReasons
  <2> QED BY <2>3
<1>6. ASSUME NEW issues, issues \subseteq CaptureCodes PROVE "PROFILE_MISMATCH" \notin Codes(issues)
  BY <1>6 DEF Codes, CaptureCodes
<1>7. "PROFILE_MISMATCH" \notin FixtureReasons(rows, env)
  <2>1. CaptureIssues(rows, env) \subseteq CaptureCodes
    BY DEF CaptureIssues
  <2> QED BY <1>6, <2>1 DEF FixtureReasons
<1>8. ASSUME r.issues # {} PROVE "PROFILE_MISMATCH" \notin all
  <2>1. PICK code : code \in r.issues
    BY <1>8
  <2>2. \E c : c \in FileReasons(r)
    BY <2>1 DEF FileReasons, Codes
  <2>3. LocalReasons(r, env.biased) = FileReasons(r) /\ LocalReasons(r, env.biased) # {}
    BY <2>2 DEF LocalReasons
  <2>4. "PROFILE_MISMATCH" \notin FileReasons(r)
    BY <1>6 DEF FileReasons
  <2>5. lineage = {}
    BY <2>3
  <2> QED BY <1>7, <2>3, <2>4, <2>5
<1>9. ASSUME r.issues # {} PROVE all # {}
  <2>1. PICK code : code \in r.issues
    BY <1>9
  <2>2. code \in CaptureIssues(rows, env)
    BY <2>1 DEF CaptureIssues
  <2>3. \E c : c \in FixtureReasons(rows, env)
    BY <2>2 DEF FixtureReasons, Codes
  <2> QED BY <2>3
<1> HIDE DEF all, found
<1>10. /\ ~env.rights => "RIGHTS_MISSING" \in found
       /\ ~r.read => "NOT_LOCAL" \in found
       /\ r.read /\ r.issues = {} /\ ~fits => "PROFILE_MISMATCH" \in found
       /\ r.issues # {} => "PROFILE_MISMATCH" \notin found
       /\ found = {} => r.issues = {}
  BY <1>2, <1>3, <1>4, <1>5, <1>8, <1>9
<1> QED BY <1>10 DEF found

\* The same of a captured file.
LEMMA ReasonsOfFile ==
    ASSUME Inv, Done, NEW i \in DOMAIN captured.files
    PROVE  LET file == captured.files[i]
               found == Reasons(file)
           IN  /\ ~RightsComplete => "RIGHTS_MISSING" \in found
               /\ file.payload = Null => "NOT_LOCAL" \in found
               /\ file.payload # Null /\ file.issues = {}
                     /\ (file.payload = NoDoc \/ file.payload.source # file.row.source)
                     => "PROFILE_MISMATCH" \in found
               /\ file.issues # {} => "PROFILE_MISMATCH" \notin found
               /\ found = {} => file.issues = {}
<1>1. PICK rows : rows = {Judged(captured.files[j]) : j \in DOMAIN captured.files}
  OBVIOUS
<1>2. PICK env : env = [issues |-> captured.issues, rights |-> RightsComplete,
                        biased |-> captured.manifest # Null /\ captured.manifest.biased]
  OBVIOUS
<1>3. PICK file, r : file = captured.files[i] /\ r = Judged(file)
  OBVIOUS
<1>4. batch = Batch(rows, env) /\ captured.files \in Seq(FileRecords) /\ captured.issues \subseteq CaptureCodes
  BY <1>1, <1>2 DEF Inv, Judgement, Done, TypeOK, Captures
<1>5. r \in rows /\ file \in FileRecords
  BY <1>1, <1>3, <1>4
<1>6. Reasons(file) = ReceiptReasons(r, rows, env)
  BY <1>3, <1>4, <1>5 DEF Reasons, Batch
<1>7. \A q \in rows : q.issues \subseteq CaptureCodes
  <2>1. ASSUME NEW j \in DOMAIN captured.files PROVE Judged(captured.files[j]).issues \subseteq CaptureCodes
    <3>1. PICK f : f = captured.files[j]
      OBVIOUS
    <3>2. f \in FileRecords
      BY <1>4, <3>1
    <3> QED BY <3>1, <3>2 DEF Judged, FileRecords
  <2> QED BY <1>1, <2>1
<1>8. env.issues \subseteq CaptureCodes /\ (env.rights <=> RightsComplete)
  BY <1>2, <1>4
<1>9. /\ r.issues = file.issues /\ (r.read <=> file.payload # Null) /\ r.source = file.row.source
      /\ r.doc = (IF file.payload = Null THEN NoDoc ELSE file.payload)
  BY <1>3 DEF Judged
<1>10. /\ ~env.rights => "RIGHTS_MISSING" \in Reasons(file)
       /\ ~r.read => "NOT_LOCAL" \in Reasons(file)
       /\ r.read /\ r.issues = {} /\ ~(r.doc # NoDoc /\ r.doc.source = r.source) =>
             "PROFILE_MISMATCH" \in Reasons(file)
       /\ r.issues # {} => "PROFILE_MISMATCH" \notin Reasons(file)
       /\ Reasons(file) = {} => r.issues = {}
  BY <1>5, <1>6, <1>7, <1>8, ReceiptCodes
<1> QED BY <1>3, <1>8, <1>9, <1>10

\* What a captured file may be.
LEMMA FileFacts ==
    ASSUME Inv, Done, NEW i \in DOMAIN captured.files
    PROVE  LET file == captured.files[i]
               row == file.row
           IN  /\ file \in FileRecords /\ row \in FileRows
               /\ row.path \notin SafePaths => file.payload = Null
               /\ Null \notin {file.observed, file.ingested} => file.observed <= file.ingested
               /\ file.issues = {} =>
                     /\ row.path \in SafePaths /\ ValidSequence(row.seq) /\ row.slot # Null
                     /\ Null \notin {file.observed, file.ingested}
<1>1. captured.files \in Seq(FileRecords) /\ FileNamed(i) /\ ~Waiting(i)
  BY DEF Inv, TypeOK, Captures, FilesNamed, Done, Waiting
<1>2. captured.files[i] \in FileRecords
  BY <1>1
<1>3. captured.files[i].row \in FileRows
  BY <1>2 DEF FileRecords
<1> QED BY <1>1, <1>2, <1>3 DEF FileNamed

\* What the rights say, and what a receipt keeps of them.
LEMMA RightsFacts ==
    ASSUME Inv
    PROVE  /\ \A field \in {"role", "effective", "review"} : RightsField(field) \in Maybe(Nat)
           /\ captured.rights # Null =>
                 /\ RightsField("role") = captured.rights.role
                 /\ RightsField("effective") = captured.rights.effective
                 /\ RightsField("review") = captured.rights.review
           /\ captured.rights = Null =>
                 \A field \in {"role", "effective", "review"} : RightsField(field) = Null
           /\ Null \in {SelectedTerms, RightsField("role"), RightsField("effective"), RightsField("review")}
                 => ~RightsComplete
<1>1. captured.rights \in Maybe(RightsDocs)
  BY DEF Inv, TypeOK, Captures
<1>2. CASE captured.rights = Null
  BY <1>2, FixtureAssumption DEF RightsField, RightsComplete, Maybe
<1>3. CASE captured.rights # Null
  <2>1. PICK rights : rights = captured.rights
    OBVIOUS
  <2>2. rights \in RightsDocs
    BY <1>1, <1>3, <2>1 DEF Maybe
  <2>3. rights.role \in Maybe(Nat) /\ rights.effective \in Maybe(Nat) /\ rights.review \in Maybe(Nat)
    BY <2>2 DEF RightsDocs
  <2> QED BY <1>3, <2>1, <2>3, FixtureAssumption DEF RightsField, RightsComplete
<1> QED BY <1>2, <1>3

LEMMA RefusedExactly ==
    ASSUME Inv, Done, NEW i \in DOMAIN captured.files
    PROVE  SourceReceiptValid(SourceReceiptRecord(captured.files[i])) <=> ~Untold(captured.files[i])
<1>1. PICK file, row : file = captured.files[i] /\ row = file.row
  OBVIOUS
<1>2. PICK r : r = SourceReceiptRecord(file)
  OBVIOUS
<1>3. PICK role, effective, review, terms :
        /\ role = RightsField("role") /\ effective = RightsField("effective")
        /\ review = RightsField("review") /\ terms = SelectedTerms
  OBVIOUS
<1>4. PICK found : found = Reasons(file)
  OBVIOUS
<1>5. /\ r.reasons = found /\ r.payload = file.payload /\ r.terms = terms /\ r.path = row.path
      /\ r.media = row.source /\ r.slot = row.slot /\ r.observed = file.observed /\ r.ingested = file.ingested
      /\ r.role = role /\ r.effective = effective /\ r.review = review
      /\ r.seq = (IF row.seq = Null THEN 0 ELSE row.seq)
      /\ r.source = (IF file.payload \in {Null, NoDoc} THEN row.source ELSE 1)
      /\ r.market = (IF file.payload \in {Null, NoDoc} THEN row.market ELSE file.payload.market)
  BY <1>1, <1>2, <1>3, <1>4, Zenon DEF SourceReceiptRecord, Reasons
<1>6. /\ file.payload \in Maybe(Payloads) /\ row.path \in Maybe(Nat) /\ row.seq \in Maybe(Nat)
      /\ file.observed \in Maybe(Nat) /\ file.ingested \in Maybe(Nat)
      /\ row.path \notin SafePaths => file.payload = Null
      /\ Null \notin {file.observed, file.ingested} => file.observed <= file.ingested
      /\ file.issues = {} =>
            /\ row.path \in SafePaths /\ ValidSequence(row.seq) /\ row.slot # Null
            /\ Null \notin {file.observed, file.ingested}
  <2>1. file \in FileRecords /\ row \in FileRows
    BY <1>1, FileFacts
  <2>2. /\ file.payload \in Maybe(Payloads) /\ row.path \in Maybe(Nat) /\ row.seq \in Maybe(Nat)
        /\ file.observed \in Maybe(Nat) /\ file.ingested \in Maybe(Nat)
    BY <2>1 DEF FileRecords, FileRows, Times
  <2> QED BY <1>1, <2>2, FileFacts
<1>7. /\ Null \in {terms, role, effective, review} => "RIGHTS_MISSING" \in found
      /\ file.payload = Null => "NOT_LOCAL" \in found
      /\ file.payload # Null /\ file.issues = {}
            /\ (file.payload = NoDoc \/ file.payload.source # row.source)
            => "PROFILE_MISMATCH" \in found
      /\ file.issues # {} => "PROFILE_MISMATCH" \notin found
      /\ found = {} => file.issues = {}
  <2>1. Null \in {terms, role, effective, review} => ~RightsComplete
    BY <1>3, RightsFacts
  <2> QED BY <1>1, <1>4, <2>1, ReasonsOfFile
<1> DEFINE odd == \/ role \notin {Null, 1} \/ 0 \in {effective, review}
                  \/ Null \notin {effective, review} /\ review < effective
<1>9. Null # 0 /\ Null # 1 /\ Null \notin SafePaths
  <2>1. Null \notin Nat /\ SafePaths \subseteq Nat
    BY FixtureAssumption
  <2>2. 0 \in Nat /\ 1 \in Nat
    OBVIOUS
  <2> QED BY <2>1, <2>2, Zenon
<1>10. role \in Maybe(Nat) /\ effective \in Maybe(Nat) /\ review \in Maybe(Nat)
  BY <1>3, RightsFacts
<1>11. odd <=>
         /\ captured.rights # Null
         /\ \/ captured.rights.role \notin {Null, 1} \/ 0 \in {captured.rights.effective, captured.rights.review}
            \/ /\ Null \notin {captured.rights.effective, captured.rights.review}
               /\ captured.rights.review < captured.rights.effective
  <2>1. CASE captured.rights # Null
    <3>1. role = captured.rights.role /\ effective = captured.rights.effective /\ review = captured.rights.review
      BY <1>3, <2>1, RightsFacts
    <3> QED BY <2>1, <3>1
  <2>2. CASE captured.rights = Null
    <3>1. role = Null /\ effective = Null /\ review = Null
      BY <1>3, <2>2, RightsFacts
    <3> QED BY <1>9, <2>2, <3>1
  <2> QED BY <2>1, <2>2
<1>12. Untold(file) <=>
        \/ ~ValidSequence(row.seq)
        \/ row.path # Null /\ row.path \notin SafePaths
        \/ Null \in {file.observed, file.ingested} /\ "POINT_IN_TIME_MISSING" \notin found
        \/ file.payload # Null /\ row.slot = Null /\ "POINT_IN_TIME_MISSING" \notin found
        \/ /\ file.payload # Null /\ file.issues # {}
           /\ row.source = Null \/ (row.market = Null /\ file.payload = NoDoc)
        \/ odd
  BY <1>1, <1>4, <1>11, Zenon DEF Untold
<1>13. /\ row.path = Null => file.payload = Null
       /\ Null \in {r.payload, r.path} <=> file.payload = Null
  BY <1>5, <1>6, <1>9
\* A payload that is there has to be told what it is.
<1>14. ASSUME file.payload # Null
       PROVE  /\ Null \in {r.source, r.market, r.media} <=>
                    row.source = Null \/ (row.market = Null /\ file.payload = NoDoc)
              /\ Owned(Null \in {r.source, r.market, r.media}, {"PROFILE_MISMATCH"}, r.reasons) <=>
                    ~(/\ file.issues # {}
                      /\ row.source = Null \/ (row.market = Null /\ file.payload = NoDoc))
  <2>1. CASE file.payload = NoDoc
    <3>1. r.source = row.source /\ r.market = row.market /\ r.media = row.source
      BY <1>5, <2>1
    <3>2. file.issues = {} => "PROFILE_MISMATCH" \in r.reasons
      BY <1>5, <1>7, <1>14, <2>1
    <3>3. file.issues # {} => "PROFILE_MISMATCH" \notin r.reasons
      BY <1>5, <1>7
    <3> QED BY <2>1, <3>1, <3>2, <3>3 DEF Owned
  <2>2. CASE file.payload # NoDoc
    <3>1. file.payload \in Docs
      BY <1>6, <1>14, <2>2 DEF Maybe, Payloads
    <3>2. file.payload.source \in Nat /\ file.payload.market \in Nat
      BY <3>1 DEF Docs
    <3>3. r.source = 1 /\ r.market = file.payload.market /\ r.media = row.source
      BY <1>5, <1>14, <2>2
    <3>4. r.source # Null /\ r.market # Null /\ file.payload.source # Null
      BY <3>2, <3>3, FixtureAssumption
    <3>5. file.issues = {} /\ row.source = Null => "PROFILE_MISMATCH" \in r.reasons
      BY <1>5, <1>7, <1>14, <3>4
    <3>6. file.issues # {} => "PROFILE_MISMATCH" \notin r.reasons
      BY <1>5, <1>7
    <3> QED BY <2>2, <3>3, <3>4, <3>5, <3>6 DEF Owned
  <2> QED BY <2>1, <2>2
<1>15. NullsAreExplained(r) <=>
        /\ ~(Null \in {file.observed, file.ingested} /\ "POINT_IN_TIME_MISSING" \notin found)
        /\ file.payload # Null =>
              /\ ~(row.slot = Null /\ "POINT_IN_TIME_MISSING" \notin found)
              /\ ~(/\ file.issues # {}
                   /\ row.source = Null \/ (row.market = Null /\ file.payload = NoDoc))
  <2>1. Owned(Null \in {r.terms, r.role, r.effective, r.review}, {"RIGHTS_MISSING"}, r.reasons)
    BY <1>5, <1>7 DEF Owned
  <2>2. Owned(Null \in {r.payload, r.path}, {"NOT_LOCAL"}, r.reasons)
    BY <1>5, <1>7, <1>13 DEF Owned
  <2>3. Owned(r.slot = Null, {"POINT_IN_TIME_MISSING"}, r.reasons) <=>
          ~(row.slot = Null /\ "POINT_IN_TIME_MISSING" \notin found)
    BY <1>5 DEF Owned
  <2>4. Owned(Null \in {r.observed, r.ingested}, {"POINT_IN_TIME_MISSING"}, r.reasons) <=>
          ~(Null \in {file.observed, file.ingested} /\ "POINT_IN_TIME_MISSING" \notin found)
    BY <1>5 DEF Owned
  <2>5. Null \in {r.payload, r.path} /\ "NOT_LOCAL" \in r.reasons <=> file.payload = Null
    BY <1>5, <1>7, <1>13
  <2> QED BY <1>14, <2>1, <2>2, <2>3, <2>4, <2>5, Zenon DEF NullsAreExplained
<1>16. ReceiptInRange(r) /\ ReceiptOrder(r) <=>
         /\ ValidSequence(row.seq) /\ ~(row.path # Null /\ row.path \notin SafePaths) /\ ~odd
  <2>1. r.seq \in Nat \ {0} <=> ValidSequence(row.seq)
    BY <1>5, <1>6 DEF ValidSequence, Maybe
  <2>2. ReceiptInRange(r) <=>
          /\ ~(row.path # Null /\ row.path \notin SafePaths) /\ ValidSequence(row.seq)
          /\ role \in {Null, 1} /\ 0 \notin {effective, review}
    BY <1>5, <2>1 DEF ReceiptInRange
  <2>3. ReceiptOrder(r) <=> ~(Null \notin {effective, review} /\ review < effective)
    <3>1. Null \notin {r.observed, r.ingested} => r.observed <= r.ingested
      BY <1>5, <1>6
    <3>2. Null \notin {effective, review} => (effective <= review <=> ~(review < effective))
      BY <1>10 DEF Maybe
    <3> QED BY <1>5, <3>1, <3>2 DEF ReceiptOrder
  <2> QED BY <1>11, <2>2, <2>3
<1>17. r.reasons = {} => Null \notin {r.payload, r.terms, r.source, r.market, r.path, r.media, r.slot,
                                      r.observed, r.ingested, r.role, r.effective, r.review}
  <2> SUFFICES ASSUME found = {} PROVE Null \notin {r.payload, r.terms, r.source, r.market, r.path, r.media,
                                      r.slot, r.observed, r.ingested, r.role, r.effective, r.review}
    BY <1>5
  <2>1. file.issues = {} /\ file.payload # Null /\ Null \notin {terms, role, effective, review}
    BY <1>7
  <2>2. row.path # Null /\ row.slot # Null /\ Null \notin {file.observed, file.ingested}
    BY <1>6, <1>9, <2>1
  <2>3. Null \notin {r.source, r.market, r.media}
    BY <1>5, <1>14, <2>1 DEF Owned
  <2> QED BY <1>5, <2>1, <2>2, <2>3
<1>18. SourceReceiptValid(r) <=> NullsAreExplained(r) /\ ReceiptInRange(r) /\ ReceiptOrder(r)
  BY <1>17, Zenon DEF SourceReceiptValid
<1>19. SourceReceiptValid(r) <=> ~Untold(file)
  BY <1>12, <1>15, <1>16, <1>18, Zenon
<1> QED BY <1>1, <1>2, <1>19

(***************************************************************************)
(* A receipt is refused exactly for what it cannot tell; an admitted       *)
(* file's only for the dates of its rights.                                *)
(***************************************************************************)
LEMMA ReceiptsAreRefusedExactly == Inv => ReceiptsRefusedExactly
<1> SUFFICES ASSUME Inv, Done, NEW i \in DOMAIN captured.files, Admitted, Untold(captured.files[i])
             PROVE  \/ 0 \in {captured.rights.effective, captured.rights.review}
                    \/ captured.rights.review < captured.rights.effective
  BY RefusedExactly DEF ReceiptsRefusedExactly
<1>1. PICK file, row : file = captured.files[i] /\ row = file.row
  OBVIOUS
<1>2. /\ file.issues = {} /\ row.slot # Null /\ row.path \in SafePaths /\ ValidSequence(row.seq)
      /\ Null \notin {file.observed, file.ingested} /\ RightsComplete
  BY <1>1, AdmittedCapture, FileFacts
<1>3. \/ captured.rights.role \notin {Null, 1} /\ captured.rights # Null
      \/ 0 \in {captured.rights.effective, captured.rights.review}
      \/ captured.rights.review < captured.rights.effective
  BY <1>1, <1>2, Zenon DEF Untold
<1>4. captured.rights # Null => captured.rights.role = 1
  BY <1>2, RightsFacts DEF RightsComplete
<1> QED BY <1>3, <1>4

THEOREM ReceiptsToldOrRefused == Spec => []ReceiptsRefusedExactly
BY ReceiptsAreRefusedExactly, Invariance, PTL

-----------------------------------------------------------------------------
(* A fixture that nobody changes *)

Clean == captured.issues = {} /\ \A i \in DOMAIN captured.files : captured.files[i].issues = {}

Names == Range(Candidates)
There(path) == EntryAt(path).kind # "NONE"

\* What is known of the file that is being read.
ReadExact ==
    reading # Null =>
        LET entry == EntryAt(reading.path)
        IN  /\ reading.path \in Names /\ Candidates # <<>>
            /\ There(reading.path) \/ \A p \in Names : ~There(p)
            /\ reading.issues = {} <=> \A p, q \in Names : There(p) /\ There(q) => p = q
            /\ reading.issues \subseteq {"SET_NOT_CLOSED"}
            /\ reading.step \in {"opened", "read"} =>
                  /\ entry.kind = "FILE" /\ reading.now = entry /\ reading.id = entry.id
                  /\ reading.dir = disk.dirs[DirOf(reading.path)]
            /\ reading.step = "read" => reading.data = entry.data

TermsCounted ==
    /\ job[1] = "terms" => Len(captured.terms) = job[2] - 1
    /\ job[1] \in {"payloads", "witnesses"} \cup Ends => Len(captured.terms) = TermCount

\* While nothing is wrong, what was captured is what there is, and whole.
AsFound ==
    /\ job[1] # "root" => disk.dirs["root"] # Null
    /\ job[1] \notin {"root", "manifest"} =>
          captured.manifest = TheManifest(disk) /\ WholeManifest(captured.manifest)
    /\ job[1] \notin {"root", "manifest", "rights"} =>
          captured.rights = TheRights(disk) /\ WholeRights(captured.manifest, captured.rights)
    /\ \A i \in DOMAIN captured.terms :
          LET term == captured.rights.terms[i]
          IN  captured.terms[i].digest = TheTerms(disk, term) /\ WholeTerm(disk, term)
    /\ \A i \in DOMAIN captured.files :
          LET row == captured.files[i].row
          IN  /\ captured.files[i].payload = ThePayload(disk, row) /\ WholePayload(disk, row)
              /\ ~Waiting(i) => WholeWitness(disk, row)
    /\ job[1] \in {"end", "admit", "done"} => NothingElse(disk, captured.manifest.files)

\* Something is wrong only with a fixture that is not whole.
Quiet ==
    writes = 0 =>
        /\ disk \in Disks
        /\ job[1] # "root" => root = disk.dirs["root"]
        /\ disk.dirs["root"] = Null => job[1] \in {"root", "admit", "done"}
        /\ ReadExact /\ TermsCounted
        /\ Clean => AsFound
        /\ ~Clean => ~Whole(disk)

\* Nothing is there in a directory that is not.
LEMMA NothingThere ==
    ASSUME disk \in Disks, NEW path, There(path)
    PROVE  disk.dirs[path[1]] # Null
BY FixtureAssumption DEF There, EntryAt, NoEntry

LEMMA OnlyFile ==
    ASSUME NEW paths, NEW p \in paths
    PROVE  /\ EntryAt(p).kind = "FILE" /\ (\A q \in paths \ {p} : ~There(q)) =>
                 TheFile(disk, paths) = EntryAt(p).data
           /\ (\A q \in paths : ~(EntryAt(q).kind = "FILE" /\ \A o \in paths \ {q} : ~There(o))) =>
                 TheFile(disk, paths) = Null
<1> DEFINE only(q) == On(disk, q).kind = "FILE" /\ \A o \in paths \ {q} : On(disk, o).kind = "NONE"
<1>1. \A q : EntryAt(q) = On(disk, q) /\ (There(q) <=> On(disk, q).kind # "NONE")
  BY DEF EntryAt, On, There
<1>2. TheFile(disk, paths) =
        IF \E q \in paths : only(q) THEN On(disk, CHOOSE q \in paths : only(q)).data ELSE Null
  BY DEF TheFile
<1>3. ASSUME only(p) PROVE TheFile(disk, paths) = On(disk, p).data
  <2>1. \A q \in paths : only(q) => q = p
    BY <1>3
  <2>2. (CHOOSE q \in paths : only(q)) = p
    <3> HIDE DEF only
    <3> QED BY <1>3, <2>1
  <2> QED BY <1>2, <1>3, <2>2
<1>4. (\A q \in paths : ~only(q)) => TheFile(disk, paths) = Null
  BY <1>2
<1> QED BY <1>1, <1>3, <1>4

\* A job looks at each place once.
LEMMA PlacesDiffer ==
    ASSUME Inv, job[1] \in Reads
    PROVE  /\ IsFiniteSet(DOMAIN Candidates)
           /\ \A i, j \in DOMAIN Candidates : Candidates[i] = Candidates[j] => i = j
<1> USE DEF Inv
<1>0. ASSUME NEW n \in Nat PROVE IsFiniteSet(1 .. n)
  <2>1. 1 \in Int /\ n \in Int
    OBVIOUS
  <2> QED BY <2>1, FS_Interval, Zenon
<1>1. CASE job[1] \in {"manifest", "rights"}
  <2>1. PICK l : l = Layout[job[1]]
    OBVIOUS
  <2>2. Candidates = l
    BY <1>1, <2>1 DEF Candidates
  <2>3. l \in Seq(Range(l)) /\ \A i, j \in DOMAIN l : l[i] = l[j] => i = j
    BY <1>1, <2>1, FixtureAssumption
  <2>4. PICK R : R = Range(l)
    OBVIOUS
  <2>5. DOMAIN l = 1 .. Len(l) /\ Len(l) \in Nat
    BY <2>3, <2>4
  <2> QED BY <1>0, <2>2, <2>3, <2>5
<1>2. CASE job[1] \in {"terms", "payloads"} \/ Candidates = <<>>
  <2>1. Candidates = <<>> \/ \E p : Candidates = <<p>>
    BY <1>2 DEF Candidates
  <2>2. PICK n \in {0, 1} : DOMAIN Candidates = 1 .. n
    <3>1. CASE Candidates = <<>>
      BY <3>1
    <3>2. ASSUME NEW p, Candidates = <<p>> PROVE DOMAIN Candidates = 1 .. 1
      BY <3>2
    <3> QED BY <2>1, <3>1, <3>2
  <2>3. \A i, j \in DOMAIN Candidates : i = j
    BY <2>2
  <2> QED BY <1>0, <2>2, <2>3
<1>3. CASE job[1] = "witnesses" /\ Candidates # <<>>
  <2>1. PICK seq : seq = CurrentRow.seq
    OBVIOUS
  <2>2. Candidates = <<(<<"witnesses", seq>>), (<<"witnesses", -seq>>)>> /\ ValidSequence(seq)
    BY <1>3, <2>1 DEF Candidates
  <2>3. seq \in Nat /\ seq # 0
    <3>1. job[2] \in 1 .. RowCount
      BY <1>3 DEF Progress
    <3>2. CurrentRow \in FileRows
      BY <3>1, Rows1 DEF CurrentRow
    <3>3. seq \in Maybe(Nat)
      BY <2>1, <3>2 DEF FileRows
    <3> QED BY <2>2, <3>3 DEF Maybe, ValidSequence
  <2>4. seq # -seq
    BY <2>3
  <2>5. <<"witnesses", seq>> # <<"witnesses", -seq>>
    BY <2>4
  <2>6. PICK a, b : a = <<"witnesses", seq>> /\ b = <<"witnesses", -seq>>
    OBVIOUS
  <2>7. DOMAIN Candidates = 1 .. 2 /\ Candidates[1] = a /\ Candidates[2] = b /\ a # b
    BY <2>2, <2>5, <2>6
  <2>8. \A i, j \in 1 .. 2 : i = j \/ (i = 1 /\ j = 2) \/ (i = 2 /\ j = 1)
    OBVIOUS
  <2>9. IsFiniteSet(DOMAIN Candidates)
    BY <1>0, <2>7
  <2> QED BY <2>7, <2>8, <2>9
<1> QED BY <1>1, <1>2, <1>3 DEF Reads

LEMMA ManyElements ==
    ASSUME NEW S, IsFiniteSet(S), NEW x \in S
    PROVE  Cardinality(S) > 1 <=> \E y \in S : y # x
<1>1. IsFiniteSet({x}) /\ Cardinality({x}) = 1
  BY FS_Singleton
<1>2. Cardinality(S) \in Nat
  BY FS_CardinalityType
<1>3. Cardinality({x}) <= Cardinality(S) /\ (Cardinality(S) = Cardinality({x}) => S = {x})
  BY FS_Subset
<1>4. CASE \E y \in S : y # x
  <2>1. S # {x}
    BY <1>4
  <2> QED BY <1>1, <1>2, <1>3, <1>4, <2>1
<1>5. CASE ~\E y \in S : y # x
  <2>1. S = {x}
    BY <1>5
  <2> QED BY <1>1, <1>5, <2>1
<1> QED BY <1>4, <1>5

\* A job is finished with the one file there is, or with what is wrong.
Exactly(data, issues) ==
    /\ Candidates = <<>> => data = Null /\ (issues = {} <=> job[1] # "witnesses")
    /\ Candidates # <<>> => /\ issues = {} <=> TheFile(disk, Names) # Null
                            /\ issues = {} => data = TheFile(disk, Names)

Looks == UNCHANGED <<disk, writes, root, job, captured, admissionVars>> /\ ReadExact'
Takes ==
    \E data, issues : /\ Finish(data, issues) /\ Exactly(data, issues)
                      /\ (data # Null => Bytes(data)) /\ issues \subseteq CaptureCodes

LEMMA SkipExact == ASSUME SkipUnnamed PROVE Takes
<1>1. Candidates = <<>> /\ Finish(Null, {c \in {"SEQUENCE_INVALID"} : job[1] = "witnesses"})
  BY DEF SkipUnnamed
<1>2. PICK issues : issues = {c \in {"SEQUENCE_INVALID"} : job[1] = "witnesses"}
  OBVIOUS
<1>3. (issues = {} <=> job[1] # "witnesses") /\ issues \subseteq CaptureCodes
  BY <1>2 DEF CaptureCodes
<1>4. Exactly(Null, issues)
  BY <1>1, <1>3 DEF Exactly
<1> QED BY <1>1, <1>2, <1>3, <1>4, Zenon DEF Takes

LEMMA SelectExact == ASSUME Inv, SelectLayoutPath PROVE Looks
<1> DEFINE there == {i \in DOMAIN Candidates : EntryAt(Candidates[i]).kind # "NONE"}
           first == IF there = {} THEN 1 ELSE Min(there)
           issues == {c \in {"SET_NOT_CLOSED"} : Cardinality(there) > 1}
<1>1. /\ job[1] \in Reads /\ Candidates # <<>>
      /\ reading' = [path |-> Candidates[first], step |-> "selected", id |-> 0, dir |-> Null,
                     now |-> NoEntry, data |-> Null, issues |-> issues]
      /\ UNCHANGED <<disk, writes, root, job, captured, admissionVars>>
  BY DEF SelectLayoutPath
<1>2. \A i \in DOMAIN Candidates : i \in there <=> There(Candidates[i])
  BY DEF There
<1>3. there \subseteq DOMAIN Candidates
  OBVIOUS
<1>4. first \in DOMAIN Candidates /\ (there # {} => first \in there)
  <2> HIDE DEF there
  <2> QED BY <1>1, <1>3, FirstThere
<1>5. issues = {} <=> ~(Cardinality(there) > 1)
  OBVIOUS
<1>6. issues \subseteq {"SET_NOT_CLOSED"}
  OBVIOUS
<1> HIDE DEF there, first, issues
<1>7. issues = {} <=> \A i, j \in there : i = j
  <2>1. CASE there = {}
    <3>1. Cardinality(there) = 0
      BY <2>1, FS_EmptySet
    <3> QED BY <1>5, <2>1, <3>1
  <2>2. CASE there # {}
    <3>1. IsFiniteSet(there) /\ first \in there
      BY <1>1, <1>3, <1>4, <2>2, PlacesDiffer, FS_Subset
    <3>2. Cardinality(there) > 1 <=> \E y \in there : y # first
      BY <3>1, ManyElements
    <3> QED BY <1>5, <3>1, <3>2
  <2> QED BY <2>1, <2>2
<1>8. issues = {} <=> \A p, q \in Names : There(p) /\ There(q) => p = q
  <2>1. \A i, j \in DOMAIN Candidates : Candidates[i] = Candidates[j] => i = j
    BY <1>1, PlacesDiffer
  <2>2. Names = {Candidates[i] : i \in DOMAIN Candidates}
    BY DEF Names, Range
  <2> QED BY <1>2, <1>3, <1>7, <2>1, <2>2
<1>9. There(Candidates[first]) \/ \A p \in Names : ~There(p)
  BY <1>2, <1>3, <1>4 DEF Names, Range
<1>10. Candidates[first] \in Names
  BY <1>4 DEF Names, Range
<1>11. Candidates' = Candidates /\ Names' = Names /\ \A p : There(p)' = There(p)
  BY <1>1, SameCandidates DEF Names, There, EntryAt
<1>12. ReadExact'
  <2>1. /\ reading'.path = Candidates[first] /\ reading'.step = "selected" /\ reading'.issues = issues
    BY <1>1
  <2>2. There(reading.path)' = There(Candidates[first])
    BY <1>1, <2>1 DEF There, EntryAt
  <2>3. (\A p \in Names : ~There(p))' <=> \A p \in Names : ~There(p)
    BY <1>1, <1>11 DEF There, EntryAt
  <2>4. (\A p, q \in Names : There(p) /\ There(q) => p = q)' <=> \A p, q \in Names : There(p) /\ There(q) => p = q
    BY <1>1, <1>11 DEF There, EntryAt
  <2> QED BY <1>1, <1>6, <1>8, <1>9, <1>10, <1>11, <2>1, <2>2, <2>3, <2>4 DEF ReadExact
<1> QED BY <1>1, <1>12 DEF Looks

\* What a capture of a fixture that nobody changes sees: its root and its
\* directories stay, and what is there can be reached.
LEMMA Undisturbed ==
    ASSUME Inv, Quiet, writes = 0, job[1] \in Reads
    PROVE  /\ ~RootMoved /\ disk \in Disks
           /\ reading # Null => /\ ReadExact
                                /\ There(reading.path) => disk.dirs[DirOf(reading.path)] # Null
<1>1. disk \in Disks /\ ~RootMoved /\ ReadExact
  BY DEF Quiet, RootMoved, Reads
<1>2. There(reading.path) => disk.dirs[DirOf(reading.path)] # Null
  BY <1>1, NothingThere DEF DirOf
<1> QED BY <1>1, <1>2

\* The reads of a file change neither the names nor what is there.
LEMMA SameThere ==
    ASSUME UNCHANGED <<disk, job, captured>>
    PROVE  /\ Candidates' = Candidates /\ Names' = Names
           /\ (\A p \in Names : ~There(p))' <=> \A p \in Names : ~There(p)
           /\ (\A p, q \in Names : There(p) /\ There(q) => p = q)' <=>
                 \A p, q \in Names : There(p) /\ There(q) => p = q
<1>1. Candidates' = Candidates /\ Names' = Names
  BY SameCandidates DEF Names
<1> QED BY <1>1 DEF There, EntryAt

\* What there is of a file that is there.
LEMMA FileData ==
    ASSUME Inv, job[1] \in Reads, NEW path \in Names, EntryAt(path).kind = "FILE"
    PROVE  Bytes(EntryAt(path).data) /\ EntryAt(path).data # Null
<1>1. DataFits(path, EntryAt(path).data)
  BY DEF EntryAt, NoEntry, Inv, TypeOK, EntryFits
<1>2. Candidate(path)
  BY DEF Names, Range, Candidate
<1> QED BY <1>1, <1>2, BytesFit

LEMMA OpenExact == ASSUME Inv, Quiet, writes = 0, OpenLocalFile PROVE Looks \/ Takes
<1> DEFINE entry == EntryAt(reading.path)
           dir == disk.dirs[DirOf(reading.path)]
           refused == IF RootMoved \/ dir = Null THEN {"NOT_LOCAL"}
                      ELSE IF entry.kind \in {"NONE", "LINK"} THEN {MissingCode}
                      ELSE IF entry.kind = "DIRECTORY" THEN {"SET_NOT_CLOSED"} ELSE {}
<1>1. /\ job[1] \in Reads /\ reading # Null /\ reading.step = "selected"
      /\ IF refused # {} THEN Finish(Null, reading.issues \cup refused)
         ELSE /\ reading' = [reading EXCEPT !.step = "opened", !.id = entry.id, !.dir = dir, !.now = entry]
              /\ UNCHANGED <<disk, writes, root, job, captured, admissionVars>>
  BY Zenon DEF OpenLocalFile, At
<1>2. ReadExact /\ ~RootMoved /\ (There(reading.path) => dir # Null)
  BY <1>1, Undisturbed
<1>3. reading.path \in Names /\ Candidates # <<>> /\ (There(reading.path) \/ \A p \in Names : ~There(p))
  BY <1>1, <1>2 DEF ReadExact
<1>4. There(reading.path) <=> entry.kind # "NONE"
  BY DEF There
<1>5. refused = {} => entry.kind = "FILE" /\ dir # Null
  <2>1. refused = {} => entry.kind \notin {"NONE", "LINK", "DIRECTORY"}
    OBVIOUS
  <2>2. entry.kind \in {"FILE", "LINK", "DIRECTORY", "NONE"}
    BY DEF EntryAt, NoEntry, Inv, TypeOK, EntryFits
  <2> QED BY <1>2, <1>4, <2>1, <2>2
<1>6. refused # {} => entry.kind # "FILE"
  <2>1. entry.kind = "FILE" => dir # Null
    BY <1>2, <1>4
  <2> QED BY <1>2, <2>1
<1>7. CASE refused # {}
  <2>0. refused \subseteq CaptureCodes
    BY <1>1, MissingIsACode DEF CaptureCodes
  <2> HIDE DEF refused
  <2>1. PICK issues : issues = reading.issues \cup refused
    OBVIOUS
  <2>2. Finish(Null, issues) /\ issues # {}
    BY <1>1, <1>7, <2>1
  <2>3. TheFile(disk, Names) = Null
    <3>1. \A q \in Names : ~(EntryAt(q).kind = "FILE" /\ \A o \in Names \ {q} : ~There(o))
      BY <1>3, <1>6, <1>7 DEF There
    <3> QED BY <1>3, <3>1, OnlyFile
  <2>4. Exactly(Null, issues)
    BY <1>3, <2>2, <2>3 DEF Exactly
  <2>5. issues \subseteq CaptureCodes
    BY <1>1, <1>2, <2>0, <2>1 DEF ReadExact, CaptureCodes
  <2> QED BY <2>2, <2>4, <2>5, Zenon DEF Takes
<1>8. CASE refused = {}
  <2>1. /\ reading' = [reading EXCEPT !.step = "opened", !.id = entry.id, !.dir = dir, !.now = entry]
        /\ UNCHANGED <<disk, writes, root, job, captured, admissionVars>> /\ entry.kind = "FILE"
    BY <1>1, <1>5, <1>8
  <2> HIDE DEF entry, dir, refused
  <2>2. /\ reading'.path = reading.path /\ reading'.step = "opened" /\ reading'.now = entry
        /\ reading'.issues = reading.issues /\ reading'.id = entry.id /\ reading'.dir = dir
    BY <1>1, <2>1 DEF Inv, ReadingOK
  <2>3. EntryAt(reading.path)' = entry /\ There(reading.path)' = There(reading.path)
    BY <2>1, <2>2 DEF EntryAt, entry, There
  <2>4. disk.dirs[DirOf(reading.path)]' = dir
    BY <2>1, <2>2 DEF DirOf, dir
  <2>5. ReadExact'
    BY <1>1, <1>2, <2>1, <2>2, <2>3, <2>4, SameThere DEF ReadExact
  <2> QED BY <2>1, <2>5 DEF Looks
<1> QED BY <1>7, <1>8

LEMMA ReadIsExact == ASSUME Inv, Quiet, writes = 0, ReadChunks PROVE Looks
<1>1. job[1] \in Reads /\ reading # Null /\ reading.step = "opened"
  BY DEF ReadChunks, At
<1>2. ReadExact /\ ~RootMoved
  BY <1>1, Undisturbed
<1>3. reading.now.id = reading.id
  BY <1>1, <1>2 DEF ReadExact
<1>4. /\ reading' = [reading EXCEPT !.step = "read", !.data = reading.now.data,
                                    !.issues = reading.issues \cup {c \in {"NOT_LOCAL"} : RootMoved}]
      /\ UNCHANGED <<disk, writes, root, job, captured, admissionVars>>
  BY <1>3, Zenon DEF ReadChunks
<1>5. reading.issues \cup {c \in {"NOT_LOCAL"} : RootMoved} = reading.issues
  BY <1>2
<1>6. /\ reading'.path = reading.path /\ reading'.step = "read" /\ reading'.now = reading.now
      /\ reading'.data = reading.now.data /\ reading'.issues = reading.issues
      /\ reading'.id = reading.id /\ reading'.dir = reading.dir
  BY <1>1, <1>4, <1>5 DEF Inv, ReadingOK
<1>7. EntryAt(reading.path)' = EntryAt(reading.path) /\ There(reading.path)' = There(reading.path)
  BY <1>4, <1>6 DEF EntryAt, There
<1>8. disk.dirs[DirOf(reading.path)]' = disk.dirs[DirOf(reading.path)]
  BY <1>4, <1>6 DEF DirOf
<1>9. ReadExact'
  BY <1>1, <1>2, <1>4, <1>6, <1>7, <1>8, SameThere DEF ReadExact
<1> QED BY <1>4, <1>9 DEF Looks

LEMMA RevalidateExact == ASSUME Inv, Quiet, writes = 0, Revalidate PROVE Takes
<1>1. job[1] \in Reads /\ reading # Null /\ reading.step = "read"
  BY DEF Revalidate, At
<1>2. ReadExact /\ ~RootMoved
  BY <1>1, Undisturbed
<1>3. PICK path, entry : path = reading.path /\ entry = EntryAt(path)
  OBVIOUS
<1>4. /\ path \in Names /\ Candidates # <<>> /\ entry.kind = "FILE" /\ reading.now = entry
      /\ reading.id = entry.id /\ reading.dir = disk.dirs[DirOf(path)] /\ reading.data = entry.data
      /\ reading.issues = {} <=> \A p, q \in Names : There(p) /\ There(q) => p = q
      /\ reading.issues \subseteq {"SET_NOT_CLOSED"}
  BY <1>1, <1>2, <1>3 DEF ReadExact
<1>5. Unstable = {}
  BY <1>2, <1>3, <1>4 DEF Unstable
<1>6. Finish(entry.data, reading.issues)
  <2>1. (reading.issues \ {"SET_NOT_CLOSED"}) \cup Unstable = {} /\ reading.issues \cup Unstable = reading.issues
    BY <1>4, <1>5
  <2> QED BY <1>4, <2>1 DEF Revalidate
<1>7. Bytes(entry.data) /\ entry.data # Null
  BY <1>1, <1>3, <1>4, FileData
<1>8. There(path) /\ reading.issues \subseteq CaptureCodes
  BY <1>3, <1>4 DEF There, CaptureCodes
<1>9. CASE reading.issues = {}
  <2>1. \A q \in Names \ {path} : ~There(q)
    BY <1>4, <1>8, <1>9
  <2>2. TheFile(disk, Names) = entry.data
    BY <1>3, <1>4, <2>1, OnlyFile
  <2> QED BY <1>4, <1>6, <1>7, <1>8, <1>9, <2>2, Zenon DEF Takes, Exactly
<1>10. CASE reading.issues # {}
  <2>1. PICK p \in Names, q \in Names : There(p) /\ There(q) /\ p # q
    BY <1>4, <1>10
  <2>2. \A o \in Names : ~\A other \in Names \ {o} : ~There(other)
    BY <2>1
  <2>3. TheFile(disk, Names) = Null
    BY <1>4, <2>2, OnlyFile
  <2> QED BY <1>4, <1>6, <1>7, <1>8, <1>10, <2>3, Zenon DEF Takes, Exactly
<1> QED BY <1>9, <1>10

\* What a whole fixture has, one thing after the other.
LEMMA WholeHas ==
    ASSUME NEW d, Whole(d), NEW manifest, manifest = TheManifest(d)
    PROVE  /\ d.dirs["root"] # Null /\ WholeManifest(manifest) /\ WholeRights(manifest, TheRights(d))
           /\ \A i \in DOMAIN TheRights(d).terms : WholeTerm(d, TheRights(d).terms[i])
           /\ \A i \in DOMAIN manifest.files :
                 WholePayload(d, manifest.files[i]) /\ WholeWitness(d, manifest.files[i])
           /\ \A i, j \in DOMAIN manifest.files : i # j => manifest.files[i].path # manifest.files[j].path
           /\ NothingElse(d, manifest.files)
BY DEF Whole

\* What a job takes, by what it looks for.
LEMMA TakenIs ==
    ASSUME Inv, job[1] \in Reads, NEW data, NEW issues, Exactly(data, issues)
    PROVE  LET exactly(file) == (issues = {} <=> file # Null) /\ (issues = {} => data = file)
           IN  /\ job[1] = "manifest" => exactly(TheManifest(disk))
               /\ job[1] = "rights" => exactly(TheRights(disk))
               /\ job[1] = "terms" => exactly(TheTerms(disk, captured.rights.terms[job[2]]))
               /\ job[1] = "payloads" /\ CurrentRow.path \in SafePaths => exactly(ThePayload(disk, CurrentRow))
               /\ job[1] = "witnesses" /\ ValidSequence(CurrentRow.seq) => exactly(TheWitness(disk, CurrentRow))
<1> DEFINE exactly(file) == (issues = {} <=> file # Null) /\ (issues = {} => data = file)
<1>1. Candidates # <<>> => exactly(TheFile(disk, Names))
  BY DEF Exactly
<1> HIDE DEF exactly
<1>2. CASE job[1] \in {"manifest", "rights"}
  <2>1. Candidates # <<>> /\ Candidates = Layout[job[1]]
    BY <1>2, CandidatesAre DEF Candidates
  <2>2. job[1] = "manifest" => TheFile(disk, Names) = TheManifest(disk)
    BY <2>1 DEF Names, TheManifest
  <2>3. job[1] = "rights" => TheFile(disk, Names) = TheRights(disk)
    BY <2>1 DEF Names, TheRights
  <2>4. exactly(TheFile(disk, Names))
    BY <1>1, <2>1
  <2> QED BY <1>2, <2>2, <2>3, <2>4 DEF exactly
<1>3. ASSUME NEW p, Candidates = <<p>> PROVE exactly(TheFile(disk, {p}))
  <2>1. Names = {p}
    <3>1. DOMAIN <<p>> = 1 .. 1 /\ <<p>>[1] = p
      OBVIOUS
    <3> QED BY <1>3, <3>1 DEF Names, Range
  <2>2. Candidates # <<>>
    BY <1>3
  <2> QED BY <1>1, <2>1, <2>2
<1>4. CASE job[1] = "terms"
  <2>1. PICK p : p = <<"terms", captured.rights.terms[job[2]].path>>
    OBVIOUS
  <2>2. Candidates = <<p>>
    BY <1>4, <2>1 DEF Candidates
  <2>3. exactly(TheTerms(disk, captured.rights.terms[job[2]]))
    BY <1>3, <2>1, <2>2 DEF TheTerms
  <2> QED BY <1>4, <2>3 DEF exactly
<1>5. CASE job[1] = "payloads"
  <2>1. PICK p : p = <<"payloads", CurrentRow.path>>
    OBVIOUS
  <2>2. CurrentRow.path \in SafePaths => Candidates = <<p>>
    BY <1>5, <2>1 DEF Candidates
  <2>3. CurrentRow.path \in SafePaths => exactly(ThePayload(disk, CurrentRow))
    BY <1>3, <2>1, <2>2 DEF ThePayload
  <2> QED BY <1>5, <2>3 DEF exactly
<1>6. CASE job[1] = "witnesses"
  <2>1. PICK a, b : a = <<"witnesses", CurrentRow.seq>> /\ b = <<"witnesses", -CurrentRow.seq>>
    OBVIOUS
  <2>2. ASSUME ValidSequence(CurrentRow.seq) PROVE exactly(TheWitness(disk, CurrentRow))
    <3>1. Candidates = <<a, b>>
      BY <1>6, <2>1, <2>2 DEF Candidates
    <3>2. Names = {a, b} /\ Candidates # <<>>
      BY <3>1 DEF Names, Range
    <3> QED BY <1>1, <2>1, <3>2 DEF TheWitness
  <2> QED BY <1>6, <2>2 DEF exactly
<1> QED BY <1>2, <1>4, <1>5, <1>6 DEF Reads, exactly

\* What is left to show of a step that takes something.
LEMMA QuietAfter ==
    ASSUME Quiet, writes = 0, job[1] \notin {"root", "admit", "done"}, UNCHANGED <<disk, writes, root>>,
           reading' = Null, TermsCounted', Clean' => AsFound', ~Clean' => ~Whole(disk)
    PROVE  Quiet'
<1>1. /\ disk \in Disks /\ root = disk.dirs["root"] /\ disk.dirs["root"] # Null
  BY DEF Quiet
<1>2. ReadExact'
  BY DEF ReadExact
<1>3. Whole(disk') <=> Whole(disk)
  OBVIOUS
<1> QED BY <1>1, <1>2, <1>3 DEF Quiet

LEMMA ManifestQuiet ==
    ASSUME Inv, Quiet, writes = 0, job[1] = "manifest", NEW data, NEW issues, Finish(data, issues),
           Exactly(data, issues), data # Null => Bytes(data)
    PROVE  Quiet'
<1> DEFINE taken == IF data = Garbled THEN Null ELSE data
           new == issues \cup ManifestIssues(data)
<1>1. /\ job' = <<"rights", 1>> /\ reading' = Null /\ UNCHANGED <<disk, writes, root>>
      /\ captured' = [captured EXCEPT !.manifest = taken, !.issues = captured.issues \cup issues \cup ManifestIssues(data)]
  BY DEF Finish, After, Take, TakeManifest
<1>2. captured \in Captures /\ captured.files = <<>> /\ captured.terms = <<>>
  BY DEF Inv, TypeOK, Progress
<1>3. issues = {} <=> TheManifest(disk) # Null
  BY TakenIs DEF Reads
<1>4. issues = {} => data = TheManifest(disk)
  BY TakenIs DEF Reads
<1>5. new = {} <=> WholeManifest(TheManifest(disk))
  <2>1. ManifestIssues(data) = {} <=> data # Garbled /\ (data # Null => data.sealed)
    BY DEF ManifestIssues
  <2> QED BY <1>3, <1>4, <2>1 DEF WholeManifest
<1>6. new = {} => taken = TheManifest(disk)
  BY <1>4, <1>5 DEF WholeManifest
<1>7. /\ captured'.manifest = taken /\ captured'.terms = <<>> /\ captured'.files = <<>>
      /\ captured'.issues = captured.issues \cup new
  BY <1>1, <1>2 DEF Captures
<1> HIDE DEF taken, new
<1>8. Clean' <=> Clean /\ new = {}
  BY <1>2, <1>7 DEF Clean
<1>9. disk.dirs["root"] # Null
  BY DEF Quiet
<1>10. Clean' => AsFound'
  BY <1>1, <1>5, <1>6, <1>7, <1>8, <1>9 DEF AsFound
<1>11. ~Clean' => ~Whole(disk)
  BY <1>5, <1>8, WholeHas DEF Quiet
<1>12. TermsCounted'
  BY <1>1 DEF TermsCounted, Ends
<1> QED BY <1>1, <1>10, <1>11, <1>12, QuietAfter

LEMMA RightsQuiet ==
    ASSUME Inv, Quiet, writes = 0, job[1] = "rights", NEW data, NEW issues, Finish(data, issues),
           Exactly(data, issues), data # Null => Bytes(data)
    PROVE  Quiet'
<1> DEFINE rights == IF data = Garbled THEN Null ELSE data
           requests == IF rights = Null THEN {} ELSE TermRequests(rights, SourceIds(captured.manifest))
           new == issues \cup RightsIssues(captured.manifest, data) \cup requests
           found == captured.issues \cup issues \cup RightsIssues(captured.manifest, data)
                      \cup (IF rights = Null THEN {} ELSE TermRequests(rights, SourceIds(captured.manifest)))
<1>1. reading' = Null /\ UNCHANGED <<disk, writes, root>> /\ TakeRights(data, issues) /\ job' = After("rights", job[2])
  BY DEF Finish, Take
<1>2. captured' = [captured EXCEPT !.rights = rights, !.rights_bytes = data, !.issues = found]
  BY <1>1, Zenon DEF TakeRights
<1>3. captured \in Captures /\ captured.files = <<>> /\ captured.terms = <<>>
  BY DEF Inv, TypeOK, Progress
<1>4. issues = {} <=> TheRights(disk) # Null
  BY TakenIs DEF Reads
<1>5. issues = {} => data = TheRights(disk)
  BY TakenIs DEF Reads
<1>6. ASSUME captured.manifest # Null PROVE new = {} <=> WholeRights(captured.manifest, TheRights(disk))
  <2>1. RightsIssues(captured.manifest, data) = {} <=> data # Garbled /\ (data # Null => captured.manifest.rights = data)
    BY <1>6 DEF RightsIssues
  <2>2. CASE issues = {}
    <3>1. data = TheRights(disk) /\ data # Null
      BY <1>4, <1>5, <2>2
    <3>2. data # Garbled => requests = TermRequests(data, SourceIds(captured.manifest))
      BY <3>1
    <3> HIDE DEF requests
    <3> QED BY <2>1, <2>2, <3>1, <3>2 DEF WholeRights
  <2>3. CASE issues # {}
    BY <1>4, <2>3 DEF WholeRights
  <2> QED BY <2>2, <2>3
<1>7. new = {} => rights = TheRights(disk) \/ data = Garbled
  BY <1>5
<1>8. found = captured.issues \cup new
  OBVIOUS
<1> HIDE DEF rights, new, found
<1>9. /\ captured'.manifest = captured.manifest /\ captured'.rights = rights
      /\ captured'.terms = <<>> /\ captured'.files = <<>> /\ captured'.issues = captured.issues \cup new
  BY <1>2, <1>3, <1>8 DEF Captures
<1>10. job' = <<"terms", 1>> \/ (job'[1] \in {"payloads", "extra"} /\ ~(1 <= TermCount'))
  BY <1>1 DEF After
<1>11. TermsCounted'
  <2>1. rights \in Maybe(RightsDocs)
    BY DEF Bytes, Maybe, rights
  <2>2. TermCount' \in Nat
    <3>1. CASE rights = Null
      BY <1>9, <3>1 DEF TermCount
    <3>2. CASE rights # Null
      <4>1. rights.terms \in Seq([source : Maybe(Nat), path : Nat, digest : Maybe(Nat)])
        BY <2>1, <3>2 DEF Maybe, RightsDocs
      <4> QED BY <1>9, <3>2, <4>1 DEF TermCount
    <3> QED BY <3>1, <3>2
  <2>3. job'[1] # "terms" => TermCount' = 0
    BY <1>10, <2>2
  <2>4. job' = <<"terms", 1>> => job'[1] = "terms" /\ job'[2] = 1
    OBVIOUS
  <2>5. job'[1] \in {"terms", "payloads", "extra"}
    BY <1>10
  <2> QED BY <1>9, <1>10, <2>3, <2>4, <2>5 DEF TermsCounted, Ends
<1>12. Clean' <=> Clean /\ new = {}
  BY <1>3, <1>9 DEF Clean
<1>13. Clean => /\ disk.dirs["root"] # Null /\ captured.manifest = TheManifest(disk)
                /\ WholeManifest(captured.manifest) /\ captured.manifest # Null
  BY DEF Quiet, AsFound, WholeManifest
<1>14. ASSUME Clean' PROVE AsFound'
  <2>1. WholeRights(captured.manifest, TheRights(disk)) /\ rights = TheRights(disk)
    <3>1. WholeRights(captured.manifest, TheRights(disk))
      BY <1>6, <1>12, <1>13, <1>14
    <3>2. data = TheRights(disk) /\ TheRights(disk) # Garbled
      BY <1>5, <1>12, <1>14, <3>1 DEF WholeRights, new
    <3> QED BY <1>7, <1>12, <1>14, <3>1, <3>2
  <2>2. job'[1] \in {"terms", "payloads", "extra"}
    BY <1>10
  <2> QED BY <1>1, <1>9, <1>12, <1>13, <1>14, <2>1, <2>2 DEF AsFound
<1>15. ~Clean' => ~Whole(disk)
  BY <1>6, <1>12, <1>13, WholeHas DEF Quiet
<1> QED BY <1>1, <1>11, <1>14, <1>15, QuietAfter

LEMMA Appended ==
    ASSUME NEW S, NEW s \in Seq(S), NEW x \in S, NEW t, t = Append(s, x)
    PROVE  /\ Len(t) = Len(s) + 1 /\ DOMAIN t = 1 .. Len(s) + 1 /\ DOMAIN s = 1 .. Len(s) /\ Len(s) \in Nat
           /\ t[Len(s) + 1] = x /\ \A i \in DOMAIN s : t[i] = s[i]
OBVIOUS

LEMMA TermsQuiet ==
    ASSUME Inv, Quiet, writes = 0, job[1] = "terms", NEW data, NEW issues, Finish(data, issues),
           Exactly(data, issues), data # Null => Bytes(data)
    PROVE  Quiet'
<1>0. PICK n, request : n = job[2] /\ request = captured.rights.terms[n]
  OBVIOUS
<1> DEFINE wrong == {c \in {"RIGHTS_MISSING"} : data # Null /\ request.digest \notin {Null, data}}
           term == [path |-> request.path, digest |-> data]
           new == issues \cup wrong
<1>1. reading' = Null /\ UNCHANGED <<disk, writes, root>> /\ TakeTerms(data, issues) /\ job' = After("terms", n)
  BY <1>0 DEF Finish, Take
<1>2. captured' = [captured EXCEPT !.issues = captured.issues \cup issues \cup wrong,
                                   !.terms = Append(captured.terms, term)]
  BY <1>0, <1>1, Zenon DEF TakeTerms
<1>3. /\ captured \in Captures /\ captured.files = <<>> /\ captured.terms \in Seq(TermRecords)
      /\ n \in 1 .. TermCount /\ TermCount \in Nat /\ captured.rights # Null /\ Len(captured.terms) = n - 1
      /\ request \in [source : Maybe(Nat), path : Nat, digest : Maybe(Nat)]
  BY <1>0, Rows1 DEF Inv, TypeOK, Progress, Captures, Quiet, TermsCounted
<1>4. n \in DOMAIN captured.rights.terms
  <2>1. captured.rights \in RightsDocs
    BY <1>3 DEF Captures, Maybe
  <2>2. captured.rights.terms \in Seq([source : Maybe(Nat), path : Nat, digest : Maybe(Nat)])
    BY <2>1 DEF RightsDocs
  <2> QED BY <1>3, <2>2 DEF TermCount
<1>5. term \in TermRecords
  BY <1>3 DEF TermRecords, Bytes, Maybe
<1>6. (issues = {} <=> TheTerms(disk, request) # Null) /\ (issues = {} => data = TheTerms(disk, request))
  BY <1>0, TakenIs DEF Reads
<1>7. new = {} <=> WholeTerm(disk, request)
  BY <1>6 DEF WholeTerm
<1>8. new = {} => term.digest = TheTerms(disk, request)
  BY <1>6
<1> HIDE DEF term, wrong
<1>9. /\ captured'.manifest = captured.manifest /\ captured'.rights = captured.rights
      /\ captured'.terms = Append(captured.terms, term) /\ captured'.files = <<>>
      /\ captured'.issues = captured.issues \cup new
  BY <1>2, <1>3 DEF Captures
<1> HIDE DEF new
<1>10. /\ Len(captured'.terms) = n /\ DOMAIN captured'.terms = 1 .. n /\ captured'.terms[n] = term
       /\ DOMAIN captured.terms = 1 .. n - 1 /\ \A i \in 1 .. n - 1 : captured'.terms[i] = captured.terms[i]
  <2>1. n - 1 + 1 = n
    BY <1>3
  <2> QED BY <1>3, <1>5, <1>9, <2>1, Appended
<1>11. TermCount' = TermCount
  BY <1>9 DEF TermCount
<1>12. job' = <<"terms", n + 1>> \/ (job'[1] \in {"payloads", "extra"} /\ ~(n + 1 <= TermCount))
  BY <1>1, <1>11 DEF After
<1>13. TermsCounted'
  <2>1. job' = <<"terms", n + 1>> => job'[1] = "terms" /\ job'[2] = n + 1
    OBVIOUS
  <2>2. ~(n + 1 <= TermCount) => n = TermCount
    BY <1>3
  <2>3. n = (n + 1) - 1
    BY <1>3
  <2> QED BY <1>10, <1>11, <1>12, <2>1, <2>2, <2>3 DEF TermsCounted, Ends
<1>14. Clean' <=> Clean /\ new = {}
  BY <1>3, <1>9 DEF Clean
<1>15. job'[1] \in {"terms", "payloads", "extra"}
  BY <1>12
<1>16. ASSUME Clean' PROVE AsFound'
  <2>1. AsFound
    BY <1>14, <1>16 DEF Quiet
  <2>2. ASSUME NEW i \in DOMAIN captured'.terms
        PROVE  /\ captured'.terms[i].digest = TheTerms(disk, captured.rights.terms[i])
               /\ WholeTerm(disk, captured.rights.terms[i])
    <3>1. CASE i = n
      BY <1>0, <1>7, <1>8, <1>10, <1>14, <1>16, <3>1
    <3>2. CASE i # n
      <4>1. i \in DOMAIN captured.terms
        BY <1>3, <1>10, <3>2
      <4> QED BY <1>10, <2>1, <4>1 DEF AsFound
    <3> QED BY <3>1, <3>2
  <2>3. /\ disk.dirs["root"] # Null /\ captured.manifest = TheManifest(disk) /\ WholeManifest(captured.manifest)
        /\ captured.rights = TheRights(disk) /\ WholeRights(captured.manifest, captured.rights)
    BY <2>1 DEF AsFound
  <2> QED BY <1>1, <1>9, <1>15, <2>2, <2>3 DEF AsFound
<1>17. ~Clean' => ~Whole(disk)
  <2> SUFFICES ASSUME Clean, new # {} PROVE ~Whole(disk)
    BY <1>14 DEF Quiet
  <2>1. captured.rights = TheRights(disk)
    BY DEF Quiet, AsFound
  <2> QED BY <1>0, <1>4, <1>7, <2>1, WholeHas
<1> QED BY <1>1, <1>13, <1>16, <1>17, QuietAfter

LEMMA PayloadQuiet ==
    ASSUME Inv, Quiet, writes = 0, job[1] = "payloads", NEW data, NEW issues, Finish(data, issues),
           Exactly(data, issues), data # Null => Bytes(data), issues \subseteq CaptureCodes
    PROVE  Quiet'
<1>0. PICK n, row : n = job[2] /\ row = CurrentRow
  OBVIOUS
<1> DEFINE wrong == {c \in {"HASH_MISMATCH"} : data # Null /\ row.digest \notin {Null, data}}
           new == issues \cup wrong \cup RowIssues(row, captured.files)
           file == [row |-> row, payload |-> data, observed |-> Null, ingested |-> Null, issues |-> new]
<1>1. /\ reading' = Null /\ UNCHANGED <<disk, writes, root>>
      /\ TakePayload(data, issues) /\ job' = <<"witnesses", n>>
  BY <1>0 DEF Finish, Take, After
<1>2. captured' = [captured EXCEPT !.files = Append(captured.files, file)]
  BY <1>0, <1>1, Zenon DEF TakePayload
<1>3. /\ captured \in Captures /\ captured.files \in Seq(FileRecords)
      /\ n = Len(captured.files) + 1 /\ n \in 1 .. RowCount /\ n \in Nat
  BY <1>0, Rows1 DEF Inv, TypeOK, Progress, Captures
<1>4. row \in FileRows /\ row = captured.manifest.files[n] /\ n \in DOMAIN captured.manifest.files
  <2>1. row \in FileRows /\ row = captured.manifest.files[n]
    BY <1>0, <1>3, Rows1 DEF Inv, CurrentRow
  <2>2. captured.manifest \in Manifests /\ RowCount = Len(captured.manifest.files)
    BY <1>3, Rows1 DEF Inv
  <2>3. captured.manifest.files \in Seq(FileRows)
    BY <2>2 DEF Manifests
  <2> QED BY <1>3, <2>1, <2>2, <2>3
<1>5. file \in FileRecords
  <2>1. new \subseteq CaptureCodes
    BY DEF CaptureCodes, RowIssues
  <2>2. data \in Maybe(Payloads)
    BY DEF Bytes, Maybe
  <2> HIDE DEF new
  <2> QED BY <1>4, <2>1, <2>2 DEF FileRecords, Maybe, Times
<1>6. row.path \in SafePaths =>
        (issues = {} <=> ThePayload(disk, row) # Null) /\ (issues = {} => data = ThePayload(disk, row))
  BY <1>0, TakenIs DEF Reads
<1>7. new = {} <=> /\ WholePayload(disk, row)
                   /\ \A i \in DOMAIN captured.files : captured.files[i].row.path # row.path
  <2>1. RowIssues(row, captured.files) = {} <=>
           /\ row.path # Null /\ row.seq # Null /\ ValidSequence(row.seq) /\ row.slot # Null /\ row.path \in SafePaths
           /\ \A i \in DOMAIN captured.files : captured.files[i].row.path # row.path
    BY DEF RowIssues
  <2>2. row.path \in SafePaths => row.path # Null
    BY FixtureAssumption
  <2>3. ValidSequence(row.seq) => row.seq # Null
    BY DEF ValidSequence
  <2>4. wrong = {} <=> (data # Null => row.digest \in {Null, data})
    OBVIOUS
  <2>5. new = {} <=> issues = {} /\ wrong = {} /\ RowIssues(row, captured.files) = {}
    OBVIOUS
  <2> HIDE DEF wrong, new
  <2> QED BY <1>6, <2>1, <2>2, <2>3, <2>4, <2>5 DEF WholePayload
<1>8. new = {} => data = ThePayload(disk, row)
  BY <1>6, <1>7 DEF WholePayload
<1>9. file.row = row /\ file.payload = data /\ file.issues = new
  OBVIOUS
<1> HIDE DEF file, new
<1>10. /\ captured'.manifest = captured.manifest /\ captured'.rights = captured.rights
       /\ captured'.terms = captured.terms /\ captured'.issues = captured.issues
       /\ captured'.files = Append(captured.files, file)
  BY <1>2, <1>3 DEF Captures
<1>11. /\ DOMAIN captured'.files = 1 .. n /\ captured'.files[n] = file
       /\ DOMAIN captured.files = 1 .. n - 1 /\ \A i \in 1 .. n - 1 : captured'.files[i] = captured.files[i]
  <2>1. n - 1 = Len(captured.files)
    BY <1>3
  <2> QED BY <1>3, <1>5, <1>10, <2>1, Appended
<1>12. 1 .. n = (1 .. n - 1) \cup {n}
  BY <1>3
<1>13. Clean' <=> Clean /\ new = {}
  BY <1>9, <1>10, <1>11, <1>12 DEF Clean
<1>14. TermsCounted'
  BY <1>1, <1>10 DEF Quiet, TermsCounted, TermCount
<1>15. ASSUME Clean' PROVE AsFound'
  <2>1. AsFound
    BY <1>13, <1>15 DEF Quiet
  <2>2. ASSUME NEW i \in DOMAIN captured'.files
        PROVE  LET own == captured'.files[i].row
               IN  /\ captured'.files[i].payload = ThePayload(disk, own) /\ WholePayload(disk, own)
                   /\ i = n \/ WholeWitness(disk, own)
    <3>1. CASE i = n
      BY <1>7, <1>8, <1>9, <1>11, <1>13, <1>15, <3>1
    <3>2. CASE i # n
      <4>1. i \in DOMAIN captured.files /\ captured'.files[i] = captured.files[i] /\ ~Waiting(i)
        BY <1>11, <1>12, <3>2 DEF Waiting
      <4> QED BY <2>1, <4>1 DEF AsFound
    <3> QED BY <3>1, <3>2
  <2>3. /\ disk.dirs["root"] # Null /\ captured.manifest = TheManifest(disk) /\ WholeManifest(captured.manifest)
        /\ captured.rights = TheRights(disk) /\ WholeRights(captured.manifest, captured.rights)
        /\ \A i \in DOMAIN captured.terms :
              /\ captured.terms[i].digest = TheTerms(disk, captured.rights.terms[i])
              /\ WholeTerm(disk, captured.rights.terms[i])
    BY <2>1 DEF AsFound
  <2>4. \A i : Waiting(i)' <=> i = n
    BY <1>1 DEF Waiting
  <2> QED BY <1>1, <1>10, <2>2, <2>3, <2>4 DEF AsFound
<1>16. ~Clean' => ~Whole(disk)
  <2> SUFFICES ASSUME Clean, new # {}, Whole(disk) PROVE FALSE
    BY <1>13 DEF Quiet
  <2>1. captured.manifest = TheManifest(disk)
    BY DEF Quiet, AsFound
  <2>2. PICK i \in DOMAIN captured.files : captured.files[i].row.path = row.path
    BY <1>4, <1>7, <2>1, WholeHas
  <2>3. captured.files[i].row = captured.manifest.files[i]
    BY DEF Inv, FilesNamed, FileNamed
  <2>4. i \in DOMAIN captured.manifest.files /\ i # n
    <3>1. captured.manifest \in Manifests /\ RowCount = Len(captured.manifest.files)
      BY <1>3, Rows1 DEF Inv
    <3>2. captured.manifest.files \in Seq(FileRows)
      BY <3>1 DEF Manifests
    <3> QED BY <1>3, <1>11, <3>1, <3>2
  <2> QED BY <1>4, <2>1, <2>2, <2>3, <2>4, WholeHas
<1> QED BY <1>1, <1>14, <1>15, <1>16, QuietAfter

LEMMA WitnessQuiet ==
    ASSUME Inv, Quiet, writes = 0, job[1] = "witnesses", NEW data, NEW issues, Finish(data, issues),
           Exactly(data, issues), data # Null => Bytes(data), issues \subseteq CaptureCodes
    PROVE  Quiet'
<1>0. PICK n, row, file : n = job[2] /\ row = CurrentRow /\ file = captured.files[n]
  OBVIOUS
<1>1. /\ reading' = Null /\ UNCHANGED <<disk, writes, root>>
      /\ TakeWitness(data, issues) /\ job' = After("witnesses", n)
  BY <1>0 DEF Finish, Take
<1>2. /\ captured \in Captures /\ captured.files \in Seq(FileRecords)
      /\ n = Len(captured.files) /\ n \in 1 .. RowCount /\ n \in Nat /\ DOMAIN captured.files = 1 .. n
      /\ job = <<"witnesses", n>>
  BY <1>0, Rows1 DEF Inv, TypeOK, Progress, Captures
<1>3. file \in FileRecords /\ file.row = row /\ FileNamed(n) /\ n \in DOMAIN captured.files
  BY <1>0, <1>2 DEF Inv, CurrentRow, FilesNamed, FileNamed
<1>4. PICK taken : taken = WithWitness(file, data, issues)
  OBVIOUS
<1>5. data \in Maybe(WitnessDocs \cup {Garbled}) /\ issues \in SUBSET CaptureCodes
  BY DEF Bytes, Maybe
<1>6. taken \in FileRecords /\ taken.row = row /\ taken.payload = file.payload
  BY <1>3, <1>4, <1>5, WitnessAdds
<1>7. captured' = [captured EXCEPT !.files = [captured.files EXCEPT ![n] = taken]]
  <2>1. captured' = [captured EXCEPT !.files[n] = WithWitness(captured.files[n], data, issues)]
    BY <1>0, <1>1, Zenon DEF TakeWitness
  <2> QED BY <1>0, <1>2, <1>4, <2>1
<1>8. /\ captured'.manifest = captured.manifest /\ captured'.rights = captured.rights
      /\ captured'.terms = captured.terms /\ captured'.issues = captured.issues
      /\ DOMAIN captured'.files = 1 .. n /\ captured'.files[n] = taken
      /\ \A i \in 1 .. n - 1 : captured'.files[i] = captured.files[i]
  BY <1>2, <1>7 DEF Captures
<1>9. 1 .. n = (1 .. n - 1) \cup {n} /\ n \notin 1 .. n - 1
  BY <1>2
<1>10. job'[1] \in {"payloads", "extra"}
  BY <1>1 DEF After
<1>11. ValidSequence(row.seq) =>
        (issues = {} <=> TheWitness(disk, row) # Null) /\ (issues = {} => data = TheWitness(disk, row))
  BY <1>0, TakenIs DEF Reads
\* The witness has nothing to add to what is wrong if it is whole.
<1>12. ASSUME ValidSequence(row.seq)
       PROVE  taken.issues = {} <=> file.issues = {} /\ WholeWitness(disk, row)
  <2> DEFINE record == data \notin {Null, Garbled}
             times == IF record THEN {data.observed, data.ingested} ELSE {}
             late == record /\ Null \notin times /\ data.ingested < data.observed
             untimely == {c \in {"POINT_IN_TIME_MISSING"} : data = Garbled \/ Null \in times \/ late}
             unfit == {c \in {"MANIFEST_MISMATCH"} : record /\ ~WitnessFits(data, file.row)}
             found == file.issues \cup issues \cup untimely \cup unfit
  <2>1. taken.issues = found
    <3>1. taken = [file EXCEPT !.issues = found, !.observed = IF record THEN data.observed ELSE Null,
                               !.ingested = IF record /\ ~late THEN data.ingested ELSE Null]
      BY <1>4, Zenon DEF WithWitness
    <3> HIDE DEF found
    <3> QED BY <1>3, <3>1 DEF FileRecords
  <2>2. found = {} <=> file.issues = {} /\ issues = {} /\ untimely = {} /\ unfit = {}
    OBVIOUS
  <2>3. CASE issues = {}
    <3>1. data = TheWitness(disk, row) /\ data # Null
      BY <1>11, <1>12, <2>3
    <3>2. CASE data = Garbled
      <4>1. untimely # {}
        BY <3>2
      <4> QED BY <2>1, <2>2, <3>1, <3>2, <4>1 DEF WholeWitness
    <3>3. CASE data # Garbled
      <4>1. record /\ data \in WitnessDocs
        BY <1>5, <3>1, <3>3 DEF Maybe
      <4>2. data.observed \in Maybe(Nat) /\ data.ingested \in Maybe(Nat)
        BY <4>1 DEF WitnessDocs
      <4>3. unfit = {} <=> WitnessFits(data, row)
        BY <1>3, <4>1
      <4>4. untimely = {} <=> Null \notin {data.observed, data.ingested} /\ ~(data.ingested < data.observed)
        BY <3>3, <4>1
      <4>5. Null \notin {data.observed, data.ingested} =>
               (data.ingested < data.observed <=> ~(data.observed <= data.ingested))
        BY <4>2 DEF Maybe
      <4> HIDE DEF found, untimely, unfit, record
      <4> QED BY <2>1, <2>2, <2>3, <3>1, <3>3, <4>3, <4>4, <4>5 DEF WholeWitness
    <3> QED BY <3>2, <3>3
  <2>4. CASE issues # {}
    <3>1. TheWitness(disk, row) = Null
      BY <1>11, <1>12, <2>4
    <3> HIDE DEF untimely, unfit
    <3> QED BY <2>1, <2>2, <2>4, <3>1 DEF WholeWitness
  <2> QED BY <2>3, <2>4
<1>13. file.issues \subseteq taken.issues
  BY <1>3, <1>4, <1>5, WitnessAdds
<1>14. Clean => ValidSequence(row.seq) /\ WholePayload(disk, row)
  BY <1>0, <1>3 DEF Quiet, AsFound, WholePayload
<1>15. Clean' <=> captured.issues = {} /\ taken.issues = {} /\ \A i \in 1 .. n - 1 : captured.files[i].issues = {}
  BY <1>8, <1>9 DEF Clean
<1>16. Clean <=> captured.issues = {} /\ file.issues = {} /\ \A i \in 1 .. n - 1 : captured.files[i].issues = {}
  BY <1>0, <1>2, <1>9 DEF Clean
<1>17. Clean' <=> Clean /\ WholeWitness(disk, row)
  <2>1. Clean' => Clean
    BY <1>13, <1>15, <1>16
  <2>2. Clean => (taken.issues = {} <=> WholeWitness(disk, row))
    BY <1>12, <1>14, <1>16
  <2> QED BY <1>15, <1>16, <2>1, <2>2
<1>18. TermsCounted'
  BY <1>8, <1>10, <1>2 DEF Quiet, TermsCounted, TermCount, Ends
<1>19. ASSUME Clean' PROVE AsFound'
  <2>1. AsFound
    BY <1>17, <1>19 DEF Quiet
  <2>2. ASSUME NEW i \in DOMAIN captured'.files
        PROVE  LET own == captured'.files[i].row
               IN  /\ captured'.files[i].payload = ThePayload(disk, own) /\ WholePayload(disk, own)
                   /\ WholeWitness(disk, own)
    <3>1. CASE i = n
      BY <1>0, <1>3, <1>6, <1>8, <1>17, <1>19, <2>1, <3>1 DEF AsFound
    <3>2. CASE i # n
      <4>1. i \in DOMAIN captured.files /\ captured'.files[i] = captured.files[i] /\ ~Waiting(i)
        BY <1>2, <1>8, <1>9, <3>2 DEF Waiting
      <4> QED BY <2>1, <4>1 DEF AsFound
    <3> QED BY <3>1, <3>2
  <2>3. /\ disk.dirs["root"] # Null /\ captured.manifest = TheManifest(disk) /\ WholeManifest(captured.manifest)
        /\ captured.rights = TheRights(disk) /\ WholeRights(captured.manifest, captured.rights)
        /\ \A i \in DOMAIN captured.terms :
              /\ captured.terms[i].digest = TheTerms(disk, captured.rights.terms[i])
              /\ WholeTerm(disk, captured.rights.terms[i])
    BY <1>2, <2>1 DEF AsFound
  <2> QED BY <1>1, <1>8, <1>10, <2>2, <2>3 DEF AsFound
<1>20. ~Clean' => ~Whole(disk)
  <2> SUFFICES ASSUME Clean, ~WholeWitness(disk, row), Whole(disk) PROVE FALSE
    BY <1>17 DEF Quiet
  <2>1. captured.manifest = TheManifest(disk)
    BY <1>2 DEF Quiet, AsFound
  <2>2. row = captured.manifest.files[n] /\ n \in DOMAIN captured.manifest.files
    <3>1. captured.manifest \in Manifests /\ RowCount = Len(captured.manifest.files)
      BY <1>2, Rows1 DEF Inv
    <3>2. captured.manifest.files \in Seq(FileRows)
      BY <3>1 DEF Manifests
    <3> QED BY <1>0, <1>2, <3>1, <3>2 DEF CurrentRow
  <2> QED BY <2>1, <2>2, WholeHas
<1> QED BY <1>1, <1>2, <1>18, <1>19, <1>20, QuietAfter

LEMMA TakesQuiet == ASSUME Inv, Quiet, writes = 0, job[1] \in Reads, Takes PROVE Quiet'
<1>1. PICK data, issues : /\ Finish(data, issues) /\ Exactly(data, issues)
                          /\ (data # Null => Bytes(data)) /\ issues \subseteq CaptureCodes
  BY DEF Takes
<1> QED BY <1>1, ManifestQuiet, RightsQuiet, TermsQuiet, PayloadQuiet, WitnessQuiet DEF Reads

LEMMA LooksQuiet == ASSUME Quiet, Looks PROVE Quiet'
<1>1. UNCHANGED <<disk, writes, root, job, captured>> /\ ReadExact'
  BY DEF Looks
<1>2. TermsCounted' = TermsCounted /\ Clean' = Clean /\ AsFound' = AsFound
  BY <1>1 DEF TermsCounted, Clean, AsFound, TermCount, Waiting
<1> QED BY <1>1, <1>2 DEF Quiet

LEMMA RootQuiet == ASSUME Inv, Quiet, writes = 0, CaptureRoot PROVE Quiet'
<1> DEFINE issues == {c \in {"NOT_LOCAL"} : disk.dirs["root"] = Null}
<1>1. /\ job[1] = "root" /\ root' = disk.dirs["root"] /\ UNCHANGED <<disk, writes, reading>>
      /\ job' = IF disk.dirs["root"] = Null THEN <<"admit", 1>> ELSE <<"manifest", 1>>
      /\ captured' = [captured EXCEPT !.issues = issues]
  BY DEF CaptureRoot, After
<1>2. /\ captured \in Captures /\ captured.files = <<>> /\ captured.terms = <<>> /\ captured.rights = Null
      /\ reading = Null /\ disk \in Disks
  BY <1>1 DEF Inv, TypeOK, Progress, ReadingOK, Reads, Quiet
<1>3. issues = {} <=> disk.dirs["root"] # Null
  OBVIOUS
<1> HIDE DEF issues
<1>4. /\ captured'.rights = Null /\ captured'.terms = <<>> /\ captured'.files = <<>> /\ captured'.issues = issues
  BY <1>1, <1>2 DEF Captures
<1>5. ReadExact' /\ TermsCounted'
  BY <1>1, <1>2, <1>4 DEF ReadExact, TermsCounted, TermCount
<1>6. Clean' <=> disk.dirs["root"] # Null
  BY <1>3, <1>4 DEF Clean
<1>7. Clean' => AsFound'
  BY <1>1, <1>4, <1>6 DEF AsFound
<1>8. ~Clean' => ~Whole(disk)'
  <2>1. ~Clean' => ~Whole(disk)
    BY <1>6, WholeHas
  <2> QED BY <1>1, <2>1
<1> QED BY <1>1, <1>2, <1>5, <1>7, <1>8 DEF Quiet

\* Nothing else lies about exactly if nothing is found to.
LEMMA NothingElseFound ==
    ASSUME Inv, Quiet, writes = 0, job[1] = "extra", Clean
    PROVE  ExtraIssues = {} <=> NothingElse(disk, captured.manifest.files)
<1>1. disk \in Disks /\ ~RootMoved /\ captured.manifest # Null
  BY DEF Quiet, RootMoved, AsFound, WholeManifest
<1>2. PICK rows, files : rows = captured.manifest.files /\ files = captured.files
  OBVIOUS
<1>3. DOMAIN rows = DOMAIN files /\ \A i \in DOMAIN files : files[i].row = rows[i]
  <2>1. captured.manifest \in Manifests /\ files \in Seq(FileRecords) /\ Len(files) = RowCount
    BY <1>1, <1>2 DEF Inv, TypeOK, Captures, Maybe, Progress, Ends
  <2>2. rows \in Seq(FileRows) /\ RowCount = Len(rows)
    BY <1>1, <1>2, <2>1 DEF Manifests, RowCount
  <2>3. DOMAIN rows = DOMAIN files
    BY <2>1, <2>2
  <2> QED BY <1>2, <2>3 DEF Inv, FilesNamed, FileNamed
<1>4. \A p \in DOMAIN disk.files : disk.files[p].kind \in {"FILE", "LINK", "DIRECTORY", "NONE"}
  BY DEF Inv, TypeOK, EntryFits
<1>5. PICK named : named = {files[i].row.path : i \in DOMAIN files}
  OBVIOUS
<1>6. \A x : x \in named <=> \E i \in DOMAIN rows : x = rows[i].path
  BY <1>3, <1>5
<1> DEFINE there(kind) == {p \in DOMAIN disk.files : p[1] = "payloads" /\ disk.files[p].kind = kind}
<1>7. ExtraIssues = IF disk.dirs["payloads"] = Null THEN {}
                    ELSE {c \in {"SET_NOT_CLOSED"} : \E p \in there("FILE") : p[2] \notin named}
                         \cup {c \in {"NOT_LOCAL"} : RootMoved \/ there("LINK") # {}}
  BY <1>2, <1>5 DEF ExtraIssues
<1>8. CASE disk.dirs["payloads"] = Null
  <2>1. \A p \in DOMAIN disk.files : p[1] = "payloads" => disk.files[p].kind = "NONE"
    BY <1>1, <1>8, FixtureAssumption
  <2> QED BY <1>7, <1>8, <2>1 DEF NothingElse
<1>9. CASE disk.dirs["payloads"] # Null
  <2>1. ExtraIssues = {} <=> (\A p \in there("FILE") : p[2] \in named) /\ there("LINK") = {}
    BY <1>1, <1>7, <1>9
  <2>2. ExtraIssues = {} <=> \A p \in DOMAIN disk.files : p[1] = "payloads" =>
            /\ disk.files[p].kind = "FILE" => p[2] \in named
            /\ disk.files[p].kind # "LINK"
    BY <2>1
  <2>3. \A p \in DOMAIN disk.files :
            (disk.files[p].kind = "FILE" => p[2] \in named) /\ disk.files[p].kind # "LINK" <=>
            \/ disk.files[p].kind \in {"NONE", "DIRECTORY"}
            \/ disk.files[p].kind = "FILE" /\ \E i \in DOMAIN rows : p[2] = rows[i].path
    BY <1>4, <1>6
  <2> QED BY <1>2, <2>2, <2>3 DEF NothingElse
<1> QED BY <1>8, <1>9

LEMMA ExtraQuiet == ASSUME Inv, Quiet, writes = 0, CaptureExtraPayloadEntries PROVE Quiet'
<1>1. /\ job[1] = "extra" /\ captured' = [captured EXCEPT !.issues = captured.issues \cup ExtraIssues]
      /\ job' = <<"end", 1>> /\ UNCHANGED <<disk, writes, root, reading>>
  BY Zenon DEF CaptureExtraPayloadEntries
<1>2. captured \in Captures /\ reading = Null
  BY <1>1 DEF Inv, TypeOK, ReadingOK, Reads
<1>3. /\ captured'.manifest = captured.manifest /\ captured'.rights = captured.rights
      /\ captured'.terms = captured.terms /\ captured'.files = captured.files
      /\ captured'.issues = captured.issues \cup ExtraIssues
  BY <1>1, <1>2 DEF Captures
<1>4. Clean' <=> Clean /\ NothingElse(disk, captured.manifest.files)
  <2>1. Clean' <=> Clean /\ ExtraIssues = {}
    BY <1>3 DEF Clean
  <2> QED BY <1>1, <2>1, NothingElseFound
<1>5. TermsCounted'
  BY <1>1, <1>3 DEF Quiet, TermsCounted, TermCount, Ends
<1>6. Clean' => AsFound'
  BY <1>1, <1>3, <1>4 DEF Quiet, AsFound, Waiting
<1>7. ~Clean' => ~Whole(disk)
  <2> SUFFICES ASSUME Clean, ~NothingElse(disk, captured.manifest.files), Whole(disk) PROVE FALSE
    BY <1>4 DEF Quiet
  <2>1. captured.manifest = TheManifest(disk)
    BY <1>1 DEF Quiet, AsFound
  <2> QED BY <2>1, WholeHas
<1> QED BY <1>1, <1>2, <1>5, <1>6, <1>7, QuietAfter

LEMMA EndQuiet == ASSUME Inv, Quiet, writes = 0, CheckRootStable PROVE Quiet'
<1>1. /\ job[1] = "end" /\ job' = <<"admit", 1>> /\ UNCHANGED <<disk, writes, root, reading>>
      /\ captured' = [captured EXCEPT !.issues = captured.issues \cup {c \in {"NOT_LOCAL"} : RootMoved}]
  BY Zenon DEF CheckRootStable
<1>2. captured \in Captures /\ reading = Null /\ ~RootMoved
  BY <1>1 DEF Inv, TypeOK, ReadingOK, Reads, Quiet, RootMoved
<1>3. captured.issues \cup {c \in {"NOT_LOCAL"} : RootMoved} = captured.issues
  BY <1>2
<1>4. captured' = captured
  BY <1>1, <1>2, <1>3 DEF Captures
<1>5. TermsCounted' /\ Clean' = Clean
  BY <1>1, <1>4 DEF Quiet, TermsCounted, TermCount, Ends, Clean
<1>6. Clean => AsFound'
  BY <1>1, <1>4 DEF Quiet, AsFound, Waiting
<1> QED BY <1>1, <1>2, <1>5, <1>6, QuietAfter DEF Quiet

LEMMA AdmitQuiet == ASSUME Inv, Quiet, writes = 0, Admit PROVE Quiet'
<1>1. job[1] = "admit" /\ job' = <<"done", 1>> /\ UNCHANGED <<disk, writes, root, reading, captured>>
  BY DEF Admit
<1>2. reading = Null
  BY <1>1 DEF Inv, ReadingOK, Reads
<1>3. TermsCounted' /\ Clean' = Clean /\ ReadExact'
  BY <1>1, <1>2 DEF Quiet, TermsCounted, TermCount, Ends, Clean, ReadExact
<1>4. Clean => AsFound'
  BY <1>1 DEF Quiet, AsFound, Waiting
<1> QED BY <1>1, <1>3, <1>4 DEF Quiet

LEMMA QuietInit == Init => Quiet
<1> SUFFICES ASSUME Init PROVE Quiet
  OBVIOUS
<1>1. /\ disk \in Disks /\ reading = Null /\ job[1] = "root"
      /\ captured.files = <<>> /\ captured.terms = <<>> /\ captured.issues = {}
  BY DEF Init
<1>2. Clean /\ AsFound
  BY <1>1 DEF Clean, AsFound
<1> QED BY <1>1, <1>2 DEF Quiet, ReadExact, TermsCounted, Ends

LEMMA QuietNext == Inv /\ Quiet /\ [Next]_vars => Quiet'
<1> SUFFICES ASSUME Inv, Quiet, [Next]_vars PROVE Quiet'
  OBVIOUS
<1>1. CASE Write
  <2>1. writes' = writes + 1 /\ writes \in Nat
    BY <1>1 DEF Write, Inv, TypeOK
  <2>2. writes' # 0
    BY <2>1
  <2> QED BY <2>2 DEF Quiet
<1>2. CASE CaptureRoot \/ CaptureExtraPayloadEntries \/ CheckRootStable \/ Admit
  <2>1. writes' = writes
    BY <1>2 DEF CaptureRoot, CaptureExtraPayloadEntries, CheckRootStable, Admit
  <2>2. writes # 0 => Quiet'
    BY <2>1 DEF Quiet
  <2> QED BY <1>2, <2>2, RootQuiet, ExtraQuiet, EndQuiet, AdmitQuiet
<1>3. CASE SkipUnnamed \/ SelectLayoutPath \/ OpenLocalFile \/ ReadChunks \/ Revalidate
  <2>1. writes' = writes /\ job[1] \in Reads
    BY <1>3 DEF SkipUnnamed, SelectLayoutPath, OpenLocalFile, ReadChunks, Revalidate, Finish, At
  <2>2. writes # 0 => Quiet'
    BY <2>1 DEF Quiet
  <2>3. writes = 0 => Looks \/ Takes
    BY <1>3, SkipExact, SelectExact, OpenExact, ReadIsExact, RevalidateExact
  <2> QED BY <2>1, <2>2, <2>3, TakesQuiet, LooksQuiet
<1>4. CASE UNCHANGED vars
  <2>1. UNCHANGED <<disk, writes, root, job, reading, captured, admissionVars>>
    BY <1>4 DEF vars, captureVars
  <2>2. ReadExact' = ReadExact
    BY <2>1, SameThere DEF ReadExact, EntryAt, There
  <2>3. TermsCounted' = TermsCounted /\ Clean' = Clean /\ AsFound' = AsFound
    BY <2>1 DEF TermsCounted, Clean, AsFound, TermCount, Waiting
  <2> QED BY <2>1, <2>2, <2>3 DEF Quiet
<1> QED BY <1>1, <1>2, <1>3, <1>4 DEF Next

LEMMA FiniteImage ==
    ASSUME NEW S, IsFiniteSet(S), NEW T, NEW f \in [S -> T], \A t \in T : \E s \in S : f[s] = t
    PROVE  IsFiniteSet(T)
<1>1. f \in Surjection(S, T)
  BY Fun_IsSurj
<1> QED BY <1>1, FS_Surjection

\* A group holds two values if it holds one that differs from a given one.
LEMMA TwoValues ==
    ASSUME NEW rows, IsFiniteSet(rows), NEW group \in SUBSET rows, NEW r \in group, NEW value
    PROVE  Cardinality({value[q] : q \in group}) > 1 <=> \E q \in group : value[q] # value[r]
<1> DEFINE values == {value[q] : q \in group}
           f == [q \in group |-> value[q]]
<1>1. f \in [group -> values] /\ (\A t \in values : \E q \in group : f[q] = t) /\ value[r] \in values
  OBVIOUS
<1>2. IsFiniteSet(group)
  BY FS_Subset
<1>3. Cardinality(values) > 1 <=> \E y \in values : y # value[r]
  <2> HIDE DEF f, values
  <2>1. IsFiniteSet(values)
    BY <1>1, <1>2, FiniteImage
  <2> QED BY <1>1, <2>1, ManyElements
<1> QED BY <1>3

\* No reason lies between files exactly if no two payloads contradict.
LEMMA NoneContradict ==
    ASSUME NEW rows, IsFiniteSet(rows)
    PROVE  (\A r \in rows : LineageReasons(r, rows) = {}) <=> \A r, q \in rows : ~Contradict(r.doc, q.doc)
<1> SUFFICES ASSUME NEW r \in rows
             PROVE  LineageReasons(r, rows) = {} <=> \A q \in rows : ~Contradict(r.doc, q.doc)
  OBVIOUS
<1>1. LineageReasons(r, rows) = {} <=>
        r \notin SameVersionConflicts(rows) /\ r \notin OriginalConflicts(rows) /\ r \notin RevisionForks(rows)
  BY DEF LineageReasons
<1>2. r \in SameVersionConflicts(rows) <=> \E q \in rows : Version(q.doc) = Version(r.doc) /\ q.doc # r.doc
  <2> DEFINE group == {p \in rows : Version(p.doc) = Version(r.doc)}
             value == [q \in group |-> q.doc]
  <2>1. r \in SameVersionConflicts(rows) <=> Cardinality({q.doc : q \in group}) > 1
    BY DEF SameVersionConflicts, Conflicting, Digest
  <2>2. {q.doc : q \in group} = {value[q] : q \in group}
    OBVIOUS
  <2>3. group \in SUBSET rows /\ r \in group
    OBVIOUS
  <2>4. Cardinality({value[q] : q \in group}) > 1 <=> \E q \in group : value[q] # value[r]
    <3> HIDE DEF group, value
    <3> QED BY <2>3, TwoValues
  <2> QED BY <2>1, <2>2, <2>4
<1>3. r \in OriginalConflicts(rows) <=>
        /\ r.doc.kind = "ORIGINAL"
        /\ \E q \in rows : q.doc.kind = "ORIGINAL" /\ Lineage(q.doc) = Lineage(r.doc) /\ q.doc # r.doc
  <2> DEFINE originals == {p \in rows : p.doc.kind = "ORIGINAL"}
             group == {p \in originals : Lineage(p.doc) = Lineage(r.doc)}
             value == [q \in group |-> <<Version(q.doc), q.doc>>]
  <2>1. r \in OriginalConflicts(rows) <=>
          r \in originals /\ Cardinality({<<Version(q.doc), q.doc>> : q \in group}) > 1
    BY DEF OriginalConflicts, Conflicting, Digest
  <2>2. {<<Version(q.doc), q.doc>> : q \in group} = {value[q] : q \in group}
    OBVIOUS
  <2>3. group \in SUBSET rows /\ (r \in originals => r \in group)
    OBVIOUS
  <2>4. r \in originals =>
          (Cardinality({value[q] : q \in group}) > 1 <=> \E q \in group : value[q] # value[r])
    <3> HIDE DEF group, value, originals
    <3> QED BY <2>3, TwoValues
  <2>5. \A q \in group : r \in originals => (value[q] # value[r] <=> q.doc # r.doc)
    OBVIOUS
  <2> QED BY <2>1, <2>2, <2>4, <2>5
<1>4. r \in RevisionForks(rows) <=>
        /\ r.doc.kind # "ORIGINAL"
        /\ \E q \in rows : /\ q.doc.kind = r.doc.kind /\ Target(q.doc) = Target(r.doc)
                           /\ Version(q.doc) # Version(r.doc)
  <2> DEFINE revisions == {p \in rows : p.doc.kind # "ORIGINAL"}
             group == {p \in revisions : <<p.doc.kind, Target(p.doc)>> = <<r.doc.kind, Target(r.doc)>>}
             value == [q \in group |-> Version(q.doc)]
  <2>1. r \in RevisionForks(rows) <=>
          r \in revisions /\ Cardinality({Version(q.doc) : q \in group}) > 1
    BY DEF RevisionForks, Conflicting
  <2>2. {Version(q.doc) : q \in group} = {value[q] : q \in group}
    OBVIOUS
  <2>3. group \in SUBSET rows /\ (r \in revisions => r \in group)
    OBVIOUS
  <2>4. r \in revisions =>
          (Cardinality({value[q] : q \in group}) > 1 <=> \E q \in group : value[q] # value[r])
    <3> HIDE DEF group, value, revisions
    <3> QED BY <2>3, TwoValues
  <2> QED BY <2>1, <2>2, <2>4
<1>5. \A q \in rows : Contradict(r.doc, q.doc) <=>
        \/ Version(q.doc) = Version(r.doc) /\ q.doc # r.doc
        \/ /\ r.doc.kind = "ORIGINAL"
           /\ q.doc.kind = "ORIGINAL" /\ Lineage(q.doc) = Lineage(r.doc) /\ q.doc # r.doc
        \/ /\ r.doc.kind # "ORIGINAL"
           /\ q.doc.kind = r.doc.kind /\ Target(q.doc) = Target(r.doc) /\ Version(q.doc) # Version(r.doc)
  BY DEF Contradict
<1> QED BY <1>1, <1>2, <1>3, <1>4, <1>5

\* A batch is admitted exactly if nothing is wrong anywhere.
LEMMA AdmittedExactly ==
    ASSUME NEW rows, IsFiniteSet(rows), NEW env
    PROVE  Batch(rows, env).status = "ADMITTED" <=>
             /\ env.issues = {} /\ env.rights /\ ~env.biased
             /\ \A r \in rows : r.issues = {} /\ LocalReasons(r, env.biased) = {}
             /\ \A r, q \in rows : ~Contradict(r.doc, q.doc)
<1> DEFINE reasons == IF rows = {} THEN FixtureReasons(rows, env)
                      ELSE UNION {ReceiptReasons(r, rows, env) : r \in rows}
           comparable == {q \in rows : LocalReasons(q, env.biased) = {}}
<1>1. Batch(rows, env).status = "ADMITTED" <=> reasons = {}
  <2>1. Batch(rows, env).status = Status(reasons)
    <3>1. \A r \in rows : [q \in rows |-> ReceiptReasons(q, rows, env)][r] = ReceiptReasons(r, rows, env)
      OBVIOUS
    <3>2. UNION {[q \in rows |-> ReceiptReasons(q, rows, env)][r] : r \in rows} =
            UNION {ReceiptReasons(r, rows, env) : r \in rows}
      BY <3>1
    <3> QED BY <3>2 DEF Batch
  <2> HIDE DEF reasons
  <2> QED BY <2>1 DEF Status
<1>2. FixtureReasons(rows, env) = {} <=>
        env.issues = {} /\ env.rights /\ ~env.biased /\ \A r \in rows : r.issues = {}
  <2>1. ASSUME env.issues = {}, env.rights, ~env.biased, \A r \in rows : r.issues = {}
        PROVE  FixtureReasons(rows, env) = {}
    <3>1. CaptureIssues(rows, env) = {}
      BY <2>1 DEF CaptureIssues
    <3> QED BY <2>1, <3>1 DEF FixtureReasons, Codes
  <2> QED BY <2>1, SoundFixture
<1>3. ASSUME NEW r \in rows
      PROVE  ReceiptReasons(r, rows, env) = {} <=>
               /\ FixtureReasons(rows, env) = {} /\ LocalReasons(r, env.biased) = {}
               /\ LineageReasons(r, comparable) = {}
  <2> DEFINE lineage == IF r \in comparable THEN LineageReasons(r, comparable) ELSE {}
             all == FixtureReasons(rows, env) \cup LocalReasons(r, env.biased) \cup lineage
  <2>1. ReceiptReasons(r, rows, env) = DropClosure(all, rows, env)
    BY DEF ReceiptReasons
  <2>2. ReceiptReasons(r, rows, env) = {} <=> all = {}
    <3> HIDE DEF all
    <3> QED BY <2>1, NothingDropped
  <2>3. all = {} <=> FixtureReasons(rows, env) = {} /\ LocalReasons(r, env.biased) = {} /\ lineage = {}
    OBVIOUS
  <2>4. LocalReasons(r, env.biased) = {} => r \in comparable
    OBVIOUS
  <2> HIDE DEF comparable, all
  <2> QED BY <2>2, <2>3, <2>4
<1>4. reasons = {} <=>
        FixtureReasons(rows, env) = {} /\ \A r \in rows : ReceiptReasons(r, rows, env) = {}
  <2>1. CASE rows = {}
    BY <2>1
  <2>2. CASE rows # {}
    <3>1. reasons = {} <=> \A r \in rows : ReceiptReasons(r, rows, env) = {}
      BY <2>2
    <3> HIDE DEF reasons, comparable
    <3> QED BY <1>3, <2>2, <3>1
  <2> QED BY <2>1, <2>2
<1>5. (\A r \in rows : LocalReasons(r, env.biased) = {}) => comparable = rows
  OBVIOUS
<1> HIDE DEF reasons, comparable
<1>6. reasons = {} <=>
        /\ FixtureReasons(rows, env) = {} /\ \A r \in rows : LocalReasons(r, env.biased) = {}
        /\ \A r \in rows : LineageReasons(r, rows) = {}
  BY <1>3, <1>4, <1>5
<1> QED BY <1>1, <1>2, <1>6, NoneContradict

\* The rights are complete exactly if whole ones say what they have to.
LEMMA CompleteRights ==
    ASSUME Inv, Quiet, writes = 0, Done, Clean, NEW rights, rights = TheRights(disk)
    PROVE  /\ \A i \in DOMAIN rights.terms : WholeTerm(disk, rights.terms[i])
           /\ RightsComplete <=> /\ rights.terms # <<>>
                                 /\ rights.role = 1 /\ Null \notin {rights.effective, rights.review}
<1>1. PICK terms : terms = captured.terms
  OBVIOUS
<1>2. captured.rights = rights /\ rights # Null /\ Len(terms) = TermCount
  BY <1>1 DEF Quiet, AsFound, WholeRights, TermsCounted, Done, Ends
<1>3. /\ rights \in RightsDocs /\ terms \in Seq(TermRecords)
  BY <1>1, <1>2 DEF Inv, TypeOK, Captures, Maybe
<1>4. rights.terms \in Seq([source : Maybe(Nat), path : Nat, digest : Maybe(Nat)])
  BY <1>3 DEF RightsDocs
<1>5. DOMAIN terms = DOMAIN rights.terms /\ (rights.terms # <<>> <=> DOMAIN terms # {})
  <2>1. Len(terms) = Len(rights.terms)
    BY <1>2 DEF TermCount
  <2>2. DOMAIN terms = 1 .. Len(terms) /\ Len(terms) \in Nat
    BY <1>3
  <2>3. PICK s, S : s = rights.terms /\ s \in Seq(S)
    BY <1>4
  <2>4. DOMAIN s = 1 .. Len(s) /\ Len(s) \in Nat /\ (s # <<>> <=> Len(s) # 0)
    BY <2>3
  <2>5. 1 .. Len(s) # {} <=> Len(s) # 0
    BY <2>4
  <2> QED BY <2>1, <2>2, <2>3, <2>4, <2>5
<1>6. \A i \in DOMAIN terms : /\ terms[i].digest = TheTerms(disk, rights.terms[i])
                              /\ WholeTerm(disk, rights.terms[i])
  BY <1>1, <1>2 DEF Quiet, AsFound
<1>7. \A i \in DOMAIN terms : terms[i].digest # Null
  BY <1>6 DEF WholeTerm
<1>8. SelectedTerms # Null <=> DOMAIN terms # {}
  <2>1. CASE DOMAIN terms = {}
    BY <1>1, <2>1 DEF SelectedTerms
  <2>2. CASE DOMAIN terms # {}
    BY <1>1, <1>7, <2>2, SelectedIs
  <2> QED BY <2>1, <2>2
<1>9. RightsField("role") = rights.role /\ RightsField("effective") = rights.effective
      /\ RightsField("review") = rights.review
  BY <1>2 DEF RightsField
<1> QED BY <1>5, <1>6, <1>8, <1>9 DEF RightsComplete

\* A file that is clean is judged by its row and its payload alone.
LEMMA JudgedClean ==
    ASSUME NEW file, file.issues = {}, file.payload # Null, ValidSequence(file.row.seq), NEW biased, ~biased
    PROVE  LocalReasons(Judged(file), biased) = {} <=> Acceptable(file.row, file.payload)
<1>1. PICK r : r = Judged(file)
  OBVIOUS
<1>2. PICK row, doc : row = file.row /\ doc = file.payload
  OBVIOUS
<1>3. r = [path |-> row.path, seq |-> row.seq, slot |-> row.slot, source |-> row.source,
           market |-> row.market, issues |-> {}, read |-> TRUE, doc |-> doc]
  BY <1>1, <1>2 DEF Judged, ValidSequence
<1>4. FileReasons(r) = {}
  BY <1>3 DEF FileReasons, Codes
<1>5. ProfileReasons(r, biased) = ProfileReasons(r, FALSE)
  BY DEF ProfileReasons
<1>6. LocalReasons(r, biased) = {} <=> ProfileReasons(r, FALSE) = {} /\ RevisionReasons(r) = {}
  BY <1>4, <1>5 DEF LocalReasons
<1> QED BY <1>1, <1>2, <1>3, <1>6 DEF Acceptable

LEMMA CleanPayloads ==
    ASSUME Inv, Quiet, writes = 0, Done, Clean, NEW rows, rows = TheManifest(disk).files
    PROVE  /\ DOMAIN captured.files = DOMAIN rows
           /\ \A i \in DOMAIN rows :
                 LET file == captured.files[i]
                 IN  /\ file.row = rows[i] /\ file.issues = {} /\ file.payload = ThePayload(disk, rows[i])
                     /\ file.payload # Null /\ WholePayload(disk, rows[i]) /\ WholeWitness(disk, rows[i])
           /\ \A i, j \in DOMAIN rows : i # j => rows[i].path # rows[j].path
<1>1. PICK files : files = captured.files
  OBVIOUS
<1>2. captured.manifest = TheManifest(disk) /\ captured.manifest # Null /\ rows = captured.manifest.files
  BY DEF Quiet, AsFound, WholeManifest, Done
<1>3. DOMAIN files = DOMAIN rows /\ DOMAIN rows \subseteq Nat \ {0}
  <2>1. captured.manifest \in Manifests /\ files \in Seq(FileRecords) /\ Len(files) = RowCount
    BY <1>1, <1>2 DEF Inv, TypeOK, Captures, Maybe, Progress, Ends, Done
  <2>2. rows \in Seq(FileRows) /\ RowCount = Len(rows)
    BY <1>2, <2>1 DEF Manifests, RowCount
  <2> QED BY <2>1, <2>2
<1>4. \A i \in DOMAIN files : FileNamed(i) /\ ~Waiting(i) /\ files[i].row = rows[i] /\ files[i].issues = {}
  BY <1>1, <1>2 DEF Inv, FilesNamed, FileNamed, Waiting, Done, Clean
<1>5. \A i \in DOMAIN files :
        /\ files[i].payload = ThePayload(disk, rows[i]) /\ WholePayload(disk, rows[i])
        /\ WholeWitness(disk, rows[i])
  BY <1>1, <1>4 DEF Quiet, AsFound
<1>6. \A i \in DOMAIN files : files[i].payload # Null
  BY <1>5 DEF WholePayload
<1>7. ASSUME NEW i \in DOMAIN rows, NEW j \in DOMAIN rows, j < i PROVE rows[i].path # rows[j].path
  <2>1. j \in 1 .. i - 1
    BY <1>3, <1>7
  <2>2. files[j].row.path # files[i].row.path
    BY <1>1, <1>3, <1>4, <2>1 DEF FileNamed
  <2> QED BY <1>3, <1>4, <2>2
<1>8. \A i, j \in DOMAIN rows : i = j \/ i < j \/ j < i
  BY <1>3
<1>9. \A i, j \in DOMAIN rows : i # j => rows[i].path # rows[j].path
  BY <1>7, <1>8
<1> QED BY <1>1, <1>3, <1>4, <1>5, <1>6, <1>9

(***************************************************************************)
(* A fixture that nobody changes while it is read is admitted exactly if   *)
(* it is whole, however many rows, terms and layouts it has.               *)
(***************************************************************************)
LEMMA WholeIsAdmitted == Inv /\ Quiet => AdmittedIfWhole
<1> SUFFICES ASSUME Inv, Quiet, Done, writes = 0 PROVE batch.status = "ADMITTED" <=> Whole(disk)
  BY DEF AdmittedIfWhole
<1>1. PICK judged : judged = {Judged(captured.files[i]) : i \in DOMAIN captured.files}
  OBVIOUS
<1>2. PICK env : env = [issues |-> captured.issues, rights |-> RightsComplete,
                        biased |-> captured.manifest # Null /\ captured.manifest.biased]
  OBVIOUS
<1>3. batch = Batch(judged, env) /\ captured.files \in Seq(FileRecords)
  BY <1>1, <1>2 DEF Inv, Judgement, Done, TypeOK, Captures
<1>4. IsFiniteSet(judged)
  <2> DEFINE f == [i \in DOMAIN captured.files |-> Judged(captured.files[i])]
  <2>1. f \in [DOMAIN captured.files -> judged] /\ \A r \in judged : \E i \in DOMAIN captured.files : f[i] = r
    BY <1>1
  <2>2. IsFiniteSet(DOMAIN captured.files)
    <3>1. PICK n \in Nat : DOMAIN captured.files = 1 .. n
      BY <1>3
    <3>2. 1 \in Int /\ n \in Int
      OBVIOUS
    <3> QED BY <3>1, <3>2, FS_Interval
  <2> HIDE DEF f
  <2> QED BY <2>1, <2>2, FiniteImage
<1>5. batch.status = "ADMITTED" <=>
        /\ env.issues = {} /\ env.rights /\ ~env.biased
        /\ \A r \in judged : r.issues = {} /\ LocalReasons(r, env.biased) = {}
        /\ \A r, q \in judged : ~Contradict(r.doc, q.doc)
  BY <1>3, <1>4, AdmittedExactly
<1>6. \A i \in DOMAIN captured.files : Judged(captured.files[i]).issues = captured.files[i].issues
  BY DEF Judged
<1>7. batch.status = "ADMITTED" => Clean
  <2>1. env.issues = captured.issues
    BY <1>2
  <2> QED BY <1>1, <1>5, <1>6, <2>1 DEF Clean
<1>8. Whole(disk) => Clean
  BY DEF Quiet
<1>9. ASSUME Clean PROVE batch.status = "ADMITTED" <=> Whole(disk)
  <2>1. PICK manifest, rights, rows : /\ manifest = TheManifest(disk) /\ rights = TheRights(disk)
                                      /\ rows = manifest.files
    OBVIOUS
  <2>2. /\ disk.dirs["root"] # Null /\ captured.manifest = manifest /\ WholeManifest(manifest)
        /\ WholeRights(manifest, rights) /\ NothingElse(disk, rows)
    BY <1>9, <2>1 DEF Quiet, AsFound, Done
  <2>3. /\ env.issues = {} /\ (env.rights <=> RightsComplete) /\ (env.biased <=> manifest.biased)
    <3>1. captured.manifest # Null /\ manifest.biased \in BOOLEAN
      <4>1. captured.manifest \in Manifests
        BY <2>2 DEF WholeManifest, Inv, TypeOK, Captures, Maybe
      <4> QED BY <2>2, <4>1 DEF WholeManifest, Manifests
    <3> QED BY <1>2, <1>9, <2>2, <3>1 DEF Clean
  <2>4. /\ \A i \in DOMAIN rights.terms : WholeTerm(disk, rights.terms[i])
        /\ RightsComplete <=> /\ rights.terms # <<>>
                              /\ rights.role = 1 /\ Null \notin {rights.effective, rights.review}
    BY <1>9, <2>1, CompleteRights
  <2>5. /\ DOMAIN captured.files = DOMAIN rows
        /\ \A i \in DOMAIN rows :
              LET file == captured.files[i]
              IN  /\ file.row = rows[i] /\ file.issues = {} /\ file.payload = ThePayload(disk, rows[i])
                  /\ file.payload # Null /\ WholePayload(disk, rows[i]) /\ WholeWitness(disk, rows[i])
        /\ \A i, j \in DOMAIN rows : i # j => rows[i].path # rows[j].path
    BY <1>9, <2>1, CleanPayloads
  <2>6. ASSUME ~env.biased, NEW i \in DOMAIN rows
        PROVE  LocalReasons(Judged(captured.files[i]), env.biased) = {} <=>
                 Acceptable(rows[i], ThePayload(disk, rows[i]))
    <3>1. PICK file : file = captured.files[i]
      OBVIOUS
    <3>2. /\ file.row = rows[i] /\ file.issues = {} /\ file.payload = ThePayload(disk, rows[i])
          /\ file.payload # Null /\ ValidSequence(file.row.seq)
      BY <2>5, <3>1 DEF WholePayload
    <3> QED BY <2>6, <3>1, <3>2, JudgedClean
  <2>7. \A i \in DOMAIN rows : Judged(captured.files[i]).doc = ThePayload(disk, rows[i])
    BY <2>5 DEF Judged
  <2>8. (\A r, q \in judged : ~Contradict(r.doc, q.doc)) <=>
          \A i, j \in DOMAIN rows : i # j => ~Contradict(ThePayload(disk, rows[i]), ThePayload(disk, rows[j]))
    <3>1. \A doc : ~Contradict(doc, doc)
      BY DEF Contradict
    <3>2. (\A r, q \in judged : ~Contradict(r.doc, q.doc)) <=>
            \A i, j \in DOMAIN rows : ~Contradict(Judged(captured.files[i]).doc, Judged(captured.files[j]).doc)
      <4>1. \A i \in DOMAIN rows : Judged(captured.files[i]) \in judged
        BY <1>1, <2>5
      <4>2. \A r \in judged : \E i \in DOMAIN rows : r = Judged(captured.files[i])
        BY <1>1, <2>5
      <4> QED BY <4>1, <4>2
    <3> QED BY <2>7, <3>1, <3>2
  <2>9. (\A r \in judged : r.issues = {} /\ LocalReasons(r, env.biased) = {}) <=>
          \A i \in DOMAIN rows : LocalReasons(Judged(captured.files[i]), env.biased) = {}
    BY <1>1, <1>6, <2>5
  <2>10. batch.status = "ADMITTED" <=>
           /\ ~manifest.biased /\ rights.terms # <<>>
           /\ rights.role = 1 /\ Null \notin {rights.effective, rights.review}
           /\ \A i \in DOMAIN rows : Acceptable(rows[i], ThePayload(disk, rows[i]))
           /\ \A i, j \in DOMAIN rows : i # j => ~Contradict(ThePayload(disk, rows[i]), ThePayload(disk, rows[j]))
    BY <1>5, <2>3, <2>4, <2>6, <2>8, <2>9
  <2>11. Whole(disk) <=>
           /\ disk.dirs["root"] # Null /\ WholeManifest(manifest) /\ ~manifest.biased
           /\ WholeRights(manifest, rights)
           /\ rights.role = 1 /\ Null \notin {rights.effective, rights.review}
           /\ rights.terms # <<>> /\ \A i \in DOMAIN rights.terms : WholeTerm(disk, rights.terms[i])
           /\ NothingElse(disk, rows)
           /\ \A i \in DOMAIN rows :
                 /\ WholePayload(disk, rows[i]) /\ WholeWitness(disk, rows[i])
                 /\ Acceptable(rows[i], ThePayload(disk, rows[i]))
           /\ \A i, j \in DOMAIN rows : i # j =>
                 /\ rows[i].path # rows[j].path
                 /\ ~Contradict(ThePayload(disk, rows[i]), ThePayload(disk, rows[j]))
    BY <2>1 DEF Whole
  <2> QED BY <2>2, <2>4, <2>5, <2>10, <2>11, Zenon
<1> QED BY <1>7, <1>8, <1>9

LEMMA QuietInvariance == Spec => [](Inv /\ Quiet)
<1>1. Init => Inv /\ Quiet
  BY InitInv, QuietInit
<1>2. Inv /\ Quiet /\ [Next]_vars => Inv' /\ Quiet'
  BY NextInv, QuietNext
<1> QED BY <1>1, <1>2, PTL DEF Spec

THEOREM WholeAndAdmitted == Spec => []AdmittedIfWhole
BY WholeIsAdmitted, QuietInvariance, PTL
=============================================================================
