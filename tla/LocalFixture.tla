---------------------------- MODULE LocalFixture ----------------------------
(***************************************************************************)
(* crypto_replay/local_fixture.py: capture_local_fixture reads a directory *)
(* file by file while other programs may change it, and admission.py       *)
(* judges what it read.  An entry of the disk is [kind, data, id]; its id  *)
(* stands for device, inode, size and modification time, and changes with  *)
(* every write.  A digest is the data itself.  Modelled as on Linux, where *)
(* files are opened below an open directory without following links.  A    *)
(* path is its directory and a number, a witness of the plan's layout a    *)
(* negative one; terms rows have their path.  Files stay in the order of   *)
(* the manifest: the code sorts them at the end, admission takes a set.    *)
(***************************************************************************)
EXTENDS FixtureDocuments, Admission, Integers, SequencesExt

CONSTANTS
    Disks,        \* what may be on the disk, with its directories
    Writes,       \* what another program may do: [path, kind, data, in_place]
    MaxWrites,    \* bound: how often it does
    Layout,       \* for the manifest and the rights, the paths they are looked for at
    Garbled       \* data that is no canonical record

Maybe(S) == S \cup {Null}

FileRows ==
    [path : Maybe(Nat), seq : Maybe(Nat), slot : Maybe(Nat), digest : Maybe(Docs \cup {NoDoc}),
     source : Maybe(Nat), market : Maybe(Nat)]
RightsDocs ==
    [per_source : BOOLEAN, role : Maybe(Nat), effective : Maybe(Nat), review : Maybe(Nat),
     terms : Seq([source : Maybe(Nat), path : Nat, digest : Maybe(Nat)])]
Manifests == [files : Seq(FileRows), rights : RightsDocs, sealed : BOOLEAN, biased : BOOLEAN]
WitnessDocs ==
    [seq : Nat, path : Nat, digest : Docs \cup {NoDoc}, observed : Maybe(Nat), ingested : Maybe(Nat)]

\* Data stand for the bytes of a file where it is looked for.
DataFits(path, data) ==
    /\ path \in Range(Layout["manifest"]) => data \in Manifests \cup {Garbled}
    /\ path \in Range(Layout["rights"]) => data \in RightsDocs \cup {Garbled}
    /\ path[1] = "terms" => data \in Nat
    /\ path[1] = "payloads" => data \in Docs \cup {NoDoc}
    /\ path[1] = "witnesses" => data \in WitnessDocs \cup {Garbled}

EntryFits(path, entry) ==
    /\ entry.kind \in {"FILE", "LINK", "DIRECTORY", "NONE"}
    /\ entry.kind = "FILE" => DataFits(path, entry.data)

ASSUME FixtureAssumption ==
    /\ Null \notin Nat \cup Docs \cup Manifests \cup RightsDocs \cup WitnessDocs \cup {NoDoc, Garbled}
    /\ NoDoc \notin Docs /\ Garbled \notin Manifests \cup RightsDocs \cup WitnessDocs
    /\ SafePaths \subseteq Nat /\ DOMAIN AllowedMarkets \subseteq Markets
    /\ \A name \in {"manifest", "rights"} :
          /\ Layout[name] \in Seq(Range(Layout[name])) /\ Layout[name] # <<>>
          /\ \A i, j \in DOMAIN Layout[name] : Layout[name][i] = Layout[name][j] => i = j
    /\ \A d \in Disks : \A path \in DOMAIN d.files :
          /\ EntryFits(path, d.files[path])
          /\ d.files[path].kind # "NONE" => d.dirs[path[1]] # Null
    /\ \A w \in Writes : EntryFits(w.path, w)

VARIABLES
    disk,       \* [files, dirs]: the entries, and an identity for every directory
    writes,     \* writes of other programs so far
    root,       \* the identity of the root when the capture began
    job,        \* what is captured next: <<kind, n>>
    reading,    \* the file that is being read, or Null
    captured    \* what was captured so far

captureVars == <<disk, writes, root, job, reading, captured>>
vars == <<admissionVars, captureVars>>

NoEntry == [kind |-> "NONE", data |-> Null, id |-> 0]
EntryAt(path) == IF path \in DOMAIN disk.files THEN disk.files[path] ELSE NoEntry
DirOf(path) == path[1]

Init ==
    /\ AdmissionInit
    /\ disk \in Disks
    /\ writes = 0 /\ root = Null /\ reading = Null
    /\ job = <<"root", 0>>
    /\ captured = [manifest |-> Null, rights |-> Null, rights_bytes |-> Null, terms |-> <<>>,
                   files |-> <<>>, issues |-> {}]

-----------------------------------------------------------------------------
(* Other programs: a file is written in place, or put in the place of what *)
(* was there, which changes the directory too.                             *)

Write ==
    /\ writes < MaxWrites /\ job[1] # "done"
    /\ \E w \in Writes :
          LET old == EntryAt(w.path)
              new == [kind |-> w.kind, data |-> w.data, id |-> 10 + writes]
              opened == reading # Null /\ reading.path = w.path /\ reading.now.id = old.id
          IN  /\ <<old.kind, old.data>> # <<w.kind, w.data>>
              /\ disk.dirs[DirOf(w.path)] # Null
              /\ w.in_place => old.kind = "FILE" /\ w.kind = "FILE"
              /\ disk' = [files |-> [p \in DOMAIN disk.files \cup {w.path} |->
                                       IF p = w.path THEN new ELSE disk.files[p]],
                          dirs |-> IF w.in_place THEN disk.dirs
                                   ELSE [disk.dirs EXCEPT ![DirOf(w.path)] = 10 + writes]]
              /\ reading' = IF opened /\ w.in_place THEN [reading EXCEPT !.now = new] ELSE reading
    /\ writes' = writes + 1
    /\ UNCHANGED <<root, job, captured, admissionVars>>

-----------------------------------------------------------------------------
(* What is captured, and in which order.                                   *)

RowCount == IF captured.manifest = Null THEN 0 ELSE Len(captured.manifest.files)
CurrentRow == captured.manifest.files[job[2]]
TermCount == IF captured.rights = Null THEN 0 ELSE Len(captured.rights.terms)

\* The job that follows: terms, then a payload and its witness for each row.
After(kind, n) ==
    LET term == IF kind = "terms" THEN n + 1 ELSE 1
        row == IF kind = "witnesses" THEN n + 1 ELSE 1
    IN  CASE kind = "root" -> <<"manifest", 1>>
          [] kind = "manifest" -> <<"rights", 1>>
          [] kind \in {"rights", "terms"} /\ term <= TermCount' -> <<"terms", term>>
          [] kind = "payloads" -> <<"witnesses", n>>
          [] OTHER -> IF row <= RowCount THEN <<"payloads", row>> ELSE <<"extra", 1>>

ValidSequence(seq) == seq # Null /\ seq # 0

\* Where the current job looks; a path outside the fixture is left alone.
Candidates ==
    CASE job[1] \in {"manifest", "rights"} -> Layout[job[1]]
      [] job[1] = "terms" -> <<(<<"terms", captured.rights.terms[job[2]].path>>)>>
      [] job[1] = "payloads" ->
            IF CurrentRow.path \in SafePaths THEN <<(<<"payloads", CurrentRow.path>>)>> ELSE <<>>
      [] job[1] = "witnesses" ->
            IF ValidSequence(CurrentRow.seq)
            THEN <<(<<"witnesses", CurrentRow.seq>>), (<<"witnesses", -CurrentRow.seq>>)>> ELSE <<>>

MissingCode ==
    CASE job[1] = "manifest" -> "MANIFEST_MISMATCH"
      [] job[1] \in {"rights", "terms"} -> "RIGHTS_MISSING"
      [] job[1] = "payloads" -> "SET_NOT_CLOSED"
      [] job[1] = "witnesses" -> "POINT_IN_TIME_MISSING"

RootMoved == disk.dirs["root"] # root

-----------------------------------------------------------------------------
(* What becomes of the bytes, or of their absence.                         *)

ManifestIssues(data) ==
    {c \in {"MANIFEST_MISMATCH"} : data = Garbled \/ (data \notin {Null, Garbled} /\ ~data.sealed)}

TakeManifest(data, issues) ==
    captured' = [captured EXCEPT !.manifest = IF data = Garbled THEN Null ELSE data,
                                 !.issues = @ \cup issues \cup ManifestIssues(data)]

\* Each source of the manifest has its row of terms, once.
TermRequests(rights, sources) ==
    LET named == {rights.terms[i].source : i \in DOMAIN rights.terms}
    IN  {c \in {"RIGHTS_MISSING"} :
            rights.per_source /\ \/ Null \in named \/ Cardinality(named) < Len(rights.terms)
                                 \/ sources # {} /\ named # sources}

SourceIds(manifest) ==
    IF manifest = Null THEN {} ELSE {manifest.files[i].source : i \in DOMAIN manifest.files} \ {Null}

\* Mutant: the rights that are there are taken for those of the manifest.
RightsOfAnyManifest(manifest, data) == {c \in {"RIGHTS_MISSING"} : data = Garbled}

RightsIssues(manifest, data) ==
    {c \in {"RIGHTS_MISSING"} : data = Garbled}
    \cup {c \in {"MANIFEST_MISMATCH"} : manifest # Null /\ data # Null /\ manifest.rights # data}

TakeRights(data, issues) ==
    LET rights == IF data = Garbled THEN Null ELSE data
    IN  captured' = [captured EXCEPT
            !.rights = rights, !.rights_bytes = data,
            !.issues = @ \cup issues \cup RightsIssues(captured.manifest, data)
                         \cup (IF rights = Null THEN {} ELSE TermRequests(rights, SourceIds(captured.manifest)))]

TakeTerms(data, issues) ==
    LET request == captured.rights.terms[job[2]]
        wrong == {c \in {"RIGHTS_MISSING"} : data # Null /\ request.digest \notin {Null, data}}
    IN  captured' = [captured EXCEPT !.issues = @ \cup issues \cup wrong,
                                     !.terms = Append(@, [path |-> request.path, digest |-> data])]

RowIssues(row, earlier) ==
    {c \in {"MANIFEST_MISMATCH"} : row.path = Null \/ row.seq = Null}
    \cup {c \in {"SET_NOT_CLOSED"} : row.path # Null /\ \E i \in DOMAIN earlier : earlier[i].row.path = row.path}
    \cup {c \in {"SEQUENCE_INVALID"} : ~ValidSequence(row.seq)}
    \cup {c \in {"REVISION_CAUSALITY"} : row.slot = Null}
    \cup {c \in {"UNSAFE_PATH"} : row.path \notin SafePaths}

TakePayload(data, issues) ==
    LET wrong == {c \in {"HASH_MISMATCH"} : data # Null /\ CurrentRow.digest \notin {Null, data}}
    IN  captured' = [captured EXCEPT
            !.files = Append(@, [row |-> CurrentRow, payload |-> data, observed |-> Null, ingested |-> Null,
                                 issues |-> issues \cup wrong \cup RowIssues(CurrentRow, @)])]

WitnessFits(w, row) == w.seq = row.seq /\ w.path = row.path /\ row.digest \in {Null, w.digest}

WithWitness(file, data, issues) ==
    LET record == data \notin {Null, Garbled}
        times == IF record THEN {data.observed, data.ingested} ELSE {}
        late == record /\ Null \notin times /\ data.ingested < data.observed
        untimely == {c \in {"POINT_IN_TIME_MISSING"} : data = Garbled \/ Null \in times \/ late}
        unfit == {c \in {"MANIFEST_MISMATCH"} : record /\ ~WitnessFits(data, file.row)}
    IN  [file EXCEPT !.issues = @ \cup issues \cup untimely \cup unfit,
                     !.observed = IF record THEN data.observed ELSE Null,
                     !.ingested = IF record /\ ~late THEN data.ingested ELSE Null]

TakeWitness(data, issues) ==
    captured' = [captured EXCEPT !.files[job[2]] = WithWitness(@, data, issues)]

Take(data, issues) ==
    CASE job[1] = "manifest" -> TakeManifest(data, issues)
      [] job[1] = "rights" -> TakeRights(data, issues)
      [] job[1] = "terms" -> TakeTerms(data, issues)
      [] job[1] = "payloads" -> TakePayload(data, issues)
      [] job[1] = "witnesses" -> TakeWitness(data, issues)

\* The file is not read any further.
Finish(data, issues) ==
    /\ Take(data, issues)
    /\ job' = After(job[1], job[2])
    /\ reading' = Null
    /\ UNCHANGED <<disk, writes, root, admissionVars>>

-----------------------------------------------------------------------------
(* One file, call by call.                                                 *)

CaptureRoot ==
    /\ job[1] = "root"
    /\ root' = disk.dirs["root"]
    /\ job' = IF disk.dirs["root"] = Null THEN <<"admit", 1>> ELSE After("root", 0)
    /\ captured' = [captured EXCEPT !.issues = {c \in {"NOT_LOCAL"} : disk.dirs["root"] = Null}]
    /\ UNCHANGED <<disk, writes, reading, admissionVars>>

Reads == {"manifest", "rights", "terms", "payloads", "witnesses"}

\* Nothing is read where nothing can be named.
SkipUnnamed ==
    /\ job[1] \in Reads /\ reading = Null
    /\ Candidates = <<>>
    /\ Finish(Null, {c \in {"SEQUENCE_INVALID"} : job[1] = "witnesses"})

SelectLayoutPath ==
    /\ job[1] \in Reads /\ reading = Null
    /\ Candidates # <<>>
    /\ LET there == {i \in DOMAIN Candidates : EntryAt(Candidates[i]).kind # "NONE"}
       IN  reading' = [path |-> Candidates[IF there = {} THEN 1 ELSE Min(there)], step |-> "selected",
                       id |-> 0, dir |-> Null, now |-> NoEntry, data |-> Null,
                       issues |-> {c \in {"SET_NOT_CLOSED"} : Cardinality(there) > 1}]
    /\ UNCHANGED <<disk, writes, root, job, captured, admissionVars>>

At(step) == job[1] \in Reads /\ reading # Null /\ reading.step = step

\* The root is looked at, its directory opened, and in it the file.
OpenLocalFile ==
    /\ At("selected")
    /\ LET entry == EntryAt(reading.path)
           dir == disk.dirs[DirOf(reading.path)]
           refused == IF RootMoved \/ dir = Null THEN {"NOT_LOCAL"}
                      ELSE IF entry.kind \in {"NONE", "LINK"} THEN {MissingCode}
                      ELSE IF entry.kind = "DIRECTORY" THEN {"SET_NOT_CLOSED"} ELSE {}
       IN  IF refused # {} THEN Finish(Null, reading.issues \cup refused)
           ELSE /\ reading' = [reading EXCEPT !.step = "opened", !.id = entry.id, !.dir = dir, !.now = entry]
                /\ UNCHANGED <<disk, writes, root, job, captured, admissionVars>>

ReadChunks ==
    /\ At("opened")
    /\ LET moved == {c \in {"NOT_LOCAL"} : RootMoved}
       IN  IF reading.now.id # reading.id
           THEN Finish(Null, reading.issues \cup moved \cup {"MANIFEST_MISMATCH"})
           ELSE /\ reading' = [reading EXCEPT !.step = "read", !.data = reading.now.data,
                                              !.issues = @ \cup moved]
                /\ UNCHANGED <<disk, writes, root, job, captured, admissionVars>>

\* What is found when the file is looked at again, open and at its path.
Unstable ==
    LET entry == EntryAt(reading.path)
    IN  {c \in {"MANIFEST_MISMATCH"} :
            reading.now.id # reading.id \/ entry.kind # "FILE" \/ entry.id # reading.id}
        \cup {c \in {"NOT_LOCAL"} : RootMoved \/ disk.dirs[DirOf(reading.path)] # reading.dir}

\* Only the issues of the read itself keep the bytes back, not a second
\* layout that is there too.
Revalidate ==
    /\ At("read")
    /\ LET found == (reading.issues \ {"SET_NOT_CLOSED"}) \cup Unstable
       IN  Finish(IF found = {} THEN reading.data ELSE Null, reading.issues \cup Unstable)

-----------------------------------------------------------------------------

\* Mutant: what else lies about is not looked for.
ExtraIgnored == {}

ExtraIssues ==
    LET named == {captured.files[i].row.path : i \in DOMAIN captured.files}
        there(kind) == {p \in DOMAIN disk.files : p[1] = "payloads" /\ disk.files[p].kind = kind}
    IN  IF disk.dirs["payloads"] = Null THEN {}
        ELSE {c \in {"SET_NOT_CLOSED"} : \E p \in there("FILE") : p[2] \notin named}
             \cup {c \in {"NOT_LOCAL"} : RootMoved \/ there("LINK") # {}}

CaptureExtraPayloadEntries ==
    /\ job[1] = "extra"
    /\ captured' = [captured EXCEPT !.issues = @ \cup ExtraIssues]
    /\ job' = <<"end", 1>>
    /\ UNCHANGED <<disk, writes, root, reading, admissionVars>>

CheckRootStable ==
    /\ job[1] = "end"
    /\ captured' = [captured EXCEPT !.issues = @ \cup {c \in {"NOT_LOCAL"} : RootMoved}]
    /\ job' = <<"admit", 1>>
    /\ UNCHANGED <<disk, writes, root, reading, admissionVars>>

-----------------------------------------------------------------------------
(* admission.py judges what was captured.                                  *)

SelectedTerms ==
    LET with == {i \in DOMAIN captured.terms : captured.terms[i].digest # Null}
    IN  IF with = {} THEN Null
        ELSE captured.terms[CHOOSE i \in with :
                \A j \in with : captured.terms[i].path <= captured.terms[j].path].digest

RightsField(field) == IF captured.rights = Null THEN Null ELSE captured.rights[field]

RightsComplete ==
    /\ SelectedTerms # Null
    /\ RightsField("role") = 1 /\ Null \notin {RightsField("effective"), RightsField("review")}

\* A captured file as admission sees it: no sequence sorts as zero.
Judged(file) ==
    [path |-> file.row.path, seq |-> IF file.row.seq = Null THEN 0 ELSE file.row.seq,
     slot |-> file.row.slot, source |-> file.row.source, market |-> file.row.market,
     issues |-> file.issues, read |-> file.payload # Null,
     doc |-> IF file.payload = Null THEN NoDoc ELSE file.payload]

Admit ==
    /\ job[1] = "admit"
    /\ fixture' = {Judged(captured.files[i]) : i \in DOMAIN captured.files}
    /\ around' = [issues |-> captured.issues, rights |-> RightsComplete,
                  biased |-> captured.manifest # Null /\ captured.manifest.biased]
    /\ batch' = Batch(fixture', around')
    /\ job' = <<"done", 1>>
    /\ UNCHANGED <<disk, writes, root, reading, captured>>

\* The receipt of a file keeps what is known of it.
SourceReceiptRecord(file) ==
    LET known(parsed, declared) == IF file.payload \in {Null, NoDoc} THEN declared ELSE parsed
    IN  [reasons |-> batch.receipts[Judged(file)], payload |-> file.payload, terms |-> SelectedTerms,
         source |-> known(1, file.row.source), market |-> known(file.payload.market, file.row.market),
         path |-> file.row.path, media |-> file.row.source,
         seq |-> IF file.row.seq = Null THEN 0 ELSE file.row.seq, slot |-> file.row.slot,
         observed |-> file.observed, ingested |-> file.ingested,
         role |-> RightsField("role"), effective |-> RightsField("effective"),
         review |-> RightsField("review")]

Next ==
    \/ Write
    \/ CaptureRoot \/ SkipUnnamed \/ SelectLayoutPath
    \/ OpenLocalFile \/ ReadChunks \/ Revalidate
    \/ CaptureExtraPayloadEntries \/ CheckRootStable \/ Admit

Spec == Init /\ [][Next]_vars
=============================================================================
