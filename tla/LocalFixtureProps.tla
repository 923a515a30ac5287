-------------------------- MODULE LocalFixtureProps --------------------------
(* What an admitted fixture is, and what is refused. *)
EXTENDS LocalFixture

Done == job[1] = "done"
Admitted == Done /\ batch.status = "ADMITTED"

(***************************************************************************)
(* Whatever other programs do while the fixture is read, file by file      *)
(* (local_fixture.py:798), an admitted one is what a single manifest       *)
(* names: its rights and terms, and for each row a payload and a witness   *)
(* of its own, with the digest the row states.  The rows have paths of     *)
(* their own and are what the contract wants (contract_semantics.py:1771), *)
(* which admission never asks for, but for a digest that is left out.      *)
(* Sequences are distinct only because one witness cannot fit two rows; a  *)
(* witness that is rewritten between two rows can.                         *)
(***************************************************************************)
AdmittedAsNamed ==
    Admitted /\ captured.files # <<>> =>
        LET manifest == captured.manifest
            rows == manifest.files
        IN  /\ manifest # Null /\ manifest.sealed
            /\ manifest.rights = captured.rights_bytes
            /\ \E i \in DOMAIN captured.rights.terms :
                  captured.rights.terms[i].digest \in {Null, SelectedTerms}
            /\ DOMAIN captured.files = DOMAIN rows
            /\ \A i \in DOMAIN rows :
                  /\ captured.files[i].row = rows[i]
                  /\ FileRowValid([rows[i] EXCEPT !.digest = captured.files[i].payload])
                  /\ rows[i].digest \in {Null, captured.files[i].payload}
                  /\ captured.files[i].observed <= captured.files[i].ingested
            /\ \A i, j \in DOMAIN rows :
                  i # j => rows[i].path # rows[j].path /\ (writes = 0 => rows[i].seq # rows[j].seq)

-----------------------------------------------------------------------------
(* What a fixture has to be, said of a disk that nobody changes.            *)

On(d, path) == IF path \in DOMAIN d.files THEN d.files[path] ELSE NoEntry

\* What is in the one file there is under these names, or Null.
TheFile(d, paths) ==
    LET only(p) == On(d, p).kind = "FILE" /\ \A q \in paths \ {p} : On(d, q).kind = "NONE"
    IN  IF \E p \in paths : only(p) THEN On(d, CHOOSE p \in paths : only(p)).data ELSE Null

TheManifest(d) == TheFile(d, Range(Layout["manifest"]))
TheRights(d) == TheFile(d, Range(Layout["rights"]))
TheTerms(d, term) == TheFile(d, {<<"terms", term.path>>})
ThePayload(d, row) == TheFile(d, {<<"payloads", row.path>>})
TheWitness(d, row) == TheFile(d, {<<"witnesses", row.seq>>, <<"witnesses", -row.seq>>})

WholeManifest(manifest) == manifest \notin {Null, Garbled} /\ manifest.sealed

WholeRights(manifest, rights) ==
    /\ rights \notin {Null, Garbled} /\ manifest.rights = rights
    /\ TermRequests(rights, SourceIds(manifest)) = {}

WholeTerm(d, term) == TheTerms(d, term) # Null /\ term.digest \in {Null, TheTerms(d, term)}

WholePayload(d, row) ==
    /\ row.path \in SafePaths /\ ValidSequence(row.seq) /\ row.slot # Null
    /\ ThePayload(d, row) # Null /\ row.digest \in {Null, ThePayload(d, row)}

WholeWitness(d, row) ==
    LET witness == TheWitness(d, row)
    IN  /\ witness \notin {Null, Garbled} /\ WitnessFits(witness, row)
        /\ Null \notin {witness.observed, witness.ingested} /\ witness.observed <= witness.ingested

\* Empty directories may lie about.
NothingElse(d, rows) ==
    \A path \in DOMAIN d.files : path[1] = "payloads" =>
        \/ d.files[path].kind \in {"NONE", "DIRECTORY"}
        \/ d.files[path].kind = "FILE" /\ \E i \in DOMAIN rows : path[2] = rows[i].path

Acceptable(row, doc) ==
    LET judged == [path |-> row.path, seq |-> row.seq, slot |-> row.slot, source |-> row.source,
                   market |-> row.market, issues |-> {}, read |-> TRUE, doc |-> doc]
    IN  ProfileReasons(judged, FALSE) = {} /\ RevisionReasons(judged) = {}

\* Two payloads that cannot both be true.
Contradict(doc, other) ==
    \/ Version(doc) = Version(other) /\ doc # other
    \/ Lineage(doc) = Lineage(other) /\ doc.kind = "ORIGINAL" /\ other.kind = "ORIGINAL" /\ doc # other
    \/ /\ doc.kind = other.kind /\ doc.kind # "ORIGINAL"
       /\ Target(doc) = Target(other) /\ Version(doc) # Version(other)

Whole(d) ==
    LET manifest == TheManifest(d)
        rights == TheRights(d)
        rows == manifest.files
    IN  /\ d.dirs["root"] # Null
        /\ WholeManifest(manifest) /\ ~manifest.biased
        /\ WholeRights(manifest, rights)
        /\ rights.role = 1 /\ Null \notin {rights.effective, rights.review}
        /\ rights.terms # <<>> /\ \A i \in DOMAIN rights.terms : WholeTerm(d, rights.terms[i])
        /\ NothingElse(d, rows)
        /\ \A i \in DOMAIN rows :
              /\ WholePayload(d, rows[i]) /\ WholeWitness(d, rows[i])
              /\ Acceptable(rows[i], ThePayload(d, rows[i]))
        /\ \A i, j \in DOMAIN rows : i # j =>
              /\ rows[i].path # rows[j].path
              /\ ~Contradict(ThePayload(d, rows[i]), ThePayload(d, rows[j]))

(***************************************************************************)
(* A fixture that nobody changes is admitted exactly if it is whole        *)
(* (local_fixture.py:172-241, admission.py:110-166): no order in which its *)
(* files are read, and no check on the way, adds or forgets a reason.      *)
(***************************************************************************)
AdmittedIfWhole == Done /\ writes = 0 => (batch.status = "ADMITTED" <=> Whole(disk))

-----------------------------------------------------------------------------

Reasons(file) == batch.receipts[Judged(file)]

\* What a row, the rights or a witness may be so that no receipt can tell.
Untold(file) ==
    LET row == file.row
        rights == captured.rights
        named == "POINT_IN_TIME_MISSING" \in Reasons(file)
    IN  \/ ~ValidSequence(row.seq)
        \/ row.path # Null /\ row.path \notin SafePaths
        \/ Null \in {file.observed, file.ingested} /\ ~named
        \/ file.payload # Null /\ row.slot = Null /\ ~named
        \/ /\ file.payload # Null /\ file.issues # {}
           /\ row.source = Null \/ (row.market = Null /\ file.payload = NoDoc)
        \/ rights # Null /\ \/ rights.role \notin {Null, 1} \/ 0 \in {rights.effective, rights.review}
                            \/ Null \notin {rights.effective, rights.review} /\ rights.review < rights.effective

(***************************************************************************)
(* Every captured file gets a receipt, and its contract                    *)
(* (contract_semantics.py:1979-2135) refuses exactly those of rows without *)
(* a usable sequence, path, slot or source, of rights with a role or dates *)
(* of their own, and of witnesses that were lost in another way than the   *)
(* one that has a reason.  An admitted file's receipt is refused only for  *)
(* the dates of its rights.                                                *)
(***************************************************************************)
ReceiptsRefusedExactly ==
    Done => \A i \in DOMAIN captured.files :
        LET file == captured.files[i]
            valid == SourceReceiptValid(SourceReceiptRecord(file))
        IN  /\ valid <=> ~Untold(file)
            /\ Admitted /\ ~valid => \/ 0 \in {captured.rights.effective, captured.rights.review}
                                     \/ captured.rights.review < captured.rights.effective

=============================================================================
