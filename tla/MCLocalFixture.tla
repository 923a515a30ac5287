--------------------------- MODULE MCLocalFixture ---------------------------
(* A manifest of two rows, and fixtures that differ from a whole one in one *)
(* respect; other programs take files away, put them back and rewrite them. *)
EXTENDS LocalFixtureProps

Doc(pos) ==
    [source |-> 1, market |-> 1, mints |-> 1, pos |-> pos, native |-> pos, kind |-> "ORIGINAL",
     slot |-> pos, seq |-> pos, supersedes |-> 0, retracts |-> 0, body |-> 1]

RowOf(path, seq) ==
    [path |-> path, seq |-> seq, slot |-> path, digest |-> Doc(path), source |-> 1, market |-> 1]

Rights ==
    [per_source |-> TRUE, role |-> 1, effective |-> 1, review |-> 2,
     terms |-> <<[source |-> 1, path |-> 1, digest |-> 5]>>]

Manifest(files) == [files |-> files, rights |-> Rights, sealed |-> TRUE, biased |-> FALSE]
Witness(row) ==
    [seq |-> row.seq, path |-> row.path, digest |-> row.digest, observed |-> 1, ingested |-> 2]

File(data, id) == [kind |-> "FILE", data |-> data, id |-> id]
DirNames == {"root", "rights", "terms", "payloads", "witnesses"}

Files(manifest, rights) ==
    (<<"root", 1>> :> File(manifest, 1)) @@ (<<"rights", 1>> :> File(rights, 2))
    @@ (<<"terms", 1>> :> File(5, 3))
    @@ (<<"payloads", 1>> :> File(Doc(1), 4)) @@ (<<"payloads", 2>> :> File(Doc(2), 5))
    @@ (<<"witnesses", 1>> :> File(Witness(RowOf(1, 1)), 6))
    @@ (<<"witnesses", 2>> :> File(Witness(RowOf(2, 2)), 7))

Disk(manifest, rights) == [files |-> Files(manifest, rights), dirs |-> [d \in DirNames |-> 1]]

First == RowOf(1, 1)
Second == RowOf(2, 2)
Whole2 == Disk(Manifest(<<First, Second>>), Rights)

\* Rows a manifest may have besides the first.
OddRows ==
    {Second, [Second EXCEPT !.seq = 1], [Second EXCEPT !.seq = 0], [Second EXCEPT !.seq = Null],
     [Second EXCEPT !.path = 0], [Second EXCEPT !.path = Null], [Second EXCEPT !.slot = Null],
     [Second EXCEPT !.source = Null], [Second EXCEPT !.market = 2], [Second EXCEPT !.digest = Doc(1)],
     [Second EXCEPT !.digest = Null], [Second EXCEPT !.market = Null, !.slot = Null],
     [Second EXCEPT !.source = Null, !.digest = Doc(1)], First}
OddRights ==
    {[Rights EXCEPT !.role = 2], [Rights EXCEPT !.role = Null], [Rights EXCEPT !.effective = 0],
     [Rights EXCEPT !.effective = 3], [Rights EXCEPT !.review = Null], [Rights EXCEPT !.terms = <<>>],
     [Rights EXCEPT !.terms[1].source = 2], [Rights EXCEPT !.terms[1].digest = 6],
     [Rights EXCEPT !.terms[1].digest = Null],
     [Rights EXCEPT !.per_source = FALSE, !.terms = <<[source |-> Null, path |-> 2, digest |-> 6],
                                                    [source |-> Null, path |-> 1, digest |-> 5]>>]}
OddFiles ==
    {<<"root", 1, Garbled>>, <<"root", 2, Manifest(<<First>>)>>, <<"rights", 1, Garbled>>, <<"root", 3, Rights>>,
     <<"root", 1, [Manifest(<<First, Second>>) EXCEPT !.sealed = FALSE]>>,
     <<"root", 1, [Manifest(<<First, Second>>) EXCEPT !.biased = TRUE]>>,
     <<"payloads", 2, NoDoc>>, <<"payloads", 3, Doc(3)>>, <<"witnesses", -2, Witness(Second)>>,
     <<"witnesses", 2, Garbled>>, <<"witnesses", 2, Witness(First)>>,
     <<"witnesses", 2, [Witness(Second) EXCEPT !.observed = Null]>>,
     <<"witnesses", 2, [Witness(Second) EXCEPT !.observed = 3]>>}

\* Two rows with payloads of a common lineage or target, or the same twice.
Pair(doc, other) ==
    LET row(n, d) == [path |-> n, seq |-> n, slot |-> d.slot, digest |-> d, source |-> 1, market |-> 1]
        files == <<row(1, doc), row(2, other)>>
    IN  [Whole2 EXCEPT !.files =
            (<<"root", 1>> :> File(Manifest(files), 1))
            @@ (<<"payloads", 1>> :> File(doc, 4)) @@ (<<"payloads", 2>> :> File(other, 5))
            @@ (<<"witnesses", 1>> :> File(Witness(files[1]), 6))
            @@ (<<"witnesses", 2>> :> File(Witness(files[2]), 7)) @@ @]
Late(pos, target) == [Doc(pos) EXCEPT !.kind = "CORRECTION", !.supersedes = target]
Pairs ==
    {<<Doc(1), Doc(1)>>, <<Doc(1), [Doc(1) EXCEPT !.body = 2]>>, <<Doc(1), [Doc(1) EXCEPT !.seq = 2]>>,
     <<Late(1, 7), Late(2, 7)>>, <<Late(1, 7), Late(2, 8)>>}

Without(disk0, dir) ==
    [files |-> [p \in {q \in DOMAIN disk0.files : q[1] # dir} |-> disk0.files[p]],
     dirs |-> [disk0.dirs EXCEPT ![dir] = Null]]

MCDisks ==
    {Pair(p[1], p[2]) : p \in Pairs} \cup
    {Disk(Manifest(<<First, row>>), Rights) : row \in OddRows}
    \cup {Disk(Manifest(<<Second, First>>), Rights), Disk(Manifest(<<>>), Rights), Disk(Manifest(<<First>>), Rights)}
    \cup {Disk([Manifest(<<First, Second>>) EXCEPT !.rights = r], r) : r \in OddRights}
    \cup {[Whole2 EXCEPT !.files = (<<f[1], f[2]>> :> File(f[3], 8)) @@ @] : f \in OddFiles}
    \cup {[Whole2 EXCEPT !.files = (p :> [kind |-> k, data |-> Null, id |-> 8]) @@ @] :
             p \in DOMAIN Whole2.files \cup {<<"payloads", 3>>}, k \in {"NONE", "LINK", "DIRECTORY"}}
    \cup {Without(Whole2, d) : d \in DirNames} \cup {Without(Disk(Manifest(<<>>), Rights), "witnesses")}

Put(path, data, in_place) == [path |-> path, kind |-> "FILE", data |-> data, in_place |-> in_place]
Away(path) == [path |-> path, kind |-> "NONE", data |-> Null, in_place |-> FALSE]

OneRow == Manifest(<<First>>)
MCWrites ==
    {Put(<<"root", 1>>, OneRow, TRUE), Put(<<"root", 1>>, OneRow, FALSE),
     Put(<<"rights", 1>>, [Rights EXCEPT !.review = 3], TRUE),
     Put(<<"payloads", 2>>, Doc(1), TRUE), Put(<<"payloads", 2>>, NoDoc, TRUE),
     Put(<<"payloads", 2>>, Doc(2), TRUE), Put(<<"payloads", 3>>, Doc(3), FALSE),
     Put(<<"witnesses", 2>>, [Witness(Second) EXCEPT !.ingested = 5], FALSE),
     Put(<<"witnesses", 2>>, Witness(Second), TRUE), Put(<<"terms", 1>>, 5, FALSE),
     Put(<<"witnesses", 1>>, Witness([Second EXCEPT !.seq = 1]), TRUE),
     Away(<<"payloads", 2>>), Away(<<"witnesses", 2>>), Away(<<"terms", 1>>)}

MCLayout == [manifest |-> <<(<<"root", 1>>), (<<"root", 2>>)>>, rights |-> <<(<<"rights", 1>>), (<<"root", 3>>)>>]
MCMarkets == [m \in {1} |-> 1]

\* Nothing is known of the fixture before it is captured.
MCSurroundings == {[issues |-> {}, rights |-> TRUE, biased |-> FALSE]}
=============================================================================
