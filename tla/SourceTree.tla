----------------------------- MODULE SourceTree -----------------------------
(***************************************************************************)
(* crypto_replay/source_tree.py: scan_source_tree walks a directory tree,  *)
(* then reads every file it found, then lists every directory again, and   *)
(* answers with the files' contents or raises.  Other programs may change  *)
(* the tree between any two of its file-system calls; one action here is   *)
(* one call.  A failing call raises, that is, rejects the tree.            *)
(***************************************************************************)
EXTENDS Integers, Sequences, FiniteSets, SequencesExt

CONSTANTS
    Paths,       \* the paths below the root, existing or not
    Root,        \* the directory to scan
    Parent,      \* the directory each path is in
    Name,        \* the NFC relative path of each path
    Excluded,    \* paths under _EXCLUSION_PREFIXES
    Inodes,      \* inode numbers
    FirstInode,  \* the inode of a path that exists when the scan begins
    InitialTrees,\* the trees to scan: [kind, content] of the paths that exist
    Contents,    \* file contents, sequences of chunks
    NewKinds,    \* the kinds of entries other programs make
    MaxChanges   \* bound: changes by other programs during a scan

Kinds == {"file", "directory", "link", "other"}

ASSUME TreeAssumption ==
    /\ Root \notin Paths /\ Excluded \subseteq Paths
    /\ Parent \in [Paths -> Paths \cup {Root}]
    /\ \A S \in SUBSET Paths : S # {} => \E p \in S : Parent[p] \notin S   \* no cycle
    /\ DOMAIN Name = Paths
ASSUME DiskAssumption ==
    /\ Inodes \subseteq Nat \ {0} /\ \A c \in Contents : c \in Seq(Nat)
    /\ NewKinds \subseteq Kinds
    /\ MaxChanges \in Nat
    /\ FirstInode \in [Paths \cup {Root} -> Inodes]
    /\ \A tree \in InitialTrees :
          /\ DOMAIN tree \subseteq Paths \cup {Root} /\ Root \in DOMAIN tree
          /\ \A p \in DOMAIN tree : tree[p] \in [kind : Kinds, content : Seq(Nat)]
          /\ \A p, q \in DOMAIN tree : FirstInode[p] = FirstInode[q] => tree[p] = tree[q]
          /\ \A p \in DOMAIN tree \ {Root} :
                Parent[p] \in DOMAIN tree /\ tree[Parent[p]].kind = "directory"

VARIABLES
    link,      \* the inode of every path that exists
    disk,      \* every inode: [kind, content, modified]
    clock,     \* changes made so far; `modified` is the change that came last
    pc,        \* what scan_source_tree does next
    checks,    \* the directories it lstats before that
    stack,     \* the directories being listed, the root first
    entry,     \* the path scandir returned last
    seen,      \* seen_paths
    found,     \* the files discovered and not yet read
    visited,   \* visited_directories
    file,      \* the file being read: [path, identity, chain]
    fd,        \* the inode open for reading
    data,      \* the chunks read from it
    after,     \* fstat once it was read
    rows,      \* the contents of the files read
    walked,    \* history: the tree when the walk ended
    relisted   \* history: the tree when the second listing began

fsVars == <<link, disk, clock>>
walkVars == <<stack, entry, seen>>
fileVars == <<file, fd, data, after>>
history == <<walked, relisted>>
scanVars == <<pc, checks, walkVars, found, visited, fileVars, rows, history>>
vars == <<fsVars, scanVars>>

-----------------------------------------------------------------------------
(* File system *)

Exists(p) == p \in DOMAIN link
Kind(p) == disk[link[p]].kind
ChildrenOf(d) == { p \in DOMAIN link \ {Root} : Parent[p] = d }

Ancestors[p \in Paths \cup {Root}] ==
    IF p = Root THEN {} ELSE {Parent[p]} \cup Ancestors[Parent[p]]

\* A path below a link leads out of the tree, to a file that never changes.
Outside == 0
OutsideFile == [kind |-> "file", content |-> <<>>, modified |-> 0]
LeadsOut(p) == \E a \in Ancestors[p] : Exists(a) /\ Kind(a) = "link"

Inode(i) == IF i = Outside THEN OutsideFile ELSE disk[i]
Lookup(p) == IF LeadsOut(p) THEN Outside ELSE link[p]

\* Without Outside, a path exists for lstat and open when it is linked.
Reachable(p) == LeadsOut(p) \/ Exists(p)

\* Mutant: st_mtime_ns is left out.
InodeIdentityUntimed(i) ==
    [inode |-> i, kind |-> Inode(i).kind, size |-> Len(Inode(i).content), modified |-> 0]

\* _identity of what os.fstat or os.lstat returned.
InodeIdentity(i) ==
    [inode |-> i, kind |-> Inode(i).kind, size |-> Len(Inode(i).content),
     modified |-> Inode(i).modified]

Identity(p) == InodeIdentity(Lookup(p))

Plain(p) == Reachable(p) /\ Identity(p).kind \in {"directory", "file"}

IsDirectory(p) == Reachable(p) /\ Identity(p).kind = "directory"

\* What other programs do.  Every change is told by a modification time: of
\* the file written, or of the directory an entry was added to or taken from.
Touched(i) == [disk EXCEPT ![i].modified = clock + 1]

WriteFile ==
    \E p \in DOMAIN link, content \in Contents :
        /\ Kind(p) = "file"
        /\ disk' = [Touched(link[p]) EXCEPT ![link[p]].content = content]
        /\ UNCHANGED link

CreateEntry ==
    \E p \in Paths \ DOMAIN link, i \in Inodes, kind \in NewKinds :
        /\ Exists(Parent[p]) /\ Kind(Parent[p]) = "directory"
        /\ i \notin {link[q] : q \in DOMAIN link} \cup {fd}
        /\ link' = [q \in DOMAIN link \cup {p} |-> IF q = p THEN i ELSE link[q]]
        /\ disk' = [Touched(link[Parent[p]]) EXCEPT
                        ![i] = [kind |-> kind, content |-> <<>>, modified |-> clock + 1]]

RemoveEntry ==
    \E p \in DOMAIN link \ {Root} :
        /\ ChildrenOf(p) = {}
        /\ link' = [q \in DOMAIN link \ {p} |-> link[q]]
        /\ disk' = Touched(link[Parent[p]])

Change ==
    /\ clock < MaxChanges
    /\ WriteFile \/ CreateEntry \/ RemoveEntry
    /\ clock' = clock + 1
    /\ UNCHANGED scanVars

-----------------------------------------------------------------------------
(* The scan *)

Reject ==
    /\ pc' = "rejected" /\ checks' = <<>>
    /\ UNCHANGED <<walkVars, found, visited, fileVars, rows, history>>

Now(step) == pc = step /\ checks = <<>>

Proof(d) == [path |-> d, identity |-> Identity(d)]
EntryProof(p) == [name |-> Name[p], identity |-> Identity(p)]

\* The lstats of _require_stable_directory_chain and _require_stable_directory
\* come first; each compares a directory with its proof.
CheckDirectory ==
    /\ checks # <<>>
    /\ LET proof == Head(checks) IN
           IF IsDirectory(proof.path) /\ Identity(proof.path) = proof.identity
             THEN /\ checks' = Tail(checks)
                  /\ UNCHANGED <<pc, walkVars, found, visited, fileVars, rows, history>>
             ELSE Reject

Frame(d) == [path |-> d, proof |-> Proof(d), listed |-> {}, returned |-> {}, entries |-> {}]
Chain == [i \in DOMAIN stack |-> stack[i].proof]
Top == stack[Len(stack)]
WithTop(frame) == [stack EXCEPT ![Len(stack)] = frame]

LstatRoot ==
    /\ Now("root")
    /\ IF ~IsDirectory(Root) THEN Reject
       ELSE /\ stack' = <<Frame(Root)>>
            /\ checks' = <<Proof(Root), Proof(Root)>>
            /\ pc' = "scandir"
            /\ UNCHANGED <<entry, seen, found, visited, fileVars, rows, history>>

\* What a directory holds; scandir follows a link, out of the tree.
Listing(d) == IF LeadsOut(d) \/ Kind(d) = "link" THEN {} ELSE ChildrenOf(d)

Scandir ==
    /\ Now("scandir")
    /\ IF ~Reachable(Top.path) \/ Identity(Top.path).kind \notin {"directory", "link"} THEN Reject
       ELSE /\ stack' = WithTop([Top EXCEPT !.listed = Listing(Top.path)])
            /\ checks' = Chain
            /\ pc' = "next"
            /\ UNCHANGED <<entry, seen, found, visited, fileVars, rows, history>>

\* readdir returns what was there when the directory was opened, except that
\* an entry removed since may be missing, and one added since may be there.
MayReturn(frame) == (frame.listed \cup ChildrenOf(frame.path)) \ frame.returned
MustReturn(frame) == (frame.listed \cap ChildrenOf(frame.path)) \ frame.returned

NextEntry ==
    /\ Now("next")
    /\ \E p \in MayReturn(Top) :
          /\ entry' = p
          /\ stack' = WithTop([Top EXCEPT !.returned = @ \cup {p}])
    /\ checks' = Chain
    /\ pc' = "entry"
    /\ UNCHANGED <<seen, found, visited, fileVars, rows, history>>

EndOfDirectory ==
    /\ Now("next") /\ MustReturn(Top) = {}
    /\ checks' = Chain
    /\ pc' = "leave"
    /\ UNCHANGED <<walkVars, found, visited, fileVars, rows, history>>

SkipExcluded ==
    /\ Now("entry") /\ entry \in Excluded
    /\ pc' = "next"
    /\ UNCHANGED <<checks, walkVars, found, visited, fileVars, rows, history>>

LstatEntry ==
    /\ Now("entry") /\ entry \notin Excluded
    /\ \/ /\ Name[entry] \in seen \/ ~Plain(entry)
          /\ Reject
       \/ /\ Name[entry] \notin seen /\ Plain(entry)
          /\ seen' = seen \cup {Name[entry]}
          /\ LET frame == [Top EXCEPT !.entries = @ \cup {EntryProof(entry)}] IN
                 \/ /\ Identity(entry).kind = "directory"
                    /\ stack' = Append(WithTop(frame), Frame(entry))
                    /\ checks' = <<Proof(entry)>> \o Chain \o <<Proof(entry)>>
                    /\ pc' = "scandir"
                    /\ UNCHANGED found
                 \/ /\ Identity(entry).kind = "file"
                    /\ stack' = WithTop(frame)
                    /\ found' = found \cup {[path |-> entry, identity |-> Identity(entry),
                                             chain |-> Chain]}
                    /\ pc' = "next"
                    /\ UNCHANGED checks
          /\ UNCHANGED <<entry, visited, fileVars, rows, history>>

\* The view of the tree the scan is about: every path and what it holds, but
\* for the excluded ones and what is below them.
Visible == { p \in DOMAIN link : p \notin Excluded /\ Ancestors[p] \cap Excluded = {} }
View == [p \in Visible |-> disk[link[p]]]

LeaveDirectory ==
    /\ Now("leave")
    /\ visited' = Append(visited, [chain |-> Chain, entries |-> Top.entries])
    /\ stack' = Front(stack)
    /\ IF Len(stack) > 1 THEN pc' = "next" /\ UNCHANGED walked
                         ELSE pc' = "files" /\ walked' = View
    /\ UNCHANGED <<checks, entry, seen, found, fileVars, rows, relisted>>

-----------------------------------------------------------------------------
(* _file_row *)

BeginFile ==
    /\ Now("files")
    /\ \E f \in found :
          /\ file' = f /\ checks' = f.chain
          /\ found' = found \ {f}
    /\ pc' = "open"
    /\ UNCHANGED <<walkVars, visited, fd, data, after, rows, history>>

\* O_NOFOLLOW refuses a link.
OpenFile ==
    /\ Now("open")
    /\ IF ~Reachable(file.path) \/ Identity(file.path).kind = "link" THEN Reject
       ELSE /\ fd' = Lookup(file.path)
            /\ checks' = file.chain
            /\ pc' = "fstat"
            /\ UNCHANGED <<walkVars, found, visited, file, data, after, rows, history>>

FstatOpened ==
    /\ Now("fstat")
    /\ IF InodeIdentity(fd) # file.identity THEN Reject
       ELSE /\ data' = <<>>
            /\ pc' = "read"
            /\ UNCHANGED <<checks, walkVars, found, visited, file, fd, after, rows, history>>

ReadChunk ==
    /\ Now("read")
    /\ IF Len(data) < Len(Inode(fd).content)
         THEN data' = Append(data, Inode(fd).content[Len(data) + 1]) /\ UNCHANGED pc
         ELSE pc' = "fstat_again" /\ UNCHANGED data
    /\ UNCHANGED <<checks, walkVars, found, visited, file, fd, after, rows, history>>

FstatAgain ==
    /\ Now("fstat_again")
    /\ after' = InodeIdentity(fd)
    /\ checks' = file.chain
    /\ pc' = "lstat_again"
    /\ UNCHANGED <<walkVars, found, visited, file, fd, data, rows, history>>

LstatAgain ==
    /\ Now("lstat_again")
    /\ IF \/ ~Reachable(file.path)
          \/ after # file.identity
          \/ Identity(file.path) # file.identity
         THEN Reject
         ELSE /\ checks' = file.chain
              /\ pc' = "row"
              /\ UNCHANGED <<walkVars, found, visited, fileVars, rows, history>>

MakeRow ==
    /\ Now("row")
    /\ IF Len(data) # file.identity.size THEN Reject
       ELSE /\ rows' = [p \in DOMAIN rows \cup {file.path} |->
                            IF p = file.path THEN data ELSE rows[p]]
            /\ fd' = Outside
            /\ pc' = "files"
            /\ UNCHANGED <<checks, walkVars, found, visited, file, data, after, history>>

-----------------------------------------------------------------------------
(* _require_stable_visited_directories: every directory is listed again *)

EndOfFiles ==
    /\ Now("files") /\ found = {}
    /\ relisted' = View
    /\ checks' = Head(visited).chain
    /\ pc' = "rescan"
    /\ UNCHANGED <<walkVars, found, visited, fileVars, rows, walked>>

Revisited == Last(Head(visited).chain).path

Rescan ==
    /\ Now("rescan")
    /\ IF ~Reachable(Revisited) \/ Identity(Revisited).kind \notin {"directory", "link"} THEN Reject
       ELSE /\ stack' = <<[path |-> Revisited, proof |-> Last(Head(visited).chain),
                           listed |-> Listing(Revisited), returned |-> {}, entries |-> {}]>>
            /\ seen' = {}
            /\ pc' = "renext"
            /\ UNCHANGED <<checks, entry, found, visited, fileVars, rows, history>>

\* An entry and its lstat, in one step: a change between the two does what the
\* same change before both does, for scandir may return an entry removed since.

\* Mutant: the second listing does not leave out what the first one excludes.
NextEntryUnexcluded ==
    /\ Now("renext")
    /\ \E p \in MayReturn(Top) :
          LET frame == [Top EXCEPT !.returned = @ \cup {p}] IN
          \/ /\ Name[p] \in seen \/ ~Plain(p)
             /\ Reject
          \/ /\ Name[p] \notin seen /\ Plain(p)
             /\ seen' = seen \cup {Name[p]}
             /\ stack' = WithTop([frame EXCEPT !.entries = @ \cup {EntryProof(p)}])
             /\ UNCHANGED <<pc, checks, entry, found, visited, fileVars, rows, history>>

NextEntryAgain ==
    /\ Now("renext")
    /\ \E p \in MayReturn(Top) :
          LET frame == [Top EXCEPT !.returned = @ \cup {p}] IN
          \/ /\ p \in Excluded
             /\ stack' = WithTop(frame)
             /\ UNCHANGED <<pc, checks, entry, seen, found, visited, fileVars, rows, history>>
          \/ /\ p \notin Excluded
             /\ Name[p] \in seen \/ ~Plain(p)
             /\ Reject
          \/ /\ p \notin Excluded /\ Name[p] \notin seen /\ Plain(p)
             /\ seen' = seen \cup {Name[p]}
             /\ stack' = WithTop([frame EXCEPT !.entries = @ \cup {EntryProof(p)}])
             /\ UNCHANGED <<pc, checks, entry, found, visited, fileVars, rows, history>>

EndOfDirectoryAgain ==
    /\ Now("renext") /\ MustReturn(Top) = {}
    /\ checks' = Head(visited).chain
    /\ pc' = "compare"
    /\ UNCHANGED <<walkVars, found, visited, fileVars, rows, history>>

\* Mutant: the second listing is made and not compared.
CompareNothing ==
    /\ Now("compare")
    /\ visited' = Tail(visited)
    /\ IF Len(visited) = 1 THEN pc' = "accepted" /\ UNCHANGED checks
                           ELSE pc' = "rescan" /\ checks' = visited[2].chain
    /\ UNCHANGED <<walkVars, found, fileVars, rows, history>>

CompareEntries ==
    /\ Now("compare")
    /\ IF Top.entries # Head(visited).entries THEN Reject
       ELSE /\ visited' = Tail(visited)
            /\ IF Len(visited) = 1 THEN pc' = "accepted" /\ UNCHANGED checks
                                   ELSE pc' = "rescan" /\ checks' = visited[2].chain
            /\ UNCHANGED <<walkVars, found, fileVars, rows, history>>

-----------------------------------------------------------------------------
Nothing == [kind |-> "other", content |-> <<>>, modified |-> 0]
NoTree == [p \in {} |-> Nothing]
NoFile == [path |-> Root, identity |-> InodeIdentity(Outside), chain |-> <<>>]

TreeInit ==
    \E tree \in InitialTrees :
        /\ link = [p \in DOMAIN tree |-> FirstInode[p]]
        /\ disk = [i \in Inodes |->
                      IF \E p \in DOMAIN tree : FirstInode[p] = i
                        THEN LET p == CHOOSE q \in DOMAIN tree : FirstInode[q] = i IN
                             [kind |-> tree[p].kind, content |-> tree[p].content, modified |-> 0]
                        ELSE Nothing]
        /\ clock = 0

Init ==
    /\ TreeInit
    /\ pc = "root" /\ checks = <<>>
    /\ stack = <<>> /\ entry = Root /\ seen = {}
    /\ found = {} /\ visited = <<>> /\ rows = NoTree
    /\ file = NoFile /\ fd = Outside /\ data = <<>> /\ after = NoFile.identity
    /\ walked = NoTree /\ relisted = NoTree

Walk ==
    \/ LstatRoot \/ Scandir \/ NextEntry \/ EndOfDirectory
    \/ SkipExcluded \/ LstatEntry \/ LeaveDirectory

ReadFiles ==
    \/ BeginFile \/ OpenFile \/ FstatOpened \/ ReadChunk
    \/ FstatAgain \/ LstatAgain \/ MakeRow

ListAgain ==
    \/ EndOfFiles \/ Rescan \/ NextEntryAgain \/ EndOfDirectoryAgain \/ CompareEntries

Scan == (CheckDirectory \/ Walk \/ ReadFiles \/ ListAgain) /\ UNCHANGED fsVars

Next == Scan \/ Change

Spec == Init /\ [][Next]_vars

-----------------------------------------------------------------------------
(* Properties *)

FilesOf(view) == [p \in {q \in DOMAIN view : view[q].kind = "file"} |-> view[p].content]

\* The rows of an accepted tree are the files, all of them and nothing else,
\* with the contents they had at one single instant: when the walk had ended
\* and no file had been read yet (source_tree.py:95); and when the second
\* listing began (source_tree.py:102) the tree still was what it was then.
AcceptedIsSnapshot == pc = "accepted" => rows = FilesOf(walked) /\ relisted = walked

\* A tree that cannot be told by no-follow relative names: its root is no
\* directory, it holds something other than files and directories, or two
\* paths have one name.
Unfit ==
    \/ Kind(Root) # "directory"
    \/ \E p \in Visible : Kind(p) \notin {"file", "directory"}
    \/ \E p, q \in Visible \ {Root} : p # q /\ Name[p] = Name[q]

\* A tree is rejected for a reason: it is unfit, or it changed meanwhile.
RejectedForCause == pc = "rejected" => clock > 0 \/ Unfit
=============================================================================
