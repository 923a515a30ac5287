--------------------------- MODULE SourceTreeProofs ---------------------------
(***************************************************************************)
(* What scan_source_tree accepts is a snapshot, whatever other programs do *)
(* to the tree and however large it is.                                    *)
(*                                                                         *)
(* The argument: a change gives what it changes a modification time later  *)
(* than any before, so an identity seen once and seen again tells that     *)
(* nothing happened in between (`HeldBefore`, `SameIdentity`).  What the   *)
(* walk recorded of a directory is therefore stated under the hypothesis   *)
(* that the directory still is what it was (`Holds`), and the second       *)
(* listing turns that into facts about the two views (`Matched`).          *)
(***************************************************************************)
EXTENDS SourceTree, SequenceTheorems, TLAPS

-----------------------------------------------------------------------------
(* Types *)

AllPaths == Paths \cup {Root}
AllInodes == Inodes \cup {Outside}
Files == [kind : Kinds, content : Seq(Nat), modified : Nat]
Identities == [inode : AllInodes, kind : Kinds, size : Nat, modified : Nat]
DirectoryProofs == [path : AllPaths, identity : Identities]
EntryProofs == [name : {Name[p] : p \in Paths}, identity : Identities]
Frames == [path : AllPaths, proof : DirectoryProofs, listed : SUBSET Paths,
           returned : SUBSET Paths, entries : SUBSET EntryProofs]
Discovered == [path : AllPaths, identity : Identities, chain : Seq(DirectoryProofs)]
Visits == [chain : Seq(DirectoryProofs), entries : SUBSET EntryProofs]

Walking == {"scandir", "next", "entry", "leave"}
Reading == {"open", "fstat", "read", "fstat_again", "lstat_again", "row"}
Relisting == {"rescan", "renext", "compare"}
Steps == {"root", "files", "accepted", "rejected"} \cup Walking \cup Reading \cup Relisting

ScanTypeOK ==
    /\ pc \in Steps
    /\ checks \in Seq(DirectoryProofs)
    /\ stack \in Seq(Frames)
    /\ entry \in AllPaths
    /\ seen \subseteq {Name[p] : p \in Paths}
    /\ found \subseteq Discovered
    /\ visited \in Seq(Visits)
    /\ file \in Discovered
    /\ fd \in AllInodes
    /\ data \in Seq(Nat)
    /\ after \in Identities
    /\ rows \in [DOMAIN rows -> Seq(Nat)] /\ DOMAIN rows \subseteq AllPaths
    /\ walked \in [DOMAIN walked -> Files] /\ DOMAIN walked \subseteq AllPaths
    /\ relisted \in [DOMAIN relisted -> Files] /\ DOMAIN relisted \subseteq AllPaths

\* The file system is one: what exists is in a directory that exists.
FsOK ==
    /\ clock \in Nat
    /\ DOMAIN link \subseteq AllPaths /\ Root \in DOMAIN link
    /\ link \in [DOMAIN link -> Inodes]
    /\ disk \in [Inodes -> Files]
    /\ \A i \in Inodes : disk[i].modified <= clock
    /\ \A p \in DOMAIN link \ {Root} : Parent[p] \in DOMAIN link /\ Kind(Parent[p]) = "directory"

TypeOK == FsOK /\ ScanTypeOK

-----------------------------------------------------------------------------
(* What the scan recorded and what it is worth *)

Past(identity) == identity.modified <= clock

\* The directory still is the one of the proof, unchanged.
Holds(proof) == proof.path \in DOMAIN link /\ InodeIdentity(link[proof.path]) = proof.identity

InScope(p) == p \notin Excluded /\ Ancestors[p] \cap Excluded = {}

Recorded(proof) ==
    InScope(proof.path) /\ Past(proof.identity) /\ proof.identity.kind = "directory"

\* The entries a directory may have and the scan is about.
ScopeOf(d) == {p \in Paths \ Excluded : Parent[p] = d}
Scanned(d) == ChildrenOf(d) \ Excluded

ProofAt(i) == Last(visited[i].chain)
VisitedPaths == {ProofAt(i).path : i \in DOMAIN visited}
StackPaths == {stack[i].path : i \in DOMAIN stack}

InHand == found \cup (IF pc \in Reading THEN {file} ELSE {})

\* The file p, found with this identity, is on the list or its row is right.
Tracked(p, identity) ==
    \/ \E f \in InHand : f.path = p /\ f.identity = identity
    \/ /\ p \in DOMAIN rows
       /\ InodeIdentity(identity.inode) = identity => rows[p] = Inode(identity.inode).content

\* The entries tell which of these paths are, and what each of them is; the
\* directories among them are in `directories`.
Told(paths, entries, directories) ==
    \A p \in paths :
        /\ \E e \in entries : e.name = Name[p]
        /\ \A e \in entries : e.name = Name[p] =>
              /\ e.identity.inode = link[p]
              /\ e.identity.kind = Kind(p)
              /\ Kind(p) = "file" => Tracked(p, e.identity)
        /\ Kind(p) \in {"file", "directory"}
        /\ Kind(p) = "directory" => p \in directories

\* A directory on the stack.  The entry returned last comes to `entries` with
\* its lstat.
Pending(i) == IF pc = "entry" /\ i = Len(stack) THEN {entry} ELSE {}

FrameInv(i, directories) ==
    LET frame == stack[i] IN
    /\ frame.proof.path = frame.path /\ Recorded(frame.proof)
    /\ \A p \in frame.listed \cup frame.returned : Parent[p] = frame.path
    /\ \A e \in frame.entries : Past(e.identity) /\ e.name \in seen
    /\ Holds(frame.proof) =>
          /\ i # Len(stack) \/ pc # "scandir" => frame.listed = ChildrenOf(frame.path)
          /\ frame.returned \subseteq ChildrenOf(frame.path)
          /\ i = Len(stack) /\ pc = "leave" => ChildrenOf(frame.path) \subseteq frame.returned
          /\ Told(frame.returned \ (Excluded \cup Pending(i)), frame.entries, directories)

\* A directory that was left.
VisitInv(i, directories) ==
    /\ visited[i].chain # <<>> /\ Recorded(ProofAt(i))
    /\ \A e \in visited[i].entries : Past(e.identity)
    /\ Holds(ProofAt(i)) => Told(Scanned(ProofAt(i).path), visited[i].entries, directories)

\* A file that was found or read is one, in a directory that was found.
FileInv(directories) ==
    /\ \A p \in {f.path : f \in InHand} \cup DOMAIN rows :
          /\ p \in Paths \ Excluded /\ Parent[p] \in directories
          /\ \A i \in DOMAIN visited : ProofAt(i).path = Parent[p] /\ Holds(ProofAt(i)) =>
                p \in DOMAIN link /\ Kind(p) = "file"
    /\ \A f \in InHand : Past(f.identity) /\
          \A i \in DOMAIN visited : \A e \in visited[i].entries :
             e.name = Name[f.path] => e.identity = f.identity

\* During the walk: every name is looked at once.
WalkInv ==
    LET directories == StackPaths \cup VisitedPaths IN
    /\ stack # <<>> /\ Root \in directories /\ DOMAIN rows = {}
    /\ pc = "entry" => entry \in stack[Len(stack)].returned
    /\ \A d \in directories : d # Root => d \in Paths /\ Name[d] \in seen
    /\ \A i \in DOMAIN stack : FrameInv(i, directories)
    /\ \A i \in DOMAIN visited : VisitInv(i, directories) /\ \A e \in visited[i].entries : e.name \in seen
    /\ FileInv(directories)
    /\ \A f \in found :
          /\ Name[f.path] \in seen
          /\ \A i \in DOMAIN stack :
                /\ stack[i].path = Parent[f.path] /\ Holds(stack[i].proof) =>
                      f.path \in DOMAIN link /\ Kind(f.path) = "file"
                /\ \A e \in stack[i].entries : e.name = Name[f.path] => e.identity = f.identity

-----------------------------------------------------------------------------
(* What a view is worth *)

\* In a view, too, everything is in a directory.
ViewOK(view) ==
    \A p \in DOMAIN view : p # Root =>
        p \in Paths \ Excluded /\ Parent[p] \in DOMAIN view /\ view[Parent[p]].kind = "directory"

\* Where nothing happened since the walk, the view shows what is there now.
Shows(view) ==
    \A i \in DOMAIN visited : Holds(ProofAt(i)) =>
        LET d == ProofAt(i).path IN
        /\ d \in DOMAIN view /\ view[d] = disk[link[d]]
        /\ \A p \in ScopeOf(d) :
              /\ p \in DOMAIN view <=> p \in DOMAIN link
              /\ p \in DOMAIN link =>
                    /\ view[p].kind = Kind(p)
                    /\ \A e \in visited[i].entries :
                          e.name = Name[p] /\ InodeIdentity(link[p]) = e.identity => view[p] = disk[link[p]]

Settled(p) ==
    /\ p \in DOMAIN walked /\ p \in DOMAIN relisted /\ walked[p] = relisted[p]
    /\ walked[p].kind \in {"file", "directory"}
    /\ walked[p].kind = "file" => p \in DOMAIN rows /\ rows[p] = walked[p].content

SameDirectory(d, directories) ==
    /\ d \in DOMAIN walked /\ d \in DOMAIN relisted /\ walked[d] = relisted[d]
    /\ walked[d].kind = "directory"
    /\ \A p \in ScopeOf(d) :
          /\ p \in DOMAIN walked <=> p \in DOMAIN relisted
          /\ p \in DOMAIN walked /\ walked[p].kind = "directory" => p \in directories
          /\ p \in DOMAIN rows => p \in DOMAIN walked /\ walked[p].kind = "file"

\* The two views agree on a directory and the rows with both.
Matched(d, directories) ==
    SameDirectory(d, directories) /\ \A p \in ScopeOf(d) \cap DOMAIN walked : Settled(p)

\* What was listed again, of the directory listed first.
RelistInv ==
    LET frame == stack[1]
        proof == ProofAt(1)
        \* p was looked at again; if it was the same, nothing happened to it.
        again(p) == \E e \in frame.entries : e.name = Name[p] /\ (e \in visited[1].entries => Settled(p))
    IN  /\ Len(stack) = 1 /\ frame.path = proof.path
        /\ \A p \in frame.listed \cup frame.returned : Parent[p] = frame.path
        /\ pc = "renext" /\ Holds(proof) =>
              /\ frame.listed = ChildrenOf(proof.path)
              /\ frame.returned \subseteq ChildrenOf(proof.path)
              /\ \A p \in frame.returned \ Excluded : again(p)
        /\ pc = "compare" /\ (Holds(proof) \/ checks = <<>>) =>
              \A p \in ScopeOf(proof.path) \cap DOMAIN walked : again(p)

ListedInv(directories) ==
    /\ Root \in directories
    /\ \A i \in DOMAIN visited : VisitInv(i, directories)
    /\ FileInv(directories)
    /\ Shows(walked) /\ ViewOK(walked)

FilesInv == ListedInv(VisitedPaths) /\ visited # <<>>

AgainInv ==
    /\ visited # <<>> /\ found = {}
    /\ Shows(relisted) /\ ViewOK(relisted)
    /\ pc # "rescan" => RelistInv
    /\ pc = "compare" => checks = <<>> \/ Last(checks) = ProofAt(1)
    /\ \E directories \in SUBSET AllPaths :
          /\ ListedInv(directories)
          /\ \A d \in directories : d \in VisitedPaths \/ Matched(d, directories)
          /\ pc = "compare" /\ checks = <<>> => SameDirectory(ProofAt(1).path, directories)

\* The bytes read so far.
DataInv ==
    LET i == file.identity.inode
        same == InodeIdentity(i) = file.identity
    IN  /\ pc = "read" /\ same =>
              Len(data) <= Len(Inode(i).content) /\ \A k \in DOMAIN data : data[k] = Inode(i).content[k]
        /\ pc = "read" => fd = i
        /\ pc \in {"fstat_again", "lstat_again", "row"} /\ same => data = Inode(i).content

Inv ==
    /\ TypeOK
    /\ pc = "root" => stack = <<>> /\ visited = <<>> /\ found = {} /\ DOMAIN rows = {} /\ seen = {}
    /\ pc \in Walking => WalkInv
    /\ pc \in {"files"} \cup Reading => FilesInv /\ DataInv
    /\ pc \in Relisting => AgainInv
    /\ AcceptedIsSnapshot

-----------------------------------------------------------------------------
(* The tree of paths *)

\* Ancestors are defined by recursion; the function exists, for it is this one:
\* the smallest set that has the parent and is closed under parents.
Up(S) == \A q \in S \ {Root} : Parent[q] \in S
AncestorSets(p) == {S \in SUBSET AllPaths : Up(S) /\ (p # Root => Parent[p] \in S)}
Lineage(p) == {a \in AllPaths : \A S \in AncestorSets(p) : a \in S}

LEMMA LineageStep ==
    ASSUME NEW p \in Paths
    PROVE  Lineage(p) = {Parent[p]} \cup Lineage(Parent[p])
<1> DEFINE S0 == {Parent[p]} \cup Lineage(Parent[p])
<1> USE TreeAssumption DEF AllPaths
<1>1. AllPaths \in AncestorSets(p)
  BY DEF AncestorSets, Up
<1>2. S0 \in SUBSET AllPaths
  BY DEF Lineage
<1>3. Up(S0)
  <2> SUFFICES ASSUME NEW q \in S0, q # Root PROVE Parent[q] \in Lineage(Parent[p])
    BY DEF Up
  <2>1. Parent[q] \in AllPaths
    BY <1>2
  <2> SUFFICES ASSUME NEW S \in AncestorSets(Parent[p]) PROVE Parent[q] \in S
    BY <2>1 DEF Lineage
  <2>2. CASE q = Parent[p]
    BY <2>2 DEF AncestorSets
  <2>3. CASE q \in Lineage(Parent[p])
    BY <2>3 DEF AncestorSets, Lineage, Up
  <2> QED BY <2>2, <2>3
<1>4. Lineage(p) \subseteq S0
  BY <1>2, <1>3 DEF Lineage, AncestorSets
<1>5. \A S \in AncestorSets(p) : S \in AncestorSets(Parent[p]) /\ Parent[p] \in S
  BY DEF AncestorSets, Up
<1>6. S0 \subseteq Lineage(p)
  BY <1>5 DEF Lineage
<1> QED BY <1>4, <1>6

LEMMA AncestorsDefined ==
    Ancestors = [p \in AllPaths |-> IF p = Root THEN {} ELSE {Parent[p]} \cup Ancestors[Parent[p]]]
<1> DEFINE Equation(f) == f = [p \in AllPaths |-> IF p = Root THEN {} ELSE {Parent[p]} \cup f[Parent[p]]]
           f0 == [p \in AllPaths |-> Lineage(p)]
<1> USE TreeAssumption DEF AllPaths
<1>1. Lineage(Root) = {}
  BY {} \in AncestorSets(Root) DEF Lineage, AncestorSets, Up
<1>2. Equation(f0)
  <2>1. \A p \in AllPaths : f0[p] = IF p = Root THEN {} ELSE {Parent[p]} \cup f0[Parent[p]]
    BY <1>1, LineageStep
  <2> QED BY <2>1
<1>3. \E f : Equation(f)
  BY <1>2
<1>4. Ancestors = CHOOSE f : Equation(f)
  BY DEF Ancestors
<1> HIDE DEF Equation, f0
<1>5. Equation(Ancestors)
  BY <1>3, <1>4
<1> QED BY <1>5 DEF Equation

LEMMA AncestorsOf ==
    /\ Ancestors[Root] = {}
    /\ \A p \in Paths : Ancestors[p] = {Parent[p]} \cup Ancestors[Parent[p]]
<1> QED BY AncestorsDefined, TreeAssumption DEF AllPaths

\* What holds of Root and passes from a directory to its entries holds of all.
LEMMA TreeInduction ==
    ASSUME NEW S, Root \in S, \A p \in Paths : Parent[p] \in S => p \in S
    PROVE  AllPaths \subseteq S
<1> DEFINE T == Paths \ S
<1>1. T = {}
  <2> SUFFICES ASSUME T # {} PROVE FALSE
    OBVIOUS
  <2>1. PICK p \in T : Parent[p] \notin T
    BY TreeAssumption
  <2> QED BY <2>1, TreeAssumption
<1> QED BY <1>1 DEF AllPaths

\* What is in a directory has directories above it, and no link.
LEMMA NoLinkAbove ==
    ASSUME FsOK, NEW p \in DOMAIN link
    PROVE  ~LeadsOut(p)
<1> DEFINE S == {q \in AllPaths : q \in DOMAIN link => \A a \in Ancestors[q] : Kind(a) = "directory"}
<1>1. Root \in S
  BY AncestorsOf DEF AllPaths
<1>2. \A q \in Paths : Parent[q] \in S => q \in S
  BY AncestorsOf, TreeAssumption DEF FsOK, AllPaths
<1>3. p \in S
  BY <1>1, <1>2, TreeInduction DEF FsOK
<1> QED BY <1>3 DEF LeadsOut

LEMMA NoLinkInside ==
    ASSUME FsOK, NEW p \in Paths, Parent[p] \in DOMAIN link, Kind(Parent[p]) = "directory"
    PROVE  ~LeadsOut(p)
<1>1. ~LeadsOut(Parent[p])
  BY NoLinkAbove
<1> QED BY <1>1, AncestorsOf DEF LeadsOut

\* What the calls answer for a path inside.
LEMMA IdentityInside ==
    ASSUME FsOK, NEW p \in AllPaths, ~LeadsOut(p)
    PROVE  /\ Reachable(p) <=> p \in DOMAIN link
           /\ Lookup(p) = link[p]
           /\ Identity(p) = InodeIdentity(link[p])
<1> QED BY DEF Reachable, Lookup, Identity, Exists

LEMMA InodeTypes ==
    ASSUME FsOK
    PROVE  /\ Outside \notin Inodes
           /\ \A i \in AllInodes : Inode(i) \in Files /\ Inode(i).modified <= clock
           /\ \A i \in AllInodes : InodeIdentity(i) \in Identities /\ Past(InodeIdentity(i))
           /\ \A i \in Inodes : Inode(i) = disk[i]
<1>1. Outside \notin Inodes
  BY DiskAssumption DEF Outside
<1>2. OutsideFile \in Files /\ OutsideFile.modified = 0
  BY DEF OutsideFile, Files, Kinds
<1>3. \A i \in AllInodes : Inode(i) \in Files /\ Inode(i).modified <= clock
  BY <1>1, <1>2 DEF FsOK, Inode, AllInodes
<1>4. \A i \in AllInodes : Len(Inode(i).content) \in Nat
  BY <1>3 DEF Files
<1>5. \A i \in AllInodes : InodeIdentity(i) \in Identities /\ Past(InodeIdentity(i))
  BY <1>3, <1>4 DEF InodeIdentity, Identities, Past, Files
<1> QED BY <1>1, <1>3, <1>5 DEF Inode

LEMMA IdentityTypes ==
    ASSUME FsOK, NEW p \in AllPaths, Reachable(p)
    PROVE  /\ Lookup(p) \in AllInodes
           /\ Identity(p) \in Identities /\ Past(Identity(p))
<1>1. Lookup(p) \in AllInodes
  BY DEF Reachable, Lookup, Exists, FsOK, AllInodes
<1> QED BY <1>1, InodeTypes DEF Identity

-----------------------------------------------------------------------------
(* One change by another program *)

LEMMA LaterThanAll ==
    ASSUME FsOK, clock' = clock + 1, NEW T \in SUBSET Inodes,
           \A i \in Inodes \ T : disk'[i] = disk[i],
           \A i \in T : disk'[i].modified = clock + 1
    PROVE  \A i \in Inodes :
               /\ disk'[i].modified <= clock'
               /\ disk'[i].modified <= clock => disk'[i] = disk[i]
<1>1. clock \in Nat /\ \A i \in Inodes : disk[i].modified \in Nat /\ disk[i].modified <= clock
  BY DEF FsOK, Files
<1> SUFFICES ASSUME NEW i \in Inodes
             PROVE  /\ disk'[i].modified <= clock'
                    /\ disk'[i].modified <= clock => disk'[i] = disk[i]
  OBVIOUS
<1>2. CASE i \in T
  BY <1>1, <1>2
<1>3. CASE i \notin T
  BY <1>1, <1>3
<1> QED BY <1>2, <1>3

\* A change is told by a later modification time.
LEMMA ChangeIsTold ==
    ASSUME FsOK, Change
    PROVE  /\ FsOK'
           /\ clock' = clock + 1
           /\ \A i \in Inodes : disk'[i].modified <= clock => disk'[i] = disk[i]
           /\ \A p \in DOMAIN link' : disk'[link'[p]].modified <= clock =>
                 p \in DOMAIN link /\ link'[p] = link[p]
           /\ \A p \in DOMAIN link' \cap DOMAIN link : disk'[link'[p]].modified <= clock =>
                 \A q \in Paths : Parent[q] = p => (q \in DOMAIN link' <=> q \in DOMAIN link)
           /\ \A p \in DOMAIN link' \cap DOMAIN link :
                 link'[p] = link[p] /\ disk'[link[p]].kind = disk[link[p]].kind
<1> USE DEF FsOK, Files
<1>0. clock' = clock + 1 /\ clock' \in Nat
  BY DEF Change
<1>1. CASE WriteFile
  <2>1. PICK p \in DOMAIN link, content \in Contents :
            /\ Kind(p) = "file"
            /\ disk' = [Touched(link[p]) EXCEPT ![link[p]].content = content]
            /\ UNCHANGED link
    BY <1>1 DEF WriteFile
  <2>2. content \in Seq(Nat)
    BY DiskAssumption
  <2>3. disk' \in [Inodes -> Files]
    BY <1>0, <2>1, <2>2 DEF Touched
  <2>4. /\ \A i \in Inodes : i # link[p] => disk'[i] = disk[i]
        /\ disk'[link[p]].modified = clock + 1 /\ disk'[link[p]].kind = disk[link[p]].kind
    BY <2>1 DEF Touched
  <2>5. \A i \in Inodes : disk'[i].modified <= clock' /\ disk'[i].kind = disk[i].kind
    <3>1. {link[p]} \in SUBSET Inodes
      OBVIOUS
    <3> HIDE DEF FsOK, Files
    <3> QED BY <1>0, <2>4, <3>1, LaterThanAll
  <2>6. FsOK'
    BY <1>0, <2>1, <2>3, <2>5 DEF Kind, AllPaths
  <2> QED BY <1>0, <2>1, <2>4, <2>5, <2>6
<1>2. CASE CreateEntry
  <2>1. PICK p \in Paths \ DOMAIN link, i \in Inodes, kind \in NewKinds :
            /\ Exists(Parent[p]) /\ Kind(Parent[p]) = "directory"
            /\ i \notin {link[q] : q \in DOMAIN link} \cup {fd}
            /\ link' = [q \in DOMAIN link \cup {p} |-> IF q = p THEN i ELSE link[q]]
            /\ disk' = [Touched(link[Parent[p]]) EXCEPT
                            ![i] = [kind |-> kind, content |-> <<>>, modified |-> clock + 1]]
    BY <1>2 DEF CreateEntry
  <2> DEFINE d == link[Parent[p]]
  <2>2. d \in Inodes /\ d # i
    BY <2>1 DEF Exists
  <2>3. kind \in Kinds /\ <<>> \in Seq(Nat)
    BY DiskAssumption
  <2>4. /\ disk' \in [Inodes -> Files]
        /\ \A j \in Inodes : j # i /\ j # d => disk'[j] = disk[j]
        /\ disk'[d].kind = disk[d].kind /\ disk'[d].modified = clock + 1
        /\ disk'[i].modified = clock + 1
    BY <1>0, <2>1, <2>2, <2>3 DEF Touched
  <2>5. /\ DOMAIN link' = DOMAIN link \cup {p} /\ link'[p] = i
        /\ \A q \in DOMAIN link : link'[q] = link[q] /\ link[q] # i
    BY <2>1
  <2>6. \A q \in DOMAIN link : Kind(q)' = Kind(q)
    BY <2>4, <2>5 DEF Kind
  <2>8. \A j \in Inodes :
            /\ disk'[j].modified <= clock'
            /\ disk'[j].modified <= clock => disk'[j] = disk[j]
    <3>1. {i, d} \in SUBSET Inodes
      BY <2>2
    <3> HIDE DEF FsOK, Files, d
    <3> QED BY <1>0, <2>4, <3>1, LaterThanAll
  <2>7. FsOK'
    <3>1. \A q \in DOMAIN link' \ {Root} : Parent[q] \in DOMAIN link' /\ Kind(Parent[q])' = "directory"
      BY <2>1, <2>5, <2>6 DEF Exists
    <3> QED BY <1>0, <2>1, <2>4, <2>5, <2>8, <3>1 DEF AllPaths
  <2>9. \A q \in DOMAIN link' : disk'[link'[q]].modified <= clock => q \in DOMAIN link
    BY <2>4, <2>5
  <2>10. \A q \in DOMAIN link' \cap DOMAIN link : disk'[link'[q]].modified <= clock => q # Parent[p]
    BY <2>4, <2>5
  <2> QED BY <1>0, <2>4, <2>5, <2>6, <2>7, <2>8, <2>9, <2>10 DEF Kind
<1>3. CASE RemoveEntry
  <2>1. PICK p \in DOMAIN link \ {Root} :
            /\ ChildrenOf(p) = {}
            /\ link' = [q \in DOMAIN link \ {p} |-> link[q]]
            /\ disk' = Touched(link[Parent[p]])
    BY <1>3 DEF RemoveEntry
  <2> DEFINE d == link[Parent[p]]
  <2>2. d \in Inodes
    OBVIOUS
  <2>3. /\ disk' \in [Inodes -> Files]
        /\ \A j \in Inodes : j # d => disk'[j] = disk[j]
        /\ disk'[d].kind = disk[d].kind /\ disk'[d].modified = clock + 1
    BY <1>0, <2>1, <2>2 DEF Touched
  <2>4. /\ DOMAIN link' = DOMAIN link \ {p}
        /\ \A q \in DOMAIN link' : link'[q] = link[q]
    BY <2>1
  <2>5. \A q \in DOMAIN link' : Kind(q)' = Kind(q)
    BY <2>3, <2>4 DEF Kind
  <2>6. \A q \in DOMAIN link' \ {Root} : Parent[q] \in DOMAIN link'
    BY <2>1, <2>4, TreeAssumption DEF ChildrenOf, AllPaths
  <2>8. \A j \in Inodes :
            /\ disk'[j].modified <= clock'
            /\ disk'[j].modified <= clock => disk'[j] = disk[j]
    <3>1. {d} \in SUBSET Inodes
      BY <2>2
    <3> HIDE DEF FsOK, Files, d
    <3> QED BY <1>0, <2>3, <3>1, LaterThanAll
  <2>7. FsOK'
    <3>1. link' \in [DOMAIN link' -> Inodes] /\ DOMAIN link' \subseteq AllPaths /\ Root \in DOMAIN link'
      BY <2>1, <2>4
    <3>2. \A q \in DOMAIN link' \ {Root} : Kind(Parent[q])' = "directory"
      BY <2>4, <2>5, <2>6
    <3> QED BY <1>0, <2>3, <2>6, <2>8, <3>1, <3>2
  <2>9. \A q \in DOMAIN link' : disk'[link'[q]].modified <= clock => q # Parent[p]
    BY <2>3, <2>4
  <2> QED BY <1>0, <2>3, <2>4, <2>5, <2>7, <2>8, <2>9 DEF Kind
<1> QED BY <1>1, <1>2, <1>3 DEF Change

\* An identity that is seen again has been there all the time.
LEMMA SameIdentity ==
    ASSUME FsOK, Change, NEW i \in AllInodes, InodeIdentity(i)'.modified <= clock
    PROVE  InodeIdentity(i)' = InodeIdentity(i) /\ Inode(i)' = Inode(i)
<1>1. Inode(i)' = Inode(i)
  BY ChangeIsTold DEF InodeIdentity, Inode, AllInodes
<1> QED BY <1>1 DEF InodeIdentity

\* A directory that is what it was has been so all the time, with its entries.
LEMMA HeldBefore ==
    ASSUME FsOK, Change, NEW proof, Past(proof.identity), Holds(proof)'
    PROVE  /\ Holds(proof)
           /\ link'[proof.path] = link[proof.path] /\ link[proof.path] \in Inodes
           /\ disk'[link[proof.path]] = disk[link[proof.path]]
           /\ ChildrenOf(proof.path)' = ChildrenOf(proof.path)
           /\ \A p \in Paths : Parent[p] = proof.path => (p \in DOMAIN link' <=> p \in DOMAIN link)
           /\ \A p \in ChildrenOf(proof.path) : link'[p] = link[p] /\ Kind(p)' = Kind(p)
<1> DEFINE d == proof.path
<1>1. /\ d \in DOMAIN link' /\ link'[d] \in Inodes
      /\ DOMAIN link' \subseteq AllPaths /\ DOMAIN link \subseteq AllPaths
  BY ChangeIsTold DEF FsOK, Holds
<1>0. PICK j \in Inodes : j = link'[d]
  BY <1>1
<1>2. disk'[j].modified <= clock /\ InodeIdentity(j)' = proof.identity
  <2>1. InodeIdentity(j)' = proof.identity
    BY <1>0 DEF Holds, InodeIdentity, Inode
  <2>2. Inode(j)' = disk'[j]
    BY InodeTypes DEF Inode
  <2> QED BY <2>1, <2>2 DEF Past, InodeIdentity
<1>3. d \in DOMAIN link /\ link[d] = j
  BY <1>0, <1>1, <1>2, ChangeIsTold
<1>4. disk'[j] = disk[j]
  BY <1>2, ChangeIsTold
<1>5. InodeIdentity(link[d]) = proof.identity
  <2>1. Inode(j)' = Inode(j)
    BY <1>4 DEF Inode
  <2> QED BY <1>2, <1>3, <2>1 DEF InodeIdentity
<1>6. \A p \in Paths : Parent[p] = d => (p \in DOMAIN link' <=> p \in DOMAIN link)
  BY <1>0, <1>1, <1>2, <1>3, ChangeIsTold
<1>7. ChildrenOf(d)' = ChildrenOf(d)
  BY <1>1, <1>6 DEF ChildrenOf, AllPaths
<1>8. \A p \in ChildrenOf(d) : link'[p] = link[p] /\ Kind(p)' = Kind(p)
  BY <1>1, <1>6, ChangeIsTold DEF ChildrenOf, Kind, AllPaths
<1> QED BY <1>0, <1>3, <1>4, <1>5, <1>6, <1>7, <1>8 DEF Holds

-----------------------------------------------------------------------------
(* Type correctness *)

LEMMA InitTypes == Init => TypeOK
<1> SUFFICES ASSUME Init PROVE TypeOK
  OBVIOUS
<1>1. PICK tree \in InitialTrees :
        /\ link = [p \in DOMAIN tree |-> FirstInode[p]]
        /\ disk = [i \in Inodes |->
                      IF \E p \in DOMAIN tree : FirstInode[p] = i
                        THEN LET p == CHOOSE q \in DOMAIN tree : FirstInode[q] = i IN
                             [kind |-> tree[p].kind, content |-> tree[p].content, modified |-> 0]
                        ELSE Nothing]
        /\ clock = 0
  BY DEF Init, TreeInit
<1>2. /\ DOMAIN tree \subseteq AllPaths /\ Root \in DOMAIN tree
      /\ \A p \in DOMAIN tree : tree[p] \in [kind : Kinds, content : Seq(Nat)]
      /\ \A p, q \in DOMAIN tree : FirstInode[p] = FirstInode[q] => tree[p] = tree[q]
      /\ \A p \in DOMAIN tree \ {Root} : Parent[p] \in DOMAIN tree /\ tree[Parent[p]].kind = "directory"
  BY DiskAssumption DEF AllPaths
<1>3. Nothing \in Files /\ Nothing.modified = 0
  BY DEF Nothing, Files, Kinds
<1>4. \A p \in DOMAIN tree :
         /\ link[p] \in Inodes
         /\ disk[link[p]] = [kind |-> tree[p].kind, content |-> tree[p].content, modified |-> 0]
  <2> SUFFICES ASSUME NEW p \in DOMAIN tree
               PROVE  /\ link[p] \in Inodes
                      /\ disk[link[p]] = [kind |-> tree[p].kind, content |-> tree[p].content, modified |-> 0]
    OBVIOUS
  <2> DEFINE r == CHOOSE q \in DOMAIN tree : FirstInode[q] = FirstInode[p]
  <2>1. link[p] = FirstInode[p] /\ FirstInode[p] \in Inodes
    BY <1>1, <1>2, DiskAssumption DEF AllPaths
  <2>2. r \in DOMAIN tree /\ FirstInode[r] = FirstInode[p]
    OBVIOUS
  <2>3. tree[r] = tree[p]
    BY <1>2, <2>2
  <2>4. disk[link[p]] = [kind |-> tree[r].kind, content |-> tree[r].content, modified |-> 0]
    BY <1>1, <2>1
  <2> QED BY <2>1, <2>3, <2>4
<1>5. \A i \in Inodes : disk[i] \in Files /\ disk[i].modified = 0
  <2> SUFFICES ASSUME NEW i \in Inodes PROVE disk[i] \in Files /\ disk[i].modified = 0
    OBVIOUS
  <2>1. CASE \E p \in DOMAIN tree : FirstInode[p] = i
    <3>1. PICK p \in DOMAIN tree : FirstInode[p] = i
      BY <2>1
    <3>2. disk[i] = [kind |-> tree[p].kind, content |-> tree[p].content, modified |-> 0]
      BY <1>1, <1>4, <3>1
    <3>3. tree[p].kind \in Kinds /\ tree[p].content \in Seq(Nat)
      BY <1>2
    <3> QED BY <3>2, <3>3 DEF Files
  <2>2. CASE ~\E p \in DOMAIN tree : FirstInode[p] = i
    BY <1>1, <1>3, <2>2
  <2> QED BY <2>1, <2>2
<1>6. FsOK
  <2>1. DOMAIN link = DOMAIN tree /\ link \in [DOMAIN link -> Inodes]
    BY <1>1, <1>4
  <2>2. disk \in [Inodes -> Files]
    BY <1>1, <1>5
  <2>3. \A p \in DOMAIN tree : Kind(p) = tree[p].kind
    <3> SUFFICES ASSUME NEW p \in DOMAIN tree PROVE Kind(p) = tree[p].kind
      OBVIOUS
    <3>1. disk[link[p]] = [kind |-> tree[p].kind, content |-> tree[p].content, modified |-> 0]
      BY <1>4
    <3> QED BY ONLY <3>1 DEF Kind
  <2>4. \A p \in DOMAIN link \ {Root} : Parent[p] \in DOMAIN link /\ Kind(Parent[p]) = "directory"
    BY <1>2, <2>1, <2>3
  <2>5. \A i \in Inodes : disk[i].modified <= clock
    <3>1. clock = 0
      BY <1>1
    <3> QED BY <1>5, <3>1
  <2> QED BY <1>1, <1>2, <2>1, <2>2, <2>4, <2>5 DEF FsOK
<1>7. InodeIdentity(Outside) \in Identities
  BY <1>6, InodeTypes DEF AllInodes
<1>8. NoFile \in Discovered
  BY <1>7 DEF NoFile, Discovered, AllPaths
<1>9. NoTree \in [DOMAIN NoTree -> Files] /\ NoTree \in [DOMAIN NoTree -> Seq(Nat)] /\ DOMAIN NoTree = {}
  BY DEF NoTree
<1>10. ScanTypeOK
  BY <1>7, <1>8, <1>9 DEF Init, ScanTypeOK, Steps, NoFile, AllPaths, AllInodes
<1> QED BY <1>6, <1>10 DEF TypeOK

LEMMA OnStack ==
    ASSUME stack \in Seq(Frames), stack # <<>>
    PROVE  /\ Top \in Frames /\ Len(stack) \in DOMAIN stack
           /\ DOMAIN stack = 1..Len(stack) /\ Len(stack) \in Nat
           /\ Chain \in Seq(DirectoryProofs) /\ DOMAIN Chain = DOMAIN stack
           /\ \A frame \in Frames :
                 /\ WithTop(frame) \in Seq(Frames) /\ DOMAIN WithTop(frame) = DOMAIN stack
                 /\ Len(WithTop(frame)) = Len(stack)
                 /\ \A i \in DOMAIN stack : WithTop(frame)[i] = IF i = Len(stack) THEN frame ELSE stack[i]
<1>1. Len(stack) \in Nat /\ DOMAIN stack = 1..Len(stack) /\ Len(stack) \in DOMAIN stack
  BY EmptySeq, LenProperties
<1>2. Top \in Frames
  BY <1>1, ElementOfSeq DEF Top
<1>3. \A i \in DOMAIN stack : stack[i] \in Frames
  BY <1>1, ElementOfSeq
<1>4. Chain \in [1..Len(stack) -> DirectoryProofs]
  BY <1>1, <1>3 DEF Chain, Frames
<1>5. Chain \in Seq(DirectoryProofs)
  BY <1>1, <1>4, SeqDef
<1> SUFFICES ASSUME NEW frame \in Frames
             PROVE  /\ WithTop(frame) \in Seq(Frames) /\ DOMAIN WithTop(frame) = DOMAIN stack
                    /\ Len(WithTop(frame)) = Len(stack)
                    /\ \A i \in DOMAIN stack : WithTop(frame)[i] = IF i = Len(stack) THEN frame ELSE stack[i]
  BY <1>1, <1>2, <1>4, <1>5
<1>6. WithTop(frame) \in Seq(Frames)
  BY <1>1, ExceptSeq DEF WithTop
<1>7. DOMAIN WithTop(frame) = DOMAIN stack /\
      \A i \in DOMAIN stack : WithTop(frame)[i] = IF i = Len(stack) THEN frame ELSE stack[i]
  BY <1>1 DEF WithTop
<1>8. Len(WithTop(frame)) = Len(stack)
  BY <1>1, <1>6, <1>7, LenProperties
<1> QED BY <1>6, <1>7, <1>8

LEMMA FrameTypes ==
    ASSUME FsOK, NEW d \in AllPaths, Reachable(d)
    PROVE  Proof(d) \in DirectoryProofs /\ Frame(d) \in Frames
<1>1. Proof(d) \in DirectoryProofs
  BY IdentityTypes DEF Proof, DirectoryProofs
<1> QED BY <1>1 DEF Frame, Frames

LEMMA EntryTypes ==
    ASSUME FsOK, NEW p \in Paths, Plain(p)
    PROVE  EntryProof(p) \in EntryProofs /\ Identity(p) \in Identities /\ Reachable(p)
<1> QED BY IdentityTypes DEF Plain, EntryProof, EntryProofs, AllPaths

LEMMA ViewTypes ==
    ASSUME FsOK
    PROVE  View \in [DOMAIN View -> Files] /\ DOMAIN View \subseteq AllPaths
<1> QED BY DEF FsOK, View, Visible

LEMMA InPaths ==
    ASSUME FsOK
    PROVE  /\ \A d : ChildrenOf(d) \subseteq Paths /\ Listing(d) \subseteq ChildrenOf(d)
           /\ \A frame \in Frames : MayReturn(frame) \subseteq Paths
<1>1. \A d : ChildrenOf(d) \subseteq Paths /\ Listing(d) \subseteq ChildrenOf(d)
  BY DEF FsOK, ChildrenOf, AllPaths, Listing
<1> QED BY <1>1 DEF MayReturn, Frames

\* The lists that are built and taken apart.
LEMMA OnLists ==
    /\ \A s \in Seq(DirectoryProofs) : s # <<>> =>
          Head(s) \in DirectoryProofs /\ Tail(s) \in Seq(DirectoryProofs) /\ Last(s) \in DirectoryProofs
    /\ \A p \in DirectoryProofs : <<p>> \in Seq(DirectoryProofs) /\ <<p, p>> \in Seq(DirectoryProofs)
    /\ \A s, t \in Seq(DirectoryProofs) : s \o t \in Seq(DirectoryProofs)
    /\ \A s \in Seq(Visits) : s # <<>> =>
          /\ Head(s) \in Visits /\ Tail(s) \in Seq(Visits) /\ Len(s) \in Nat \ {0}
          /\ Len(s) # 1 => s[2] \in Visits
          /\ Head(s) = s[1] /\ 1 \in DOMAIN s
<1>1. \A s \in Seq(DirectoryProofs) : s # <<>> =>
         Head(s) \in DirectoryProofs /\ Tail(s) \in Seq(DirectoryProofs) /\ Last(s) \in DirectoryProofs
  <2> SUFFICES ASSUME NEW s \in Seq(DirectoryProofs), s # <<>>
               PROVE  Head(s) \in DirectoryProofs /\ Tail(s) \in Seq(DirectoryProofs) /\ Last(s) \in DirectoryProofs
    OBVIOUS
  <2>1. Len(s) \in 1..Len(s)
    BY EmptySeq
  <2> QED BY <2>1, HeadTailProperties, ElementOfSeq DEF Last
<1>2. \A p \in DirectoryProofs : <<p>> \in Seq(DirectoryProofs) /\ <<p, p>> \in Seq(DirectoryProofs)
  OBVIOUS
<1>3. \A s, t \in Seq(DirectoryProofs) : s \o t \in Seq(DirectoryProofs)
  BY ConcatProperties
<1>4. \A s \in Seq(Visits) : s # <<>> =>
         /\ Head(s) \in Visits /\ Tail(s) \in Seq(Visits) /\ Len(s) \in Nat \ {0}
         /\ Len(s) # 1 => s[2] \in Visits
         /\ Head(s) = s[1] /\ 1 \in DOMAIN s
  <2> SUFFICES ASSUME NEW s \in Seq(Visits), s # <<>>
               PROVE  /\ Head(s) \in Visits /\ Tail(s) \in Seq(Visits) /\ Len(s) \in Nat \ {0}
                      /\ Len(s) # 1 => s[2] \in Visits
                      /\ Head(s) = s[1] /\ 1 \in DOMAIN s
    OBVIOUS
  <2>1. Len(s) \in Nat \ {0} /\ DOMAIN s = 1..Len(s)
    BY EmptySeq, LenProperties
  <2>2. Len(s) # 1 => s[2] \in Visits
    BY <2>1, ElementOfSeq
  <2> QED BY <2>1, <2>2, HeadTailProperties
<1> QED BY <1>1, <1>2, <1>3, <1>4

\* The entry that was returned, or the directories listed, are there.
LEMMA InHandTypes ==
    ASSUME Inv
    PROVE  /\ pc \in Walking => stack # <<>>
           /\ pc = "entry" => entry \in Paths
           /\ pc \in {"renext", "compare"} => stack # <<>>
           /\ pc \in {"rescan", "renext", "compare"} => visited # <<>>
           /\ pc = "files" => visited # <<>>
           /\ \A v \in {visited[i] : i \in DOMAIN visited} : v \in Visits
           /\ pc \in {"files", "rescan", "renext", "compare"} => Head(visited).chain # <<>>
<1> USE DEF Inv, TypeOK
<1>1. pc \in Walking => stack # <<>>
  BY DEF WalkInv
<1>2. pc = "entry" => entry \in Paths
  <2> SUFFICES ASSUME pc = "entry" PROVE entry \in Paths
    OBVIOUS
  <2>1. entry \in stack[Len(stack)].returned /\ stack # <<>>
    BY DEF WalkInv, Walking
  <2>2. Top \in Frames
    BY <2>1, OnStack DEF ScanTypeOK
  <2> QED BY <2>1, <2>2 DEF Top, Frames
<1>3. pc \in {"renext", "compare"} => stack # <<>>
  <2> SUFFICES ASSUME pc \in {"renext", "compare"} PROVE stack # <<>>
    OBVIOUS
  <2>1. Len(stack) = 1
    BY DEF AgainInv, RelistInv, Relisting
  <2> QED BY <2>1
<1>4. pc \in {"files", "rescan", "renext", "compare"} => visited # <<>>
  BY DEF AgainInv, FilesInv, Relisting
<1>5. \A v \in {visited[i] : i \in DOMAIN visited} : v \in Visits
  <2>1. visited \in Seq(Visits)
    BY DEF ScanTypeOK
  <2> QED BY <2>1, ElementOfSeq, LenProperties
<1>6. pc \in {"files", "rescan", "renext", "compare"} => Head(visited).chain # <<>>
  <2> SUFFICES ASSUME pc \in {"files", "rescan", "renext", "compare"} PROVE Head(visited).chain # <<>>
    OBVIOUS
  <2>1. \E directories : VisitInv(1, directories)
    <3>1. visited \in Seq(Visits) /\ visited # <<>>
      BY <1>4 DEF ScanTypeOK
    <3>2. 1 \in DOMAIN visited
      BY <3>1, OnLists
    <3>3. CASE pc = "files"
      BY <3>2, <3>3 DEF FilesInv, ListedInv
    <3>4. CASE pc \in Relisting
      BY <3>2, <3>4 DEF AgainInv, ListedInv
    <3> QED BY <3>3, <3>4 DEF Relisting
  <2> QED BY <1>4, <2>1, OnLists DEF VisitInv, ScanTypeOK
<1> QED BY <1>1, <1>2, <1>3, <1>4, <1>5, <1>6

LEMMA CheckTypes == ASSUME Inv, CheckDirectory \/ Reject PROVE ScanTypeOK'
<1> USE DEF Inv, TypeOK, ScanTypeOK
<1>1. ASSUME Reject PROVE ScanTypeOK'
  BY <1>1 DEF Reject, walkVars, fileVars, history, Steps
<1>2. CASE CheckDirectory
  BY <1>1, <1>2, OnLists DEF CheckDirectory, walkVars, fileVars, history
<1> QED BY <1>1, <1>2

LEMMA WalkTypes == ASSUME Inv, Walk PROVE ScanTypeOK'
<1> USE DEF walkVars, fileVars, history, Walking, Now
<1>1. TypeOK /\ FsOK /\ ScanTypeOK
  BY DEF Inv, TypeOK
<1>2. stack \in Seq(Frames) /\ found \subseteq Discovered
  BY <1>1 DEF ScanTypeOK
<1>3. Root \in AllPaths /\ Paths \subseteq AllPaths
  BY DEF AllPaths
<1>4. CASE LstatRoot
  <2> SUFFICES ASSUME ~Reject PROVE ScanTypeOK'
    BY CheckTypes
  <2>1. Frame(Root) \in Frames /\ Proof(Root) \in DirectoryProofs
    BY <1>1, <1>3, <1>4, FrameTypes DEF LstatRoot, IsDirectory
  <2>2. <<Frame(Root)>> \in Seq(Frames) /\ <<Proof(Root), Proof(Root)>> \in Seq(DirectoryProofs)
    BY <2>1
  <2> QED BY <1>1, <1>4, <2>2 DEF LstatRoot, ScanTypeOK, Steps
<1>5. CASE Scandir
  <2> SUFFICES ASSUME ~Reject PROVE ScanTypeOK'
    BY CheckTypes
  <2>1. stack # <<>>
    BY <1>5, InHandTypes DEF Scandir
  <2>2. [Top EXCEPT !.listed = Listing(Top.path)] \in Frames
    BY <1>1, <1>2, <2>1, OnStack, InPaths DEF Frames
  <2>3. stack' \in Seq(Frames) /\ checks' \in Seq(DirectoryProofs)
    BY <1>2, <1>5, <2>1, <2>2, OnStack DEF Scandir
  <2> QED BY <1>1, <1>5, <2>3 DEF Scandir, ScanTypeOK, Steps
<1>6. CASE NextEntry
  <2>1. stack # <<>>
    BY <1>6, InHandTypes DEF NextEntry
  <2>2. PICK p \in MayReturn(Top) : entry' = p /\ stack' = WithTop([Top EXCEPT !.returned = @ \cup {p}])
    BY <1>6 DEF NextEntry
  <2>3. Top \in Frames /\ p \in Paths
    BY <1>1, <1>2, <2>1, OnStack, InPaths
  <2>4. [Top EXCEPT !.returned = @ \cup {p}] \in Frames
    BY <2>3 DEF Frames
  <2>5. stack' \in Seq(Frames) /\ Chain \in Seq(DirectoryProofs)
    BY <1>2, <2>1, <2>2, <2>4, OnStack
  <2> QED BY <1>1, <1>3, <1>6, <2>2, <2>3, <2>5 DEF NextEntry, ScanTypeOK, Steps
<1>7. CASE EndOfDirectory
  <2>1. Chain \in Seq(DirectoryProofs)
    BY <1>2, <1>7, InHandTypes, OnStack DEF EndOfDirectory
  <2> QED BY <1>1, <1>7, <2>1 DEF EndOfDirectory, ScanTypeOK, Steps
<1>8. CASE SkipExcluded
  BY <1>1, <1>8 DEF SkipExcluded, ScanTypeOK, Steps
<1>9. CASE LstatEntry
  <2> SUFFICES ASSUME ~Reject PROVE ScanTypeOK'
    BY CheckTypes
  <2>1. stack # <<>> /\ entry \in Paths /\ Plain(entry)
    BY <1>9, InHandTypes DEF LstatEntry
  <2>2. Top \in Frames /\ Chain \in Seq(DirectoryProofs)
    BY <1>2, <2>1, OnStack
  <2>3. EntryProof(entry) \in EntryProofs /\ Identity(entry) \in Identities /\ Reachable(entry)
    BY <1>1, <2>1, EntryTypes
  <2>4. Frame(entry) \in Frames /\ Proof(entry) \in DirectoryProofs
    BY <1>1, <1>3, <2>1, <2>3, FrameTypes
  <2> DEFINE frame == [Top EXCEPT !.entries = @ \cup {EntryProof(entry)}]
  <2>5. frame \in Frames
    BY <2>2, <2>3 DEF Frames
  <2>6. WithTop(frame) \in Seq(Frames) /\ Append(WithTop(frame), Frame(entry)) \in Seq(Frames)
    BY <1>2, <2>1, <2>4, <2>5, OnStack, AppendProperties
  <2>7. <<Proof(entry)>> \o Chain \o <<Proof(entry)>> \in Seq(DirectoryProofs)
    BY <2>2, <2>4, OnLists
  <2>8. [path |-> entry, identity |-> Identity(entry), chain |-> Chain] \in Discovered
    BY <1>3, <2>1, <2>2, <2>3 DEF Discovered
  <2>9. seen' \subseteq {Name[p] : p \in Paths}
    BY <1>1, <1>9, <2>1 DEF LstatEntry, ScanTypeOK
  <2>10. CASE Identity(entry).kind = "directory"
    <3> HIDE DEF frame
    <3>1. stack' = Append(WithTop(frame), Frame(entry)) /\ found' = found /\ pc' = "scandir"
          /\ checks' = <<Proof(entry)>> \o Chain \o <<Proof(entry)>>
      BY <1>9, <2>10 DEF LstatEntry, frame
    <3> QED BY <1>1, <1>9, <2>6, <2>7, <2>9, <3>1 DEF LstatEntry, ScanTypeOK, Steps
  <2>11. CASE Identity(entry).kind = "file"
    <3> HIDE DEF frame
    <3>1. stack' = WithTop(frame) /\ pc' = "next" /\ checks' = checks
          /\ found' = found \cup {[path |-> entry, identity |-> Identity(entry), chain |-> Chain]}
      BY <1>9, <2>11 DEF LstatEntry, frame
    <3> QED BY <1>1, <1>9, <2>6, <2>8, <2>9, <3>1 DEF LstatEntry, ScanTypeOK, Steps
  <2> QED BY <1>9, <2>10, <2>11 DEF LstatEntry
<1>10. CASE LeaveDirectory
  <2>1. stack # <<>>
    BY <1>10, InHandTypes DEF LeaveDirectory
  <2>2. Chain \in Seq(DirectoryProofs) /\ Top \in Frames /\ Len(stack) \in Nat
    BY <1>2, <2>1, OnStack
  <2>3. [chain |-> Chain, entries |-> Top.entries] \in Visits
    BY <2>2 DEF Visits, Frames
  <2>4. visited' \in Seq(Visits)
    BY <1>1, <1>10, <2>3, AppendProperties DEF LeaveDirectory, ScanTypeOK
  <2>5. Front(stack) \in Seq(Frames)
    <3>1. \A i \in 1..Len(stack) - 1 : stack[i] \in Frames
      BY <1>2, <2>2, ElementOfSeq
    <3> QED BY <2>2, <3>1, SubSeqProperties DEF Front
  <2> QED BY <1>1, <1>10, <2>4, <2>5, ViewTypes DEF LeaveDirectory, ScanTypeOK, Steps
<1> QED BY <1>4, <1>5, <1>6, <1>7, <1>8, <1>9, <1>10 DEF Walk

LEMMA ReadTypes == ASSUME Inv, ReadFiles PROVE ScanTypeOK'
<1> USE DEF walkVars, fileVars, history, Now
<1>1. TypeOK /\ FsOK /\ ScanTypeOK
  BY DEF Inv, TypeOK
<1>2. file.path \in AllPaths /\ file.chain \in Seq(DirectoryProofs) /\ fd \in AllInodes
  BY <1>1 DEF ScanTypeOK, Discovered
<1>3. \A i \in AllInodes : InodeIdentity(i) \in Identities /\ Inode(i) \in Files
  BY <1>1, InodeTypes
<1>4. CASE BeginFile
  <2>1. PICK f \in found : file' = f /\ checks' = f.chain /\ found' = found \ {f}
    BY <1>4 DEF BeginFile
  <2>2. f \in Discovered /\ f.chain \in Seq(DirectoryProofs)
    BY <1>1, <2>1 DEF ScanTypeOK, Discovered
  <2> QED BY <1>1, <1>4, <2>1, <2>2 DEF BeginFile, ScanTypeOK, Steps, Reading
<1>5. CASE OpenFile
  <2> SUFFICES ASSUME ~Reject PROVE ScanTypeOK'
    BY CheckTypes
  <2>1. Lookup(file.path) \in AllInodes
    BY <1>1, <1>2, <1>5, IdentityTypes DEF OpenFile
  <2> QED BY <1>1, <1>2, <1>5, <2>1 DEF OpenFile, ScanTypeOK, Steps, Reading
<1>6. CASE FstatOpened
  <2> SUFFICES ASSUME ~Reject PROVE ScanTypeOK'
    BY CheckTypes
  <2>1. data' = <<>> /\ pc' = "read"
    BY <1>6 DEF FstatOpened
  <2>2. data' \in Seq(Nat) /\ pc' \in Steps
    BY <2>1, EmptySeq DEF Steps, Reading
  <2> QED BY <1>1, <1>6, <2>2 DEF FstatOpened, ScanTypeOK
<1>7. CASE ReadChunk
  <2>1. data' \in Seq(Nat)
    <3>1. data \in Seq(Nat) /\ Inode(fd).content \in Seq(Nat)
      BY <1>1, <1>2, <1>3 DEF ScanTypeOK, Files
    <3>2. CASE Len(data) < Len(Inode(fd).content)
      <4>1. Inode(fd).content[Len(data) + 1] \in Nat
        BY <3>1, <3>2, LenProperties, ElementOfSeq
      <4>2. data' = Append(data, Inode(fd).content[Len(data) + 1])
        BY <1>7, <3>2 DEF ReadChunk
      <4> QED BY <3>1, <4>1, <4>2, AppendProperties
    <3> QED BY <1>7, <3>1, <3>2 DEF ReadChunk
  <2>2. pc' \in Steps
    BY <1>1, <1>7 DEF ReadChunk, ScanTypeOK, Steps, Reading
  <2> QED BY <1>1, <1>7, <2>1, <2>2 DEF ReadChunk, ScanTypeOK
<1>8. CASE FstatAgain
  BY <1>1, <1>2, <1>3, <1>8 DEF FstatAgain, ScanTypeOK, Steps, Reading
<1>9. CASE LstatAgain
  <2> SUFFICES ASSUME ~Reject PROVE ScanTypeOK'
    BY CheckTypes
  <2> QED BY <1>1, <1>2, <1>9 DEF LstatAgain, ScanTypeOK, Steps, Reading
<1>10. CASE MakeRow
  <2> SUFFICES ASSUME ~Reject PROVE ScanTypeOK'
    BY CheckTypes
  <2>1. rows' \in [DOMAIN rows' -> Seq(Nat)] /\ DOMAIN rows' \subseteq AllPaths
    <3>1. rows' = [p \in DOMAIN rows \cup {file.path} |-> IF p = file.path THEN data ELSE rows[p]]
      BY <1>10 DEF MakeRow
    <3>2. data \in Seq(Nat) /\ rows \in [DOMAIN rows -> Seq(Nat)] /\ DOMAIN rows \subseteq AllPaths
      BY <1>1 DEF ScanTypeOK
    <3> QED BY <1>2, <3>1, <3>2
  <2>2. Outside \in AllInodes
    BY DEF AllInodes
  <2> QED BY <1>1, <1>10, <2>1, <2>2 DEF MakeRow, ScanTypeOK, Steps
<1> QED BY <1>4, <1>5, <1>6, <1>7, <1>8, <1>9, <1>10 DEF ReadFiles

LEMMA ListTypes == ASSUME Inv, ListAgain PROVE ScanTypeOK'
<1> USE DEF walkVars, fileVars, history, Now
<1>1. TypeOK /\ FsOK /\ ScanTypeOK
  BY DEF Inv, TypeOK
<1>2. stack \in Seq(Frames) /\ visited \in Seq(Visits)
  BY <1>1 DEF ScanTypeOK
<1>3. ASSUME visited # <<>>
      PROVE  /\ Head(visited).chain \in Seq(DirectoryProofs) /\ Tail(visited) \in Seq(Visits)
             /\ Len(visited) # 1 => visited[2].chain \in Seq(DirectoryProofs)
  BY <1>2, <1>3, OnLists DEF Visits
<1>4. CASE EndOfFiles
  <2>1. Head(visited).chain \in Seq(DirectoryProofs)
    BY <1>3, <1>4, InHandTypes DEF EndOfFiles
  <2> QED BY <1>1, <1>4, <2>1, ViewTypes DEF EndOfFiles, ScanTypeOK, Steps, Relisting
<1>5. CASE Rescan
  <2> SUFFICES ASSUME ~Reject PROVE ScanTypeOK'
    BY CheckTypes
  <2>1. visited # <<>> /\ Head(visited).chain # <<>>
    BY <1>5, InHandTypes DEF Rescan
  <2>2. Last(Head(visited).chain) \in DirectoryProofs
    BY <1>3, <2>1, OnLists
  <2>3. stack' \in Seq(Frames)
    <3>1. Listing(Revisited) \subseteq Paths
      BY <1>1, InPaths
    <3> DEFINE frame == [path |-> Revisited, proof |-> Last(Head(visited).chain),
                         listed |-> Listing(Revisited), returned |-> {}, entries |-> {}]
    <3>2. frame \in Frames
      BY <2>2, <3>1 DEF Frames, Revisited, DirectoryProofs
    <3>3. stack' = <<frame>>
      BY <1>5 DEF Rescan
    <3> HIDE DEF frame
    <3> QED BY <3>2, <3>3
  <2> QED BY <1>1, <1>5, <2>3 DEF Rescan, ScanTypeOK, Steps, Relisting
<1>6. CASE NextEntryAgain
  <2>1. stack # <<>> /\ Top \in Frames
    BY <1>2, <1>6, InHandTypes, OnStack DEF NextEntryAgain
  <2>2. PICK p \in MayReturn(Top) :
          LET frame == [Top EXCEPT !.returned = @ \cup {p}] IN
          \/ /\ p \in Excluded
             /\ stack' = WithTop(frame)
             /\ UNCHANGED <<pc, checks, entry, seen, found, visited, fileVars, rows, history>>
          \/ /\ p \notin Excluded
             /\ Name[p] \in seen \/ ~Plain(p)
             /\ Reject
          \/ /\ p \notin Excluded /\ Name[p] \notin seen /\ Plain(p)
             /\ seen' = seen \cup {Name[p]}
             /\ stack' = WithTop([frame EXCEPT !.entries = @ \cup {EntryProof(p)}])
             /\ UNCHANGED <<pc, checks, entry, found, visited, fileVars, rows, history>>
    BY <1>6 DEF NextEntryAgain
  <2> DEFINE frame == [Top EXCEPT !.returned = @ \cup {p}]
  <2>3. p \in Paths
    BY <1>1, <2>1, InPaths
  <2>4. frame \in Frames
    BY <2>1, <2>3 DEF Frames
  <2>5. CASE p \in Excluded /\ stack' = WithTop(frame)
             /\ UNCHANGED <<pc, checks, entry, seen, found, visited, fileVars, rows, history>>
    <3>1. stack' \in Seq(Frames)
      BY <1>2, <2>1, <2>4, <2>5, OnStack
    <3> QED BY <1>1, <2>5, <3>1 DEF ScanTypeOK
  <2>6. CASE Reject
    BY <2>6, CheckTypes
  <2>7. CASE /\ Plain(p)
             /\ seen' = seen \cup {Name[p]}
             /\ stack' = WithTop([frame EXCEPT !.entries = @ \cup {EntryProof(p)}])
             /\ UNCHANGED <<pc, checks, entry, found, visited, fileVars, rows, history>>
    <3>1. EntryProof(p) \in EntryProofs
      BY <1>1, <2>3, <2>7, EntryTypes
    <3>2. [frame EXCEPT !.entries = @ \cup {EntryProof(p)}] \in Frames
      BY <2>4, <3>1 DEF Frames
    <3>3. stack' \in Seq(Frames)
      BY <1>2, <2>1, <2>7, <3>2, OnStack
    <3>4. seen' \subseteq {Name[q] : q \in Paths}
      BY <1>1, <2>3, <2>7 DEF ScanTypeOK
    <3> QED BY <1>1, <2>7, <3>3, <3>4 DEF ScanTypeOK
  <2> QED BY <2>2, <2>5, <2>6, <2>7
<1>7. CASE EndOfDirectoryAgain
  <2>1. Head(visited).chain \in Seq(DirectoryProofs)
    BY <1>3, <1>7, InHandTypes DEF EndOfDirectoryAgain
  <2> QED BY <1>1, <1>7, <2>1 DEF EndOfDirectoryAgain, ScanTypeOK, Steps, Relisting
<1>8. CASE CompareEntries
  <2> SUFFICES ASSUME ~Reject PROVE ScanTypeOK'
    BY CheckTypes
  <2>1. visited # <<>>
    BY <1>8, InHandTypes DEF CompareEntries
  <2>2. visited' \in Seq(Visits) /\ checks' \in Seq(DirectoryProofs) /\ pc' \in Steps
    BY <1>1, <1>3, <1>8, <2>1 DEF CompareEntries, ScanTypeOK, Steps, Relisting
  <2> QED BY <1>1, <1>8, <2>2 DEF CompareEntries, ScanTypeOK
<1> QED BY <1>4, <1>5, <1>6, <1>7, <1>8 DEF ListAgain

LEMMA TypesStep == ASSUME Inv, Next PROVE TypeOK'
<1> USE DEF Inv, TypeOK
<1>1. CASE Scan
  <2>1. FsOK'
    BY <1>1 DEF Scan, fsVars, FsOK, Kind
  <2>2. ScanTypeOK'
    BY <1>1, CheckTypes, WalkTypes, ReadTypes, ListTypes DEF Scan
  <2> QED BY <2>1, <2>2
<1>2. CASE Change
  <2>1. FsOK'
    BY <1>2, ChangeIsTold
  <2>2. ScanTypeOK'
    BY <1>2 DEF Change, scanVars, walkVars, fileVars, history, ScanTypeOK
  <2> QED BY <2>1, <2>2
<1> QED BY <1>1, <1>2 DEF Next

-----------------------------------------------------------------------------
(* A change takes nothing away from what was recorded *)

LEMMA ChangeKeepsTracked ==
    ASSUME TypeOK, Change, NEW p, NEW identity \in Identities, Past(identity), Tracked(p, identity)
    PROVE  Tracked(p, identity)'
<1>1. InHand' = InHand /\ rows' = rows
  BY DEF Change, scanVars, fileVars, InHand
<1>2. identity.inode \in AllInodes
  BY DEF Identities
<1>3. InodeIdentity(identity.inode)' = identity =>
        /\ InodeIdentity(identity.inode) = identity
        /\ Inode(identity.inode)' = Inode(identity.inode)
  <2> SUFFICES ASSUME InodeIdentity(identity.inode)' = identity
               PROVE  /\ InodeIdentity(identity.inode) = identity
                      /\ Inode(identity.inode)' = Inode(identity.inode)
    OBVIOUS
  <2>1. InodeIdentity(identity.inode)'.modified <= clock
    BY DEF Past
  <2> QED BY <1>2, <2>1, SameIdentity DEF TypeOK
<1> QED BY <1>1, <1>3 DEF Tracked

LEMMA ChangeKeepsTold ==
    ASSUME TypeOK, Change, NEW proof, Past(proof.identity), Holds(proof)',
           NEW paths \in SUBSET ChildrenOf(proof.path),
           NEW entries \in SUBSET EntryProofs, \A e \in entries : Past(e.identity),
           NEW directories, Told(paths, entries, directories)
    PROVE  Told(paths, entries, directories)'
<1>1. \A p \in paths : link'[p] = link[p] /\ Kind(p)' = Kind(p)
  BY HeldBefore DEF TypeOK
<1>2. \A p \in paths, e \in entries : Tracked(p, e.identity) => Tracked(p, e.identity)'
  <2> SUFFICES ASSUME NEW p \in paths, NEW e \in entries, Tracked(p, e.identity)
               PROVE  Tracked(p, e.identity)'
    OBVIOUS
  <2>1. PICK identity \in Identities : identity = e.identity
    BY DEF EntryProofs
  <2>2. Tracked(p, identity)'
    BY <2>1, ChangeKeepsTracked
  <2> QED BY <2>1, <2>2
<1> QED BY <1>1, <1>2 DEF Told

LEMMA StillPast ==
    ASSUME TypeOK, Change
    PROVE  \A identity \in Identities : Past(identity) => Past(identity)'
<1>1. clock \in Nat /\ clock' = clock + 1
  BY ChangeIsTold DEF TypeOK, FsOK
<1>2. \A identity \in Identities : identity.modified \in Nat
  BY DEF Identities
<1> QED BY <1>1, <1>2 DEF Past

LEMMA ChangeKeepsFrame ==
    ASSUME TypeOK, Change, NEW i \in DOMAIN stack, NEW directories, FrameInv(i, directories)
    PROVE  FrameInv(i, directories)'
<1>1. stack' = stack /\ pc' = pc /\ entry' = entry /\ seen' = seen /\ Pending(i)' = Pending(i)
  BY DEF Change, scanVars, walkVars, Pending
<1> DEFINE frame == stack[i]
<1>2. frame \in Frames
  BY ElementOfSeq, LenProperties DEF TypeOK, ScanTypeOK
<1>3. frame.proof.identity \in Identities /\ frame.entries \in SUBSET EntryProofs
  BY <1>2 DEF Frames, DirectoryProofs
<1>4. \A e \in frame.entries : Past(e.identity) /\ Past(e.identity)'
  BY <1>3, StillPast DEF FrameInv, EntryProofs
<1>5. Recorded(frame.proof)'
  BY <1>1, <1>3, StillPast DEF FrameInv, Recorded, InScope
<1>6. ASSUME Holds(frame.proof)'
      PROVE  /\ i # Len(stack) \/ pc # "scandir" => frame.listed = ChildrenOf(frame.path)'
             /\ frame.returned \subseteq ChildrenOf(frame.path)'
             /\ i = Len(stack) /\ pc = "leave" => ChildrenOf(frame.path)' \subseteq frame.returned
             /\ Told(frame.returned \ (Excluded \cup Pending(i)), frame.entries, directories)'
  <2>1. PICK proof : proof = frame.proof
    OBVIOUS
  <2>2. Past(proof.identity) /\ Holds(proof)' /\ proof.path = frame.path
    <3>1. Holds(proof)' = Holds(frame.proof)'
      BY <1>1, <2>1
    <3> QED BY <1>6, <2>1, <3>1 DEF FrameInv, Recorded
  <2>3. Holds(proof) /\ ChildrenOf(proof.path)' = ChildrenOf(proof.path)
    BY <2>2, HeldBefore DEF TypeOK
  <2>4. /\ i # Len(stack) \/ pc # "scandir" => frame.listed = ChildrenOf(frame.path)
        /\ frame.returned \subseteq ChildrenOf(frame.path)
        /\ i = Len(stack) /\ pc = "leave" => ChildrenOf(frame.path) \subseteq frame.returned
        /\ Told(frame.returned \ (Excluded \cup Pending(i)), frame.entries, directories)
    BY <2>1, <2>3 DEF FrameInv
  <2>5. PICK paths : paths = frame.returned \ (Excluded \cup Pending(i))
    OBVIOUS
  <2>6. PICK entries : entries = frame.entries
    OBVIOUS
  <2>7. Told(paths, entries, directories)
    BY <2>4, <2>5, <2>6
  <2>8. paths \in SUBSET ChildrenOf(proof.path) /\ entries \in SUBSET EntryProofs
        /\ \A e \in entries : Past(e.identity)
    BY <1>3, <1>4, <2>2, <2>4, <2>5, <2>6
  <2>9. Told(paths, entries, directories)'
    BY <2>2, <2>7, <2>8, ChangeKeepsTold
  <2>10. Told(frame.returned \ (Excluded \cup Pending(i)), frame.entries, directories)'
    <3>1. paths = (frame.returned \ (Excluded \cup Pending(i)))' /\ entries = (frame.entries)'
      BY <1>1, <2>5, <2>6
    <3> QED BY <2>9, <3>1
  <2> QED BY <1>1, <2>2, <2>3, <2>4, <2>10
<1> QED BY <1>1, <1>4, <1>5, <1>6 DEF FrameInv

LEMMA ChangeKeepsVisit ==
    ASSUME TypeOK, Change, NEW i \in DOMAIN visited, NEW directories, VisitInv(i, directories)
    PROVE  VisitInv(i, directories)'
<1>1. visited' = visited /\ ProofAt(i)' = ProofAt(i)
  BY DEF Change, scanVars, ProofAt
<1>2. PICK proof, entries : proof = ProofAt(i) /\ entries = visited[i].entries
  OBVIOUS
<1>3. proof \in DirectoryProofs /\ entries \in SUBSET EntryProofs
  <2>1. visited[i] \in Visits
    BY ElementOfSeq, LenProperties DEF TypeOK, ScanTypeOK
  <2> QED BY <1>2, <2>1, OnLists DEF VisitInv, Visits, ProofAt
<1>4. \A e \in entries : Past(e.identity) /\ Past(e.identity)'
  BY <1>2, <1>3, StillPast DEF VisitInv, EntryProofs
<1>5. Recorded(proof) /\ Recorded(proof)'
  BY <1>2, <1>3, StillPast DEF VisitInv, Recorded, InScope, DirectoryProofs
<1>6. ASSUME Holds(proof)' PROVE Told(Scanned(proof.path), entries, directories)'
  <2>1. Past(proof.identity)
    BY <1>5 DEF Recorded
  <2>2. Holds(proof) /\ ChildrenOf(proof.path)' = ChildrenOf(proof.path)
    BY <1>6, <2>1, HeldBefore DEF TypeOK
  <2>3. PICK paths : paths = Scanned(proof.path)
    OBVIOUS
  <2>4. Told(paths, entries, directories)
    BY <1>2, <2>2, <2>3 DEF VisitInv
  <2>5. Told(paths, entries, directories)'
    BY <1>3, <1>4, <1>6, <2>1, <2>3, <2>4, ChangeKeepsTold DEF Scanned
  <2> QED BY <2>2, <2>3, <2>5 DEF Scanned
<1>7. Told(Scanned(ProofAt(i).path), visited[i].entries, directories)' = Told(Scanned(proof.path), entries, directories)'
  BY <1>1, <1>2 DEF Scanned, ChildrenOf
<1>8. Holds(ProofAt(i))' = Holds(proof)' /\ Recorded(ProofAt(i))' = Recorded(proof)'
  BY <1>1, <1>2 
<1> QED BY <1>1, <1>2, <1>4, <1>5, <1>6, <1>7, <1>8 DEF VisitInv

LEMMA VisitTypes ==
    ASSUME TypeOK
    PROVE  \A i \in DOMAIN visited :
              /\ visited[i] \in Visits /\ visited[i].entries \subseteq EntryProofs
              /\ visited[i].chain # <<>> => ProofAt(i) \in DirectoryProofs
<1> SUFFICES ASSUME NEW i \in DOMAIN visited
             PROVE  /\ visited[i] \in Visits /\ visited[i].entries \subseteq EntryProofs
                    /\ visited[i].chain # <<>> => ProofAt(i) \in DirectoryProofs
  OBVIOUS
<1>1. visited[i] \in Visits
  BY ElementOfSeq, LenProperties DEF TypeOK, ScanTypeOK
<1> QED BY <1>1, OnLists DEF ProofAt, Visits

\* What held of a recorded directory after the change held of it before.
LEMMA VisitHeld ==
    ASSUME TypeOK, Change, NEW i \in DOMAIN visited, visited[i].chain # <<>>, Recorded(ProofAt(i)),
           Holds(ProofAt(i))'
    PROVE  /\ Holds(ProofAt(i))
           /\ ProofAt(i).path \in DOMAIN link'
           /\ link'[ProofAt(i).path] = link[ProofAt(i).path]
           /\ disk'[link[ProofAt(i).path]] = disk[link[ProofAt(i).path]]
           /\ ChildrenOf(ProofAt(i).path)' = ChildrenOf(ProofAt(i).path)
           /\ \A p \in Paths : Parent[p] = ProofAt(i).path =>
                 /\ p \in DOMAIN link' <=> p \in DOMAIN link
                 /\ p \in DOMAIN link => link'[p] = link[p] /\ Kind(p)' = Kind(p)
<1>1. PICK proof : proof = ProofAt(i)
  OBVIOUS
<1>2. ProofAt(i)' = ProofAt(i)
  BY DEF Change, scanVars, ProofAt
<1>3. Past(proof.identity) /\ Holds(proof)'
  BY <1>1, <1>2 DEF Recorded
<1>4. FsOK
  BY DEF TypeOK
<1>5. \A p \in Paths : Parent[p] = proof.path /\ p \in DOMAIN link => p \in ChildrenOf(proof.path)
  BY TreeAssumption DEF ChildrenOf
<1>6. /\ Holds(proof) /\ link'[proof.path] = link[proof.path]
      /\ disk'[link[proof.path]] = disk[link[proof.path]]
      /\ ChildrenOf(proof.path)' = ChildrenOf(proof.path)
      /\ \A p \in Paths : Parent[p] = proof.path => (p \in DOMAIN link' <=> p \in DOMAIN link)
      /\ \A p \in ChildrenOf(proof.path) : link'[p] = link[p] /\ Kind(p)' = Kind(p)
  BY <1>3, <1>4, HeldBefore
<1>7. proof.path \in DOMAIN link'
  BY <1>3 DEF Holds
<1>8. ChildrenOf(ProofAt(i).path)' = ChildrenOf(proof.path)'
  BY <1>1, <1>2
<1> QED BY <1>1, <1>5, <1>6, <1>7, <1>8

LEMMA ChangeKeepsFiles ==
    ASSUME TypeOK, Change, NEW directories, FileInv(directories),
           \A i \in DOMAIN visited : visited[i].chain # <<>> /\ Recorded(ProofAt(i))
    PROVE  FileInv(directories)'
<1>1. /\ visited' = visited /\ InHand' = InHand /\ rows' = rows
      /\ \A i : ProofAt(i)' = ProofAt(i)
  BY DEF Change, scanVars, fileVars, InHand, ProofAt
<1>2. \A f \in InHand : Past(f.identity)'
  <2>1. \A f \in InHand : f.identity \in Identities
    BY DEF InHand, TypeOK, ScanTypeOK, Discovered
  <2> QED BY <2>1, StillPast DEF FileInv
<1>3. \A p \in {f.path : f \in InHand} \cup DOMAIN rows :
         /\ p \in Paths \ Excluded /\ Parent[p] \in directories
         /\ \A i \in DOMAIN visited : ProofAt(i).path = Parent[p] /\ Holds(ProofAt(i))' =>
               p \in DOMAIN link' /\ Kind(p)' = "file"
  <2> SUFFICES ASSUME NEW p \in {f.path : f \in InHand} \cup DOMAIN rows
               PROVE  /\ p \in Paths \ Excluded /\ Parent[p] \in directories
                      /\ \A i \in DOMAIN visited : ProofAt(i).path = Parent[p] /\ Holds(ProofAt(i))' =>
                            p \in DOMAIN link' /\ Kind(p)' = "file"
    OBVIOUS
  <2>1. /\ p \in Paths \ Excluded /\ Parent[p] \in directories
        /\ \A i \in DOMAIN visited : ProofAt(i).path = Parent[p] /\ Holds(ProofAt(i)) =>
              p \in DOMAIN link /\ Kind(p) = "file"
    BY DEF FileInv
  <2> QED BY <2>1, VisitHeld
<1> QED BY <1>1, <1>2, <1>3 DEF FileInv

LEMMA ChangeKeepsView ==
    ASSUME TypeOK, Change, NEW view, Shows(view),
           NEW directories, \A i \in DOMAIN visited : VisitInv(i, directories)
    PROVE  Shows(view)'
<1>1. visited' = visited /\ \A i : ProofAt(i)' = ProofAt(i)
  BY DEF Change, scanVars, ProofAt
<1> SUFFICES ASSUME NEW i \in DOMAIN visited, Holds(ProofAt(i))'
             PROVE  LET d == ProofAt(i).path IN
                    /\ d \in DOMAIN view /\ view[d] = disk'[link'[d]]
                    /\ \A p \in ScopeOf(d) :
                          /\ p \in DOMAIN view <=> p \in DOMAIN link'
                          /\ p \in DOMAIN link' =>
                                /\ view[p].kind = Kind(p)'
                                /\ \A e \in visited[i].entries :
                                      e.name = Name[p] /\ InodeIdentity(link[p])' = e.identity =>
                                          view[p] = disk'[link'[p]]
  BY <1>1 DEF Shows, InodeIdentity, Inode
<1> DEFINE d == ProofAt(i).path
<1>2. visited[i].chain # <<>> /\ Recorded(ProofAt(i)) /\ \A e \in visited[i].entries : Past(e.identity)
  BY DEF VisitInv
<1>3. /\ Holds(ProofAt(i))
      /\ link'[d] = link[d] /\ disk'[link[d]] = disk[link[d]]
      /\ \A p \in Paths : Parent[p] = d =>
            /\ p \in DOMAIN link' <=> p \in DOMAIN link
            /\ p \in DOMAIN link => link'[p] = link[p] /\ Kind(p)' = Kind(p)
  BY <1>2, VisitHeld
<1>4. /\ d \in DOMAIN view /\ view[d] = disk[link[d]]
      /\ \A p \in ScopeOf(d) :
            /\ p \in DOMAIN view <=> p \in DOMAIN link
            /\ p \in DOMAIN link =>
                  /\ view[p].kind = Kind(p)
                  /\ \A e \in visited[i].entries :
                        e.name = Name[p] /\ InodeIdentity(link[p]) = e.identity => view[p] = disk[link[p]]
  BY <1>3 DEF Shows
<1>5. \A p \in ScopeOf(d) \cap DOMAIN link : \A e \in visited[i].entries :
         InodeIdentity(link[p])' = e.identity /\ link'[p] = link[p] =>
             InodeIdentity(link[p]) = e.identity /\ disk'[link[p]] = disk[link[p]]
  <2> SUFFICES ASSUME NEW p \in ScopeOf(d) \cap DOMAIN link, NEW e \in visited[i].entries,
                      InodeIdentity(link[p])' = e.identity, link'[p] = link[p]
               PROVE  InodeIdentity(link[p]) = e.identity /\ disk'[link[p]] = disk[link[p]]
    OBVIOUS
  <2>1. PICK j \in Inodes : j = link[p]
    BY DEF TypeOK, FsOK
  <2>2. InodeIdentity(j)' = e.identity
    BY <2>1 DEF InodeIdentity, Inode
  <2>3. InodeIdentity(j)'.modified <= clock
    BY <1>2, <2>2 DEF Past
  <2>4. InodeIdentity(j)' = InodeIdentity(j) /\ Inode(j)' = Inode(j)
    BY <2>3, SameIdentity DEF TypeOK, AllInodes
  <2>5. disk'[j] = disk[j]
    BY <2>4, InodeTypes DEF Inode, TypeOK
  <2> QED BY <2>1, <2>2, <2>4, <2>5
<1>6. ScopeOf(d) \subseteq Paths /\ \A p \in ScopeOf(d) : Parent[p] = d
  BY DEF ScopeOf
<1> QED BY <1>3, <1>4, <1>5, <1>6

LEMMA ChangeKeepsListed ==
    ASSUME TypeOK, Change, NEW directories, ListedInv(directories)
    PROVE  ListedInv(directories)'
<1>1. /\ visited' = visited /\ walked' = walked /\ pc' = pc
  BY DEF Change, scanVars, history
<1>2. \A i \in DOMAIN visited : visited[i].chain # <<>> /\ Recorded(ProofAt(i))
  BY DEF ListedInv, VisitInv
<1>3. \A i \in DOMAIN visited' : VisitInv(i, directories)'
  BY <1>1, ChangeKeepsVisit DEF ListedInv
<1>4. FileInv(directories)'
  BY <1>2, ChangeKeepsFiles DEF ListedInv
<1>5. PICK view : view = walked
  OBVIOUS
<1>6. Shows(view)' /\ ViewOK(view)'
  BY <1>5, ChangeKeepsView DEF ListedInv, ViewOK
<1>7. Shows(walked)' /\ ViewOK(walked)'
  BY <1>1, <1>5, <1>6
<1> QED BY <1>3, <1>4, <1>7 DEF ListedInv

LEMMA ChangeKeepsData ==
    ASSUME TypeOK, Change, NEW directories, FileInv(directories), DataInv
    PROVE  DataInv'
<1>1. file' = file /\ pc' = pc /\ data' = data /\ fd' = fd
  BY DEF Change, scanVars, fileVars
<1> SUFFICES ASSUME pc \in Reading PROVE DataInv'
  BY <1>1 DEF DataInv, Reading
<1> DEFINE i == file.identity.inode
<1>2. i \in AllInodes /\ Past(file.identity)
  BY DEF FileInv, InHand, TypeOK, ScanTypeOK, Discovered, Identities
<1>3. InodeIdentity(i)' = file.identity => InodeIdentity(i) = file.identity /\ Inode(i)' = Inode(i)
  <2> SUFFICES ASSUME InodeIdentity(i)' = file.identity
               PROVE  InodeIdentity(i) = file.identity /\ Inode(i)' = Inode(i)
    OBVIOUS
  <2>1. PICK j \in AllInodes : j = i
    BY <1>2
  <2>2. InodeIdentity(j)' = file.identity
    BY <1>1, <2>1
  <2>3. InodeIdentity(j)'.modified <= clock
    BY <1>2, <2>2 DEF Past
  <2>4. InodeIdentity(j)' = InodeIdentity(j) /\ Inode(j)' = Inode(j)
    BY <2>3, SameIdentity DEF TypeOK
  <2> QED BY <1>1, <2>1, <2>2, <2>4
<1> QED BY <1>1, <1>3 DEF DataInv

LEMMA ChangeKeepsWalk ==
    ASSUME TypeOK, Change, WalkInv
    PROVE  WalkInv'
<1>1. /\ visited' = visited /\ stack' = stack /\ pc' = pc /\ entry' = entry /\ seen' = seen
      /\ found' = found /\ rows' = rows
      /\ \A i : ProofAt(i)' = ProofAt(i)
      /\ StackPaths' = StackPaths /\ VisitedPaths' = VisitedPaths
  BY DEF Change, scanVars, history, walkVars, ProofAt, StackPaths, VisitedPaths
<1>2. PICK directories : directories = StackPaths \cup VisitedPaths
  OBVIOUS
<1>3. \A i \in DOMAIN stack : FrameInv(i, directories)'
  BY <1>2, ChangeKeepsFrame DEF WalkInv
<1>4. \A i \in DOMAIN visited : VisitInv(i, directories)'
  BY <1>2, ChangeKeepsVisit DEF WalkInv
<1>5. FileInv(directories)'
  BY <1>2, ChangeKeepsFiles DEF WalkInv, VisitInv
<1>6. \A f \in found, i \in DOMAIN stack : stack[i].path = Parent[f.path] /\ Holds(stack[i].proof)' =>
         f.path \in DOMAIN link' /\ Kind(f.path)' = "file"
  <2> SUFFICES ASSUME NEW f \in found, NEW i \in DOMAIN stack, stack[i].path = Parent[f.path],
                      Holds(stack[i].proof)'
               PROVE  f.path \in DOMAIN link' /\ Kind(f.path)' = "file"
    OBVIOUS
  <2>1. PICK proof : proof = stack[i].proof
    OBVIOUS
  <2>2. Past(proof.identity) /\ proof.path = stack[i].path /\ Holds(proof)'
    BY <1>1, <2>1 DEF WalkInv, FrameInv, Recorded
  <2>3. Holds(proof) /\ \A p \in ChildrenOf(proof.path) : p \in DOMAIN link' /\ Kind(p)' = Kind(p)
    BY <2>2, HeldBefore DEF TypeOK, ChildrenOf
  <2>4. f.path \in Paths /\ f.path \in DOMAIN link /\ Kind(f.path) = "file"
    BY <2>1, <2>3 DEF WalkInv, FileInv, InHand
  <2>5. f.path \in ChildrenOf(proof.path)
    BY <2>2, <2>4, TreeAssumption DEF ChildrenOf
  <2> QED BY <2>3, <2>4, <2>5
<1> QED BY <1>1, <1>2, <1>3, <1>4, <1>5, <1>6 DEF WalkInv

LEMMA ChangeKeepsAgain ==
    ASSUME TypeOK, Change, AgainInv
    PROVE  AgainInv'
<1>1. /\ visited' = visited /\ stack' = stack /\ pc' = pc /\ found' = found /\ rows' = rows
      /\ walked' = walked /\ relisted' = relisted /\ checks' = checks
      /\ ProofAt(1)' = ProofAt(1) /\ VisitedPaths' = VisitedPaths
      /\ \A p : Settled(p)' = Settled(p)
      /\ \A d, directories : Matched(d, directories)' = Matched(d, directories)
                             /\ SameDirectory(d, directories)' = SameDirectory(d, directories)
  BY DEF Change, scanVars, history, walkVars, ProofAt, VisitedPaths, Settled, Matched, SameDirectory
<1>2. PICK directories \in SUBSET AllPaths :
         /\ ListedInv(directories)
         /\ \A d \in directories : d \in VisitedPaths \/ Matched(d, directories)
         /\ pc = "compare" /\ checks = <<>> => SameDirectory(ProofAt(1).path, directories)
  BY DEF AgainInv
<1>3. ListedInv(directories)'
  BY <1>2, ChangeKeepsListed
<1>4. PICK view : view = relisted
  OBVIOUS
<1>5. Shows(view)' /\ ViewOK(view)'
  BY <1>2, <1>4, ChangeKeepsView DEF AgainInv, ViewOK, ListedInv
<1>6. Shows(relisted)' /\ ViewOK(relisted)'
  BY <1>1, <1>4, <1>5
<1>7. ASSUME RelistInv PROVE RelistInv'
  <2>1. 1 \in DOMAIN visited
    BY OnLists DEF AgainInv, TypeOK, ScanTypeOK
  <2>2. Holds(ProofAt(1))' => Holds(ProofAt(1)) /\ ChildrenOf(ProofAt(1).path)' = ChildrenOf(ProofAt(1).path)
    BY <1>2, <2>1, VisitHeld DEF ListedInv, VisitInv
  <2> QED BY <1>1, <1>7, <2>2 DEF RelistInv
<1> QED BY <1>1, <1>2, <1>3, <1>6, <1>7 DEF AgainInv

LEMMA ChangeStep == ASSUME Inv, Change PROVE Inv'
<1>1. TypeOK /\ TypeOK'
  BY TypesStep DEF Inv, Next
<1>2. /\ pc' = pc /\ stack' = stack /\ visited' = visited /\ found' = found /\ rows' = rows /\ seen' = seen
      /\ walked' = walked /\ relisted' = relisted /\ VisitedPaths' = VisitedPaths
  BY DEF Change, scanVars, walkVars, history, VisitedPaths, ProofAt
<1>3. pc \in Walking => WalkInv'
  BY <1>1, ChangeKeepsWalk DEF Inv
<1>4. pc \in {"files"} \cup Reading => FilesInv' /\ DataInv'
  <2> SUFFICES ASSUME pc \in {"files"} \cup Reading PROVE FilesInv' /\ DataInv'
    OBVIOUS
  <2>1. PICK directories : directories = VisitedPaths
    OBVIOUS
  <2>2. ListedInv(directories) /\ FileInv(directories) /\ DataInv /\ visited # <<>>
    BY <2>1 DEF Inv, FilesInv, ListedInv
  <2>3. ListedInv(directories)' /\ DataInv'
    BY <1>1, <2>2, ChangeKeepsListed, ChangeKeepsData
  <2> QED BY <1>2, <2>1, <2>2, <2>3 DEF FilesInv
<1>5. pc \in Relisting => AgainInv'
  BY <1>1, ChangeKeepsAgain DEF Inv
<1>6. AcceptedIsSnapshot'
  BY <1>2 DEF Inv, AcceptedIsSnapshot
<1> QED BY <1>1, <1>2, <1>3, <1>4, <1>5, <1>6 DEF Inv

-----------------------------------------------------------------------------
(* The scan's own steps *)

\* The scan does not change the tree.
LEMMA SameTree ==
    ASSUME UNCHANGED fsVars
    PROVE  /\ \A p : Kind(p)' = Kind(p) /\ LeadsOut(p)' = LeadsOut(p) /\ Identity(p)' = Identity(p)
           /\ \A i : Inode(i)' = Inode(i) /\ InodeIdentity(i)' = InodeIdentity(i)
           /\ \A proof : Holds(proof)' = Holds(proof) /\ Recorded(proof)' = Recorded(proof)
           /\ \A identity : Past(identity)' = Past(identity)
           /\ \A d : ChildrenOf(d)' = ChildrenOf(d) /\ Scanned(d)' = Scanned(d)
           /\ View' = View
<1>0. link' = link /\ disk' = disk /\ clock' = clock
  BY DEF fsVars
<1>1. \A p : Kind(p)' = Kind(p) /\ LeadsOut(p)' = LeadsOut(p)
  BY <1>0 DEF Kind, LeadsOut, Exists
<1>2. \A i : Inode(i)' = Inode(i) /\ InodeIdentity(i)' = InodeIdentity(i)
  BY <1>0 DEF Inode, InodeIdentity
<1>3. \A p : Identity(p)' = Identity(p)
  BY <1>0, <1>1 DEF Identity, InodeIdentity, Inode, Lookup
<1>4. \A identity : Past(identity)' = Past(identity)
  BY <1>0 DEF Past
<1>5. \A proof : Holds(proof)' = Holds(proof) /\ Recorded(proof)' = Recorded(proof)
  BY <1>0, <1>4 DEF Holds, InodeIdentity, Inode, Recorded, InScope
<1>6. \A d : ChildrenOf(d)' = ChildrenOf(d) /\ Scanned(d)' = Scanned(d)
  BY <1>0 DEF ChildrenOf, Scanned
<1>7. View' = View
  BY <1>0 DEF View, Visible
<1> QED BY <1>1, <1>2, <1>3, <1>4, <1>5, <1>6, <1>7

\* What was recorded stays as it is where nothing of it is touched.
LEMMA SameRecords ==
    ASSUME UNCHANGED fsVars, UNCHANGED <<visited, rows>>, InHand' = InHand
    PROVE  /\ \A i : ProofAt(i)' = ProofAt(i)
           /\ VisitedPaths' = VisitedPaths
           /\ \A p, identity : Tracked(p, identity)' = Tracked(p, identity)
           /\ \A paths, entries, directories :
                 Told(paths, entries, directories)' = Told(paths, entries, directories)
           /\ \A i, directories : VisitInv(i, directories)' = VisitInv(i, directories)
           /\ \A directories : FileInv(directories)' = FileInv(directories)
           /\ \A view : Shows(view)' = Shows(view)
<1> USE SameTree
<1>1. link' = link /\ disk' = disk
  BY DEF fsVars
<1>2. \A i : ProofAt(i)' = ProofAt(i)
  BY DEF ProofAt
<1>3. VisitedPaths' = VisitedPaths
  BY <1>2 DEF VisitedPaths
<1>4. \A p, identity : Tracked(p, identity)' = Tracked(p, identity)
  BY DEF Tracked
<1>5. \A paths, entries, directories :
         Told(paths, entries, directories)' = Told(paths, entries, directories)
  BY <1>1, <1>4 DEF Told
<1>6. \A i, directories : VisitInv(i, directories)' = VisitInv(i, directories)
  BY <1>2, <1>5 DEF VisitInv
<1>7. \A directories : FileInv(directories)' = FileInv(directories)
  BY <1>1, <1>2 DEF FileInv
<1>8. \A view : Shows(view)' = Shows(view)
  BY <1>1, <1>2 DEF Shows
<1> QED BY <1>2, <1>3, <1>4, <1>5, <1>6, <1>7, <1>8

LEMMA RejectStep == ASSUME Inv, Next, Reject PROVE Inv'
<1>1. TypeOK'
  BY TypesStep
<1> QED BY <1>1 DEF Reject, Inv, Walking, Reading, Relisting, AcceptedIsSnapshot

\* A directory that lstats as its proof says is the one of the proof.
LEMMA CheckedHolds ==
    ASSUME TypeOK, NEW proof, IsDirectory(proof.path), Identity(proof.path) = proof.identity
    PROVE  Holds(proof)
<1>1. ~LeadsOut(proof.path)
  BY DEF IsDirectory, Identity, Lookup, InodeIdentity, Inode, OutsideFile
<1> QED BY <1>1 DEF IsDirectory, Reachable, Exists, Identity, Lookup, Holds

\* When the listed directory is what it was, the views show it so.
LEMMA HoldsThenSame ==
    ASSUME TypeOK, NEW directories, ListedInv(directories), Shows(relisted),
           NEW i \in DOMAIN visited, Holds(ProofAt(i))
    PROVE  SameDirectory(ProofAt(i).path, directories)
<1> DEFINE d == ProofAt(i).path
<1>1. /\ Recorded(ProofAt(i)) /\ Told(Scanned(d), visited[i].entries, directories)
      /\ FileInv(directories) /\ Shows(walked)
  BY DEF ListedInv, VisitInv
<1>2. /\ d \in DOMAIN walked /\ walked[d] = disk[link[d]]
      /\ d \in DOMAIN relisted /\ relisted[d] = disk[link[d]]
      /\ \A p \in ScopeOf(d) :
            /\ p \in DOMAIN walked <=> p \in DOMAIN link
            /\ p \in DOMAIN relisted <=> p \in DOMAIN link
            /\ p \in DOMAIN link => walked[p].kind = Kind(p)
  BY <1>1 DEF Shows
<1>3. disk[link[d]].kind = "directory"
  <2>1. d \in DOMAIN link /\ InodeIdentity(link[d]).kind = "directory"
    BY <1>1 DEF Holds, Recorded
  <2>2. link[d] \in Inodes
    BY <2>1 DEF TypeOK, FsOK
  <2> QED BY <2>1, <2>2, InodeTypes DEF InodeIdentity, TypeOK
<1>4. \A p \in ScopeOf(d) : p \in DOMAIN link => p \in Scanned(d)
  BY TreeAssumption DEF ScopeOf, Scanned, ChildrenOf
<1>5. \A p \in ScopeOf(d) : p \in DOMAIN link /\ Kind(p) = "directory" => p \in directories
  BY <1>1, <1>4 DEF Told
<1>6. \A p \in ScopeOf(d) : p \in DOMAIN rows => p \in DOMAIN link /\ Kind(p) = "file"
  BY <1>1 DEF FileInv, ScopeOf
<1> QED BY <1>2, <1>3, <1>5, <1>6 DEF SameDirectory

LEMMA CheckStep == ASSUME Inv, CheckDirectory, UNCHANGED fsVars PROVE Inv'
<1>0. TypeOK /\ TypeOK'
  BY TypesStep DEF Inv, Next, Scan
<1> SUFFICES ASSUME ~Reject PROVE Inv'
  BY RejectStep DEF Next, Scan
<1> DEFINE proof == Head(checks)
<1>1. /\ checks # <<>> /\ IsDirectory(proof.path) /\ Identity(proof.path) = proof.identity
      /\ checks' = Tail(checks)
      /\ UNCHANGED <<pc, walkVars, found, visited, fileVars, rows, history>>
  BY DEF CheckDirectory
<1>2. UNCHANGED <<visited, rows, stack, entry, seen, found, file, fd, data, walked, relisted>> /\ InHand' = InHand
  BY <1>1 DEF InHand, walkVars, fileVars, history
<1>3. StackPaths' = StackPaths /\ \A i : Pending(i)' = Pending(i)
  BY <1>1, <1>2 DEF StackPaths, Pending
<1>4. pc \in Walking => WalkInv'
  <2>1. \A i, directories : FrameInv(i, directories)' = FrameInv(i, directories)
    <3> SUFFICES ASSUME NEW i, NEW directories
                 PROVE  FrameInv(i, directories)' = FrameInv(i, directories)
      OBVIOUS
    <3> DEFINE frame == stack[i]
    <3>1. /\ (frame.returned \ (Excluded \cup Pending(i)))' = frame.returned \ (Excluded \cup Pending(i))
          /\ (frame.entries)' = frame.entries /\ stack' = stack /\ pc' = pc /\ seen' = seen
      BY <1>1, <1>2, <1>3
    <3>2. Told(frame.returned \ (Excluded \cup Pending(i)), frame.entries, directories)'
          = Told(frame.returned \ (Excluded \cup Pending(i)), frame.entries, directories)
      BY <1>2, <3>1, SameRecords
    <3>3. Holds(frame.proof)' = Holds(frame.proof) /\ Recorded(frame.proof)' = Recorded(frame.proof)
      BY <3>1, SameTree
    <3>4. ChildrenOf(frame.path)' = ChildrenOf(frame.path) /\ \A e : Past(e.identity)' = Past(e.identity)
      BY <3>1, SameTree
    <3> QED BY <3>1, <3>2, <3>3, <3>4 DEF FrameInv
  <2>2. link' = link
    BY DEF fsVars
  <2> SUFFICES ASSUME pc \in Walking PROVE WalkInv'
    OBVIOUS
  <2>3. WalkInv
    BY DEF Inv
  <2>4. PICK directories : directories = StackPaths \cup VisitedPaths
    OBVIOUS
  <2>5. \A i \in DOMAIN stack : FrameInv(i, directories)'
    BY <2>1, <2>3, <2>4 DEF WalkInv
  <2>6. (\A i \in DOMAIN visited : VisitInv(i, directories)') /\ FileInv(directories)'
    BY <1>2, <2>3, <2>4, SameRecords DEF WalkInv
  <2>7. directories = StackPaths' \cup VisitedPaths'
    BY <1>2, <1>3, <2>4, SameRecords
  <2>8. \A f \in found :
          /\ Name[f.path] \in seen
          /\ \A i \in DOMAIN stack :
                /\ stack[i].path = Parent[f.path] /\ Holds(stack[i].proof)' =>
                      f.path \in DOMAIN link' /\ Kind(f.path)' = "file"
                /\ \A e \in stack[i].entries : e.name = Name[f.path] => e.identity = f.identity
    BY <1>2, <2>2, <2>3, SameTree DEF WalkInv
  <2> QED BY <1>1, <1>2, <2>3, <2>4, <2>5, <2>6, <2>7, <2>8 DEF WalkInv
<1>5. pc \in {"files"} \cup Reading => FilesInv' /\ DataInv'
  <2>1. FilesInv' = FilesInv
    BY <1>2, SameRecords DEF FilesInv, ListedInv, ViewOK
  <2>2. DataInv' = DataInv
    BY <1>1, <1>2, SameTree DEF DataInv
  <2> QED BY <2>1, <2>2 DEF Inv
<1>6. pc \in Relisting => AgainInv'
  <2> SUFFICES ASSUME pc \in Relisting PROVE AgainInv'
    OBVIOUS
  <2>1. PICK directories \in SUBSET AllPaths :
         /\ ListedInv(directories)
         /\ \A d \in directories : d \in VisitedPaths \/ Matched(d, directories)
         /\ pc = "compare" /\ checks = <<>> => SameDirectory(ProofAt(1).path, directories)
    BY DEF Inv, AgainInv
  <2>2. visited # <<>> /\ 1 \in DOMAIN visited /\ Shows(relisted)
    BY <1>0, OnLists DEF Inv, AgainInv, TypeOK, ScanTypeOK
  <2>3. checks' # <<>> => Last(checks') = Last(checks)
    <3>1. checks \in Seq(DirectoryProofs)
      BY <1>0 DEF TypeOK, ScanTypeOK
    <3> QED BY <1>1, <3>1, HeadTailProperties, EmptySeq, LenProperties DEF Last
  <2>4. pc = "compare" /\ checks' = <<>> => Holds(ProofAt(1))
    <3> SUFFICES ASSUME pc = "compare", checks' = <<>> PROVE Holds(ProofAt(1))
      OBVIOUS
    <3>1. checks \in Seq(DirectoryProofs)
      BY <1>0 DEF TypeOK, ScanTypeOK
    <3>2. Len(checks) = 1
      <4>1. Len(Tail(checks)) = 0 /\ Len(checks) \in Nat /\ Len(Tail(checks)) = Len(checks) - 1
        BY <1>1, <3>1, HeadTailProperties, EmptySeq, LenProperties
      <4> QED BY <4>1
    <3>3. Last(checks) = proof /\ Last(checks) = ProofAt(1)
      BY <1>1, <3>1, <3>2 DEF Inv, AgainInv, Last
    <3> QED BY <1>0, <1>1, <3>3, CheckedHolds
  <2>5. pc = "compare" /\ checks' = <<>> => SameDirectory(ProofAt(1).path, directories)
    BY <1>0, <2>1, <2>2, <2>4, HoldsThenSame
  <2>6. /\ \A p : Settled(p)' = Settled(p)
        /\ \A d : Matched(d, directories)' = Matched(d, directories)
                  /\ SameDirectory(d, directories)' = SameDirectory(d, directories)
    BY <1>2 DEF Settled, Matched, SameDirectory
  <2>7. RelistInv => RelistInv'
    <3> SUFFICES ASSUME RelistInv PROVE RelistInv'
      OBVIOUS
    <3>1. ProofAt(1)' = ProofAt(1) /\ stack' = stack /\ visited' = visited /\ pc' = pc /\ walked' = walked
      BY <1>1, <1>2, SameRecords
    <3>2. Holds(ProofAt(1))' = Holds(ProofAt(1))
      BY <3>1, SameTree
    <3>3. \A d : ChildrenOf(d)' = ChildrenOf(d)
      BY SameTree
    <3> QED BY <2>4, <2>6, <3>1, <3>2, <3>3 DEF RelistInv
  <2>8. ListedInv(directories)' = ListedInv(directories) /\ Shows(relisted)' = Shows(relisted)
    BY <1>2, SameRecords DEF ListedInv, ViewOK
  <2>9. ViewOK(relisted)'
    BY <1>2 DEF Inv, AgainInv, ViewOK
  <2>10. VisitedPaths' = VisitedPaths /\ ProofAt(1)' = ProofAt(1)
    BY <1>2, SameRecords
  <2> QED BY <1>1, <1>2, <2>1, <2>2, <2>3, <2>5, <2>6, <2>7, <2>8, <2>9, <2>10 DEF Inv, AgainInv
<1>7. AcceptedIsSnapshot' /\ (pc' = "root" => stack' = <<>> /\ visited' = <<>> /\ found' = {} /\ DOMAIN rows' = {} /\ seen' = {})
  BY <1>1, <1>2 DEF Inv, AcceptedIsSnapshot
<1> QED BY <1>0, <1>1, <1>4, <1>5, <1>6, <1>7 DEF Inv

-----------------------------------------------------------------------------
(* The walk *)

LEMMA StillWalking ==
    ASSUME Inv, Next, pc' \in Walking, WalkInv'
    PROVE  Inv'
<1> QED BY TypesStep DEF Inv, Walking, Reading, Relisting, AcceptedIsSnapshot

LEMMA ToldOfFewer ==
    ASSUME NEW paths, NEW entries, NEW directories, Told(paths, entries, directories), NEW fewer \in SUBSET paths
    PROVE  Told(fewer, entries, directories)
<1> QED BY DEF Told

\* A step of the walk that touches no more than the directory on top.
LEMMA TopStep ==
    ASSUME Inv, pc \in Walking, pc' \in Walking, UNCHANGED fsVars,
           UNCHANGED <<seen, found, visited, rows>>,
           stack' \in Seq(Frames), Len(stack') = Len(stack),
           \A i \in DOMAIN stack :
              /\ stack'[i].path = stack[i].path /\ stack'[i].proof = stack[i].proof
              /\ stack'[i].entries = stack[i].entries
              /\ i # Len(stack) => stack'[i] = stack[i],
           pc' = "entry" => entry' \in stack'[Len(stack)].returned,
           \A directories : FrameInv(Len(stack), directories) => FrameInv(Len(stack), directories)'
    PROVE  WalkInv'
<1>1. WalkInv /\ TypeOK
  BY DEF Inv
<1>2. InHand' = InHand /\ link' = link
  BY DEF InHand, Walking, Reading, fsVars
<1>3. stack # <<>> /\ stack \in Seq(Frames)
  BY <1>1 DEF WalkInv, TypeOK, ScanTypeOK
<1>4. DOMAIN stack = 1..Len(stack) /\ Len(stack) \in DOMAIN stack /\ DOMAIN stack' = DOMAIN stack
  BY <1>3, OnStack, LenProperties
<1>5. stack' # <<>>
  BY <1>4
<1>6. StackPaths' = StackPaths /\ VisitedPaths' = VisitedPaths
  BY <1>2, <1>4, SameRecords DEF StackPaths
<1>7. PICK directories : directories = StackPaths \cup VisitedPaths
  OBVIOUS
<1>8. \A i \in DOMAIN stack : FrameInv(i, directories)'
  <2> SUFFICES ASSUME NEW i \in DOMAIN stack PROVE FrameInv(i, directories)'
    OBVIOUS
  <2>1. FrameInv(i, directories)
    BY <1>1, <1>7 DEF WalkInv
  <2>2. CASE i = Len(stack)
    BY <2>1, <2>2
  <2>3. CASE i # Len(stack)
    <3>1. stack'[i] = stack[i] /\ Pending(i)' = Pending(i) /\ Pending(i) = {}
      BY <2>3 DEF Pending
    <3>2. PICK paths, entries : paths = stack[i].returned \ (Excluded \cup Pending(i)) /\ entries = stack[i].entries
      OBVIOUS
    <3>3. Told(paths, entries, directories)' = Told(paths, entries, directories)
      BY <1>2, SameRecords
    <3>4. Told(stack[i].returned \ (Excluded \cup Pending(i)), stack[i].entries, directories)' = Told(paths, entries, directories)'
      BY <3>1, <3>2
    <3>5. /\ Holds(stack[i].proof)' = Holds(stack[i].proof) /\ Recorded(stack[i].proof)' = Recorded(stack[i].proof)
          /\ ChildrenOf(stack[i].path)' = ChildrenOf(stack[i].path)
          /\ \A e : Past(e.identity)' = Past(e.identity)
      BY <3>1, SameTree
    <3> QED BY <2>1, <2>3, <3>1, <3>2, <3>3, <3>4, <3>5 DEF FrameInv
  <2> QED BY <2>2, <2>3
<1>9. (\A i \in DOMAIN visited : VisitInv(i, directories)') /\ FileInv(directories)'
  BY <1>1, <1>2, <1>7, SameRecords DEF WalkInv
<1>10. \A f \in found :
          /\ Name[f.path] \in seen
          /\ \A i \in DOMAIN stack :
                /\ stack'[i].path = Parent[f.path] /\ Holds(stack[i].proof) =>
                      f.path \in DOMAIN link' /\ Kind(f.path)' = "file"
                /\ \A e \in stack'[i].entries : e.name = Name[f.path] => e.identity = f.identity
  BY <1>1, <1>2, SameTree DEF WalkInv
<1>11. \A i \in DOMAIN stack : Holds(stack[i].proof)' = Holds(stack[i].proof)
  <2> SUFFICES ASSUME NEW i \in DOMAIN stack PROVE Holds(stack[i].proof)' = Holds(stack[i].proof)
    OBVIOUS
  <2>1. stack'[i].proof = stack[i].proof
    OBVIOUS
  <2> QED BY <2>1, SameTree
<1> QED BY <1>1, <1>4, <1>5, <1>6, <1>7, <1>8, <1>9, <1>10, <1>11 DEF WalkInv

\* A directory the walk recorded and that is what it was is no link, and no
\* directory above it is one.
LEMMA HoldsIsDirectory ==
    ASSUME TypeOK, NEW proof, Recorded(proof), Holds(proof)
    PROVE  /\ proof.path \in DOMAIN link /\ Kind(proof.path) = "directory"
           /\ ~LeadsOut(proof.path)
           /\ Listing(proof.path) = ChildrenOf(proof.path)
<1>1. proof.path \in DOMAIN link /\ link[proof.path] \in Inodes
  BY DEF Holds, TypeOK, FsOK
<1>2. Kind(proof.path) = "directory"
  BY <1>1, InodeTypes DEF Holds, Recorded, InodeIdentity, Kind, TypeOK
<1>3. ~LeadsOut(proof.path)
  BY <1>1, NoLinkAbove DEF TypeOK
<1> QED BY <1>1, <1>2, <1>3 DEF Listing

LEMMA TopFrame ==
    ASSUME Inv, stack # <<>>
    PROVE  /\ Len(stack) \in DOMAIN stack /\ Len(stack) \in Nat /\ stack[Len(stack)] = Top
           /\ Top \in Frames /\ stack \in Seq(Frames) /\ DOMAIN stack = 1..Len(stack)
           /\ Top.path \in AllPaths
<1>1. stack \in Seq(Frames)
  BY DEF Inv, TypeOK, ScanTypeOK
<1> QED BY <1>1, OnStack DEF Top, Frames

LEMMA ScandirStep == ASSUME Inv, Scandir, UNCHANGED fsVars PROVE Inv'
<1>0. Next
  BY DEF Next, Scan, Walk
<1> SUFFICES ASSUME ~Reject PROVE Inv'
  BY <1>0, RejectStep
<1> DEFINE frame == [Top EXCEPT !.listed = Listing(Top.path)]
           n == Len(stack)
<1>1. /\ pc = "scandir" /\ pc' = "next" /\ stack' = WithTop(frame)
      /\ UNCHANGED <<entry, seen, found, visited, fileVars, rows, history>>
  BY DEF Scandir, Now
<1>2. WalkInv /\ stack # <<>> /\ TypeOK
  BY <1>1 DEF Inv, Walking, WalkInv
<1>3. frame \in Frames
  BY <1>2, TopFrame, InPaths DEF Frames, TypeOK
<1>4. /\ stack' \in Seq(Frames) /\ Len(stack') = n /\ DOMAIN stack' = DOMAIN stack
      /\ \A i \in DOMAIN stack : stack'[i] = IF i = n THEN frame ELSE stack[i]
  BY <1>1, <1>2, <1>3, TopFrame, OnStack
<1>5. /\ stack'[n] = frame /\ frame.path = Top.path /\ frame.proof = Top.proof
      /\ frame.returned = Top.returned /\ frame.entries = Top.entries /\ frame.listed = Listing(Top.path)
  BY <1>2, <1>4, TopFrame DEF Frames
<1>6. ASSUME NEW directories, FrameInv(n, directories) PROVE FrameInv(n, directories)'
  <2>1. /\ Top.proof.path = Top.path /\ Recorded(Top.proof)
        /\ \A p \in Top.returned : Parent[p] = Top.path
        /\ \A e \in Top.entries : Past(e.identity) /\ e.name \in seen
        /\ Holds(Top.proof) =>
              /\ Top.returned \subseteq ChildrenOf(Top.path)
              /\ Told(Top.returned \ (Excluded \cup Pending(n)), Top.entries, directories)
    BY <1>6 DEF FrameInv, Top
  <2>2. \A p \in Listing(Top.path) : Parent[p] = Top.path
    BY DEF Listing, ChildrenOf
  <2>3. Holds(Top.proof) => Listing(Top.path) = ChildrenOf(Top.path)
    BY <1>2, <2>1, HoldsIsDirectory
  <2>4. Pending(n) = {} /\ Pending(n)' = {}
    BY <1>1 DEF Pending
  <2>5. PICK paths, entries : paths = Top.returned \ Excluded /\ entries = Top.entries
    OBVIOUS
  <2>6. Holds(Top.proof) => Told(paths, entries, directories)
    BY <2>1, <2>4, <2>5
  <2>7. InHand' = InHand
    BY <1>1 DEF InHand, Reading
  <2>8. Told(paths, entries, directories)' = Told(paths, entries, directories)
    BY <1>1, <2>7, SameRecords
  <2>9. Told(stack[n].returned \ (Excluded \cup Pending(n)), stack[n].entries, directories)'
        = Told(paths, entries, directories)'
    <3>1. (stack[n].returned \ (Excluded \cup Pending(n)))' = paths /\ (stack[n].entries)' = entries
      BY <1>4, <1>5, <2>4, <2>5
    <3> QED BY <3>1
  <2>10. /\ Holds(stack[n].proof)' = Holds(Top.proof) /\ Recorded(stack[n].proof)' = Recorded(Top.proof)
         /\ ChildrenOf(stack[n].path)' = ChildrenOf(Top.path)
         /\ \A e : Past(e.identity)' = Past(e.identity)
    BY <1>4, <1>5, SameTree
  <2> QED BY <1>1, <1>4, <1>5, <2>1, <2>2, <2>3, <2>6, <2>8, <2>9, <2>10 DEF FrameInv
<1>7. WalkInv'
  <2>1. \A i \in DOMAIN stack :
           /\ stack'[i].path = stack[i].path /\ stack'[i].proof = stack[i].proof
           /\ stack'[i].entries = stack[i].entries
           /\ i # n => stack'[i] = stack[i]
    BY <1>2, <1>4, <1>5, TopFrame
  <2> HIDE DEF frame
  <2>2. pc \in Walking /\ pc' \in Walking /\ pc' # "entry"
    BY <1>1 DEF Walking
  <2> QED BY <1>1, <1>4, <1>6, <2>1, <2>2, TopStep
<1> QED BY <1>0, <1>1, <1>7, StillWalking DEF Walking

\* What makes the invariant of the directory on top after a step.
LEMMA TopFrameInv ==
    ASSUME Inv, UNCHANGED fsVars, UNCHANGED <<visited, rows, seen>>, InHand' = InHand,
           NEW frame, NEW n, Len(stack') = n, stack'[n] = frame,
           NEW directories, NEW paths,
           paths = frame.returned \ (Excluded \cup (IF pc' = "entry" THEN {entry'} ELSE {})),
           frame.proof.path = frame.path, Recorded(frame.proof),
           \A p \in frame.listed \cup frame.returned : Parent[p] = frame.path,
           \A e \in frame.entries : Past(e.identity) /\ e.name \in seen,
           Holds(frame.proof) =>
              /\ pc' # "scandir" => frame.listed = ChildrenOf(frame.path)
              /\ frame.returned \subseteq ChildrenOf(frame.path)
              /\ pc' = "leave" => ChildrenOf(frame.path) \subseteq frame.returned
              /\ Told(paths, frame.entries, directories)
    PROVE  FrameInv(n, directories)'
<1>1. Pending(n)' = IF pc' = "entry" THEN {entry'} ELSE {}
  BY DEF Pending
<1>2. PICK entries : entries = frame.entries
  OBVIOUS
<1>3. Told(paths, entries, directories)' = Told(paths, entries, directories)
  BY SameRecords
<1>4. Told(stack[n].returned \ (Excluded \cup Pending(n)), stack[n].entries, directories)'
      = Told(paths, entries, directories)'
  <2>1. (stack[n].returned \ (Excluded \cup Pending(n)))' = paths /\ (stack[n].entries)' = entries
    BY <1>1, <1>2
  <2> QED BY <2>1
<1>5. /\ Holds(stack[n].proof)' = Holds(frame.proof) /\ Recorded(stack[n].proof)' = Recorded(frame.proof)
      /\ ChildrenOf(stack[n].path)' = ChildrenOf(frame.path)
      /\ \A e : Past(e.identity)' = Past(e.identity)
  BY SameTree
<1> QED BY <1>2, <1>3, <1>4, <1>5 DEF FrameInv

LEMMA NextEntryStep == ASSUME Inv, NextEntry, UNCHANGED fsVars PROVE Inv'
<1>0. Next
  BY DEF Next, Scan, Walk
<1>1. PICK p \in MayReturn(Top) :
        /\ pc = "next" /\ pc' = "entry" /\ entry' = p
        /\ stack' = WithTop([Top EXCEPT !.returned = @ \cup {p}])
        /\ UNCHANGED <<seen, found, visited, fileVars, rows, history>>
  BY DEF NextEntry, Now
<1> DEFINE frame == [Top EXCEPT !.returned = @ \cup {p}]
           n == Len(stack)
<1>2. WalkInv /\ stack # <<>> /\ TypeOK /\ FsOK
  BY <1>1 DEF Inv, Walking, WalkInv, TypeOK
<1>3. p \in Paths /\ frame \in Frames
  BY <1>2, TopFrame, InPaths DEF Frames
<1>4. /\ stack' \in Seq(Frames) /\ Len(stack') = n
      /\ \A i \in DOMAIN stack : stack'[i] = IF i = n THEN frame ELSE stack[i]
  BY <1>1, <1>2, <1>3, TopFrame, OnStack
<1>5. /\ stack'[n] = frame /\ frame.path = Top.path /\ frame.proof = Top.proof /\ frame.listed = Top.listed
      /\ frame.returned = Top.returned \cup {p} /\ frame.entries = Top.entries
  BY <1>2, <1>4, TopFrame DEF Frames
<1>6. ASSUME NEW directories, FrameInv(n, directories) PROVE FrameInv(n, directories)'
  <2>1. /\ Top.proof.path = Top.path /\ Recorded(Top.proof)
        /\ \A q \in Top.listed \cup Top.returned : Parent[q] = Top.path
        /\ \A e \in Top.entries : Past(e.identity) /\ e.name \in seen
        /\ Holds(Top.proof) =>
              /\ Top.listed = ChildrenOf(Top.path)
              /\ Top.returned \subseteq ChildrenOf(Top.path)
              /\ Told(Top.returned \ (Excluded \cup Pending(n)), Top.entries, directories)
    BY <1>1, <1>6 DEF FrameInv, Top
  <2>2. p \in Top.listed \cup ChildrenOf(Top.path) /\ Parent[p] = Top.path
    BY <2>1 DEF MayReturn, ChildrenOf
  <2>3. Pending(n) = {} /\ InHand' = InHand
    BY <1>1 DEF Pending, InHand, Reading
  <2>4. PICK paths : paths = (Top.returned \cup {p}) \ (Excluded \cup {p})
    OBVIOUS
  <2>5. Holds(Top.proof) => Told(paths, Top.entries, directories)
    BY <2>1, <2>3, <2>4, ToldOfFewer
  <2> HIDE DEF frame
  <2> QED BY <1>1, <1>4, <1>5, <2>1, <2>2, <2>3, <2>4, <2>5, TopFrameInv
<1>7. WalkInv'
  <2>1. \A i \in DOMAIN stack :
           /\ stack'[i].path = stack[i].path /\ stack'[i].proof = stack[i].proof
           /\ stack'[i].entries = stack[i].entries
           /\ i # n => stack'[i] = stack[i]
    BY <1>2, <1>4, <1>5, TopFrame
  <2>2. pc \in Walking /\ pc' \in Walking /\ entry' \in stack'[n].returned
    BY <1>1, <1>5 DEF Walking
  <2> HIDE DEF frame
  <2> QED BY <1>1, <1>4, <1>6, <2>1, <2>2, TopStep
<1> QED BY <1>0, <1>1, <1>7, StillWalking DEF Walking

LEMMA EndOfDirectoryStep == ASSUME Inv, EndOfDirectory, UNCHANGED fsVars PROVE Inv'
<1>0. Next
  BY DEF Next, Scan, Walk
<1>1. /\ pc = "next" /\ pc' = "leave" /\ MustReturn(Top) = {}
      /\ UNCHANGED <<stack, entry, seen, found, visited, fileVars, rows, history>>
  BY DEF EndOfDirectory, Now, walkVars
<1> DEFINE n == Len(stack)
<1>2. WalkInv /\ stack # <<>>
  BY <1>1 DEF Inv, Walking, WalkInv
<1>3. stack' \in Seq(Frames) /\ stack'[n] = Top /\ Len(stack') = n
  BY <1>1, <1>2, TopFrame
<1>4. ASSUME NEW directories, FrameInv(n, directories) PROVE FrameInv(n, directories)'
  <2>1. /\ Top.proof.path = Top.path /\ Recorded(Top.proof)
        /\ \A q \in Top.listed \cup Top.returned : Parent[q] = Top.path
        /\ \A e \in Top.entries : Past(e.identity) /\ e.name \in seen
        /\ Holds(Top.proof) =>
              /\ Top.listed = ChildrenOf(Top.path)
              /\ Top.returned \subseteq ChildrenOf(Top.path)
              /\ Told(Top.returned \ (Excluded \cup Pending(n)), Top.entries, directories)
    BY <1>1, <1>4 DEF FrameInv, Top
  <2>2. Holds(Top.proof) => ChildrenOf(Top.path) \subseteq Top.returned
    BY <1>1, <2>1 DEF MustReturn
  <2>3. Pending(n) = {} /\ InHand' = InHand
    BY <1>1 DEF Pending, InHand, Reading
  <2>4. PICK paths : paths = Top.returned \ (Excluded \cup {})
    OBVIOUS
  <2> QED BY <1>1, <1>3, <2>1, <2>2, <2>3, <2>4, TopFrameInv
<1>5. WalkInv'
  <2>1. pc \in Walking /\ pc' \in Walking /\ pc' # "entry"
    BY <1>1 DEF Walking
  <2> QED BY <1>1, <1>3, <1>4, <2>1, TopStep
<1> QED BY <1>0, <1>1, <1>5, StillWalking DEF Walking

LEMMA SkipExcludedStep == ASSUME Inv, SkipExcluded, UNCHANGED fsVars PROVE Inv'
<1>0. Next
  BY DEF Next, Scan, Walk
<1>1. /\ pc = "entry" /\ pc' = "next" /\ entry \in Excluded
      /\ UNCHANGED <<stack, entry, seen, found, visited, fileVars, rows, history>>
  BY DEF SkipExcluded, Now, walkVars
<1> DEFINE n == Len(stack)
<1>2. WalkInv /\ stack # <<>>
  BY <1>1 DEF Inv, Walking, WalkInv
<1>3. stack' \in Seq(Frames) /\ stack'[n] = Top /\ Len(stack') = n
  BY <1>1, <1>2, TopFrame
<1>4. ASSUME NEW directories, FrameInv(n, directories) PROVE FrameInv(n, directories)'
  <2>1. /\ Top.proof.path = Top.path /\ Recorded(Top.proof)
        /\ \A q \in Top.listed \cup Top.returned : Parent[q] = Top.path
        /\ \A e \in Top.entries : Past(e.identity) /\ e.name \in seen
        /\ Holds(Top.proof) =>
              /\ Top.listed = ChildrenOf(Top.path)
              /\ Top.returned \subseteq ChildrenOf(Top.path)
              /\ Told(Top.returned \ (Excluded \cup Pending(n)), Top.entries, directories)
    BY <1>1, <1>4 DEF FrameInv, Top
  <2>3. Excluded \cup Pending(n) = Excluded /\ InHand' = InHand
    BY <1>1 DEF Pending, InHand, Reading
  <2>4. PICK paths : paths = Top.returned \ (Excluded \cup {})
    OBVIOUS
  <2>5. Holds(Top.proof) => Told(paths, Top.entries, directories)
    BY <2>1, <2>3, <2>4
  <2> QED BY <1>1, <1>3, <2>1, <2>3, <2>4, <2>5, TopFrameInv
<1>5. WalkInv'
  <2>1. pc \in Walking /\ pc' \in Walking /\ pc' # "entry"
    BY <1>1 DEF Walking
  <2> QED BY <1>1, <1>3, <1>4, <2>1, TopStep
<1> QED BY <1>0, <1>1, <1>5, StillWalking DEF Walking

\* What was told stays told when more is found.
LEMMA ToldGrows ==
    ASSUME UNCHANGED fsVars, rows' = rows, InHand \subseteq InHand',
           NEW paths, NEW entries, NEW directories, NEW more, directories \subseteq more,
           Told(paths, entries, directories)
    PROVE  Told(paths, entries, more)'
<1>1. \A p, identity : Tracked(p, identity) => Tracked(p, identity)'
  BY SameTree DEF Tracked
<1>2. link' = link
  BY DEF fsVars
<1> QED BY <1>1, <1>2, SameTree DEF Told

LEMMA FrameGrows ==
    ASSUME UNCHANGED fsVars, rows' = rows, InHand \subseteq InHand', seen \subseteq seen',
           NEW i, stack'[i] = stack[i], Pending(i) = {}, Pending(i)' = {},
           i # Len(stack) \/ pc # "scandir", i # Len(stack') \/ pc' # "leave",
           NEW directories, NEW more, directories \subseteq more,
           FrameInv(i, directories)
    PROVE  FrameInv(i, more)'
<1>1. PICK paths, entries : paths = stack[i].returned \ (Excluded \cup {}) /\ entries = stack[i].entries
  OBVIOUS
<1>2. Told(paths, entries, directories) => Told(paths, entries, more)'
  BY ToldGrows
<1>3. Told(stack[i].returned \ (Excluded \cup Pending(i)), stack[i].entries, more)' = Told(paths, entries, more)'
  <2>1. (stack[i].returned \ (Excluded \cup Pending(i)))' = paths /\ (stack[i].entries)' = entries
    BY <1>1
  <2> QED BY <2>1
<1>4. Told(stack[i].returned \ (Excluded \cup Pending(i)), stack[i].entries, directories)
      = Told(paths, entries, directories)
  BY <1>1
<1>5. /\ Holds(stack[i].proof)' = Holds(stack[i].proof) /\ Recorded(stack[i].proof)' = Recorded(stack[i].proof)
      /\ ChildrenOf(stack[i].path)' = ChildrenOf(stack[i].path)
      /\ \A e : Past(e.identity)' = Past(e.identity)
  BY SameTree
<1> QED BY <1>1, <1>2, <1>3, <1>4, <1>5 DEF FrameInv

LEMMA VisitGrows ==
    ASSUME UNCHANGED fsVars, rows' = rows, InHand \subseteq InHand',
           NEW i, visited'[i] = visited[i],
           NEW directories, NEW more, directories \subseteq more,
           VisitInv(i, directories)
    PROVE  VisitInv(i, more)'
<1>1. ProofAt(i)' = ProofAt(i)
  BY DEF ProofAt
<1>2. PICK paths, entries : paths = Scanned(ProofAt(i).path) /\ entries = visited[i].entries
  OBVIOUS
<1>3. Told(paths, entries, directories) => Told(paths, entries, more)'
  BY ToldGrows
<1>4. Told(Scanned(ProofAt(i).path), visited[i].entries, more)' = Told(paths, entries, more)'
  <2>1. Scanned(ProofAt(i).path)' = paths /\ (visited[i].entries)' = entries
    BY <1>1, <1>2, SameTree
  <2> QED BY <2>1
<1>5. Holds(ProofAt(i))' = Holds(ProofAt(i)) /\ Recorded(ProofAt(i))' = Recorded(ProofAt(i))
      /\ \A e : Past(e.identity)' = Past(e.identity)
  BY <1>1, SameTree
<1> QED BY <1>2, <1>3, <1>4, <1>5 DEF VisitInv

\* A directory just found and not yet listed.
LEMMA NewFrameInv ==
    ASSUME FsOK, UNCHANGED fsVars, NEW d \in AllPaths, IsDirectory(d), InScope(d),
           NEW i, stack'[i] = Frame(d), pc' = "scandir", i = Len(stack'), NEW directories
    PROVE  FrameInv(i, directories)'
<1>1. Past(Identity(d)) /\ Identity(d).kind = "directory"
  BY IdentityTypes DEF IsDirectory
<1>2. Recorded(Proof(d))
  BY <1>1 DEF Recorded, Proof
<1>3. Recorded(stack[i].proof)' = Recorded(Proof(d))
  <2>1. stack'[i].proof = Proof(d)
    BY DEF Frame
  <2> QED BY <2>1, SameTree
<1>4. Told(stack[i].returned \ (Excluded \cup Pending(i)), stack[i].entries, directories)'
  <2>1. (stack[i].returned)' = {}
    BY DEF Frame
  <2> QED BY <2>1 DEF Told
<1> QED BY <1>2, <1>3, <1>4 DEF FrameInv, Frame, Proof

LEMMA LstatRootStep == ASSUME Inv, LstatRoot, UNCHANGED fsVars PROVE Inv'
<1>0. Next
  BY DEF Next, Scan, Walk
<1> SUFFICES ASSUME ~Reject PROVE Inv'
  BY <1>0, RejectStep
<1>1. /\ pc = "root" /\ pc' = "scandir" /\ IsDirectory(Root) /\ stack' = <<Frame(Root)>>
      /\ UNCHANGED <<entry, seen, found, visited, fileVars, rows, history>>
  BY DEF LstatRoot, Now
<1>2. FsOK /\ visited' = <<>> /\ found' = {} /\ DOMAIN rows' = {} /\ InHand' = {}
  BY <1>1 DEF Inv, TypeOK, InHand, Reading
<1>3. DOMAIN stack' = {1} /\ Len(stack') = 1 /\ stack'[1] = Frame(Root) /\ stack' # <<>>
  BY <1>1
<1>4. InScope(Root) /\ Root \in AllPaths
  BY AncestorsOf, TreeAssumption DEF InScope, AllPaths
<1>5. \A directories : FrameInv(1, directories)'
  BY <1>1, <1>2, <1>3, <1>4, NewFrameInv
<1>6. DOMAIN visited' = {}
  BY <1>2
<1>7. StackPaths' = {Root} /\ VisitedPaths' = {}
  BY <1>3, <1>6 DEF StackPaths, VisitedPaths, Frame
<1>8. \A directories : FileInv(directories)'
  BY <1>2 DEF FileInv
<1>9. WalkInv'
  BY <1>1, <1>2, <1>3, <1>5, <1>6, <1>7, <1>8 DEF WalkInv
<1> QED BY <1>0, <1>1, <1>9, StillWalking DEF Walking

\* An entry of a directory that is what it was is inside, and linked.
LEMMA EntryInside ==
    ASSUME TypeOK, NEW p \in Paths, NEW proof, Recorded(proof), Holds(proof), Parent[p] = proof.path,
           Reachable(p)
    PROVE  /\ p \in DOMAIN link /\ p \in ChildrenOf(proof.path)
           /\ Identity(p) = InodeIdentity(link[p]) /\ Identity(p).kind = Kind(p)
<1>1. Parent[p] \in DOMAIN link /\ Kind(Parent[p]) = "directory"
  BY HoldsIsDirectory
<1>2. ~LeadsOut(p)
  BY <1>1, NoLinkInside DEF TypeOK
<1>3. p \in DOMAIN link /\ Identity(p) = InodeIdentity(link[p])
  BY <1>2, IdentityInside DEF TypeOK, AllPaths
<1>4. p \in ChildrenOf(proof.path)
  BY <1>3, TreeAssumption DEF ChildrenOf
<1>5. InodeIdentity(link[p]).kind = Kind(p)
  BY <1>3, InodeTypes DEF TypeOK, FsOK, InodeIdentity, Kind
<1> QED BY <1>3, <1>4, <1>5

LEMMA LstatEntryStep == ASSUME Inv, LstatEntry, UNCHANGED fsVars PROVE Inv'
<1>0. Next
  BY DEF Next, Scan, Walk
<1> SUFFICES ASSUME ~Reject PROVE Inv'
  BY <1>0, RejectStep
<1> DEFINE p == entry
           n == Len(stack)
           frame == [Top EXCEPT !.entries = @ \cup {EntryProof(p)}]
           old == StackPaths \cup VisitedPaths
           more == (StackPaths \cup VisitedPaths)'
<1>1. /\ pc = "entry" /\ p \notin Excluded /\ Name[p] \notin seen /\ Plain(p) /\ seen' = seen \cup {Name[p]}
      /\ UNCHANGED <<entry, visited, fileVars, rows, history>>
      /\ \/ /\ Identity(p).kind = "directory"
            /\ stack' = Append(WithTop(frame), Frame(p))
            /\ pc' = "scandir"
            /\ UNCHANGED found
         \/ /\ Identity(p).kind = "file"
            /\ stack' = WithTop(frame)
            /\ found' = found \cup {[path |-> p, identity |-> Identity(p), chain |-> Chain]}
            /\ pc' = "next"
  BY DEF LstatEntry, Now
<1>2. WalkInv /\ TypeOK /\ FsOK /\ stack # <<>> /\ p \in Paths
  BY <1>1, InHandTypes DEF Inv, WalkInv, Walking, TypeOK
<1>3. /\ Top \in Frames /\ stack \in Seq(Frames) /\ DOMAIN stack = 1..n /\ n \in Nat \ {0}
      /\ stack[n] = Top /\ n \in DOMAIN stack
  BY <1>2, TopFrame
<1>4. EntryProof(p) \in EntryProofs /\ Identity(p) \in Identities /\ Reachable(p) /\ Past(Identity(p))
      /\ Identity(p).kind \in {"file", "directory"}
  BY <1>1, <1>2, EntryTypes, IdentityTypes DEF AllPaths, Plain
<1>5. frame \in Frames /\ frame.path = Top.path /\ frame.proof = Top.proof /\ frame.listed = Top.listed
      /\ frame.returned = Top.returned /\ frame.entries = Top.entries \cup {EntryProof(p)}
  BY <1>3, <1>4 DEF Frames
<1>6. Frame(p) \in Frames
  BY <1>2, <1>4, FrameTypes DEF AllPaths
<1>7. /\ \A i \in DOMAIN stack : stack'[i] = IF i = n THEN frame ELSE stack[i]
      /\ stack' # <<>>
      /\ pc' = "scandir" => DOMAIN stack' = DOMAIN stack \cup {n + 1} /\ stack'[n + 1] = Frame(p) /\ Len(stack') = n + 1
      /\ pc' = "next" => DOMAIN stack' = DOMAIN stack /\ Len(stack') = n
  <2> HIDE DEF frame
  <2>1. /\ WithTop(frame) \in Seq(Frames) /\ Len(WithTop(frame)) = n /\ DOMAIN WithTop(frame) = 1..n
        /\ \A i \in DOMAIN stack : WithTop(frame)[i] = IF i = n THEN frame ELSE stack[i]
    BY <1>2, <1>3, <1>5, OnStack
  <2>2. CASE stack' = WithTop(frame) /\ pc' = "next"
    BY <1>3, <2>1, <2>2
  <2>3. CASE stack' = Append(WithTop(frame), Frame(p)) /\ pc' = "scandir"
    <3>1. /\ stack' \in Seq(Frames) /\ stack' # <<>> /\ Len(stack') = n + 1
          /\ \A i \in 1..n : stack'[i] = WithTop(frame)[i]
          /\ stack'[n + 1] = Frame(p)
      BY <1>6, <2>1, <2>3, AppendProperties
    <3>2. DOMAIN stack' = 1..(n + 1) /\ 1..(n + 1) = (1..n) \cup {n + 1}
      BY <1>3, <3>1, LenProperties
    <3> QED BY <1>3, <2>1, <2>3, <3>1, <3>2
  <2> QED BY <1>1, <2>2, <2>3
<1>8. /\ InHand = found /\ InHand' = found'
      /\ found' = IF pc' = "next" THEN found \cup {[path |-> p, identity |-> Identity(p), chain |-> Chain]}
                                  ELSE found
      /\ pc' \in {"next", "scandir"} /\ (pc' = "next" <=> Identity(p).kind = "file")
      /\ found \subseteq found'
  BY <1>1 DEF InHand, Reading
<1>9. link' = link /\ rows' = rows /\ visited' = visited /\ VisitedPaths' = VisitedPaths
      /\ \A i : ProofAt(i)' = ProofAt(i)
  BY <1>1 DEF fsVars, VisitedPaths, ProofAt
<1>10. old \subseteq more /\ more = IF pc' = "scandir" THEN old \cup {p} ELSE old
  <2>1. \A i \in DOMAIN stack : stack'[i].path = stack[i].path
    BY <1>3, <1>5, <1>7
  <2>2. CASE pc' = "scandir"
    <3>1. StackPaths' = StackPaths \cup {p}
      BY <1>7, <2>1, <2>2 DEF StackPaths, Frame
    <3> QED BY <1>9, <2>2, <3>1
  <2>3. CASE pc' = "next"
    <3>1. StackPaths' = StackPaths
      BY <1>7, <2>1, <2>3 DEF StackPaths
    <3> QED BY <1>9, <2>3, <3>1
  <2> QED BY <1>8, <2>2, <2>3
<1>11. PICK D1, D2 : D1 = old /\ D2 = more
  OBVIOUS
<1>12. D1 \subseteq D2 /\ \A d \in D2 : d = p \/ d \in D1
  BY <1>10, <1>11
<1> HIDE DEF frame
<1>13. \A i \in DOMAIN stack : FrameInv(i, D1)
  BY <1>2, <1>11 DEF WalkInv
<1>14. /\ Top.proof.path = Top.path /\ Recorded(Top.proof)
       /\ \A q \in Top.listed \cup Top.returned : Parent[q] = Top.path
       /\ \A e \in Top.entries : Past(e.identity) /\ e.name \in seen
       /\ p \in Top.returned /\ Parent[p] = Top.path
       /\ Holds(Top.proof) =>
             /\ Top.listed = ChildrenOf(Top.path)
             /\ Top.returned \subseteq ChildrenOf(Top.path)
             /\ Told(Top.returned \ (Excluded \cup {p}), Top.entries, D1)
  <2>1. FrameInv(n, D1) /\ Pending(n) = {p} /\ p \in Top.returned
    BY <1>1, <1>2, <1>3, <1>13 DEF Pending, WalkInv
  <2> QED BY <1>1, <1>3, <2>1 DEF FrameInv
\* What a name not seen before says.
<1>15. /\ \A i \in DOMAIN stack : \A e \in stack[i].entries : e.name # Name[p]
       /\ \A i \in DOMAIN visited : \A e \in visited[i].entries : e.name # Name[p]
       /\ \A f \in found : Name[f.path] # Name[p]
       /\ p \notin D1 \/ p = Root
  BY <1>1, <1>2, <1>11, <1>13 DEF WalkInv, FrameInv
<1>16. p # Root
  BY <1>2, TreeAssumption
<1>17. EntryProof(p).name = Name[p] /\ EntryProof(p).identity = Identity(p)
  BY DEF EntryProof
<1>18. \A paths, entries : Told(paths, entries, D1) => Told(paths, entries, D2)'
  BY <1>8, <1>9, <1>12, ToldGrows
<1>20. PICK all, grown : all = Top.returned \ Excluded /\ grown = Top.entries \cup {EntryProof(p)}
  OBVIOUS
<1>19. Holds(Top.proof) => Told(all, grown, D2)'
  <2> SUFFICES ASSUME Holds(Top.proof) PROVE Told(all, grown, D2)'
    OBVIOUS
  <2>1. PICK paths, entries : /\ paths = all \ {p} /\ paths = Top.returned \ (Excluded \cup {p})
                              /\ entries = Top.entries /\ grown = entries \cup {EntryProof(p)}
    BY <1>20
  <2>2. Told(paths, entries, D1) /\ Told(paths, entries, D2)'
    BY <1>14, <1>18, <2>1
  <2>3. /\ p \in DOMAIN link /\ Identity(p) = InodeIdentity(link[p]) /\ Identity(p).kind = Kind(p)
    BY <1>2, <1>4, <1>14, EntryInside
  <2>4. Identity(p).inode = link[p]
    BY <2>3 DEF InodeIdentity
  <2>5. Kind(p) = "file" => Tracked(p, Identity(p))'
    <3> SUFFICES ASSUME Kind(p) = "file" PROVE Tracked(p, Identity(p))'
      OBVIOUS
    <3>1. PICK identity, f : identity = Identity(p) /\ f = [path |-> p, identity |-> Identity(p), chain |-> Chain]
      OBVIOUS
    <3>2. f \in InHand' /\ f.path = p /\ f.identity = identity
      BY <1>8, <2>3, <3>1
    <3>3. Identity(p)' = identity
      BY <1>1, <3>1, SameTree
    <3> QED BY <1>1, <3>2, <3>3 DEF Tracked
  <2>6. Kind(p) = "directory" => p \in D2
    BY <1>8, <1>10, <1>11, <2>3
  <2>7. \A q \in paths : Name[q] # Name[p]
    BY <1>3, <1>15, <2>1, <2>2 DEF Told
  <2>8. \A q \in paths : \A e \in grown : e.name = Name[q] => e \in entries
    BY <1>17, <2>1, <2>7
  <2>9. \A q \in paths :
          /\ \E e \in grown : e.name = Name[q]
          /\ \A e \in grown : e.name = Name[q] =>
                /\ e.identity.inode = link'[q]
                /\ e.identity.kind = Kind(q)'
                /\ Kind(q)' = "file" => Tracked(q, e.identity)'
          /\ Kind(q)' \in {"file", "directory"}
          /\ Kind(q)' = "directory" => q \in D2
    <3>1. \A q \in paths :
          /\ \E e \in entries : e.name = Name[q]
          /\ \A e \in entries : e.name = Name[q] =>
                /\ e.identity.inode = link'[q]
                /\ e.identity.kind = Kind(q)'
                /\ Kind(q)' = "file" => Tracked(q, e.identity)'
          /\ Kind(q)' \in {"file", "directory"}
          /\ Kind(q)' = "directory" => q \in D2
      BY <2>2 DEF Told
    <3> QED BY <2>1, <2>8, <3>1
  <2>10. /\ \E e \in grown : e.name = Name[p]
         /\ \A e \in grown : e.name = Name[p] => e = EntryProof(p)
    BY <1>3, <1>15, <1>17, <2>1
  <2>11. Kind(p)' = Kind(p) /\ link'[p] = link[p]
    BY <1>1, <1>9, SameTree
  <2>12. \A e \in grown : e.name = Name[p] =>
                /\ e.identity.inode = link'[p]
                /\ e.identity.kind = Kind(p)'
                /\ Kind(p)' = "file" => Tracked(p, e.identity)'
    <3>1. PICK identity : identity = Identity(p)
      OBVIOUS
    <3>2. Kind(p) = "file" => Tracked(p, identity)'
      BY <1>1, <2>5, <3>1, SameTree
    <3> QED BY <1>17, <2>3, <2>4, <2>10, <2>11, <3>1, <3>2
  <2>13. Kind(p)' \in {"file", "directory"} /\ (Kind(p)' = "directory" => p \in D2)
    BY <1>4, <2>3, <2>6, <2>11
  <2> QED BY <1>1, <2>1, <2>9, <2>10, <2>12, <2>13 DEF Told
<1>21. \A i \in DOMAIN stack' : FrameInv(i, D2)'
  <2> SUFFICES ASSUME NEW i \in DOMAIN stack' PROVE FrameInv(i, D2)'
    OBVIOUS
  <2>1. CASE i \in DOMAIN stack /\ i # n
    <3>1. stack'[i] = stack[i] /\ FrameInv(i, D1)
      BY <1>7, <1>13, <2>1
    <3>2. Pending(i) = {} /\ Pending(i)' = {} /\ pc # "scandir" /\ pc' # "leave"
      BY <1>1, <1>8, <2>1 DEF Pending
    <3> QED BY <1>1, <1>8, <1>9, <1>12, <3>1, <3>2, FrameGrows
  <2>2. CASE i = n
    <3>1. stack'[i] = frame /\ Pending(i)' = {}
      BY <1>3, <1>7, <1>8, <2>2 DEF Pending
    <3>2. Told(stack[i].returned \ (Excluded \cup Pending(i)), stack[i].entries, D2)' = Told(all, grown, D2)'
      <4>1. (stack[i].returned \ (Excluded \cup Pending(i)))' = all /\ (stack[i].entries)' = grown
        BY <1>5, <1>20, <3>1
      <4> QED BY <4>1
    <3>3. /\ Holds(stack[i].proof)' = Holds(Top.proof) /\ Recorded(stack[i].proof)' = Recorded(Top.proof)
          /\ ChildrenOf(stack[i].path)' = ChildrenOf(Top.path)
          /\ \A e : Past(e.identity)' = Past(e.identity)
      BY <1>5, <3>1, SameTree
    <3>4. /\ (stack[i].path)' = Top.path /\ (stack[i].proof)' = Top.proof /\ (stack[i].listed)' = Top.listed
          /\ (stack[i].returned)' = Top.returned /\ (stack[i].entries)' = Top.entries \cup {EntryProof(p)}
      BY <1>5, <3>1
    <3>5. \A e \in Top.entries \cup {EntryProof(p)} : Past(e.identity) /\ e.name \in seen'
      BY <1>1, <1>4, <1>14, <1>17
    <3>6. ~(i = Len(stack') /\ pc' = "leave")
      BY <1>8
    <3>7. /\ Holds(Top.proof) => Top.listed = ChildrenOf(Top.path) /\ Top.returned \subseteq ChildrenOf(Top.path)
          /\ Holds(Top.proof) => Told(all, grown, D2)'
          /\ Recorded(Top.proof) /\ Top.proof.path = Top.path
          /\ \A q \in Top.listed \cup Top.returned : Parent[q] = Top.path
      BY <1>14, <1>19
    <3> QED BY <3>2, <3>3, <3>4, <3>5, <3>6, <3>7 DEF FrameInv
  <2>3. CASE i \notin DOMAIN stack
    <3>1. pc' = "scandir" /\ i = n + 1 /\ Len(stack') = i /\ stack'[i] = Frame(p)
      BY <1>7, <1>8, <2>3
    <3>2. IsDirectory(p)
      BY <1>1, <1>4, <1>8, <3>1 DEF IsDirectory
    <3>3. InScope(p)
      BY <1>1, <1>2, <1>14, AncestorsOf DEF Recorded, InScope
    <3> QED BY <1>2, <3>1, <3>2, <3>3, NewFrameInv DEF AllPaths
  <2> QED BY <1>3, <2>1, <2>2, <2>3
<1>22. \A i \in DOMAIN visited' : VisitInv(i, D2)' /\ \A e \in visited'[i].entries : e.name \in seen'
  <2>1. \A i \in DOMAIN visited : VisitInv(i, D1) /\ \A e \in visited[i].entries : e.name \in seen
    BY <1>2, <1>11 DEF WalkInv
  <2> QED BY <1>1, <1>8, <1>9, <1>12, <2>1, VisitGrows
\* The entry is there when what it is in is what it was.
<1>23. \A proof : Recorded(proof) /\ Holds(proof) /\ proof.path = Parent[p] =>
          p \in DOMAIN link /\ p \in ChildrenOf(proof.path) /\ Kind(p) = Identity(p).kind
  BY <1>2, <1>4, EntryInside
<1>24. FileInv(D2)'
  <2>1. FileInv(D1)
    BY <1>2, <1>11 DEF WalkInv
  <2>2. \A f \in found' : Past(f.identity)' /\
           \A i \in DOMAIN visited : \A e \in visited[i].entries : e.name = Name[f.path] => e.identity = f.identity
    BY <1>4, <1>8, <1>15, <2>1, SameTree DEF FileInv
  <2>3. DOMAIN rows = {}
    BY <1>2 DEF WalkInv
  <2>4. \A q \in {f.path : f \in found'} :
           /\ q \in Paths \ Excluded /\ Parent[q] \in D2
           /\ \A i \in DOMAIN visited : ProofAt(i).path = Parent[q] /\ Holds(ProofAt(i)) =>
                 q \in DOMAIN link /\ Kind(q) = "file"
    <3> SUFFICES ASSUME NEW q \in {f.path : f \in found'}
                 PROVE  /\ q \in Paths \ Excluded /\ Parent[q] \in D2
                        /\ \A i \in DOMAIN visited : ProofAt(i).path = Parent[q] /\ Holds(ProofAt(i)) =>
                              q \in DOMAIN link /\ Kind(q) = "file"
      OBVIOUS
    <3>1. CASE q \in {f.path : f \in found}
      BY <1>8, <1>12, <2>1, <3>1 DEF FileInv
    <3>2. CASE q = p
      <4>1. Parent[p] \in D2
        BY <1>3, <1>11, <1>12, <1>14 DEF StackPaths
      <4>2. ASSUME NEW i \in DOMAIN visited, ProofAt(i).path = Parent[p], Holds(ProofAt(i)) PROVE FALSE
        <5>1. Recorded(ProofAt(i)) /\ Told(Scanned(ProofAt(i).path), visited[i].entries, D1)
          BY <1>2, <1>11, <4>2 DEF WalkInv, VisitInv
        <5>2. p \in Scanned(ProofAt(i).path)
          BY <1>1, <1>23, <4>2, <5>1 DEF Scanned
        <5> QED BY <1>15, <5>1, <5>2 DEF Told
      <4> QED BY <1>1, <1>2, <3>2, <4>1, <4>2
    <3> QED BY <1>8, <3>1, <3>2
  <2> QED BY <1>8, <1>9, <2>2, <2>3, <2>4, SameTree DEF FileInv
<1>25. \A f \in found' :
          /\ Name[f.path] \in seen'
          /\ \A i \in DOMAIN stack' :
                /\ stack'[i].path = Parent[f.path] /\ Holds(stack[i].proof)' =>
                      f.path \in DOMAIN link' /\ Kind(f.path)' = "file"
                /\ \A e \in stack'[i].entries : e.name = Name[f.path] => e.identity = f.identity
  <2> SUFFICES ASSUME NEW f \in found', NEW i \in DOMAIN stack'
               PROVE  /\ Name[f.path] \in seen'
                      /\ stack'[i].path = Parent[f.path] /\ Holds(stack[i].proof)' =>
                            f.path \in DOMAIN link' /\ Kind(f.path)' = "file"
                      /\ \A e \in stack'[i].entries : e.name = Name[f.path] => e.identity = f.identity
    <3>1. DOMAIN stack' # {}
      BY <1>7, <1>3
    <3> QED BY <3>1
  <2>1. CASE f \in found
    <3>1. /\ Name[f.path] \in seen /\ Name[f.path] # Name[p] /\ Parent[f.path] \in D1
          /\ \A j \in DOMAIN stack :
                /\ stack[j].path = Parent[f.path] /\ Holds(stack[j].proof) =>
                      f.path \in DOMAIN link /\ Kind(f.path) = "file"
                /\ \A e \in stack[j].entries : e.name = Name[f.path] => e.identity = f.identity
      BY <1>2, <1>8, <1>11, <1>15, <2>1 DEF WalkInv, FileInv
    <3>2. CASE i \in DOMAIN stack
      <4>1. stack'[i].path = stack[i].path /\ stack'[i].proof = stack[i].proof
            /\ stack'[i].entries \subseteq stack[i].entries \cup {EntryProof(p)}
        BY <1>3, <1>5, <1>7, <3>2
      <4>2. Holds(stack[i].proof)' = Holds(stack[i].proof)
        BY <4>1, SameTree
      <4> QED BY <1>1, <1>9, <1>17, <3>1, <3>2, <4>1, <4>2, SameTree
    <3>3. CASE i \notin DOMAIN stack
      <4>1. stack'[i] = Frame(p)
        BY <1>7, <1>8, <3>3
      <4>2. stack'[i].path = p /\ stack'[i].entries = {}
        BY <4>1 DEF Frame
      <4> QED BY <1>1, <1>15, <1>16, <3>1, <4>2
    <3> QED BY <3>2, <3>3
  <2>2. CASE pc' = "next" /\ f = [path |-> p, identity |-> Identity(p), chain |-> Chain]
    <3>1. i \in DOMAIN stack /\ f.path = p /\ f.identity = Identity(p) /\ Identity(p).kind = "file"
      BY <1>7, <1>8, <2>2
    <3>2. stack'[i].path = stack[i].path /\ stack'[i].proof = stack[i].proof
          /\ stack'[i].entries \subseteq stack[i].entries \cup {EntryProof(p)}
      BY <1>3, <1>5, <1>7, <3>1
    <3>3. Holds(stack[i].proof)' = Holds(stack[i].proof)
      BY <3>2, SameTree
    <3>4. Recorded(stack[i].proof) /\ stack[i].proof.path = stack[i].path
      BY <1>13, <3>1 DEF FrameInv
    <3>5. stack[i].path = Parent[p] /\ Holds(stack[i].proof) => p \in DOMAIN link' /\ Kind(f.path)' = "file"
      BY <1>9, <1>23, <3>1, <3>4, SameTree
    <3> QED BY <1>1, <1>15, <1>17, <3>1, <3>2, <3>3, <3>5
  <2> QED BY <1>8, <2>1, <2>2
<1>26. \A d \in D2 : d # Root => d \in Paths /\ Name[d] \in seen'
  BY <1>1, <1>2, <1>11, <1>12 DEF WalkInv
<1>27. Root \in D2 /\ DOMAIN rows' = {}
  BY <1>2, <1>9, <1>11, <1>12 DEF WalkInv
<1>28. WalkInv'
  BY <1>7, <1>8, <1>11, <1>21, <1>22, <1>24, <1>25, <1>26, <1>27 DEF WalkInv
<1> QED BY <1>0, <1>8, <1>28, StillWalking DEF Walking

\* The view of the tree shows a directory as it is.
LEMMA ViewShows ==
    ASSUME FsOK, NEW proof, Recorded(proof), Holds(proof)
    PROVE  /\ proof.path \in DOMAIN View /\ View[proof.path] = disk[link[proof.path]]
           /\ \A p \in ScopeOf(proof.path) :
                 /\ p \in DOMAIN View <=> p \in DOMAIN link
                 /\ p \in DOMAIN link => View[p] = disk[link[p]] /\ View[p].kind = Kind(p)
<1>1. DOMAIN View = Visible /\ \A p \in Visible : View[p] = disk[link[p]]
  BY DEF View
<1>2. proof.path \in Visible
  BY DEF Recorded, Holds, InScope, Visible
<1>3. \A p \in ScopeOf(proof.path) : p \in Visible <=> p \in DOMAIN link
  BY AncestorsOf DEF ScopeOf, Recorded, InScope, Visible
<1> QED BY <1>1, <1>2, <1>3 DEF Kind

LEMMA ViewIsOK ==
    ASSUME FsOK
    PROVE  ViewOK(View)
<1>1. DOMAIN View = Visible /\ \A p \in Visible : View[p] = disk[link[p]]
  BY DEF View
<1> SUFFICES ASSUME NEW p \in Visible, p # Root
             PROVE  p \in Paths \ Excluded /\ Parent[p] \in Visible /\ disk[link[Parent[p]]].kind = "directory"
  BY <1>1 DEF ViewOK
<1>2. p \in Paths /\ p \notin Excluded /\ Ancestors[p] \cap Excluded = {}
  BY DEF FsOK, AllPaths, Visible
<1>3. Parent[p] \in DOMAIN link /\ Kind(Parent[p]) = "directory"
  BY DEF FsOK, Visible
<1> QED BY <1>2, <1>3, AncestorsOf DEF Visible, Kind

\* What leaving a directory does to the lists.
LEMMA LeavingLists ==
    ASSUME Inv, LeaveDirectory, NEW n, n = Len(stack), NEW m, m = Len(visited) + 1
    PROVE  /\ WalkInv /\ TypeOK /\ FsOK /\ stack # <<>>
           /\ Top \in Frames /\ stack \in Seq(Frames) /\ DOMAIN stack = 1..n /\ n \in Nat \ {0}
           /\ stack[n] = Top /\ n \in DOMAIN stack
           /\ Chain \in Seq(DirectoryProofs) /\ Chain # <<>> /\ Last(Chain) = Top.proof
           /\ DOMAIN stack' = 1..(n - 1) /\ Len(stack') = n - 1 /\ \A i \in 1..(n - 1) : stack'[i] = stack[i]
           /\ n > 1 => stack' # <<>>
           /\ DOMAIN visited = 1..(m - 1) /\ m \in Nat \ {0} /\ DOMAIN visited' = 1..m /\ m \in DOMAIN visited'
           /\ \A i \in DOMAIN visited : visited'[i] = visited[i]
           /\ visited'[m] = [chain |-> Chain, entries |-> Top.entries]
           /\ visited' # <<>>
           /\ \A i \in DOMAIN visited : ProofAt(i)' = ProofAt(i)
           /\ ProofAt(m)' = Top.proof /\ (visited[m].entries)' = Top.entries /\ (visited[m].chain)' = Chain
           /\ DOMAIN visited' = DOMAIN visited \cup {m}
<1>1. /\ pc = "leave" /\ visited' = Append(visited, [chain |-> Chain, entries |-> Top.entries])
      /\ stack' = Front(stack)
  BY DEF LeaveDirectory, Now
<1>2. WalkInv /\ TypeOK /\ FsOK /\ stack # <<>>
  BY <1>1 DEF Inv, WalkInv, Walking, TypeOK
<1>3. /\ Top \in Frames /\ stack \in Seq(Frames) /\ DOMAIN stack = 1..n /\ n \in Nat \ {0}
      /\ stack[n] = Top /\ n \in DOMAIN stack
  BY <1>2, TopFrame
<1>4. /\ Chain \in Seq(DirectoryProofs) /\ Chain # <<>> /\ Last(Chain) = Top.proof
  <2>1. Chain \in Seq(DirectoryProofs) /\ DOMAIN Chain = 1..n /\ Chain[n] = Top.proof
    BY <1>2, <1>3, OnStack DEF Chain
  <2>2. Len(Chain) = n
    BY <1>3, <2>1, LenProperties
  <2> QED BY <1>3, <2>1, <2>2 DEF Last
<1>5. /\ DOMAIN stack' = 1..(n - 1) /\ Len(stack') = n - 1 /\ \A i \in 1..(n - 1) : stack'[i] = stack[i]
      /\ n > 1 => stack' # <<>>
  <2>1. \A i \in 1..(n - 1) : stack[i] \in Frames
    BY <1>3, ElementOfSeq
  <2>2. /\ stack' \in Seq(Frames) /\ Len(stack') = n - 1
        /\ \A i \in 1..(n - 1) : stack'[i] = stack[i]
    BY <1>1, <1>3, <2>1, SubSeqProperties DEF Front
  <2>3. DOMAIN stack' = 1..(n - 1)
    BY <2>2, LenProperties
  <2> QED BY <1>3, <2>2, <2>3
<1>6. /\ DOMAIN visited = 1..(m - 1) /\ m \in Nat \ {0} /\ DOMAIN visited' = 1..m /\ m \in DOMAIN visited'
      /\ \A i \in DOMAIN visited : visited'[i] = visited[i]
      /\ visited'[m] = [chain |-> Chain, entries |-> Top.entries]
      /\ visited' # <<>>
  <2>1. visited \in Seq(Visits)
    BY <1>2 DEF TypeOK, ScanTypeOK
  <2>2. [chain |-> Chain, entries |-> Top.entries] \in Visits
    BY <1>3, <1>4 DEF Visits, Frames
  <2>3. /\ visited' \in Seq(Visits) /\ visited' # <<>> /\ Len(visited') = m
        /\ \A i \in 1..Len(visited) : visited'[i] = visited[i]
        /\ visited'[m] = [chain |-> Chain, entries |-> Top.entries]
    BY <1>1, <2>1, <2>2, AppendProperties
  <2> QED BY <2>1, <2>3, LenProperties
<1>7. /\ \A i \in DOMAIN visited : ProofAt(i)' = ProofAt(i)
      /\ ProofAt(m)' = Top.proof /\ (visited[m].entries)' = Top.entries /\ (visited[m].chain)' = Chain
      /\ DOMAIN visited' = DOMAIN visited \cup {m}
  BY <1>4, <1>6 DEF ProofAt
<1> QED BY <1>2, <1>3, <1>4, <1>5, <1>6, <1>7

LEMMA LeaveDirectoryStep == ASSUME Inv, LeaveDirectory, UNCHANGED fsVars PROVE Inv'
<1>0. Next
  BY DEF Next, Scan, Walk
<1> DEFINE n == Len(stack)
           m == Len(visited) + 1
           old == StackPaths \cup VisitedPaths
           more == (StackPaths \cup VisitedPaths)'
<1>1. /\ pc = "leave" /\ visited' = Append(visited, [chain |-> Chain, entries |-> Top.entries])
      /\ stack' = Front(stack)
      /\ UNCHANGED <<checks, entry, seen, found, fileVars, rows, relisted>>
      /\ IF n > 1 THEN pc' = "next" /\ UNCHANGED walked ELSE pc' = "files" /\ walked' = View
  BY DEF LeaveDirectory, Now
<1>2. WalkInv /\ TypeOK /\ FsOK /\ stack # <<>>
  BY LeavingLists
<1>3. /\ Top \in Frames /\ stack \in Seq(Frames) /\ DOMAIN stack = 1..n /\ n \in Nat \ {0}
      /\ stack[n] = Top /\ n \in DOMAIN stack
  BY LeavingLists
<1>4. /\ Chain \in Seq(DirectoryProofs) /\ Chain # <<>> /\ Last(Chain) = Top.proof
  BY LeavingLists
<1>5. /\ DOMAIN stack' = 1..(n - 1) /\ Len(stack') = n - 1 /\ \A i \in 1..(n - 1) : stack'[i] = stack[i]
      /\ n > 1 => stack' # <<>>
  BY LeavingLists
<1>6. /\ DOMAIN visited = 1..(m - 1) /\ m \in Nat \ {0} /\ DOMAIN visited' = 1..m /\ m \in DOMAIN visited'
      /\ \A i \in DOMAIN visited : visited'[i] = visited[i]
      /\ visited'[m] = [chain |-> Chain, entries |-> Top.entries]
      /\ visited' # <<>>
  BY LeavingLists
<1>7. PICK k : k = m
  OBVIOUS
<1>8. /\ \A i \in DOMAIN visited : ProofAt(i)' = ProofAt(i)
      /\ ProofAt(k)' = Top.proof /\ (visited[k].entries)' = Top.entries /\ (visited[k].chain)' = Chain
      /\ DOMAIN visited' = DOMAIN visited \cup {k}
  BY <1>7, LeavingLists
<1>9. link' = link /\ rows' = rows /\ InHand' = found /\ InHand = found /\ found' = found
  BY <1>1 DEF fsVars, InHand, Reading
<1>10. PICK D1 : D1 = old
  OBVIOUS
<1>11. /\ Top.proof.path = Top.path /\ Recorded(Top.proof)
       /\ \A e \in Top.entries : Past(e.identity) /\ e.name \in seen
       /\ Holds(Top.proof) => Told(Scanned(Top.path), Top.entries, D1)
  <2>1. FrameInv(n, D1) /\ Pending(n) = {}
    BY <1>1, <1>2, <1>3, <1>10 DEF Pending, WalkInv
  <2>2. /\ Top.proof.path = Top.path /\ Recorded(Top.proof)
        /\ \A e \in Top.entries : Past(e.identity) /\ e.name \in seen
        /\ Holds(Top.proof) =>
              /\ Top.returned = ChildrenOf(Top.path)
              /\ Told(Top.returned \ (Excluded \cup {}), Top.entries, D1)
    BY <1>1, <1>3, <2>1 DEF FrameInv
  <2>3. Top.returned = ChildrenOf(Top.path) => Top.returned \ (Excluded \cup {}) = Scanned(Top.path)
    BY DEF Scanned
  <2> QED BY <2>2, <2>3
<1>12. D1 = more
  <2>1. StackPaths = StackPaths' \cup {Top.path}
    BY <1>3, <1>5 DEF StackPaths
  <2>2. VisitedPaths' = VisitedPaths \cup {Top.path}
    BY <1>8, <1>11 DEF VisitedPaths
  <2> QED BY <1>10, <2>1, <2>2
<1>13. \A i \in DOMAIN visited' : VisitInv(i, D1)'
  <2> SUFFICES ASSUME NEW i \in DOMAIN visited' PROVE VisitInv(i, D1)'
    OBVIOUS
  <2>1. CASE i \in DOMAIN visited
    <3>1. VisitInv(i, D1)
      BY <1>2, <1>10, <2>1 DEF WalkInv
    <3> QED BY <1>6, <1>9, <2>1, <3>1, VisitGrows
  <2>2. CASE i = k
    <3>1. PICK paths, entries, proof : paths = Scanned(Top.path) /\ entries = Top.entries /\ proof = Top.proof
      OBVIOUS
    <3>2. Told(paths, entries, D1) => Told(paths, entries, D1)'
      BY <1>9, ToldGrows
    <3>3. Told(Scanned(ProofAt(i).path), visited[i].entries, D1)' = Told(paths, entries, D1)'
      <4>1. Scanned(ProofAt(i).path)' = paths /\ (visited[i].entries)' = entries
        BY <1>8, <1>11, <2>2, <3>1, SameTree
      <4> QED BY <4>1
    <3>4. /\ Holds(ProofAt(i))' = Holds(Top.proof) /\ Recorded(ProofAt(i))' = Recorded(Top.proof)
          /\ \A e : Past(e.identity)' = Past(e.identity)
      BY <1>8, <2>2, SameTree
    <3> QED BY <1>4, <1>8, <1>11, <2>2, <3>1, <3>2, <3>3, <3>4 DEF VisitInv
  <2> QED BY <1>8, <2>1, <2>2
<1>14. \A i \in DOMAIN visited' : \A e \in visited'[i].entries : e.name \in seen
  BY <1>2, <1>6, <1>8, <1>11 DEF WalkInv
<1>15. \A f \in found :
          /\ Name[f.path] \in seen
          /\ \A i \in DOMAIN stack :
                /\ stack[i].path = Parent[f.path] /\ Holds(stack[i].proof) =>
                      f.path \in DOMAIN link /\ Kind(f.path) = "file"
                /\ \A e \in stack[i].entries : e.name = Name[f.path] => e.identity = f.identity
  BY <1>2 DEF WalkInv
<1>16. FileInv(D1)'
  <2>1. FileInv(D1) /\ DOMAIN rows = {}
    BY <1>2, <1>10 DEF WalkInv
  <2>2. \A f \in found : Past(f.identity)' /\
           \A i \in DOMAIN visited' : \A e \in visited'[i].entries : e.name = Name[f.path] => e.identity = f.identity
    BY <1>3, <1>6, <1>8, <1>9, <1>15, <2>1, SameTree DEF FileInv
  <2>3. \A i \in DOMAIN visited' : Holds(ProofAt(i))' = IF i = k THEN Holds(Top.proof) ELSE Holds(ProofAt(i))
    BY <1>8, SameTree
  <2>4. \A q \in {f.path : f \in found} :
           /\ q \in Paths \ Excluded /\ Parent[q] \in D1
           /\ \A i \in DOMAIN visited' : ProofAt(i)'.path = Parent[q] /\ Holds(ProofAt(i))' =>
                 q \in DOMAIN link /\ Kind(q) = "file"
    BY <1>3, <1>8, <1>9, <1>11, <1>15, <2>1, <2>3 DEF FileInv
  <2> QED BY <1>9, <2>1, <2>2, <2>4, SameTree DEF FileInv
<1>17. CASE n > 1
  <2>1. \A i \in DOMAIN stack' : FrameInv(i, D1)'
    <3> SUFFICES ASSUME NEW i \in DOMAIN stack' PROVE FrameInv(i, D1)'
      OBVIOUS
    <3>1. i \in DOMAIN stack /\ stack'[i] = stack[i] /\ FrameInv(i, D1)
      <4>1. i \in 1..(n - 1) /\ i \in DOMAIN stack
        BY <1>3, <1>5
      <4> QED BY <1>2, <1>5, <1>10, <4>1 DEF WalkInv
    <3>2. Pending(i) = {} /\ Pending(i)' = {} /\ pc # "scandir" /\ pc' # "leave"
      BY <1>1, <1>17 DEF Pending
    <3> QED BY <1>1, <1>9, <3>1, <3>2, FrameGrows
  <2>2. \A i \in DOMAIN stack' : stack'[i] = stack[i] /\ i \in DOMAIN stack
    BY <1>3, <1>5
  <2>3. \A i \in DOMAIN stack' : Holds(stack[i].proof)' = Holds(stack[i].proof)
    BY <2>2, SameTree
  <2>4. \A f \in found' :
          /\ Name[f.path] \in seen'
          /\ \A i \in DOMAIN stack' :
                /\ stack'[i].path = Parent[f.path] /\ Holds(stack[i].proof)' =>
                      f.path \in DOMAIN link' /\ Kind(f.path)' = "file"
                /\ \A e \in stack'[i].entries : e.name = Name[f.path] => e.identity = f.identity
    BY <1>1, <1>9, <1>15, <2>2, <2>3, SameTree
  <2>5. Root \in D1 /\ DOMAIN rows' = {} /\ \A d \in D1 : d # Root => d \in Paths /\ Name[d] \in seen'
    BY <1>1, <1>2, <1>9, <1>10 DEF WalkInv
  <2>6. WalkInv'
    BY <1>1, <1>5, <1>12, <1>13, <1>14, <1>16, <1>17, <2>1, <2>4, <2>5 DEF WalkInv
  <2> QED BY <1>0, <1>1, <1>17, <2>6, StillWalking DEF Walking
<1>18. CASE n = 1
  <2>1. pc' = "files" /\ walked' = View
    BY <1>1, <1>18
  <2>2. D1 = VisitedPaths'
    <3>1. DOMAIN stack' = {}
      BY <1>5, <1>18
    <3> QED BY <1>12, <3>1 DEF StackPaths
  <2>3. Shows(walked)'
    <3> SUFFICES ASSUME NEW i \in DOMAIN visited', Holds(ProofAt(i))'
                 PROVE  LET d == ProofAt(i)'.path IN
                        /\ d \in DOMAIN walked' /\ walked'[d] = disk'[link'[d]]
                        /\ \A p \in ScopeOf(d) :
                              /\ p \in DOMAIN walked' <=> p \in DOMAIN link'
                              /\ p \in DOMAIN link' => walked'[p] = disk'[link'[p]] /\ walked'[p].kind = Kind(p)'
      BY DEF Shows
    <3>1. PICK proof : proof = ProofAt(i)'
      OBVIOUS
    <3>2. Recorded(proof) /\ Holds(proof)
      <4>1. Recorded(ProofAt(i))'
        BY <1>13 DEF VisitInv
      <4> QED BY <3>1, <4>1, SameTree
    <3>3. disk' = disk
      BY DEF fsVars
    <3> QED BY <1>2, <1>9, <2>1, <3>1, <3>2, <3>3, SameTree, ViewShows
  <2>4. ViewOK(walked)'
    <3>1. PICK view : view = View
      OBVIOUS
    <3>2. ViewOK(view)
      BY <1>2, <3>1, ViewIsOK
    <3> QED BY <2>1, <3>1, <3>2 DEF ViewOK
  <2>5. FilesInv'
    <3>1. Root \in D1
      BY <1>2, <1>10 DEF WalkInv
    <3> QED BY <1>6, <1>13, <1>16, <2>2, <2>3, <2>4, <3>1 DEF FilesInv, ListedInv
  <2>6. DataInv'
    BY <2>1 DEF DataInv
  <2> QED BY <1>0, <2>1, <2>5, <2>6, TypesStep DEF Inv, Walking, Reading, Relisting, AcceptedIsSnapshot
<1> QED BY <1>3, <1>17, <1>18

-----------------------------------------------------------------------------
(* The files *)

LEMMA StillReading ==
    ASSUME Inv, Next, pc' \in {"files"} \cup Reading, FilesInv', DataInv'
    PROVE  Inv'
<1> QED BY TypesStep DEF Inv, Walking, Reading, Relisting, AcceptedIsSnapshot

LEMMA SameFiles ==
    ASSUME Inv, pc \in {"files"} \cup Reading, UNCHANGED fsVars,
           UNCHANGED <<visited, rows, walked>>, InHand' = InHand
    PROVE  FilesInv'
<1>1. FilesInv' = FilesInv
  BY SameRecords DEF FilesInv, ListedInv, ViewOK
<1> QED BY <1>1 DEF Inv

LEMMA BeginFileStep == ASSUME Inv, BeginFile, UNCHANGED fsVars PROVE Inv'
<1>0. Next
  BY DEF Next, Scan, ReadFiles
<1>1. /\ pc = "files" /\ pc' = "open" /\ UNCHANGED <<visited, rows, walked>>
      /\ \E f \in found : file' = f /\ found' = found \ {f}
  BY DEF BeginFile, Now, history
<1>2. InHand' = InHand
  BY <1>1 DEF InHand, Reading
<1>3. DataInv'
  BY <1>1 DEF DataInv
<1> QED BY <1>0, <1>1, <1>2, <1>3, SameFiles, StillReading DEF Reading

LEMMA OpenFileStep == ASSUME Inv, OpenFile, UNCHANGED fsVars PROVE Inv'
<1>0. Next
  BY DEF Next, Scan, ReadFiles
<1> SUFFICES ASSUME ~Reject PROVE Inv'
  BY <1>0, RejectStep
<1>1. pc = "open" /\ pc' = "fstat" /\ UNCHANGED <<visited, rows, walked, file, found>>
  BY DEF OpenFile, Now, history
<1>2. InHand' = InHand
  BY <1>1 DEF InHand, Reading
<1>3. DataInv'
  BY <1>1 DEF DataInv
<1> QED BY <1>0, <1>1, <1>2, <1>3, SameFiles, StillReading DEF Reading

LEMMA FstatOpenedStep == ASSUME Inv, FstatOpened, UNCHANGED fsVars PROVE Inv'
<1>0. Next
  BY DEF Next, Scan, ReadFiles
<1> SUFFICES ASSUME ~Reject PROVE Inv'
  BY <1>0, RejectStep
<1>1. /\ pc = "fstat" /\ pc' = "read" /\ data' = <<>> /\ InodeIdentity(fd) = file.identity
      /\ UNCHANGED <<visited, rows, walked, file, found, fd>>
  BY DEF FstatOpened, Now, history
<1>2. InHand' = InHand
  BY <1>1 DEF InHand, Reading
<1>3. fd = file.identity.inode
  BY <1>1 DEF InodeIdentity
<1>4. Inode(fd).content \in Seq(Nat)
  BY InodeTypes DEF Inv, TypeOK, ScanTypeOK, Files
<1>5. Len(data') <= Len(Inode(fd).content) /\ DOMAIN data' = {}
  BY <1>1, <1>4, EmptySeq, LenProperties
<1>6. DataInv'
  BY <1>1, <1>3, <1>5, SameTree DEF DataInv
<1> QED BY <1>0, <1>1, <1>2, <1>6, SameFiles, StillReading DEF Reading

LEMMA ReadChunkStep == ASSUME Inv, ReadChunk, UNCHANGED fsVars PROVE Inv'
<1>0. Next
  BY DEF Next, Scan, ReadFiles
<1> DEFINE c == Inode(fd).content
<1>1. /\ pc = "read" /\ UNCHANGED <<visited, rows, walked, file, found, fd>>
      /\ \/ Len(data) < Len(c) /\ data' = Append(data, c[Len(data) + 1]) /\ pc' = "read"
         \/ Len(data) >= Len(c) /\ data' = data /\ pc' = "fstat_again"
  <2>1. Len(data) \in Nat /\ Len(c) \in Nat
    BY InodeTypes, LenProperties DEF Inv, TypeOK, ScanTypeOK, Files
  <2> QED BY <2>1 DEF ReadChunk, Now, history
<1>2. InHand' = InHand
  BY <1>1 DEF InHand, Reading
<1>3. fd = file.identity.inode /\ DataInv
  BY <1>1 DEF DataInv, Inv, Reading
<1>4. c \in Seq(Nat) /\ data \in Seq(Nat)
  BY InodeTypes DEF Inv, TypeOK, ScanTypeOK, Files
<1>5. DOMAIN data = 1..Len(data) /\ Len(data) \in Nat /\ Len(c) \in Nat /\ DOMAIN c = 1..Len(c)
  BY <1>4, LenProperties
<1>6. InodeIdentity(fd) = file.identity =>
         Len(data) <= Len(c) /\ \A k \in DOMAIN data : data[k] = c[k]
  BY <1>1, <1>3 DEF DataInv
<1>7. CASE Len(data) < Len(c) /\ data' = Append(data, c[Len(data) + 1]) /\ pc' = "read"
  <2>1. c[Len(data) + 1] \in Nat
    BY <1>4, <1>5, <1>7, ElementOfSeq
  <2>2. /\ data' \in Seq(Nat) /\ Len(data') = Len(data) + 1 /\ data'[Len(data) + 1] = c[Len(data) + 1]
        /\ \A k \in 1..Len(data) : data'[k] = data[k]
    BY <1>4, <1>7, <2>1, AppendProperties
  <2>3. DOMAIN data' = 1..(Len(data) + 1)
    BY <2>2, LenProperties
  <2>4. InodeIdentity(fd) = file.identity =>
           Len(data') <= Len(c) /\ \A k \in DOMAIN data' : data'[k] = c[k]
    BY <1>5, <1>6, <1>7, <2>2, <2>3
  <2>5. DataInv'
    BY <1>1, <1>3, <1>7, <2>4, SameTree DEF DataInv
  <2> QED BY <1>0, <1>1, <1>2, <2>5, SameFiles, StillReading DEF Reading
<1>8. CASE Len(data) >= Len(c) /\ data' = data /\ pc' = "fstat_again"
  <2>1. InodeIdentity(fd) = file.identity => data = c
    <3> SUFFICES ASSUME InodeIdentity(fd) = file.identity PROVE data = c
      OBVIOUS
    <3>1. Len(data) = Len(c) /\ \A k \in 1..Len(data) : data[k] = c[k]
      BY <1>5, <1>6, <1>8
    <3> HIDE DEF c
    <3> QED BY <1>4, <3>1, SeqEqual
  <2>2. DataInv'
    BY <1>1, <1>3, <1>8, <2>1, SameTree DEF DataInv
  <2> QED BY <1>0, <1>1, <1>2, <1>8, <2>2, SameFiles, StillReading DEF Reading
<1> QED BY <1>1, <1>7, <1>8

LEMMA FstatAgainStep == ASSUME Inv, FstatAgain, UNCHANGED fsVars PROVE Inv'
<1>0. Next
  BY DEF Next, Scan, ReadFiles
<1>1. pc = "fstat_again" /\ pc' = "lstat_again" /\ UNCHANGED <<visited, rows, walked, file, found, fd, data>>
  BY DEF FstatAgain, Now, history
<1>2. InHand' = InHand
  BY <1>1 DEF InHand, Reading
<1>3. DataInv'
  BY <1>1, SameTree DEF DataInv, Inv, Reading
<1> QED BY <1>0, <1>1, <1>2, <1>3, SameFiles, StillReading DEF Reading

LEMMA LstatAgainStep == ASSUME Inv, LstatAgain, UNCHANGED fsVars PROVE Inv'
<1>0. Next
  BY DEF Next, Scan, ReadFiles
<1> SUFFICES ASSUME ~Reject PROVE Inv'
  BY <1>0, RejectStep
<1>1. pc = "lstat_again" /\ pc' = "row" /\ UNCHANGED <<visited, rows, walked, file, found, fd, data>>
  BY DEF LstatAgain, Now, history, fileVars
<1>2. InHand' = InHand
  BY <1>1 DEF InHand, Reading
<1>3. DataInv'
  BY <1>1, SameTree DEF DataInv, Inv, Reading
<1> QED BY <1>0, <1>1, <1>2, <1>3, SameFiles, StillReading DEF Reading

LEMMA MakeRowStep == ASSUME Inv, MakeRow, UNCHANGED fsVars PROVE Inv'
<1>0. Next
  BY DEF Next, Scan, ReadFiles
<1> SUFFICES ASSUME ~Reject PROVE Inv'
  BY <1>0, RejectStep
<1>1. /\ pc = "row" /\ pc' = "files" /\ UNCHANGED <<visited, walked, file, found, data>>
      /\ rows' = [p \in DOMAIN rows \cup {file.path} |-> IF p = file.path THEN data ELSE rows[p]]
  BY DEF MakeRow, Now, history
<1>2. InHand = found \cup {file} /\ InHand' = found
  BY <1>1 DEF InHand, Reading
<1>3. FilesInv /\ DataInv
  BY <1>1 DEF Inv, Reading
<1>4. PICK D : D = VisitedPaths
  OBVIOUS
<1>5. ListedInv(D) /\ FileInv(D)
  BY <1>3, <1>4 DEF FilesInv, ListedInv
<1>6. link' = link /\ VisitedPaths' = VisitedPaths /\ \A i : ProofAt(i)' = ProofAt(i)
  BY <1>1 DEF fsVars, VisitedPaths, ProofAt
<1>7. InodeIdentity(file.identity.inode) = file.identity => data = Inode(file.identity.inode).content
  BY <1>1, <1>3 DEF DataInv
<1>8. \A p, identity : Tracked(p, identity) /\ (p = file.path => identity = file.identity) => Tracked(p, identity)'
  <2> SUFFICES ASSUME NEW p, NEW identity, Tracked(p, identity), p = file.path => identity = file.identity
               PROVE  Tracked(p, identity)'
    OBVIOUS
  <2>1. CASE p = file.path
    <3>1. p \in DOMAIN rows' /\ rows'[p] = data
      BY <1>1, <2>1
    <3>2. InodeIdentity(identity.inode)' = InodeIdentity(identity.inode) /\ Inode(identity.inode)' = Inode(identity.inode)
      BY SameTree
    <3> QED BY <1>7, <2>1, <3>1, <3>2 DEF Tracked
  <2>2. CASE p # file.path
    <3>1. \A f \in InHand : f.path = p => f \in InHand'
      BY <1>2, <2>2
    <3>2. p \in DOMAIN rows => p \in DOMAIN rows' /\ rows'[p] = rows[p]
      BY <1>1, <2>2
    <3> QED BY <3>1, <3>2, SameTree DEF Tracked
  <2> QED BY <2>1, <2>2
<1>9. \A i \in DOMAIN visited : VisitInv(i, D)'
  <2> SUFFICES ASSUME NEW i \in DOMAIN visited PROVE VisitInv(i, D)'
    OBVIOUS
  <2>1. VisitInv(i, D)
    BY <1>5 DEF ListedInv
  <2>2. PICK paths, entries : paths = Scanned(ProofAt(i).path) /\ entries = visited[i].entries
    OBVIOUS
  <2>3. \A e \in entries : e.name = Name[file.path] => e.identity = file.identity
    BY <1>2, <1>5, <2>2 DEF FileInv
  <2>4. Told(paths, entries, D) => Told(paths, entries, D)'
    BY <1>6, <1>8, <2>3, SameTree DEF Told
  <2>5. Told(Scanned(ProofAt(i).path), visited[i].entries, D)' = Told(paths, entries, D)'
    <3>1. Scanned(ProofAt(i).path)' = paths /\ (visited[i].entries)' = entries
      BY <1>1, <1>6, <2>2, SameTree
    <3> QED BY <3>1
  <2>6. /\ Holds(ProofAt(i))' = Holds(ProofAt(i)) /\ Recorded(ProofAt(i))' = Recorded(ProofAt(i))
        /\ \A e : Past(e.identity)' = Past(e.identity)
    BY <1>6, SameTree
  <2> QED BY <1>1, <2>1, <2>2, <2>4, <2>5, <2>6 DEF VisitInv
<1>10. FileInv(D)'
  <2>1. {f.path : f \in InHand'} \cup DOMAIN rows' \subseteq {f.path : f \in InHand} \cup DOMAIN rows
    BY <1>1, <1>2
  <2>2. \A i : Holds(ProofAt(i))' = Holds(ProofAt(i))
    BY <1>6, SameTree
  <2> QED BY <1>1, <1>2, <1>5, <1>6, <2>1, <2>2, SameTree DEF FileInv
<1>11. Shows(walked)' /\ ViewOK(walked)'
  <2>1. \A i : Holds(ProofAt(i))' = Holds(ProofAt(i))
    BY <1>6, SameTree
  <2>2. disk' = disk
    BY DEF fsVars
  <2> QED BY <1>1, <1>5, <1>6, <2>1, <2>2, SameTree DEF ListedInv, Shows, ViewOK
<1>12. FilesInv'
  BY <1>1, <1>3, <1>4, <1>5, <1>6, <1>9, <1>10, <1>11 DEF FilesInv, ListedInv
<1>13. DataInv'
  BY <1>1 DEF DataInv
<1> QED BY <1>0, <1>1, <1>12, <1>13, StillReading

-----------------------------------------------------------------------------
(* The second listing *)

LEMMA StillListing ==
    ASSUME Inv, Next, pc' \in Relisting, AgainInv'
    PROVE  Inv'
<1> QED BY TypesStep DEF Inv, Walking, Reading, Relisting, AcceptedIsSnapshot

LEMMA VisitedTypes ==
    ASSUME Inv, pc \in {"files"} \cup Relisting
    PROVE  /\ visited \in Seq(Visits) /\ visited # <<>> /\ 1 \in DOMAIN visited /\ Head(visited) = visited[1]
           /\ Last(Head(visited).chain) = ProofAt(1)
           /\ VisitedPaths \subseteq AllPaths
<1>1. visited \in Seq(Visits) /\ visited # <<>>
  BY DEF Inv, TypeOK, ScanTypeOK, FilesInv, AgainInv, Relisting
<1>2. 1 \in DOMAIN visited /\ Head(visited) = visited[1]
  BY <1>1, OnLists
<1>3. \A i \in DOMAIN visited : ProofAt(i).path \in AllPaths
  <2>1. \E directories : ListedInv(directories)
    BY DEF Inv, FilesInv, AgainInv, Relisting
  <2>2. \A i \in DOMAIN visited : visited[i].chain # <<>>
    BY <2>1 DEF ListedInv, VisitInv
  <2> QED BY <2>2, VisitTypes DEF Inv, DirectoryProofs
<1> QED BY <1>1, <1>2, <1>3 DEF ProofAt, VisitedPaths

LEMMA EndOfFilesStep == ASSUME Inv, EndOfFiles, UNCHANGED fsVars PROVE Inv'
<1>0. Next
  BY DEF Next, Scan, ListAgain
<1>1. /\ pc = "files" /\ pc' = "rescan" /\ found = {} /\ relisted' = View
      /\ UNCHANGED <<visited, rows, walked, file, found>>
  BY DEF EndOfFiles, Now, fileVars
<1>2. InHand' = InHand /\ InHand = {}
  BY <1>1 DEF InHand, Reading
<1>3. FilesInv /\ FsOK
  BY <1>1 DEF Inv, TypeOK
<1>4. PICK D : D = VisitedPaths
  OBVIOUS
<1>5. ListedInv(D) /\ D \in SUBSET AllPaths /\ visited # <<>>
  BY <1>1, <1>3, <1>4, VisitedTypes DEF FilesInv
<1>6. ListedInv(D)' /\ VisitedPaths' = D
  BY <1>1, <1>2, <1>4, <1>5, SameRecords DEF ListedInv, ViewOK
<1>7. Shows(relisted)'
  <2> SUFFICES ASSUME NEW i \in DOMAIN visited', Holds(ProofAt(i))'
               PROVE  LET d == ProofAt(i)'.path IN
                      /\ d \in DOMAIN relisted' /\ relisted'[d] = disk'[link'[d]]
                      /\ \A p \in ScopeOf(d) :
                            /\ p \in DOMAIN relisted' <=> p \in DOMAIN link'
                            /\ p \in DOMAIN link' => relisted'[p] = disk'[link'[p]] /\ relisted'[p].kind = Kind(p)'
    BY DEF Shows
  <2>1. PICK proof : proof = ProofAt(i)'
    OBVIOUS
  <2>2. Recorded(proof) /\ Holds(proof)
    <3>1. Recorded(ProofAt(i))'
      BY <1>6 DEF ListedInv, VisitInv
    <3> QED BY <2>1, <3>1, SameTree
  <2>3. disk' = disk /\ link' = link
    BY DEF fsVars
  <2> QED BY <1>1, <1>3, <2>1, <2>2, <2>3, SameTree, ViewShows
<1>8. ViewOK(relisted)'
  <2>1. PICK view : view = View
    OBVIOUS
  <2>2. ViewOK(view)
    BY <1>3, <2>1, ViewIsOK
  <2> QED BY <1>1, <2>1, <2>2 DEF ViewOK
<1>9. AgainInv'
  BY <1>1, <1>5, <1>6, <1>7, <1>8 DEF AgainInv
<1> QED BY <1>0, <1>1, <1>9, StillListing DEF Relisting

\* A step of the second listing that takes no directory off the list.
LEMMA SameListing ==
    ASSUME Inv, pc \in Relisting, pc' \in Relisting \ {"rescan"}, UNCHANGED fsVars,
           UNCHANGED <<visited, rows, found, walked, relisted>>,
           pc' = "compare" => checks' # <<>> /\ Last(checks') = ProofAt(1),
           RelistInv'
    PROVE  AgainInv'
<1>1. InHand' = InHand
  BY DEF InHand, Reading, Relisting
<1>2. AgainInv
  BY DEF Inv
<1>3. PICK directories \in SUBSET AllPaths :
         /\ ListedInv(directories)
         /\ \A d \in directories : d \in VisitedPaths \/ Matched(d, directories)
  BY <1>2 DEF AgainInv
<1>4. ListedInv(directories)' /\ VisitedPaths' = VisitedPaths /\ Shows(relisted)' /\ ProofAt(1)' = ProofAt(1)
  BY <1>1, <1>2, <1>3, SameRecords DEF ListedInv, ViewOK, AgainInv
<1>5. \A d : Matched(d, directories)' = Matched(d, directories)
  BY DEF Matched, SameDirectory, Settled
<1>6. ViewOK(relisted)'
  BY <1>2 DEF AgainInv, ViewOK
<1> QED BY <1>2, <1>3, <1>4, <1>5, <1>6 DEF AgainInv

LEMMA RescanStep == ASSUME Inv, Rescan, UNCHANGED fsVars PROVE Inv'
<1>0. Next
  BY DEF Next, Scan, ListAgain
<1> SUFFICES ASSUME ~Reject PROVE Inv'
  BY <1>0, RejectStep
<1>1. /\ pc = "rescan" /\ pc' = "renext" /\ UNCHANGED <<visited, rows, found, walked, relisted>>
      /\ stack' = <<[path |-> Revisited, proof |-> Last(Head(visited).chain),
                     listed |-> Listing(Revisited), returned |-> {}, entries |-> {}]>>
  BY DEF Rescan, Now, history
<1>2. Revisited = ProofAt(1).path /\ 1 \in DOMAIN visited
  BY <1>1, VisitedTypes DEF Revisited, Relisting
<1>3. Len(stack') = 1 /\ stack'[1].path = ProofAt(1).path /\ stack'[1].listed = Listing(ProofAt(1).path)
      /\ stack'[1].returned = {}
  BY <1>1, <1>2
<1>4. \A q \in Listing(ProofAt(1).path) : Parent[q] = ProofAt(1).path
  BY DEF Listing, ChildrenOf
<1>5. Recorded(ProofAt(1))
  BY <1>1, <1>2 DEF Inv, AgainInv, ListedInv, VisitInv, Relisting
<1>6. Holds(ProofAt(1)) => Listing(ProofAt(1).path) = ChildrenOf(ProofAt(1).path)
  BY <1>5, HoldsIsDirectory DEF Inv
<1>7. ProofAt(1)' = ProofAt(1)
  BY <1>1 DEF ProofAt
<1>8. Holds(ProofAt(1))' = Holds(ProofAt(1)) /\ ChildrenOf(ProofAt(1).path)' = ChildrenOf(ProofAt(1).path)
  BY <1>7, SameTree
<1>9. RelistInv'
  BY <1>1, <1>3, <1>4, <1>6, <1>7, <1>8 DEF RelistInv
<1> QED BY <1>0, <1>1, <1>9, SameListing, StillListing DEF Relisting

LEMMA EndOfDirectoryAgainStep == ASSUME Inv, EndOfDirectoryAgain, UNCHANGED fsVars PROVE Inv'
<1>0. Next
  BY DEF Next, Scan, ListAgain
<1>1. /\ pc = "renext" /\ pc' = "compare" /\ checks' = Head(visited).chain /\ MustReturn(Top) = {}
      /\ UNCHANGED <<visited, rows, found, walked, relisted, stack>>
  BY DEF EndOfDirectoryAgain, Now, history, walkVars
<1>2. 1 \in DOMAIN visited /\ checks' # <<>> /\ Last(checks') = ProofAt(1)
  BY <1>1, VisitedTypes, InHandTypes DEF Relisting
<1>3. RelistInv /\ Shows(walked)
  BY <1>1 DEF Inv, AgainInv, ListedInv, Relisting
<1> DEFINE d == ProofAt(1).path
           again(p) == \E e \in stack[1].entries :
                          e.name = Name[p] /\ (e \in visited[1].entries => Settled(p))
<1>4. Top = stack[1]
  BY <1>3 DEF RelistInv, Top
<1>5. Holds(ProofAt(1)) => \A p \in ScopeOf(d) \cap DOMAIN walked : again(p)
  <2> SUFFICES ASSUME Holds(ProofAt(1)), NEW p \in ScopeOf(d) \cap DOMAIN walked PROVE again(p)
    OBVIOUS
  <2>1. /\ stack[1].path = d /\ stack[1].listed = ChildrenOf(d)
        /\ \A q \in stack[1].returned \ Excluded : again(q)
    BY <1>1, <1>3 DEF RelistInv
  <2>2. p \in DOMAIN link
    BY <1>2, <1>3 DEF Shows
  <2>3. p \in ChildrenOf(d) \ Excluded
    BY <2>2, TreeAssumption DEF ScopeOf, ChildrenOf
  <2>4. p \in stack[1].returned
    BY <1>1, <1>4, <2>1, <2>3 DEF MustReturn
  <2> QED BY <2>1, <2>3, <2>4
<1>6. ProofAt(1)' = ProofAt(1) /\ \A p : Settled(p)' = Settled(p)
  BY <1>1 DEF ProofAt, Settled
<1>7. Holds(ProofAt(1))' = Holds(ProofAt(1))
  BY <1>6, SameTree
<1>8. RelistInv'
  BY <1>1, <1>2, <1>3, <1>5, <1>6, <1>7 DEF RelistInv
<1> QED BY <1>0, <1>1, <1>2, <1>8, SameListing, StillListing DEF Relisting

\* An entry that is still the one the walk found: its row is right, and the two
\* views show the same.
LEMMA SeenAgain ==
    ASSUME Inv, pc \in Relisting, Holds(ProofAt(1)),
           NEW p \in Paths \ Excluded, Parent[p] = ProofAt(1).path, Plain(p),
           EntryProof(p) \in visited[1].entries
    PROVE  Settled(p)
<1>1. TypeOK /\ 1 \in DOMAIN visited
  BY VisitedTypes DEF Inv
<1>2. PICK D : ListedInv(D)
  BY DEF Inv, AgainInv
<1>3. /\ Recorded(ProofAt(1)) /\ Told(Scanned(ProofAt(1).path), visited[1].entries, D)
      /\ Shows(walked) /\ Shows(relisted) /\ InHand = {}
  BY <1>1, <1>2 DEF ListedInv, VisitInv, Inv, AgainInv, InHand, Reading, Relisting
<1>4. /\ p \in DOMAIN link /\ p \in ChildrenOf(ProofAt(1).path)
      /\ Identity(p) = InodeIdentity(link[p]) /\ Identity(p).kind = Kind(p)
  BY <1>1, <1>3, EntryInside DEF Plain
<1>5. link[p] \in Inodes /\ Inode(link[p]) = disk[link[p]]
  BY <1>1, <1>4, InodeTypes DEF TypeOK, FsOK
<1>6. PICK e \in visited[1].entries : e = EntryProof(p) /\ e.name = Name[p] /\ e.identity = InodeIdentity(link[p])
  BY <1>4 DEF EntryProof
<1>7. p \in DOMAIN walked /\ walked[p] = disk[link[p]] /\ p \in DOMAIN relisted /\ relisted[p] = disk[link[p]]
  BY <1>1, <1>3, <1>4, <1>6, TreeAssumption DEF Shows, ScopeOf
<1>8. /\ Kind(p) \in {"file", "directory"}
      /\ Kind(p) = "file" => Tracked(p, e.identity)
  BY <1>3, <1>4, <1>6 DEF Told, Scanned
<1>9. e.identity.inode = link[p]
  BY <1>6 DEF InodeIdentity
<1>10. Kind(p) = "file" => p \in DOMAIN rows /\ rows[p] = disk[link[p]].content
  BY <1>3, <1>5, <1>6, <1>8, <1>9 DEF Tracked
<1> QED BY <1>7, <1>8, <1>10 DEF Settled, Kind

LEMMA NextEntryAgainStep == ASSUME Inv, NextEntryAgain, UNCHANGED fsVars PROVE Inv'
<1>0. Next
  BY DEF Next, Scan, ListAgain
<1> SUFFICES ASSUME ~Reject PROVE Inv'
  BY <1>0, RejectStep
<1>1. PICK p \in MayReturn(Top) :
        LET frame == [Top EXCEPT !.returned = @ \cup {p}] IN
        \/ /\ p \in Excluded
           /\ stack' = WithTop(frame)
           /\ UNCHANGED <<pc, checks, entry, seen, found, visited, fileVars, rows, history>>
        \/ /\ p \notin Excluded /\ Name[p] \notin seen /\ Plain(p)
           /\ stack' = WithTop([frame EXCEPT !.entries = @ \cup {EntryProof(p)}])
           /\ UNCHANGED <<pc, checks, entry, found, visited, fileVars, rows, history>>
  BY DEF NextEntryAgain
<1>2. pc = "renext" /\ pc' = pc /\ UNCHANGED <<visited, rows, found, walked, relisted>>
  BY <1>1 DEF NextEntryAgain, Now, history
<1>3. RelistInv /\ TypeOK /\ FsOK /\ stack # <<>>
  BY <1>2, InHandTypes DEF Inv, AgainInv, Relisting, TypeOK
<1>4. Top = stack[1] /\ Top \in Frames /\ Len(stack) = 1 /\ DOMAIN stack = {1}
  BY <1>3, TopFrame DEF RelistInv, Top
<1>5. p \in Paths
  BY <1>3, <1>4, InPaths
<1> DEFINE d == ProofAt(1).path
           one == [Top EXCEPT !.returned = @ \cup {p}]
           two == [one EXCEPT !.entries = @ \cup {EntryProof(p)}]
<1>6. /\ one \in Frames /\ one.path = Top.path /\ one.listed = Top.listed
      /\ one.returned = Top.returned \cup {p} /\ one.entries = Top.entries
  BY <1>4, <1>5 DEF Frames
<1>7. Plain(p) => two \in Frames /\ two.path = Top.path /\ two.listed = Top.listed
                  /\ two.returned = Top.returned \cup {p} /\ two.entries = Top.entries \cup {EntryProof(p)}
  <2> SUFFICES ASSUME Plain(p)
               PROVE  two \in Frames /\ two.path = Top.path /\ two.listed = Top.listed
                      /\ two.returned = Top.returned \cup {p} /\ two.entries = Top.entries \cup {EntryProof(p)}
    OBVIOUS
  <2>1. EntryProof(p) \in EntryProofs
    BY <1>3, <1>5, EntryTypes
  <2> HIDE DEF one
  <2> QED BY <1>6, <2>1 DEF Frames
<1> HIDE DEF one, two
<1>8. /\ Len(stack') = 1 /\ stack'[1].path = Top.path /\ stack'[1].listed = Top.listed
      /\ stack'[1].returned = Top.returned \cup {p} /\ Top.entries \subseteq stack'[1].entries
      /\ p \notin Excluded => Plain(p) /\ EntryProof(p) \in stack'[1].entries
  <2>1. CASE p \in Excluded /\ stack' = WithTop(one)
    <3>1. Len(stack') = 1 /\ stack'[1] = one
      BY <1>3, <1>4, <1>6, <2>1, OnStack DEF TypeOK, ScanTypeOK
    <3> QED BY <1>6, <2>1, <3>1
  <2>2. CASE Plain(p) /\ p \notin Excluded /\ stack' = WithTop(two)
    <3>1. Len(stack') = 1 /\ stack'[1] = two
      BY <1>3, <1>4, <1>7, <2>2, OnStack DEF TypeOK, ScanTypeOK
    <3> QED BY <1>7, <2>2, <3>1
  <2> QED BY <1>1, <2>1, <2>2 DEF one, two
<1> DEFINE again(q, entries) == \E e \in entries : e.name = Name[q] /\ (e \in visited[1].entries => Settled(q))
<1>9. Parent[p] = d /\ Top.path = d /\ \A q \in Top.listed \cup Top.returned : Parent[q] = d
  BY <1>3, <1>4 DEF RelistInv, MayReturn, ChildrenOf
<1>10. Holds(ProofAt(1)) =>
          /\ Top.listed = ChildrenOf(d) /\ Top.returned \cup {p} \subseteq ChildrenOf(d)
          /\ \A q \in (Top.returned \cup {p}) \ Excluded : again(q, stack'[1].entries)
  <2> SUFFICES ASSUME Holds(ProofAt(1))
               PROVE  /\ Top.listed = ChildrenOf(d) /\ Top.returned \cup {p} \subseteq ChildrenOf(d)
                      /\ \A q \in (Top.returned \cup {p}) \ Excluded : again(q, stack'[1].entries)
    OBVIOUS
  <2>1. /\ Top.listed = ChildrenOf(d) /\ Top.returned \subseteq ChildrenOf(d)
        /\ \A q \in Top.returned \ Excluded : again(q, Top.entries)
    BY <1>2, <1>3, <1>4, <1>9 DEF RelistInv
  <2>2. p \in ChildrenOf(d)
    BY <1>9, <2>1 DEF MayReturn
  <2>3. p \notin Excluded => again(p, stack'[1].entries)
    <3> SUFFICES ASSUME p \notin Excluded PROVE again(p, stack'[1].entries)
      OBVIOUS
    <3>1. EntryProof(p) \in visited[1].entries => Settled(p)
      BY <1>2, <1>5, <1>8, <1>9, SeenAgain DEF Relisting
    <3>2. EntryProof(p).name = Name[p]
      BY DEF EntryProof
    <3> QED BY <1>8, <3>1, <3>2
  <2> QED BY <1>8, <2>1, <2>2, <2>3
<1>11. ProofAt(1)' = ProofAt(1) /\ \A q : Settled(q)' = Settled(q)
  BY <1>2 DEF ProofAt, Settled
<1>12. Holds(ProofAt(1))' = Holds(ProofAt(1)) /\ ChildrenOf(ProofAt(1).path)' = ChildrenOf(d)
  BY <1>11, SameTree
<1>13. RelistInv'
  BY <1>2, <1>8, <1>9, <1>10, <1>11, <1>12 DEF RelistInv
<1> QED BY <1>0, <1>2, <1>13, SameListing, StillListing DEF Relisting

\* When every directory matches, from the root down, so do the trees.
LEMMA MatchedTrees ==
    ASSUME TypeOK, NEW D, Root \in D, \A d \in D : Matched(d, D),
           ViewOK(walked), ViewOK(relisted), FileInv(D)
    PROVE  rows = FilesOf(walked) /\ relisted = walked
<1> DEFINE Same(p) == /\ p \in DOMAIN walked <=> p \in DOMAIN relisted
                      /\ p \in DOMAIN walked =>
                            /\ walked[p] = relisted[p]
                            /\ walked[p].kind \in {"file", "directory"}
                            /\ walked[p].kind = "directory" => p \in D
                            /\ walked[p].kind = "file" => p \in DOMAIN rows /\ rows[p] = walked[p].content
           S == {p \in AllPaths : Same(p)}
<1>1. Root \in S
  BY DEF Matched, SameDirectory, AllPaths
<1>2. \A p \in Paths : Parent[p] \in S => p \in S
  <2> SUFFICES ASSUME NEW p \in Paths, Same(Parent[p]) PROVE Same(p)
    BY DEF AllPaths
  <2>1. CASE p \notin DOMAIN walked /\ p \notin DOMAIN relisted
    BY <2>1
  <2>2. CASE p \in DOMAIN walked \/ p \in DOMAIN relisted
    <3>1. p # Root
      BY TreeAssumption
    <3>2. p \in Paths \ Excluded /\ Parent[p] \in DOMAIN walked /\ walked[Parent[p]].kind = "directory"
      BY <2>2, <3>1 DEF ViewOK
    <3>3. Parent[p] \in D /\ Matched(Parent[p], D)
      BY <3>2
    <3>4. p \in ScopeOf(Parent[p])
      BY <3>2 DEF ScopeOf
    <3>5. p \in DOMAIN walked <=> p \in DOMAIN relisted
      BY <3>3, <3>4 DEF Matched, SameDirectory
    <3>6. Settled(p)
      BY <2>2, <3>3, <3>4, <3>5 DEF Matched
    <3>7. walked[p].kind = "directory" => p \in D
      BY <2>2, <3>3, <3>4, <3>5 DEF Matched, SameDirectory
    <3> QED BY <3>5, <3>6, <3>7 DEF Settled
  <2> QED BY <2>1, <2>2
<1> HIDE DEF S
<1>3. \A p \in AllPaths : Same(p)
  BY <1>1, <1>2, TreeInduction DEF S
<1>4. /\ walked \in [DOMAIN walked -> Files] /\ DOMAIN walked \subseteq AllPaths
      /\ relisted \in [DOMAIN relisted -> Files] /\ DOMAIN relisted \subseteq AllPaths
      /\ rows \in [DOMAIN rows -> Seq(Nat)]
  BY DEF TypeOK, ScanTypeOK
<1>5. DOMAIN walked = DOMAIN relisted /\ \A p \in DOMAIN walked : walked[p] = relisted[p]
  BY <1>3, <1>4
<1>6. relisted = walked
  BY <1>4, <1>5
<1>7. \A p \in DOMAIN rows : p \in DOMAIN walked /\ walked[p].kind = "file"
  <2> SUFFICES ASSUME NEW p \in DOMAIN rows PROVE p \in DOMAIN walked /\ walked[p].kind = "file"
    OBVIOUS
  <2>1. p \in Paths \ Excluded /\ Parent[p] \in D
    BY DEF FileInv
  <2> QED BY <2>1 DEF Matched, SameDirectory, ScopeOf
<1>8. DOMAIN rows = {p \in DOMAIN walked : walked[p].kind = "file"}
  BY <1>3, <1>4, <1>7
<1>9. \A p \in DOMAIN rows : rows[p] = walked[p].content
  BY <1>3, <1>4, <1>8
<1>10. rows = FilesOf(walked)
  BY <1>4, <1>8, <1>9 DEF FilesOf
<1> QED BY <1>6, <1>10

LEMMA CompareEntriesStep == ASSUME Inv, CompareEntries, UNCHANGED fsVars PROVE Inv'
<1>0. Next
  BY DEF Next, Scan, ListAgain
<1> SUFFICES ASSUME ~Reject PROVE Inv'
  BY <1>0, RejectStep
<1>1. /\ pc = "compare" /\ checks = <<>> /\ Top.entries = Head(visited).entries /\ visited' = Tail(visited)
      /\ IF Len(visited) = 1 THEN pc' = "accepted" ELSE pc' = "rescan"
      /\ UNCHANGED <<rows, found, file, walked, relisted>>
  BY DEF CompareEntries, Now, history, fileVars
<1>2. /\ visited \in Seq(Visits) /\ 1 \in DOMAIN visited /\ Head(visited) = visited[1] /\ visited # <<>>
  BY <1>1, VisitedTypes DEF Relisting
<1>3. AgainInv /\ RelistInv /\ TypeOK
  BY <1>1 DEF Inv, AgainInv, Relisting
<1>4. PICK D \in SUBSET AllPaths :
         /\ ListedInv(D)
         /\ \A d \in D : d \in VisitedPaths \/ Matched(d, D)
         /\ SameDirectory(ProofAt(1).path, D)
  BY <1>1, <1>3 DEF AgainInv
<1>5. Top = stack[1]
  BY <1>3 DEF RelistInv, Top
<1>6. Matched(ProofAt(1).path, D)
  <2>1. \A p \in ScopeOf(ProofAt(1).path) \cap DOMAIN walked : Settled(p)
    BY <1>1, <1>2, <1>3, <1>5 DEF RelistInv
  <2> QED BY <1>4, <2>1 DEF Matched
<1>7. /\ DOMAIN visited = 1..Len(visited) /\ Len(visited) \in Nat \ {0}
      /\ DOMAIN visited' = 1..(Len(visited) - 1)
      /\ \A i \in 1..(Len(visited) - 1) : visited'[i] = visited[i + 1]
      /\ Len(visited) # 1 => visited' # <<>>
  <2>1. /\ Len(visited) \in Nat \ {0} /\ DOMAIN visited = 1..Len(visited)
    BY <1>2, EmptySeq, LenProperties
  <2>2. /\ visited' \in Seq(Visits) /\ Len(visited') = Len(visited) - 1
        /\ \A i \in 1..Len(visited') : visited'[i] = visited[i + 1]
    BY <1>1, <1>2, HeadTailProperties
  <2>3. DOMAIN visited' = 1..(Len(visited) - 1)
    BY <2>2, LenProperties
  <2>4. Len(visited) # 1 => visited' # <<>>
    BY <2>1, <2>2, EmptySeq
  <2> QED BY <2>1, <2>2, <2>3, <2>4
<1>8. CASE Len(visited) = 1
  <2>1. VisitedPaths = {ProofAt(1).path}
    BY <1>7, <1>8 DEF VisitedPaths
  <2>2. \A d \in D : Matched(d, D)
    BY <1>4, <1>6, <2>1
  <2>3. rows = FilesOf(walked) /\ relisted = walked
    BY <1>3, <1>4, <2>2, MatchedTrees DEF ListedInv, AgainInv
  <2>4. AcceptedIsSnapshot'
    BY <1>1, <2>3 DEF AcceptedIsSnapshot, FilesOf
  <2>5. pc' = "accepted"
    BY <1>1, <1>8
  <2> QED BY <1>0, <2>4, <2>5, TypesStep DEF Inv, Walking, Reading, Relisting
<1>9. CASE Len(visited) # 1
  <2>1. pc' = "rescan" /\ InHand' = {} /\ InHand = {} /\ rows' = rows
    BY <1>1, <1>3, <1>9 DEF InHand, Reading, AgainInv
  <2>2. link' = link /\ disk' = disk
    BY DEF fsVars
  <2>3. \A i \in DOMAIN visited' : /\ i + 1 \in DOMAIN visited /\ visited'[i] = visited[i + 1]
                                   /\ ProofAt(i)' = ProofAt(i + 1) /\ Holds(ProofAt(i))' = Holds(ProofAt(i + 1))
    <3> SUFFICES ASSUME NEW i \in DOMAIN visited'
                 PROVE  /\ i + 1 \in DOMAIN visited /\ visited'[i] = visited[i + 1]
                        /\ ProofAt(i)' = ProofAt(i + 1) /\ Holds(ProofAt(i))' = Holds(ProofAt(i + 1))
      OBVIOUS
    <3>1. i + 1 \in DOMAIN visited /\ visited'[i] = visited[i + 1]
      BY <1>7
    <3>2. ProofAt(i)' = ProofAt(i + 1)
      BY <3>1 DEF ProofAt
    <3> QED BY <3>1, <3>2, SameTree
  <2>4. \A i \in DOMAIN visited' : VisitInv(i, D)'
    <3> SUFFICES ASSUME NEW i \in DOMAIN visited' PROVE VisitInv(i, D)'
      OBVIOUS
    <3>1. VisitInv(i + 1, D)
      BY <1>4, <2>3 DEF ListedInv
    <3>2. PICK paths, entries : paths = Scanned(ProofAt(i + 1).path) /\ entries = visited[i + 1].entries
      OBVIOUS
    <3>3. Told(paths, entries, D) => Told(paths, entries, D)'
      BY <2>1, ToldGrows
    <3>4. Told(Scanned(ProofAt(i).path), visited[i].entries, D)' = Told(paths, entries, D)'
      <4>1. Scanned(ProofAt(i).path)' = paths /\ (visited[i].entries)' = entries
        BY <2>3, <3>2, SameTree
      <4> QED BY <4>1
    <3>5. Recorded(ProofAt(i))' = Recorded(ProofAt(i + 1)) /\ \A e : Past(e.identity)' = Past(e.identity)
      BY <2>3, SameTree
    <3> QED BY <2>3, <3>1, <3>2, <3>3, <3>4, <3>5 DEF VisitInv
  <2>5. FileInv(D)'
    BY <1>4, <2>1, <2>2, <2>3, SameTree DEF FileInv, ListedInv
  <2>6. Shows(walked)' /\ Shows(relisted)'
    BY <1>1, <1>3, <1>4, <2>2, <2>3, SameTree DEF Shows, ListedInv, AgainInv
  <2>7. ViewOK(walked)' /\ ViewOK(relisted)'
    BY <1>1, <1>3, <1>4 DEF ViewOK, ListedInv, AgainInv
  <2>8. \A d \in D : d \in VisitedPaths' \/ Matched(d, D)'
    <3> SUFFICES ASSUME NEW d \in D PROVE d \in VisitedPaths' \/ Matched(d, D)'
      OBVIOUS
    <3>1. Matched(d, D)' = Matched(d, D)
      BY <1>1 DEF Matched, SameDirectory, Settled
    <3>2. CASE d \in VisitedPaths /\ ~Matched(d, D)
      <4>1. PICK i \in DOMAIN visited : d = ProofAt(i).path
        BY <3>2 DEF VisitedPaths
      <4>2. i # 1
        BY <1>6, <3>2, <4>1
      <4>3. i - 1 \in DOMAIN visited' /\ (i - 1) + 1 = i
        BY <1>7, <4>2
      <4>4. ProofAt(i - 1)' = ProofAt(i)
        BY <2>3, <4>3
      <4> QED BY <4>1, <4>3, <4>4 DEF VisitedPaths
    <3> QED BY <1>4, <3>1, <3>2
  <2>9. AgainInv'
    BY <1>1, <1>3, <1>4, <1>7, <1>9, <2>1, <2>4, <2>5, <2>6, <2>7, <2>8 DEF AgainInv, ListedInv
  <2> QED BY <1>0, <2>1, <2>9, StillListing DEF Relisting
<1> QED BY <1>8, <1>9

-----------------------------------------------------------------------------
(* The theorems *)

LEMMA InitInv == Init => Inv
<1> SUFFICES ASSUME Init PROVE Inv
  OBVIOUS
<1>1. DOMAIN NoTree = {}
  BY DEF NoTree
<1> QED BY <1>1, InitTypes DEF Init, Inv, Walking, Reading, Relisting, AcceptedIsSnapshot

LEMMA StepInv == Inv /\ [Next]_vars => Inv'
<1> SUFFICES ASSUME Inv, [Next]_vars PROVE Inv'
  OBVIOUS
<1>1. CASE Change
  BY <1>1, ChangeStep
<1>2. CASE Scan
  <2>1. UNCHANGED fsVars
    BY <1>2 DEF Scan
  <2>2. CASE CheckDirectory
    BY <2>1, <2>2, CheckStep
  <2>3. CASE Walk
    BY <2>1, <2>3, LstatRootStep, ScandirStep, NextEntryStep, EndOfDirectoryStep, SkipExcludedStep,
       LstatEntryStep, LeaveDirectoryStep DEF Walk
  <2>4. CASE ReadFiles
    BY <2>1, <2>4, BeginFileStep, OpenFileStep, FstatOpenedStep, ReadChunkStep, FstatAgainStep,
       LstatAgainStep, MakeRowStep DEF ReadFiles
  <2>5. CASE ListAgain
    BY <2>1, <2>5, EndOfFilesStep, RescanStep, NextEntryAgainStep, EndOfDirectoryAgainStep,
       CompareEntriesStep DEF ListAgain
  <2> QED BY <1>2, <2>2, <2>3, <2>4, <2>5 DEF Scan
<1>3. CASE UNCHANGED vars
  <2>1. UNCHANGED fsVars /\ UNCHANGED scanVars
    BY <1>3 DEF vars
  <2>2. /\ UNCHANGED <<link, disk, clock, pc, checks, stack, entry, seen, found, visited, file, fd, data, after>>
        /\ UNCHANGED <<rows, walked, relisted>>
    BY <2>1 DEF fsVars, scanVars, walkVars, fileVars, history
  <2>3. InHand' = InHand /\ StackPaths' = StackPaths /\ \A i : Pending(i)' = Pending(i)
    BY <2>2 DEF InHand, StackPaths, Pending
  <2>4. TypeOK' = TypeOK
    BY <2>2 DEF TypeOK, FsOK, ScanTypeOK, Kind
  <2>5. \A i, directories : FrameInv(i, directories)' = FrameInv(i, directories)
    <3> SUFFICES ASSUME NEW i, NEW directories PROVE FrameInv(i, directories)' = FrameInv(i, directories)
      OBVIOUS
    <3>1. PICK paths, entries, frame :
             paths = stack[i].returned \ (Excluded \cup Pending(i)) /\ entries = stack[i].entries /\ frame = stack[i]
      OBVIOUS
    <3>2. Told(stack[i].returned \ (Excluded \cup Pending(i)), stack[i].entries, directories)' = Told(paths, entries, directories)'
      <4>1. (stack[i].returned \ (Excluded \cup Pending(i)))' = paths /\ (stack[i].entries)' = entries
        BY <2>2, <2>3, <3>1
      <4> QED BY <4>1
    <3>3. Told(paths, entries, directories)' = Told(paths, entries, directories)
      BY <2>1, <2>2, <2>3, SameRecords
    <3>4. /\ Holds(stack[i].proof)' = Holds(stack[i].proof) /\ Recorded(stack[i].proof)' = Recorded(stack[i].proof)
          /\ ChildrenOf(stack[i].path)' = ChildrenOf(stack[i].path)
          /\ \A e : Past(e.identity)' = Past(e.identity)
      BY <2>1, <2>2, SameTree
    <3> QED BY <2>2, <3>1, <3>2, <3>3, <3>4 DEF FrameInv
  <2>6. WalkInv => WalkInv'
    <3> SUFFICES ASSUME WalkInv PROVE WalkInv'
      OBVIOUS
    <3>1. PICK D : D = StackPaths \cup VisitedPaths
      OBVIOUS
    <3>2. D = StackPaths' \cup VisitedPaths'
      BY <2>1, <2>2, <2>3, <3>1, SameRecords
    <3>3. (\A i \in DOMAIN stack : FrameInv(i, D)') /\ (\A i \in DOMAIN visited : VisitInv(i, D)') /\ FileInv(D)'
      BY <2>1, <2>2, <2>3, <2>5, <3>1, SameRecords DEF WalkInv
    <3>4. \A i : Holds(stack[i].proof)' = Holds(stack[i].proof)
      BY <2>1, <2>2, SameTree
    <3>5. \A p : Kind(p)' = Kind(p)
      BY <2>1, SameTree
    <3>6. \A f \in found : \A i \in DOMAIN stack :
             stack[i].path = Parent[f.path] /\ Holds(stack[i].proof)' =>
                 f.path \in DOMAIN link' /\ Kind(f.path)' = "file"
      BY <2>2, <3>4, <3>5 DEF WalkInv
    <3> QED BY <2>2, <3>1, <3>2, <3>3, <3>6 DEF WalkInv
  <2>7. ListedInv(VisitedPaths)' = ListedInv(VisitedPaths) /\ \A D : ListedInv(D)' = ListedInv(D)
    BY <2>1, <2>2, <2>3, SameRecords DEF ListedInv, ViewOK
  <2>8. DataInv' = DataInv
    BY <2>1, <2>2, SameTree DEF DataInv
  <2>9. RelistInv' = RelistInv
    BY <2>1, <2>2, <2>3, SameTree, SameRecords DEF RelistInv, Settled
  <2>10. AgainInv' = AgainInv
    BY <2>1, <2>2, <2>3, <2>7, <2>9, SameRecords DEF AgainInv, ViewOK, Matched, SameDirectory, Settled
  <2>11. AcceptedIsSnapshot' = AcceptedIsSnapshot
    BY <2>2 DEF AcceptedIsSnapshot, FilesOf
  <2> QED BY <2>2, <2>4, <2>6, <2>7, <2>8, <2>10, <2>11 DEF Inv, FilesInv
<1> QED BY <1>1, <1>2, <1>3 DEF Next

\* Every state of a scan is one the model means: what exists is in a directory,
\* and no modification time is of a change yet to come.
THEOREM TypeCorrect == Spec => []TypeOK
<1>1. Inv => TypeOK
  BY DEF Inv
<1> QED BY <1>1, InitInv, StepInv, PTL DEF Spec

\* The rows of an accepted tree are the files it held, all of them and nothing
\* else, at one single instant, whatever other programs did between any two
\* calls of the scan (source_tree.py:75-107).
THEOREM AcceptedTreesAreSnapshots == Spec => []AcceptedIsSnapshot
<1>1. Inv => AcceptedIsSnapshot
  BY DEF Inv
<1> QED BY <1>1, InitInv, StepInv, PTL DEF Spec

-----------------------------------------------------------------------------
(* A tree that is fit and left alone is not rejected *)

Calm == clock = 0 /\ ~Unfit

\* The proof is of a directory in view, and true.
Sound(proof) ==
    /\ proof.path \in Visible /\ Kind(proof.path) = "directory"
    /\ proof.identity = InodeIdentity(link[proof.path])

AllSound(chain) == \A i \in DOMAIN chain : Sound(chain[i])
EntriesOf(paths) == {EntryProof(p) : p \in paths}

\* The entries of a directory on the stack that had their lstat.
Looked(i) == stack[i].returned \ (Excluded \cup Pending(i))

WasLookedAt(p) ==
    \/ \E i \in DOMAIN stack : p \in Looked(i)
    \/ \E i \in DOMAIN visited : p \in Scanned(ProofAt(i).path)

CalmFrame(i) ==
    LET frame == stack[i] IN
    /\ frame.proof.path = frame.path /\ Sound(frame.proof)
    /\ frame.returned \subseteq ChildrenOf(frame.path)
    /\ i # Len(stack) \/ pc # "scandir" => frame.listed = ChildrenOf(frame.path)
    /\ i = Len(stack) /\ pc = "leave" => frame.returned = ChildrenOf(frame.path)
    /\ frame.entries = EntriesOf(Looked(i))

CalmWalk ==
    /\ \A i \in DOMAIN stack : CalmFrame(i)
    /\ \A i, j \in DOMAIN stack : stack[i].path = stack[j].path => i = j
    /\ StackPaths \cap VisitedPaths = {}
    /\ \A name \in seen : \E p \in Paths : WasLookedAt(p) /\ Name[p] = name

CalmVisit(i) ==
    /\ AllSound(visited[i].chain)
    /\ visited[i].entries = EntriesOf(Scanned(ProofAt(i).path))

CalmFile(f) ==
    /\ f.path \in Visible /\ Kind(f.path) = "file"
    /\ f.identity = InodeIdentity(link[f.path])
    /\ AllSound(f.chain)

CalmRelist ==
    LET frame == stack[1] IN
    /\ frame.listed = ChildrenOf(frame.path) /\ frame.returned \subseteq ChildrenOf(frame.path)
    /\ frame.entries = EntriesOf(frame.returned \ Excluded)
    /\ pc = "renext" => seen \subseteq {Name[p] : p \in frame.returned \ Excluded}
    /\ pc = "compare" => frame.returned = ChildrenOf(frame.path)

CalmInv ==
    /\ pc # "rejected"
    /\ AllSound(checks)
    /\ \A i \in DOMAIN visited : CalmVisit(i)
    /\ \A f \in InHand : CalmFile(f)
    /\ pc \in Walking => CalmWalk
    /\ pc \in Reading \ {"open"} => fd = link[file.path]
    /\ pc = "lstat_again" => after = file.identity
    /\ pc \in {"renext", "compare"} => CalmRelist

CauseInv == Calm => CalmInv


\* What is in view lies inside, in directories in view.
LEMMA InView ==
    ASSUME TypeOK
    PROVE  /\ Visible \subseteq DOMAIN link /\ Visible \subseteq AllPaths
           /\ \A p \in Visible : ~LeadsOut(p) /\ Reachable(p) /\ link[p] \in Inodes
           /\ \A p \in Visible : Identity(p) = InodeIdentity(link[p]) /\ Identity(p).kind = Kind(p)
           /\ \A d \in Visible : \A p \in Scanned(d) : p \in Visible \ {Root} /\ p \in Paths /\ Parent[p] = d
<1> USE DEF TypeOK
<1>1. Visible \subseteq DOMAIN link /\ Visible \subseteq AllPaths
  BY DEF Visible, FsOK
<1>2. \A p \in Visible : ~LeadsOut(p) /\ Reachable(p) /\ link[p] \in Inodes
  BY <1>1, NoLinkAbove DEF Reachable, Exists, FsOK
<1>3. \A p \in Visible : Identity(p) = InodeIdentity(link[p]) /\ Identity(p).kind = Kind(p)
  <2>1. \A p \in Visible : Identity(p) = InodeIdentity(link[p])
    BY <1>1, <1>2, IdentityInside
  <2> QED BY <2>1, <1>2, InodeTypes DEF InodeIdentity, Kind
<1>4. \A d \in Visible : \A p \in Scanned(d) : p \in Visible \ {Root} /\ p \in Paths /\ Parent[p] = d
  BY AncestorsOf, TreeAssumption DEF Scanned, ChildrenOf, Visible, FsOK, AllPaths
<1> QED BY <1>1, <1>2, <1>3, <1>4

\* A fit tree has nothing in view that the scan rejects.
LEMMA FitTree ==
    ASSUME TypeOK, ~Unfit
    PROVE  /\ Root \in Visible /\ Kind(Root) = "directory"
           /\ \A p \in Visible : Kind(p) \in {"file", "directory"} /\ Plain(p)
           /\ \A p, q \in Visible \ {Root} : Name[p] = Name[q] => p = q
           /\ \A d \in Visible : Kind(d) = "directory" => IsDirectory(d) /\ Sound(Proof(d))
<1>1. Root \in Visible /\ Kind(Root) = "directory"
  BY AncestorsOf, TreeAssumption DEF Unfit, Visible, TypeOK, FsOK
<1>2. /\ \A p \in Visible : Kind(p) \in {"file", "directory"}
      /\ \A p, q \in Visible \ {Root} : Name[p] = Name[q] => p = q
  BY DEF Unfit
<1>3. \A p \in Visible : Plain(p)
  BY <1>2, InView DEF Plain
<1>4. \A d \in Visible : Kind(d) = "directory" => IsDirectory(d)
  BY InView DEF IsDirectory
<1>5. \A d \in Visible : Kind(d) = "directory" => Sound(Proof(d))
  BY InView DEF Sound, Proof
<1> QED BY <1>1, <1>2, <1>3, <1>4, <1>5

\* A sound proof is confirmed by every lstat, and its directory can be listed.
LEMMA SoundProof ==
    ASSUME TypeOK, NEW proof, Sound(proof)
    PROVE  /\ IsDirectory(proof.path) /\ Reachable(proof.path)
           /\ Identity(proof.path) = proof.identity /\ Identity(proof.path).kind = "directory"
           /\ Listing(proof.path) = ChildrenOf(proof.path)
           /\ Holds(proof)
<1>1. proof.path \in Visible /\ Kind(proof.path) = "directory" /\ proof.identity = InodeIdentity(link[proof.path])
  BY DEF Sound
<1>2. /\ ~LeadsOut(proof.path) /\ Reachable(proof.path) /\ proof.path \in DOMAIN link
      /\ Identity(proof.path) = proof.identity /\ Identity(proof.path).kind = "directory"
  BY <1>1, InView
<1> QED BY <1>1, <1>2 DEF IsDirectory, Listing, Holds

\* Nothing of this depends on what the scan does.
LEMMA CalmStays ==
    ASSUME UNCHANGED fsVars
    PROVE  /\ Calm' <=> Calm
           /\ Visible' = Visible
           /\ \A proof : Sound(proof)' = Sound(proof)
           /\ \A chain : AllSound(chain)' = AllSound(chain)
           /\ \A paths : EntriesOf(paths)' = EntriesOf(paths)
           /\ \A f : CalmFile(f)' = CalmFile(f)
           /\ \A d : Scanned(d)' = Scanned(d) /\ ChildrenOf(d)' = ChildrenOf(d)
<1>1. UNCHANGED <<link, disk, clock>>
  BY DEF fsVars
<1>2. Visible' = Visible
  BY <1>1 DEF Visible
<1>3. \A p : Kind(p)' = Kind(p) /\ Identity(p)' = Identity(p)
  BY SameTree
<1>4. \A i : InodeIdentity(i)' = InodeIdentity(i)
  BY SameTree
<1>5. \A proof : Sound(proof)' = Sound(proof)
  BY <1>1, <1>2, <1>3, <1>4 DEF Sound
<1>6. \A chain : AllSound(chain)' = AllSound(chain)
  BY <1>5 DEF AllSound
<1>7. \A p : EntryProof(p)' = EntryProof(p)
  BY <1>3 DEF EntryProof
<1>8. \A paths : EntriesOf(paths)' = EntriesOf(paths)
  <2> SUFFICES ASSUME NEW paths PROVE {EntryProof(p)' : p \in paths} = {EntryProof(p) : p \in paths}
    BY DEF EntriesOf
  <2> QED BY <1>7
<1>9. \A f : CalmFile(f)' = CalmFile(f)
  BY <1>1, <1>2, <1>3, <1>4, <1>6 DEF CalmFile
<1>10. Unfit' <=> Unfit
  BY <1>2, <1>3 DEF Unfit
<1> QED BY <1>1, <1>2, <1>5, <1>6, <1>8, <1>9, <1>10, SameTree DEF Calm

\* What the walk recorded, when a step leaves the records alone.
LEMMA CalmVisitStays ==
    ASSUME UNCHANGED fsVars, NEW i, NEW j, visited'[j] = visited[i]
    PROVE  CalmVisit(j)' = CalmVisit(i) /\ ProofAt(j)' = ProofAt(i)
<1>1. ProofAt(j)' = ProofAt(i)
  BY DEF ProofAt
<1>2. AllSound(visited[j].chain)' = AllSound(visited[i].chain)
  <2>1. PICK chain : chain = visited[i].chain
    OBVIOUS
  <2>2. AllSound(visited[j].chain)' = AllSound(chain)'
    BY <2>1
  <2> QED BY <2>1, <2>2, CalmStays
<1>3. EntriesOf(Scanned(ProofAt(j).path))' = EntriesOf(Scanned(ProofAt(i).path))
  <2>1. PICK d, paths : d = ProofAt(i).path /\ paths = Scanned(d)
    OBVIOUS
  <2>2. Scanned(ProofAt(j).path)' = Scanned(d)'
    BY <1>1, <2>1
  <2>3. Scanned(ProofAt(j).path)' = paths
    BY <2>1, <2>2, CalmStays
  <2>4. EntriesOf(Scanned(ProofAt(j).path))' = EntriesOf(paths)'
    BY <2>3
  <2> QED BY <2>1, <2>4, CalmStays
<1> QED BY <1>1, <1>2, <1>3 DEF CalmVisit

LEMMA SameScanned ==
    ASSUME UNCHANGED fsVars, NEW i, NEW j, ProofAt(j)' = ProofAt(i)
    PROVE  Scanned(ProofAt(j).path)' = Scanned(ProofAt(i).path)
<1>1. PICK d : d = ProofAt(i).path
  OBVIOUS
<1>2. Scanned(ProofAt(j).path)' = Scanned(d)'
  BY <1>1
<1> QED BY <1>1, <1>2, CalmStays

LEMMA CalmFrameStays ==
    ASSUME UNCHANGED fsVars, NEW i, stack'[i] = stack[i], Looked(i)' = Looked(i),
           i # Len(stack') \/ pc' # "scandir" => i # Len(stack) \/ pc # "scandir",
           i = Len(stack') /\ pc' = "leave" => i = Len(stack) /\ pc = "leave",
           CalmFrame(i)
    PROVE  CalmFrame(i)'
<1>1. PICK frame, paths : frame = stack[i] /\ paths = Looked(i)
  OBVIOUS
<1>2. stack'[i] = frame /\ Looked(i)' = paths
  BY <1>1
<1>3. Sound(frame.proof)' = Sound(frame.proof) /\ ChildrenOf(frame.path)' = ChildrenOf(frame.path)
  BY CalmStays
<1>4. EntriesOf(Looked(i))' = EntriesOf(paths)
  <2>1. EntriesOf(Looked(i))' = EntriesOf(paths)'
    BY <1>2
  <2> QED BY <2>1, CalmStays
<1>5. /\ frame.proof.path = frame.path /\ Sound(frame.proof)
      /\ frame.returned \subseteq ChildrenOf(frame.path)
      /\ i # Len(stack) \/ pc # "scandir" => frame.listed = ChildrenOf(frame.path)
      /\ i = Len(stack) /\ pc = "leave" => frame.returned = ChildrenOf(frame.path)
      /\ frame.entries = EntriesOf(paths)
  BY <1>1 DEF CalmFrame
<1> QED BY <1>2, <1>3, <1>4, <1>5 DEF CalmFrame

\* Every directory on the stack is confirmed by its lstat.
LEMMA ChainIsSound ==
    ASSUME Inv, CalmWalk, stack # <<>>
    PROVE  AllSound(Chain)
<1> QED BY TopFrame DEF AllSound, Chain, CalmWalk, CalmFrame

\* A step that moves none of the lists leaves what is said of them.
LEMMA CalmRecordsStay ==
    ASSUME CalmInv, UNCHANGED fsVars, UNCHANGED <<pc, stack, entry, seen, found, visited, file, fd, after>>,
           AllSound(checks)'
    PROVE  CalmInv'
<1>1. \A i \in DOMAIN visited : CalmVisit(i)'
  BY CalmVisitStays DEF CalmInv
<1>2. InHand' = InHand
  BY DEF InHand
<1>3. \A f \in InHand : CalmFile(f)'
  BY CalmStays DEF CalmInv
<1>4. CalmWalk => CalmWalk'
  <2> SUFFICES ASSUME CalmWalk PROVE CalmWalk'
    OBVIOUS
  <2>1. \A i : Looked(i)' = Looked(i) /\ ProofAt(i)' = ProofAt(i)
    BY DEF Looked, Pending, ProofAt
  <2>2. \A i \in DOMAIN stack : CalmFrame(i)'
    BY <2>1, CalmFrameStays DEF CalmWalk
  <2>3. StackPaths' = StackPaths /\ VisitedPaths' = VisitedPaths
    BY <2>1 DEF StackPaths, VisitedPaths
  <2>4. \A i : Scanned(ProofAt(i).path)' = Scanned(ProofAt(i).path)
    BY <2>1, SameScanned
  <2>5. \A p : WasLookedAt(p) => WasLookedAt(p)'
    BY <2>1, <2>4 DEF WasLookedAt
  <2> QED BY <2>2, <2>3, <2>5 DEF CalmWalk
<1>5. CalmRelist => CalmRelist'
  <2>1. PICK frame : frame = stack[1]
    OBVIOUS
  <2>2. ChildrenOf(frame.path)' = ChildrenOf(frame.path)
        /\ EntriesOf(frame.returned \ Excluded)' = EntriesOf(frame.returned \ Excluded)
    BY CalmStays
  <2> QED BY <2>1, <2>2 DEF CalmRelist
<1>6. (\A i \in DOMAIN visited : CalmVisit(i))' /\ (\A f \in InHand : CalmFile(f))'
  BY <1>1, <1>2, <1>3
<1> QED BY <1>4, <1>5, <1>6 DEF CalmInv, fsVars, Reading

LEMMA CalmCheckStep ==
    ASSUME Inv, Calm, CalmInv, CheckDirectory, UNCHANGED fsVars
    PROVE  CalmInv'
<1>0. TypeOK /\ checks \in Seq(DirectoryProofs) /\ checks # <<>>
  BY DEF Inv, TypeOK, ScanTypeOK, CheckDirectory
<1>1. Sound(Head(checks))
  BY <1>0 DEF CalmInv, AllSound
<1>2. IsDirectory(Head(checks).path) /\ Identity(Head(checks).path) = Head(checks).identity
  BY <1>0, <1>1, SoundProof
<1>3. /\ checks' = Tail(checks)
      /\ UNCHANGED <<pc, stack, entry, seen, found, visited, file, fd, data, after, rows, walked, relisted>>
  BY <1>2 DEF CheckDirectory, walkVars, fileVars, history
<1>4. AllSound(Tail(checks))
  <2>1. \A i \in DOMAIN Tail(checks) : i + 1 \in DOMAIN checks /\ Tail(checks)[i] = checks[i + 1]
    BY <1>0
  <2> QED BY <2>1 DEF CalmInv, AllSound
<1>5. AllSound(checks)'
  <2>1. PICK chain : chain = Tail(checks)
    OBVIOUS
  <2>2. AllSound(checks)' = AllSound(chain)'
    BY <1>3, <2>1
  <2> QED BY <1>4, <2>1, <2>2, CalmStays
<1> QED BY <1>3, <1>5, CalmRecordsStay

-----------------------------------------------------------------------------
(* The calm walk *)

\* A walking step lists the visited and the files as before, or adds to them.
LEMMA CalmWalking ==
    ASSUME CalmInv, UNCHANGED fsVars, pc' \in Walking, CalmWalk', AllSound(checks)', InHand \subseteq found,
           DOMAIN visited \subseteq DOMAIN visited',
           \A i \in DOMAIN visited : visited'[i] = visited[i],
           \A i \in DOMAIN visited' \ DOMAIN visited : CalmVisit(i)',
           \A f \in found' \ found : CalmFile(f)
    PROVE  CalmInv'
<1>1. \A i \in DOMAIN visited : CalmVisit(i)'
  BY CalmVisitStays DEF CalmInv
<1>2. (\A i \in DOMAIN visited : CalmVisit(i))'
  BY <1>1
<1>3. \A f \in found' : CalmFile(f)'
  BY CalmStays DEF CalmInv, InHand
<1>4. (\A f \in InHand : CalmFile(f))'
  BY <1>3 DEF InHand, Walking, Reading
<1> QED BY <1>2, <1>4 DEF CalmInv, Walking, Reading

\* A step that moves the top of the stack and leaves what was looked at.
LEMMA CalmTopStep ==
    ASSUME Inv, CalmInv, UNCHANGED fsVars, pc \in Walking, pc' \in Walking, AllSound(checks)',
           UNCHANGED <<seen, found, visited>>,
           stack' \in Seq(Frames), Len(stack') = Len(stack),
           \A i \in DOMAIN stack :
              /\ stack'[i].path = stack[i].path /\ stack'[i].proof = stack[i].proof
              /\ stack'[i].entries = stack[i].entries
              /\ i # Len(stack) => stack'[i] = stack[i],
           \A i \in DOMAIN stack : Looked(i)' = Looked(i),
           stack'[Len(stack)].returned \subseteq ChildrenOf(Top.path),
           pc' # "scandir" => stack'[Len(stack)].listed = ChildrenOf(Top.path),
           pc' = "leave" => stack'[Len(stack)].returned = ChildrenOf(Top.path)
    PROVE  CalmInv'
<1> DEFINE n == Len(stack)
<1>1. CalmWalk /\ stack # <<>> /\ DOMAIN stack = 1..n /\ n \in DOMAIN stack /\ stack[n] = Top /\ n \in Nat
  BY InHandTypes, TopFrame DEF CalmInv
<1>2. DOMAIN stack' = DOMAIN stack
  BY <1>1
<1>3. \A i \in DOMAIN stack \ {n} : CalmFrame(i)'
  <2> TAKE i \in DOMAIN stack \ {n}
  <2> QED BY <1>1, CalmFrameStays DEF CalmWalk
<1>4. CalmFrame(n)'
  <2>1. PICK frame, paths : frame = stack'[n] /\ paths = Looked(n)
    OBVIOUS
  <2>2. /\ frame.path = Top.path /\ frame.proof = Top.proof /\ frame.entries = Top.entries
        /\ Looked(n)' = paths
    BY <1>1, <2>1
  <2>3. /\ Top.proof.path = Top.path /\ Sound(Top.proof) /\ Top.entries = EntriesOf(paths)
    BY <1>1, <2>1 DEF CalmWalk, CalmFrame
  <2>4. Sound(frame.proof)' /\ ChildrenOf(frame.path)' = ChildrenOf(Top.path)
    BY <2>2, <2>3, CalmStays
  <2>5. EntriesOf(Looked(n))' = EntriesOf(paths)
    <3>1. EntriesOf(Looked(n))' = EntriesOf(paths)'
      BY <2>2
    <3> QED BY <3>1, CalmStays
  <2>6. PICK m : m = n
    OBVIOUS
  <2>7. /\ frame.proof.path = frame.path
        /\ Sound(frame.proof)'
        /\ frame.returned \subseteq ChildrenOf(frame.path)'
        /\ pc' # "scandir" => frame.listed = ChildrenOf(frame.path)'
        /\ pc' = "leave" => frame.returned = ChildrenOf(frame.path)'
        /\ frame.entries = EntriesOf(paths)
    BY <2>1, <2>2, <2>3, <2>4
  <2>8. stack'[m] = frame /\ Len(stack') = m /\ EntriesOf(Looked(m))' = EntriesOf(paths)
    BY <2>1, <2>5, <2>6
  <2>9. CalmFrame(m)'
    BY <2>7, <2>8 DEF CalmFrame
  <2> QED BY <2>6, <2>9
<1>5. \A i \in DOMAIN stack' : CalmFrame(i)'
  BY <1>2, <1>3, <1>4
<1>6. \A i : ProofAt(i)' = ProofAt(i)
  BY DEF ProofAt
<1>7. StackPaths' = StackPaths /\ VisitedPaths' = VisitedPaths
  BY <1>2, <1>6 DEF StackPaths, VisitedPaths
<1>8. \A p \in Paths : WasLookedAt(p) => WasLookedAt(p)'
  BY <1>2, <1>6, SameScanned DEF WasLookedAt
<1>9. CalmWalk'
  BY <1>1, <1>2, <1>5, <1>7, <1>8 DEF CalmWalk
<1> QED BY <1>9, CalmWalking DEF InHand, Walking, Reading

LEMMA SoundChecks ==
    ASSUME UNCHANGED fsVars, NEW chain, AllSound(chain), checks' = chain
    PROVE  AllSound(checks)'
<1>1. AllSound(checks)' = AllSound(chain)'
  OBVIOUS
<1> QED BY <1>1, CalmStays

LEMMA SoundLists ==
    /\ AllSound(<<>>)
    /\ \A proof : Sound(proof) => AllSound(<<proof>>) /\ AllSound(<<proof, proof>>)
    /\ \A s, t \in Seq(DirectoryProofs) : AllSound(s) /\ AllSound(t) => AllSound(s \o t)
<1>1. \A s, t \in Seq(DirectoryProofs) : AllSound(s) /\ AllSound(t) => AllSound(s \o t)
  BY DEF AllSound
<1> QED BY <1>1 DEF AllSound

LEMMA CalmLstatRootStep ==
    ASSUME Inv, Calm, CalmInv, LstatRoot, UNCHANGED fsVars
    PROVE  CalmInv'
<1>1. /\ pc = "root" /\ stack = <<>> /\ visited = <<>> /\ found = {} /\ seen = {} /\ TypeOK
  BY DEF LstatRoot, Now, Inv
<1>2. IsDirectory(Root) /\ Sound(Proof(Root)) /\ Kind(Root) = "directory"
  BY <1>1, FitTree DEF Calm
<1>3. /\ stack' = <<Frame(Root)>> /\ checks' = <<Proof(Root), Proof(Root)>> /\ pc' = "scandir"
      /\ UNCHANGED <<entry, seen, found, visited, file, fd, data, after, rows, walked, relisted>>
  BY <1>2 DEF LstatRoot, Reject, fileVars, history
<1>4. AllSound(checks)'
  BY <1>2, <1>3, SoundChecks, SoundLists
<1>5. Frame(Root) = [path |-> Root, proof |-> Proof(Root), listed |-> {}, returned |-> {}, entries |-> {}]
      /\ Proof(Root).path = Root
  BY DEF Frame, Proof
<1>6. DOMAIN stack' = {1} /\ stack'[1] = Frame(Root) /\ Len(stack') = 1
  BY <1>3
<1>7. CalmFrame(1)'
  <2>1. EntriesOf({})' = {}
    <3>1. EntriesOf({}) = {}
      BY DEF EntriesOf
    <3> QED BY <3>1, CalmStays
  <2>2. PICK frame, proof : frame = Frame(Root) /\ proof = Proof(Root)
    OBVIOUS
  <2>3. Looked(1)' = {}
    BY <1>5, <1>6 DEF Looked
  <2>4. EntriesOf(Looked(1))' = {}
    <3>1. EntriesOf(Looked(1))' = EntriesOf({})'
      BY <2>3
    <3> QED BY <3>1, <2>1
  <2>5. Sound(proof)'
    BY <1>2, <2>2, CalmStays
  <2>6. stack'[1] = frame /\ frame.path = Root /\ frame.proof = proof /\ frame.returned = {} /\ frame.entries = {}
        /\ proof.path = Root
    BY <1>5, <1>6, <2>2
  <2> QED BY <1>3, <1>6, <2>4, <2>5, <2>6 DEF CalmFrame
<1>8. VisitedPaths' = {}
  BY <1>1, <1>3 DEF VisitedPaths
<1>9. CalmWalk'
  BY <1>1, <1>3, <1>6, <1>7, <1>8 DEF CalmWalk
<1> QED BY <1>1, <1>3, <1>4, <1>9, CalmWalking DEF InHand, Walking, Reading

\* The top of the stack in a calm walk.
LEMMA CalmTop ==
    ASSUME Inv, CalmInv, pc \in Walking
    PROVE  /\ CalmWalk /\ WalkInv /\ TypeOK /\ stack # <<>>
           /\ Len(stack) \in DOMAIN stack /\ Len(stack) \in Nat \ {0} /\ stack[Len(stack)] = Top
           /\ Top \in Frames /\ stack \in Seq(Frames) /\ DOMAIN stack = 1..Len(stack)
           /\ Top.proof.path = Top.path /\ Sound(Top.proof) /\ Top.path \in Visible
           /\ Top.returned \subseteq ChildrenOf(Top.path)
           /\ pc # "scandir" => Top.listed = ChildrenOf(Top.path)
           /\ pc = "leave" => Top.returned = ChildrenOf(Top.path)
           /\ Top.entries = EntriesOf(Looked(Len(stack)))
           /\ AllSound(Chain) /\ Chain \in Seq(DirectoryProofs)
<1>1. CalmWalk /\ WalkInv /\ TypeOK /\ stack # <<>>
  BY DEF Inv, CalmInv, WalkInv
<1>2. /\ Len(stack) \in DOMAIN stack /\ Len(stack) \in Nat \ {0} /\ stack[Len(stack)] = Top
      /\ Top \in Frames /\ stack \in Seq(Frames) /\ DOMAIN stack = 1..Len(stack)
  BY <1>1, TopFrame
<1>3. CalmFrame(Len(stack))
  BY <1>1, <1>2 DEF CalmWalk
<1>4. Sound(Top.proof) => Top.proof.path \in Visible
  BY DEF Sound
<1> QED BY <1>1, <1>2, <1>3, <1>4, ChainIsSound, OnStack DEF CalmFrame

LEMMA CalmScandirStep ==
    ASSUME Inv, Calm, CalmInv, Scandir, UNCHANGED fsVars
    PROVE  CalmInv'
<1>1. pc = "scandir" /\ pc \in Walking
  BY DEF Scandir, Now, Walking
<1>2. Reachable(Top.path) /\ Identity(Top.path).kind = "directory" /\ Listing(Top.path) = ChildrenOf(Top.path)
  BY <1>1, CalmTop, SoundProof
<1> DEFINE frame == [Top EXCEPT !.listed = Listing(Top.path)]
<1>3. /\ stack' = WithTop(frame) /\ checks' = Chain /\ pc' = "next"
      /\ UNCHANGED <<entry, seen, found, visited, file, fd, data, after, rows, walked, relisted>>
  BY <1>2 DEF Scandir, Reject, fileVars, history
<1>4. /\ frame \in Frames /\ frame.path = Top.path /\ frame.proof = Top.proof /\ frame.entries = Top.entries
      /\ frame.returned = Top.returned /\ frame.listed = ChildrenOf(Top.path)
  BY <1>1, <1>2, CalmTop, InPaths DEF Frames, TypeOK
<1>5. /\ stack' \in Seq(Frames) /\ Len(stack') = Len(stack)
      /\ \A i \in DOMAIN stack : stack'[i] = IF i = Len(stack) THEN frame ELSE stack[i]
  <2> HIDE DEF frame
  <2> QED BY <1>1, <1>3, <1>4, CalmTop, OnStack
<1> HIDE DEF frame
<1>6. \A i \in DOMAIN stack : Looked(i)' = Looked(i)
  BY <1>1, <1>3, <1>4, <1>5, CalmTop DEF Looked, Pending
<1>7. AllSound(checks)'
  BY <1>1, <1>3, CalmTop, SoundChecks
<1> QED BY <1>1, <1>3, <1>4, <1>5, <1>6, <1>7, CalmTop, CalmTopStep DEF Walking

LEMMA CalmNextEntryStep ==
    ASSUME Inv, Calm, CalmInv, NextEntry, UNCHANGED fsVars
    PROVE  CalmInv'
<1>1. pc = "next" /\ pc \in Walking
  BY DEF NextEntry, Now, Walking
<1>2. PICK p \in MayReturn(Top) : entry' = p /\ stack' = WithTop([Top EXCEPT !.returned = @ \cup {p}])
  BY DEF NextEntry
<1> DEFINE frame == [Top EXCEPT !.returned = @ \cup {p}]
<1>3. /\ checks' = Chain /\ pc' = "entry"
      /\ UNCHANGED <<seen, found, visited, file, fd, data, after, rows, walked, relisted>>
  BY DEF NextEntry, fileVars, history
<1>4. p \in ChildrenOf(Top.path) /\ p \notin Top.returned /\ p \in Paths
  BY <1>1, <1>2, CalmTop, InPaths DEF MayReturn, TypeOK
<1>5. /\ frame \in Frames /\ frame.path = Top.path /\ frame.proof = Top.proof /\ frame.entries = Top.entries
      /\ frame.returned = Top.returned \cup {p} /\ frame.listed = Top.listed
  BY <1>1, <1>4, CalmTop DEF Frames
<1>6. /\ stack' \in Seq(Frames) /\ Len(stack') = Len(stack)
      /\ \A i \in DOMAIN stack : stack'[i] = IF i = Len(stack) THEN frame ELSE stack[i]
  <2>1. stack' = WithTop(frame)
    BY <1>2
  <2> HIDE DEF frame
  <2> QED BY <1>1, <1>5, <2>1, CalmTop, OnStack
<1> HIDE DEF frame
<1>7. \A i \in DOMAIN stack : Looked(i)' = Looked(i)
  <2>1. PICK n : n = Len(stack)
    OBVIOUS
  <2>2. Pending(n)' = {p} /\ Pending(n) = {} /\ \A i \in DOMAIN stack : i # n => Pending(i)' = Pending(i)
    BY <1>1, <1>2, <1>3, <1>6, <2>1 DEF Pending
  <2>3. stack'[n].returned \ (Excluded \cup {p}) = stack[n].returned \ Excluded
    BY <1>1, <1>4, <1>5, <1>6, <2>1, CalmTop
  <2>4. Looked(n)' = Looked(n)
    BY <2>2, <2>3 DEF Looked
  <2>5. \A i \in DOMAIN stack \ {n} : Looked(i)' = Looked(i)
    BY <1>6, <2>1, <2>2 DEF Looked
  <2> QED BY <2>4, <2>5
<1>8. AllSound(checks)'
  BY <1>1, <1>3, CalmTop, SoundChecks
<1> QED BY <1>1, <1>3, <1>4, <1>5, <1>6, <1>7, <1>8, CalmTop, CalmTopStep DEF Walking

LEMMA CalmEndOfDirectoryStep ==
    ASSUME Inv, Calm, CalmInv, EndOfDirectory, UNCHANGED fsVars
    PROVE  CalmInv'
<1>1. pc = "next" /\ pc \in Walking
  BY DEF EndOfDirectory, Now, Walking
<1>2. /\ checks' = Chain /\ pc' = "leave" /\ MustReturn(Top) = {}
      /\ UNCHANGED <<stack, entry, seen, found, visited, file, fd, data, after, rows, walked, relisted>>
  BY DEF EndOfDirectory, walkVars, fileVars, history
<1>3. Top.returned = ChildrenOf(Top.path)
  BY <1>1, <1>2, CalmTop DEF MustReturn
<1>4. \A i : Looked(i)' = Looked(i)
  BY <1>1, <1>2 DEF Looked, Pending
<1>5. AllSound(checks)'
  BY <1>1, <1>2, CalmTop, SoundChecks
<1> QED BY <1>1, <1>2, <1>3, <1>4, <1>5, CalmTop, CalmTopStep DEF Walking

LEMMA CalmSkipExcludedStep ==
    ASSUME Inv, Calm, CalmInv, SkipExcluded, UNCHANGED fsVars
    PROVE  CalmInv'
<1>1. pc = "entry" /\ pc \in Walking /\ entry \in Excluded /\ checks = <<>>
  BY DEF SkipExcluded, Now, Walking
<1>2. /\ pc' = "next"
      /\ UNCHANGED <<checks, stack, entry, seen, found, visited, file, fd, data, after, rows, walked, relisted>>
  BY DEF SkipExcluded, walkVars, fileVars, history
<1>3. \A i : Looked(i)' = Looked(i)
  BY <1>1, <1>2 DEF Looked, Pending
<1>4. AllSound(checks)'
  BY <1>1, <1>2, SoundChecks, SoundLists
<1> QED BY <1>1, <1>2, <1>3, <1>4, CalmTop, CalmTopStep DEF Walking

\* No name is met twice in a fit tree.
LEMMA EntryIsNew ==
    ASSUME Inv, Calm, CalmInv, pc = "entry", entry \notin Excluded
    PROVE  /\ entry \in Visible \ {Root} /\ entry \in Paths /\ entry \in Scanned(Top.path)
           /\ Name[entry] \notin seen /\ Plain(entry)
<1> DEFINE n == Len(stack)
<1>1. pc \in Walking
  BY DEF Walking
<1>2. entry \in Top.returned /\ entry \in ChildrenOf(Top.path)
  BY <1>1, CalmTop DEF WalkInv
<1>3. entry \in Scanned(Top.path) /\ entry \in Visible \ {Root} /\ entry \in Paths /\ Parent[entry] = Top.path
  BY <1>1, <1>2, CalmTop, InView DEF Scanned
<1>4. Plain(entry)
  BY <1>1, <1>3, CalmTop, FitTree DEF Calm
<1>5. ASSUME Name[entry] \in seen PROVE FALSE
  <2>1. PICK q \in Paths : WasLookedAt(q) /\ Name[q] = Name[entry]
    BY <1>1, <1>5, CalmTop DEF CalmWalk
  <2>2. ASSUME NEW i \in DOMAIN stack, q \in Looked(i) PROVE FALSE
    <3>1. CalmFrame(i)
      BY <1>1, CalmTop DEF CalmWalk
    <3>2. q \in Scanned(stack[i].path) /\ stack[i].path \in Visible
      BY <2>2, <3>1 DEF CalmFrame, Looked, Scanned, Sound
    <3>3. q \in Visible \ {Root} /\ Parent[q] = stack[i].path
      BY <1>1, <3>2, CalmTop, InView
    <3>4. q = entry
      BY <1>1, <1>3, <2>1, <3>3, CalmTop, FitTree DEF Calm
    <3>5. i = n
      BY <1>1, <1>3, <3>3, <3>4, CalmTop DEF CalmWalk
    <3>6. q \in Pending(i)
      BY <3>4, <3>5 DEF Pending
    <3> QED BY <2>2, <3>6 DEF Looked
  <2>3. ASSUME NEW i \in DOMAIN visited, q \in Scanned(ProofAt(i).path) PROVE FALSE
    <3>1. ProofAt(i).path \in Visible
      <4>1. CalmVisit(i) /\ visited[i].chain # <<>> /\ visited[i] \in Visits
        BY <1>1, CalmTop, VisitTypes DEF CalmInv, WalkInv, VisitInv
      <4>2. Len(visited[i].chain) \in DOMAIN visited[i].chain
        BY <4>1 DEF Visits
      <4> QED BY <4>1, <4>2 DEF CalmVisit, AllSound, Sound, ProofAt, Last
    <3>2. q \in Visible \ {Root} /\ Parent[q] = ProofAt(i).path
      BY <1>1, <2>3, <3>1, CalmTop, InView
    <3>3. q = entry
      BY <1>1, <1>3, <2>1, <3>2, CalmTop, FitTree DEF Calm
    <3>4. Top.path \in StackPaths /\ Top.path \in VisitedPaths
      BY <1>1, <1>3, <3>2, <3>3, CalmTop DEF StackPaths, VisitedPaths
    <3> QED BY <1>1, <3>4, CalmTop DEF CalmWalk
  <2> QED BY <2>1, <2>2, <2>3 DEF WasLookedAt
<1> QED BY <1>3, <1>4, <1>5

LEMMA CalmLstatEntryStep ==
    ASSUME Inv, Calm, CalmInv, LstatEntry, UNCHANGED fsVars
    PROVE  CalmInv'
<1> DEFINE p == entry
           n == Len(stack)
           frame == [Top EXCEPT !.entries = @ \cup {EntryProof(p)}]
           new == [path |-> p, identity |-> Identity(p), chain |-> Chain]
<1>1. pc = "entry" /\ pc \in Walking /\ p \notin Excluded /\ checks = <<>>
  BY DEF LstatEntry, Now, Walking
<1>2. /\ p \in Visible \ {Root} /\ p \in Paths /\ p \in Scanned(Top.path)
      /\ Name[p] \notin seen /\ Plain(p)
  BY <1>1, EntryIsNew
<1>3. /\ seen' = seen \cup {Name[p]}
      /\ UNCHANGED <<entry, visited, file, fd, data, after, rows, walked, relisted>>
      /\ \/ /\ Identity(p).kind = "directory"
            /\ stack' = Append(WithTop(frame), Frame(p))
            /\ checks' = <<Proof(p)>> \o Chain \o <<Proof(p)>>
            /\ pc' = "scandir" /\ UNCHANGED found
         \/ /\ Identity(p).kind = "file"
            /\ stack' = WithTop(frame)
            /\ found' = found \cup {new}
            /\ pc' = "next" /\ UNCHANGED checks
  BY <1>2 DEF LstatEntry, fileVars, history
<1>4. /\ CalmWalk /\ WalkInv /\ TypeOK /\ n \in DOMAIN stack /\ n \in Nat \ {0} /\ stack[n] = Top
      /\ Top \in Frames /\ stack \in Seq(Frames) /\ DOMAIN stack = 1..n
      /\ Top.entries = EntriesOf(Looked(n)) /\ p \in Top.returned
      /\ AllSound(Chain) /\ Chain \in Seq(DirectoryProofs)
  BY <1>1, CalmTop DEF WalkInv
<1>5. EntryProof(p) \in EntryProofs /\ Reachable(p) /\ Kind(p) = Identity(p).kind
      /\ Identity(p) = InodeIdentity(link[p])
  BY <1>2, <1>4, EntryTypes, InView DEF TypeOK
<1>6. frame \in Frames /\ frame.path = Top.path /\ frame.proof = Top.proof /\ frame.listed = Top.listed
      /\ frame.returned = Top.returned /\ frame.entries = Top.entries \cup {EntryProof(p)}
  BY <1>4, <1>5 DEF Frames
<1>7. Frame(p) \in Frames /\ Proof(p) \in DirectoryProofs
  BY <1>2, <1>4, <1>5, FrameTypes DEF AllPaths, TypeOK
<1>8. /\ \A i \in DOMAIN stack : stack'[i] = IF i = n THEN frame ELSE stack[i]
      /\ pc' = "scandir" => DOMAIN stack' = DOMAIN stack \cup {n + 1} /\ stack'[n + 1] = Frame(p) /\ Len(stack') = n + 1
      /\ pc' = "next" => DOMAIN stack' = DOMAIN stack /\ Len(stack') = n
  <2> HIDE DEF frame
  <2>1. /\ WithTop(frame) \in Seq(Frames) /\ Len(WithTop(frame)) = n /\ DOMAIN WithTop(frame) = 1..n
        /\ \A i \in DOMAIN stack : WithTop(frame)[i] = IF i = n THEN frame ELSE stack[i]
    BY <1>4, <1>6, OnStack
  <2>2. CASE pc' = "next"
    BY <1>3, <2>1, <2>2, <1>4
  <2>3. CASE pc' = "scandir"
    BY <1>3, <1>4, <1>7, <2>1, <2>3
  <2> QED BY <1>3, <2>2, <2>3
<1>9. PICK m : m = n
  OBVIOUS
<1>10. Looked(m)' = Looked(m) \cup {p} /\ \A i \in DOMAIN stack \ {m} : Looked(i)' = Looked(i)
  <2>1. Pending(m) = {p} /\ \A i \in DOMAIN stack : i # m => Pending(i) = {}
    BY <1>1, <1>9 DEF Pending
  <2>2. \A i : Pending(i)' = {}
    BY <1>3 DEF Pending
  <2>3. stack'[m].returned = stack[m].returned /\ p \in stack[m].returned
    BY <1>4, <1>6, <1>8, <1>9
  <2>4. Looked(m)' = Looked(m) \cup {p}
    BY <1>1, <2>1, <2>2, <2>3 DEF Looked
  <2>5. \A i \in DOMAIN stack \ {m} : Looked(i)' = Looked(i)
    BY <1>8, <1>9, <2>1, <2>2 DEF Looked
  <2> QED BY <2>4, <2>5
<1>11. \A i \in DOMAIN stack \ {m} : CalmFrame(i)'
  <2> TAKE i \in DOMAIN stack \ {m}
  <2>1. stack'[i] = stack[i] /\ Looked(i)' = Looked(i) /\ CalmFrame(i)
    BY <1>4, <1>8, <1>9, <1>10 DEF CalmWalk
  <2>2. i # Len(stack') /\ pc' # "leave"
    BY <1>3, <1>4, <1>8, <1>9
  <2> QED BY <1>1, <2>1, <2>2, CalmFrameStays
<1>12. CalmFrame(m)'
  <2>1. CalmFrame(m)
    BY <1>4, <1>9 DEF CalmWalk
  <2>2. PICK top, paths : top = frame /\ paths = Looked(m)
    OBVIOUS
  <2>3. stack'[m] = top
    BY <1>4, <1>8, <1>9, <2>2
  <2>4. EntriesOf(Looked(m))' = EntriesOf(paths \cup {p})
    <3>1. PICK more : more = paths \cup {p}
      OBVIOUS
    <3>2. Looked(m)' = more
      BY <1>10, <2>2, <3>1
    <3>3. EntriesOf(Looked(m))' = EntriesOf(more)'
      BY <3>2
    <3> QED BY <3>1, <3>3, CalmStays
  <2>5. EntriesOf(paths \cup {p}) = EntriesOf(paths) \cup {EntryProof(p)}
    BY DEF EntriesOf
  <2>6. top.entries = EntriesOf(paths \cup {p})
    BY <1>4, <1>6, <1>9, <2>2, <2>5
  <2>7. /\ top.proof.path = top.path /\ Sound(top.proof)
        /\ top.returned \subseteq ChildrenOf(top.path) /\ top.listed = ChildrenOf(top.path)
    BY <1>1, <1>4, <1>6, <1>9, <2>1, <2>2 DEF CalmFrame
  <2>8. Sound(top.proof)' /\ ChildrenOf(top.path)' = ChildrenOf(top.path)
    BY <2>7, CalmStays
  <2>9. m # Len(stack') \/ pc' # "leave"
    BY <1>3
  <2> QED BY <2>3, <2>4, <2>6, <2>7, <2>8, <2>9 DEF CalmFrame
<1>13. Visible \subseteq AllPaths /\ (Kind(p) = "directory" => Sound(Proof(p)))
  BY <1>1, <1>2, <1>4, FitTree, InView DEF Calm
<1>14. pc' = "scandir" => CalmFrame(m + 1)'
  <2> SUFFICES ASSUME pc' = "scandir" PROVE CalmFrame(m + 1)'
    OBVIOUS
  <2>1. PICK k, new_frame, proof : k = m + 1 /\ new_frame = Frame(p) /\ proof = Proof(p)
    OBVIOUS
  <2>2. /\ stack'[k] = new_frame /\ Len(stack') = k /\ new_frame.path = p /\ new_frame.proof = proof
        /\ new_frame.returned = {} /\ new_frame.entries = {} /\ proof.path = p
    BY <1>8, <1>9, <2>1 DEF Frame, Proof
  <2>3. Sound(proof)'
    BY <1>3, <1>5, <1>13, <2>1, CalmStays
  <2>4. EntriesOf(Looked(k))' = {}
    <3>1. Looked(k)' = {}
      BY <2>2 DEF Looked
    <3>2. EntriesOf({}) = {}
      BY DEF EntriesOf
    <3>3. EntriesOf(Looked(k))' = EntriesOf({})'
      BY <3>1
    <3> QED BY <3>2, <3>3, CalmStays
  <2>5. CalmFrame(k)'
    BY <2>2, <2>3, <2>4 DEF CalmFrame
  <2> QED BY <2>1, <2>5
<1>15. \A i \in DOMAIN stack' : CalmFrame(i)'
  BY <1>3, <1>8, <1>9, <1>11, <1>12, <1>14
<1>16. VisitedPaths' = VisitedPaths /\ \A i : ProofAt(i)' = ProofAt(i)
  BY <1>3 DEF VisitedPaths, ProofAt
<1>17. \A i \in DOMAIN stack : stack'[i].path = stack[i].path
  BY <1>4, <1>6, <1>8
<1>18. \A i \in DOMAIN stack : stack[i].path # p
  BY <1>2, <1>4 DEF WalkInv, StackPaths
<1>19. p \notin VisitedPaths
  BY <1>2, <1>4 DEF WalkInv
<1>20. Frame(p).path = p
  BY DEF Frame
<1>21. /\ \A i, j \in DOMAIN stack' : stack'[i].path = stack'[j].path => i = j
       /\ StackPaths' \cap VisitedPaths' = {}
  <2>1. CASE pc' = "next"
    BY <1>4, <1>8, <1>16, <1>17, <2>1 DEF CalmWalk, StackPaths
  <2>2. CASE pc' = "scandir"
    <3>1. n + 1 \notin DOMAIN stack
      BY <1>4
    <3> QED BY <1>4, <1>8, <1>16, <1>17, <1>18, <1>19, <1>20, <2>2, <3>1 DEF CalmWalk, StackPaths
  <2> QED BY <1>3, <2>1, <2>2
<1>22. \A q \in Paths : WasLookedAt(q) => WasLookedAt(q)'
  <2>1. DOMAIN stack \subseteq DOMAIN stack'
    BY <1>3, <1>8
  <2>2. \A i \in DOMAIN stack : Looked(i) \subseteq Looked(i)'
    BY <1>9, <1>10
  <2>3. \A i : Scanned(ProofAt(i).path)' = Scanned(ProofAt(i).path)
    BY <1>16, SameScanned
  <2> QED BY <1>3, <2>1, <2>2, <2>3 DEF WasLookedAt
<1>23. WasLookedAt(p)'
  <2>1. p \in Looked(m)' /\ m \in DOMAIN stack'
    BY <1>3, <1>4, <1>8, <1>9, <1>10
  <2> QED BY <1>3, <2>1 DEF WasLookedAt
<1>24. CalmWalk'
  <2>1. \A name \in seen' : \E q \in Paths : WasLookedAt(q)' /\ Name[q] = name
    BY <1>2, <1>3, <1>4, <1>22, <1>23 DEF CalmWalk
  <2> QED BY <1>15, <1>21, <2>1 DEF CalmWalk
<1>25. AllSound(checks)'
  <2>1. CASE pc' = "scandir"
    <3>1. AllSound(<<Proof(p)>>) /\ <<Proof(p)>> \in Seq(DirectoryProofs)
      BY <1>3, <1>5, <1>7, <1>13, <2>1, SoundLists, OnLists
    <3>2. AllSound(<<Proof(p)>> \o Chain) /\ <<Proof(p)>> \o Chain \in Seq(DirectoryProofs)
      BY <1>4, <3>1, SoundLists, OnLists
    <3>3. AllSound(<<Proof(p)>> \o Chain \o <<Proof(p)>>)
      BY <3>1, <3>2, SoundLists
    <3> QED BY <1>3, <2>1, <3>3, SoundChecks
  <2>2. CASE pc' = "next"
    BY <1>1, <1>3, <2>2, SoundChecks, SoundLists
  <2> QED BY <1>3, <2>1, <2>2
<1>26. \A f \in found' \ found : CalmFile(f)
  <2> SUFFICES ASSUME Identity(p).kind = "file" PROVE CalmFile(new)
    BY <1>3
  <2> QED BY <1>2, <1>4, <1>5 DEF CalmFile
<1> QED BY <1>1, <1>3, <1>24, <1>25, <1>26, CalmWalking DEF InHand, Walking, Reading

LEMMA CalmLeaveDirectoryStep ==
    ASSUME Inv, Calm, CalmInv, LeaveDirectory, UNCHANGED fsVars
    PROVE  CalmInv'
<1>1. /\ pc = "leave" /\ pc \in Walking /\ checks = <<>>
      /\ UNCHANGED <<checks, entry, seen, found, file, fd, data, after, rows, relisted>>
      /\ IF Len(stack) > 1 THEN pc' = "next" ELSE pc' = "files"
  BY DEF LeaveDirectory, Now, Walking, fileVars
<1>2. PICK n, m : n = Len(stack) /\ m = Len(visited) + 1
  OBVIOUS
<1>3. /\ DOMAIN stack = 1..n /\ n \in Nat \ {0} /\ stack[n] = Top /\ n \in DOMAIN stack
      /\ DOMAIN stack' = 1..(n - 1) /\ Len(stack') = n - 1 /\ \A i \in 1..(n - 1) : stack'[i] = stack[i]
      /\ DOMAIN visited' = DOMAIN visited \cup {m}
      /\ \A i \in DOMAIN visited : visited'[i] = visited[i] /\ ProofAt(i)' = ProofAt(i)
      /\ ProofAt(m)' = Top.proof /\ (visited[m].entries)' = Top.entries /\ (visited[m].chain)' = Chain
      /\ m \in DOMAIN visited'
  BY <1>2, LeavingLists
<1>4. /\ CalmWalk /\ Top.proof.path = Top.path /\ AllSound(Chain) /\ Top.returned = ChildrenOf(Top.path)
      /\ Top.entries = EntriesOf(Looked(n))
  BY <1>1, <1>2, CalmTop
<1>5. Looked(n) = Scanned(Top.path)
  BY <1>1, <1>3, <1>4 DEF Looked, Pending, Scanned
<1>6. CalmVisit(m)'
  <2>1. PICK chain, entries, d, paths :
           chain = Chain /\ entries = Top.entries /\ d = Top.path /\ paths = Scanned(d)
    OBVIOUS
  <2>2. AllSound(visited[m].chain)'
    <3>1. AllSound(visited[m].chain)' = AllSound(chain)'
      BY <1>3, <2>1
    <3> QED BY <1>4, <2>1, <3>1, CalmStays
  <2>3. EntriesOf(Scanned(ProofAt(m).path))' = entries
    <3>1. Scanned(ProofAt(m).path)' = Scanned(d)'
      BY <1>3, <1>4, <2>1
    <3>2. Scanned(ProofAt(m).path)' = paths
      BY <2>1, <3>1, CalmStays
    <3>3. EntriesOf(Scanned(ProofAt(m).path))' = EntriesOf(paths)'
      BY <3>2
    <3> QED BY <1>4, <1>5, <2>1, <3>3, CalmStays
  <2> QED BY <1>3, <2>1, <2>2, <2>3 DEF CalmVisit
<1>7. \A i \in DOMAIN visited : CalmVisit(i)'
  BY <1>3, CalmVisitStays DEF CalmInv
<1>8. (\A i \in DOMAIN visited : CalmVisit(i))'
  BY <1>3, <1>6, <1>7
<1>9. InHand' = InHand
  BY <1>1 DEF InHand, Reading
<1>10. (\A f \in InHand : CalmFile(f))'
  BY <1>9, CalmStays DEF CalmInv
<1>11. AllSound(checks)'
  BY <1>1, SoundChecks, SoundLists
<1>12. pc' = "next" => CalmWalk'
  <2>1. \A i \in 1..(n - 1) : i \in DOMAIN stack /\ i # n
    BY <1>3
  <2>2. \A i \in 1..(n - 1) : Looked(i)' = Looked(i)
    BY <1>1, <1>3, <2>1 DEF Looked, Pending
  <2>3. pc' = "next" => \A i \in 1..(n - 1) : CalmFrame(i)'
    <3> SUFFICES ASSUME pc' = "next", NEW i \in 1..(n - 1) PROVE CalmFrame(i)'
      OBVIOUS
    <3> QED BY <1>1, <1>2, <1>3, <1>4, <2>1, <2>2, CalmFrameStays DEF CalmWalk
  <2>4. VisitedPaths' = VisitedPaths \cup {Top.path}
    BY <1>3, <1>4 DEF VisitedPaths
  <2>5. StackPaths' \subseteq StackPaths /\ Top.path \notin StackPaths'
    BY <1>3, <1>4, <2>1 DEF StackPaths, CalmWalk
  <2>6. \A p \in Paths : WasLookedAt(p) => WasLookedAt(p)'
    <3> SUFFICES ASSUME NEW p \in Paths, WasLookedAt(p) PROVE WasLookedAt(p)'
      OBVIOUS
    <3>1. ASSUME NEW i \in DOMAIN stack, p \in Looked(i) PROVE WasLookedAt(p)'
      <4>1. CASE i = n
        <5>1. Scanned(ProofAt(m).path)' = Scanned(Top.path)
          <6>1. PICK d : d = Top.path
            OBVIOUS
          <6>2. Scanned(ProofAt(m).path)' = Scanned(d)'
            BY <1>3, <1>4, <6>1
          <6> QED BY <6>1, <6>2, CalmStays
        <5> QED BY <1>3, <1>5, <3>1, <4>1, <5>1 DEF WasLookedAt
      <4>2. CASE i # n
        <5>1. i \in 1..(n - 1)
          BY <1>3, <4>2
        <5> QED BY <1>3, <2>2, <3>1, <5>1 DEF WasLookedAt
      <4> QED BY <4>1, <4>2
    <3>2. ASSUME NEW i \in DOMAIN visited, p \in Scanned(ProofAt(i).path) PROVE WasLookedAt(p)'
      <4>1. Scanned(ProofAt(i).path)' = Scanned(ProofAt(i).path)
        BY <1>3, SameScanned
      <4> QED BY <1>3, <3>2, <4>1 DEF WasLookedAt
    <3> QED BY <3>1, <3>2 DEF WasLookedAt
  <2>7. (\A name \in seen : \E p \in Paths : WasLookedAt(p) /\ Name[p] = name)'
    BY <1>1, <1>4, <2>6 DEF CalmWalk
  <2>8. \A i, j \in DOMAIN stack' : stack'[i].path = stack'[j].path => i = j
    BY <1>3, <1>4, <2>1 DEF CalmWalk
  <2> QED BY <1>3, <1>4, <2>3, <2>4, <2>5, <2>7, <2>8 DEF CalmWalk
<1> QED BY <1>1, <1>8, <1>10, <1>11, <1>12 DEF CalmInv, Walking, Reading

-----------------------------------------------------------------------------
(* The calm reading and the calm second listing *)

LEMMA CalmReading ==
    ASSUME CalmInv, UNCHANGED fsVars, UNCHANGED visited, pc' \in {"files"} \cup Reading, AllSound(checks)',
           InHand' \subseteq InHand,
           pc' \in Reading \ {"open"} => fd' = link[file'.path],
           pc' = "lstat_again" => after' = file'.identity
    PROVE  CalmInv'
<1>1. link' = link
  BY DEF fsVars
<1>2. (\A i \in DOMAIN visited : CalmVisit(i))'
  BY CalmVisitStays DEF CalmInv
<1>3. (\A f \in InHand : CalmFile(f))'
  BY CalmStays DEF CalmInv
<1> QED BY <1>1, <1>2, <1>3 DEF CalmInv, Walking, Reading

\* The file being read in a calm tree.
LEMMA CalmReadFile ==
    ASSUME Inv, CalmInv, pc \in Reading
    PROVE  /\ file.path \in Visible /\ file.identity = InodeIdentity(link[file.path]) /\ AllSound(file.chain)
           /\ Reachable(file.path) /\ Lookup(file.path) = link[file.path]
           /\ Identity(file.path) = file.identity /\ Identity(file.path).kind = "file"
           /\ pc # "open" => fd = link[file.path] /\ InodeIdentity(fd) = file.identity
<1>1. CalmFile(file) /\ TypeOK
  BY DEF CalmInv, InHand, Inv
<1>2. /\ file.path \in Visible /\ file.identity = InodeIdentity(link[file.path]) /\ AllSound(file.chain)
      /\ Kind(file.path) = "file"
  BY <1>1 DEF CalmFile
<1>3. /\ Reachable(file.path) /\ Lookup(file.path) = link[file.path]
      /\ Identity(file.path) = file.identity /\ Identity(file.path).kind = "file"
  BY <1>1, <1>2, InView DEF Lookup
<1> QED BY <1>2, <1>3 DEF CalmInv

LEMMA CalmReadStep ==
    ASSUME Inv, Calm, CalmInv, ReadFiles, UNCHANGED fsVars
    PROVE  CalmInv'
<1>1. CASE BeginFile
  <2>1. PICK f \in found : /\ file' = f /\ checks' = f.chain /\ found' = found \ {f} /\ pc' = "open"
                           /\ visited' = visited /\ pc = "files"
    BY <1>1 DEF BeginFile, Now
  <2>2. InHand' \subseteq InHand /\ f \in InHand
    BY <2>1 DEF InHand, Reading
  <2>3. AllSound(checks)'
    BY <2>1, <2>2, SoundChecks DEF CalmInv, CalmFile
  <2> QED BY <2>1, <2>2, <2>3, CalmReading DEF Reading
<1>2. CASE OpenFile
  <2>1. pc = "open" /\ pc \in Reading
    BY <1>2 DEF OpenFile, Now, Reading
  <2>2. fd' = link[file.path] /\ checks' = file.chain /\ pc' = "fstat" /\ UNCHANGED <<found, visited, file>>
    BY <1>2, <2>1, CalmReadFile DEF OpenFile, Reject
  <2>3. AllSound(checks)'
    BY <2>1, <2>2, CalmReadFile, SoundChecks
  <2> QED BY <2>1, <2>2, <2>3, CalmReading DEF Reading, InHand
<1>3. CASE FstatOpened
  <2>1. pc = "fstat" /\ pc \in Reading /\ checks = <<>>
    BY <1>3 DEF FstatOpened, Now, Reading
  <2>2. pc' = "read" /\ UNCHANGED <<checks, found, visited, file, fd>>
    BY <1>3, <2>1, CalmReadFile DEF FstatOpened, Reject
  <2>3. AllSound(checks)' /\ fd = link[file.path]
    BY <2>1, <2>2, CalmReadFile, SoundChecks, SoundLists
  <2> QED BY <2>1, <2>2, <2>3, CalmReading DEF Reading, InHand
<1>4. CASE ReadChunk
  <2>1. pc = "read" /\ pc \in Reading /\ checks = <<>>
    BY <1>4 DEF ReadChunk, Now, Reading
  <2>2. pc' \in {"read", "fstat_again"} /\ UNCHANGED <<checks, found, visited, file, fd>>
    BY <1>4, <2>1 DEF ReadChunk
  <2>3. AllSound(checks)' /\ fd = link[file.path]
    BY <2>1, <2>2, CalmReadFile, SoundChecks, SoundLists
  <2> QED BY <2>1, <2>2, <2>3, CalmReading DEF Reading, InHand
<1>5. CASE FstatAgain
  <2>1. pc = "fstat_again" /\ pc \in Reading
    BY <1>5 DEF FstatAgain, Now, Reading
  <2>2. /\ after' = InodeIdentity(fd) /\ checks' = file.chain /\ pc' = "lstat_again"
        /\ UNCHANGED <<found, visited, file, fd>>
    BY <1>5 DEF FstatAgain
  <2>3. AllSound(checks)' /\ fd = link[file.path] /\ after' = file.identity
    BY <2>1, <2>2, CalmReadFile, SoundChecks
  <2> QED BY <2>1, <2>2, <2>3, CalmReading DEF Reading, InHand
<1>6. CASE LstatAgain
  <2>1. pc = "lstat_again" /\ pc \in Reading /\ after = file.identity
    BY <1>6 DEF LstatAgain, Now, Reading, CalmInv
  <2>2. checks' = file.chain /\ pc' = "row" /\ UNCHANGED <<found, visited, file, fd, after>>
    BY <1>6, <2>1, CalmReadFile DEF LstatAgain, Reject, fileVars
  <2>3. AllSound(checks)' /\ fd = link[file.path]
    BY <2>1, <2>2, CalmReadFile, SoundChecks
  <2> QED BY <2>1, <2>2, <2>3, CalmReading DEF Reading, InHand
<1>7. CASE MakeRow
  <2>1. pc = "row" /\ pc \in Reading /\ checks = <<>>
    BY <1>7 DEF MakeRow, Now, Reading
  <2>2. Len(data) = file.identity.size
    <3>1. /\ DataInv /\ file.identity = InodeIdentity(link[file.path])
      BY <2>1, CalmReadFile DEF Inv
    <3>2. file.identity.inode = link[file.path] /\ file.identity.size = Len(Inode(link[file.path]).content)
      BY <3>1 DEF InodeIdentity
    <3> QED BY <2>1, <3>1, <3>2 DEF DataInv
  <2>3. pc' = "files" /\ UNCHANGED <<checks, found, visited>>
    BY <1>7, <2>2 DEF MakeRow
  <2>4. AllSound(checks)'
    BY <2>1, <2>3, SoundChecks, SoundLists
  <2> QED BY <2>1, <2>3, <2>4, CalmReading DEF Reading, InHand
<1> QED BY <1>1, <1>2, <1>3, <1>4, <1>5, <1>6, <1>7 DEF ReadFiles

\* The first of the visited directories, listed again.
LEMMA CalmRevisit ==
    ASSUME Inv, CalmInv, pc \in {"files"} \cup Relisting
    PROVE  /\ 1 \in DOMAIN visited /\ Head(visited) = visited[1] /\ Last(Head(visited).chain) = ProofAt(1)
           /\ AllSound(Head(visited).chain) /\ Sound(ProofAt(1))
           /\ Head(visited).entries = EntriesOf(Scanned(ProofAt(1).path))
           /\ visited \in Seq(Visits) /\ visited # <<>> /\ TypeOK
<1>1. /\ visited \in Seq(Visits) /\ visited # <<>> /\ 1 \in DOMAIN visited /\ Head(visited) = visited[1]
      /\ Last(Head(visited).chain) = ProofAt(1) /\ TypeOK
  BY VisitedTypes DEF Inv
<1>2. CalmVisit(1)
  BY <1>1 DEF CalmInv
<1>3. visited[1].chain # <<>> /\ visited[1] \in Visits
  BY <1>1, InHandTypes DEF Inv, Relisting
<1>4. Len(visited[1].chain) \in DOMAIN visited[1].chain
  BY <1>3 DEF Visits
<1> QED BY <1>1, <1>2, <1>4 DEF CalmVisit, AllSound, ProofAt, Last

LEMMA CalmListing ==
    ASSUME CalmInv, UNCHANGED fsVars, UNCHANGED <<visited, found>>, pc' \in Relisting, found = {},
           AllSound(checks)', pc' \in {"renext", "compare"} => CalmRelist'
    PROVE  CalmInv'
<1>1. (\A i \in DOMAIN visited : CalmVisit(i))'
  BY CalmVisitStays DEF CalmInv
<1>2. InHand' = {}
  BY DEF InHand, Relisting, Reading
<1> QED BY <1>1, <1>2 DEF CalmInv, Walking, Reading, Relisting

\* The frame of the directory being listed again, as CalmRelist has it.
LEMMA RelistFrame ==
    ASSUME UNCHANGED fsVars, NEW frame, NEW names, frame = stack'[1], names = seen',
           frame.listed = ChildrenOf(frame.path), frame.returned \subseteq ChildrenOf(frame.path),
           frame.entries = EntriesOf(frame.returned \ Excluded),
           pc' = "renext" => names \subseteq {Name[p] : p \in frame.returned \ Excluded},
           pc' = "compare" => frame.returned = ChildrenOf(frame.path)
    PROVE  CalmRelist'
<1>1. ChildrenOf(frame.path)' = ChildrenOf(frame.path)
  BY CalmStays
<1>2. EntriesOf(frame.returned \ Excluded)' = EntriesOf(frame.returned \ Excluded)
  BY CalmStays
<1> QED BY <1>1, <1>2 DEF CalmRelist

\* What was listed again so far.
LEMMA CalmTopAgain ==
    ASSUME Inv, CalmInv, pc \in {"renext", "compare"}
    PROVE  /\ Len(stack) = 1 /\ DOMAIN stack = {1} /\ Top = stack[1] /\ Top \in Frames /\ stack \in Seq(Frames)
           /\ Top.path = ProofAt(1).path /\ Top.path \in Visible
           /\ Top.listed = ChildrenOf(Top.path) /\ Top.returned \subseteq ChildrenOf(Top.path)
           /\ Top.entries = EntriesOf(Top.returned \ Excluded)
           /\ pc = "renext" => seen \subseteq {Name[p] : p \in Top.returned \ Excluded}
           /\ pc = "compare" => Top.returned = ChildrenOf(Top.path)
           /\ found = {}
<1>1. /\ Len(stack) = 1 /\ stack[1].path = ProofAt(1).path /\ found = {} /\ CalmRelist
  BY DEF Inv, Relisting, AgainInv, RelistInv, CalmInv
<1>2. stack \in Seq(Frames) /\ stack # <<>>
  BY InHandTypes DEF Inv, TypeOK, ScanTypeOK
<1>3. DOMAIN stack = {1} /\ Top = stack[1] /\ Top \in Frames
  BY <1>1, <1>2, OnStack DEF Top
<1>4. ProofAt(1).path \in Visible
  BY CalmRevisit DEF Relisting, Sound
<1> QED BY <1>1, <1>2, <1>3, <1>4 DEF CalmRelist

LEMMA CalmEndOfFilesStep ==
    ASSUME Inv, Calm, CalmInv, EndOfFiles, UNCHANGED fsVars
    PROVE  CalmInv'
<1>1. /\ pc = "files" /\ found = {} /\ checks' = Head(visited).chain /\ pc' = "rescan"
      /\ UNCHANGED <<found, visited>>
  BY DEF EndOfFiles, Now
<1>2. AllSound(checks)'
  BY <1>1, CalmRevisit, SoundChecks
<1> QED BY <1>1, <1>2, CalmListing DEF Relisting

LEMMA CalmRescanStep ==
    ASSUME Inv, Calm, CalmInv, Rescan, UNCHANGED fsVars
    PROVE  CalmInv'
<1>1. pc = "rescan" /\ checks = <<>> /\ pc \in Relisting /\ found = {}
  BY DEF Rescan, Now, Relisting, Inv, AgainInv
<1>2. /\ Revisited = ProofAt(1).path /\ Reachable(Revisited) /\ Identity(Revisited).kind = "directory"
      /\ Listing(Revisited) = ChildrenOf(Revisited)
  BY <1>1, CalmRevisit, SoundProof DEF Revisited
<1> DEFINE frame == [path |-> Revisited, proof |-> Last(Head(visited).chain),
                     listed |-> Listing(Revisited), returned |-> {}, entries |-> {}]
<1>3. /\ stack' = <<frame>> /\ seen' = {} /\ pc' = "renext"
      /\ UNCHANGED <<checks, found, visited>>
  BY <1>2 DEF Rescan, Reject
<1>4. /\ stack'[1] = frame /\ frame.listed = ChildrenOf(frame.path) /\ frame.returned = {}
      /\ frame.entries = EntriesOf(frame.returned \ Excluded)
  BY <1>2, <1>3 DEF EntriesOf
<1>5. CalmRelist'
  <2> HIDE DEF frame
  <2>1. PICK top : top = frame
    OBVIOUS
  <2> QED BY <1>3, <1>4, <2>1, RelistFrame
<1>6. AllSound(checks)'
  BY <1>1, <1>3, SoundChecks, SoundLists
<1> QED BY <1>1, <1>3, <1>5, <1>6, CalmListing DEF Relisting

LEMMA CalmNextEntryAgainStep ==
    ASSUME Inv, Calm, CalmInv, NextEntryAgain, UNCHANGED fsVars
    PROVE  CalmInv'
<1>1. pc = "renext" /\ checks = <<>>
  BY DEF NextEntryAgain, Now
<1>2. PICK p \in MayReturn(Top) :
        LET frame == [Top EXCEPT !.returned = @ \cup {p}] IN
        \/ /\ p \in Excluded
           /\ stack' = WithTop(frame)
           /\ UNCHANGED <<pc, checks, entry, seen, found, visited, fileVars, rows, history>>
        \/ p \notin Excluded /\ ~(Name[p] \notin seen /\ Plain(p))
        \/ /\ p \notin Excluded
           /\ seen' = seen \cup {Name[p]}
           /\ stack' = WithTop([frame EXCEPT !.entries = @ \cup {EntryProof(p)}])
           /\ UNCHANGED <<pc, checks, entry, found, visited, fileVars, rows, history>>
  BY Zenon DEF NextEntryAgain
<1>3. p \in ChildrenOf(Top.path) /\ p \notin Top.returned
  BY <1>1, <1>2, CalmTopAgain DEF MayReturn
<1>4. TypeOK
  BY DEF Inv
<1>5. ASSUME p \notin Excluded PROVE Plain(p) /\ Name[p] \notin seen
  <2>1. p \in Visible \ {Root} /\ Plain(p)
    <3>1. p \in Scanned(Top.path)
      BY <1>3, <1>5 DEF Scanned
    <3> QED BY <1>1, <1>4, <3>1, CalmTopAgain, InView, FitTree DEF Calm
  <2>2. ASSUME NEW q \in Top.returned \ Excluded, Name[q] = Name[p] PROVE FALSE
    <3>1. q \in Scanned(Top.path)
      BY <1>1, <2>2, CalmTopAgain DEF Scanned
    <3>2. q \in Visible \ {Root}
      BY <1>1, <1>4, <3>1, CalmTopAgain, InView
    <3>3. q = p
      BY <1>4, <2>1, <2>2, <3>2, FitTree DEF Calm
    <3> QED BY <1>3, <2>2, <3>3
  <2> QED BY <1>1, <2>1, <2>2, CalmTopAgain
<1>6. PICK top :
        /\ stack'[1] = top /\ top.path = Top.path /\ top.listed = Top.listed /\ top.returned = Top.returned \cup {p}
        /\ \/ p \in Excluded /\ top.entries = Top.entries /\ seen' = seen
           \/ p \notin Excluded /\ top.entries = Top.entries \cup {EntryProof(p)} /\ seen' = seen \cup {Name[p]}
  <2> DEFINE frame == [Top EXCEPT !.returned = @ \cup {p}]
             more == [frame EXCEPT !.entries = @ \cup {EntryProof(p)}]
  <2>1. /\ frame.path = Top.path /\ frame.listed = Top.listed /\ frame.returned = Top.returned \cup {p}
        /\ frame.entries = Top.entries
        /\ more.path = Top.path /\ more.listed = Top.listed /\ more.returned = Top.returned \cup {p}
        /\ more.entries = Top.entries \cup {EntryProof(p)}
    BY <1>1, CalmTopAgain DEF Frames
  <2>2. \A f : WithTop(f)[1] = f
    BY <1>1, CalmTopAgain DEF WithTop
  <2>3. \/ p \in Excluded /\ stack' = WithTop(frame) /\ seen' = seen
        \/ p \notin Excluded /\ stack' = WithTop(more) /\ seen' = seen \cup {Name[p]}
    BY <1>2, <1>5
  <2>4. CASE p \in Excluded
    <3> HIDE DEF frame, more
    <3>1. stack'[1] = frame /\ seen' = seen
      BY <2>2, <2>3, <2>4
    <3> WITNESS frame
    <3> QED BY <2>1, <2>4, <3>1
  <2>5. CASE p \notin Excluded
    <3> HIDE DEF frame, more
    <3>1. stack'[1] = more /\ seen' = seen \cup {Name[p]}
      BY <2>2, <2>3, <2>5
    <3> WITNESS more
    <3> QED BY <2>1, <2>5, <3>1
  <2> QED BY <2>4, <2>5
<1>7. pc' = "renext" /\ UNCHANGED <<checks, found, visited>>
  BY <1>1, <1>2, <1>5
<1>8. top.entries = EntriesOf(top.returned \ Excluded)
  BY <1>1, <1>6, CalmTopAgain DEF EntriesOf
<1>9. seen' \subseteq {Name[q] : q \in top.returned \ Excluded}
  BY <1>1, <1>6, CalmTopAgain
<1>10. top.listed = ChildrenOf(top.path) /\ top.returned \subseteq ChildrenOf(top.path)
  BY <1>1, <1>3, <1>6, CalmTopAgain
<1>11. CalmRelist'
  BY <1>6, <1>7, <1>8, <1>9, <1>10, RelistFrame
<1>12. AllSound(checks)'
  BY <1>1, <1>7, SoundChecks, SoundLists
<1> QED BY <1>1, <1>7, <1>11, <1>12, CalmTopAgain, CalmListing DEF Relisting

LEMMA CalmEndOfDirectoryAgainStep ==
    ASSUME Inv, Calm, CalmInv, EndOfDirectoryAgain, UNCHANGED fsVars
    PROVE  CalmInv'
<1>1. /\ pc = "renext" /\ pc' = "compare" /\ checks' = Head(visited).chain /\ MustReturn(Top) = {}
      /\ UNCHANGED <<stack, seen, found, visited>>
  BY DEF EndOfDirectoryAgain, Now, walkVars
<1>2. Top.returned = ChildrenOf(Top.path)
  BY <1>1, CalmTopAgain DEF MustReturn
<1>3. PICK top : top = stack[1]
  OBVIOUS
<1>4. CalmRelist'
  BY <1>1, <1>2, <1>3, CalmTopAgain, RelistFrame
<1>5. AllSound(checks)'
  BY <1>1, CalmRevisit, SoundChecks DEF Relisting
<1> QED BY <1>1, <1>4, <1>5, CalmTopAgain, CalmListing DEF Relisting

LEMMA CalmCompareEntriesStep ==
    ASSUME Inv, Calm, CalmInv, CompareEntries, UNCHANGED fsVars
    PROVE  CalmInv'
<1>1. pc = "compare" /\ checks = <<>> /\ pc \in Relisting
  BY DEF CompareEntries, Now, Relisting
<1>2. Top.entries = Head(visited).entries
  BY <1>1, CalmTopAgain, CalmRevisit DEF Scanned
<1>3. /\ visited' = Tail(visited) /\ UNCHANGED found
      /\ \/ Len(visited) = 1 /\ pc' = "accepted" /\ UNCHANGED checks
         \/ Len(visited) # 1 /\ pc' = "rescan" /\ checks' = visited[2].chain
  BY <1>2 DEF CompareEntries
<1>4. visited \in Seq(Visits) /\ visited # <<>> /\ found = {}
  BY <1>1, CalmRevisit, CalmTopAgain
<1>5. \A i \in DOMAIN visited' : i + 1 \in DOMAIN visited /\ visited'[i] = visited[i + 1]
  BY <1>3, <1>4
<1>6. \A i \in DOMAIN visited' : CalmVisit(i)'
  BY <1>5, CalmVisitStays DEF CalmInv
<1>7. (\A i \in DOMAIN visited : CalmVisit(i))'
  BY <1>6
<1>8. AllSound(checks)'
  <2>1. CASE Len(visited) = 1
    BY <1>1, <1>3, <2>1, SoundChecks, SoundLists
  <2>2. CASE Len(visited) # 1
    <3>1. Len(visited) \in Nat \ {0} /\ DOMAIN visited = 1..Len(visited)
      BY <1>4, OnLists, LenProperties
    <3>2. 2 \in DOMAIN visited
      BY <2>2, <3>1
    <3> QED BY <1>3, <2>2, <3>2, SoundChecks DEF CalmInv, CalmVisit
  <2> QED BY <2>1, <2>2
<1>9. InHand' = {}
  BY <1>3, <1>4 DEF InHand, Reading
<1> QED BY <1>3, <1>7, <1>8, <1>9 DEF CalmInv, Walking, Reading

-----------------------------------------------------------------------------
LEMMA InitCause == Init => CauseInv
<1> SUFFICES ASSUME Init PROVE CalmInv
  BY DEF CauseInv
<1> QED BY SoundLists DEF Init, CalmInv, InHand, Walking, Reading

LEMMA StepCause == Inv /\ CauseInv /\ [Next]_vars => CauseInv'
<1> SUFFICES ASSUME Inv, CauseInv, [Next]_vars, Calm' PROVE CalmInv'
  BY DEF CauseInv
<1>1. CASE Change
  BY <1>1, ChangeIsTold DEF Inv, TypeOK, FsOK, Calm
<1>2. CASE Scan
  <2>1. UNCHANGED fsVars
    BY <1>2 DEF Scan
  <2>2. Calm /\ CalmInv
    BY <2>1, CalmStays DEF CauseInv
  <2>3. CASE CheckDirectory
    BY <2>1, <2>2, <2>3, CalmCheckStep
  <2>4. CASE Walk
    BY <2>1, <2>2, <2>4, CalmLstatRootStep, CalmScandirStep, CalmNextEntryStep, CalmEndOfDirectoryStep,
       CalmSkipExcludedStep, CalmLstatEntryStep, CalmLeaveDirectoryStep DEF Walk
  <2>5. CASE ReadFiles
    BY <2>1, <2>2, <2>5, CalmReadStep
  <2>6. CASE ListAgain
    BY <2>1, <2>2, <2>6, CalmEndOfFilesStep, CalmRescanStep, CalmNextEntryAgainStep,
       CalmEndOfDirectoryAgainStep, CalmCompareEntriesStep DEF ListAgain
  <2> QED BY <1>2, <2>3, <2>4, <2>5, <2>6 DEF Scan
<1>3. CASE UNCHANGED vars
  <2>1. UNCHANGED fsVars /\ UNCHANGED scanVars
    BY <1>3 DEF vars
  <2>2. UNCHANGED <<pc, checks, stack, entry, seen, found, visited, file, fd, after>>
    BY <2>1 DEF scanVars, walkVars, fileVars
  <2>3. Calm /\ CalmInv
    BY <2>1, CalmStays DEF CauseInv
  <2>4. AllSound(checks)'
    BY <2>1, <2>2, <2>3, SoundChecks DEF CalmInv
  <2> QED BY <2>1, <2>2, <2>3, <2>4, CalmRecordsStay
<1> QED BY <1>1, <1>2, <1>3 DEF Next

\* A tree that is fit and that nobody changes is accepted or still being
\* scanned: no check of scan_source_tree raises without a cause
\* (source_tree.py:110-347).
THEOREM RejectedTreesHaveACause == Spec => []RejectedForCause
<1>1. Inv /\ CauseInv => RejectedForCause
  BY DEF Inv, TypeOK, FsOK, CauseInv, Calm, CalmInv, RejectedForCause
<1>2. Init => Inv /\ CauseInv
  BY InitInv, InitCause
<1>3. Inv /\ CauseInv /\ [Next]_vars => (Inv /\ CauseInv)'
  BY StepInv, StepCause
<1> QED BY <1>1, <1>2, <1>3, PTL DEF Spec
=============================================================================
