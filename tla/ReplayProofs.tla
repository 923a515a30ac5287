---------------------------- MODULE ReplayProofs ----------------------------
(***************************************************************************)
(* What is proved of a replay's ledger.                                    *)
(*                                                                         *)
(* The causes of the ledger's records are an audit trail, for any number   *)
(* of admissions and of groups, at any prices and for any decisions.       *)
(* What a record leads back to is defined over the whole ledger; what an   *)
(* action knows is the records it writes and the digests in `named`.  The  *)
(* inductive invariant therefore says of each record which earlier records *)
(* it names (`WellCaused`), and of `named` what its digests stand for; the *)
(* trail follows from that by induction on the places of the ledger.       *)
(*                                                                         *)
(* The books of a run add up, for any capital, fee, prices and decisions:  *)
(* the invariant says what the figures of the current state have to do     *)
(* with each other and with the open intent.  Every action writes states   *)
(* that follow from it, and postings that sum to zero.                     *)
(***************************************************************************)
EXTENDS ReplayLedgerProps, FiniteSetTheorems, FunctionTheorems, WellFoundedInduction, TLAPS

-----------------------------------------------------------------------------
(* Induction *)

LEMMA Induction ==
    ASSUME NEW T, 0 \in T, \A n \in Nat : n \in T => n + 1 \in T
    PROVE  Nat \subseteq T
<1> DEFINE U == Nat \ T
<1>1. ASSUME U # {} PROVE FALSE
  <2>1. PICK x \in U : \A y \in U : ~(<<y, x>> \in OpToRel(<, Nat))
    BY <1>1, WFMin, NatLessThanWellFounded
  <2>2. x \in Nat /\ x # 0 /\ x \notin T
    BY <2>1
  <2>3. x - 1 \in Nat /\ x - 1 < x /\ x - 1 + 1 = x
    BY <2>2
  <2>4. x - 1 \in U
    BY <2>2, <2>3
  <2> QED BY <2>1, <2>2, <2>3, <2>4 DEF OpToRel
<1> QED BY <1>1

-----------------------------------------------------------------------------
(* Trails over a log of records *)

Parents(log, n) ==
    {k \in 1 .. (n - 1) : log[k].type # "RUN_END" /\ log[k].object \in log[n].causes}

\* `Ancestors` satisfies the equation of its own recursion.
IsTrail(A, log) == A = [n \in DOMAIN log |-> UNION {{k} \cup A[k] : k \in Parents(log, n)}]

Admissions == {"SOURCE_ADMISSION", "CONFIG_ADMISSION"}
States == {"PORTFOLIO_STATE", "KILL_STATE"}
Closing == States \cup {"RECONCILIATION", "RUN_END"}
Milestones == States \cup {"RUN_RECEIPT", "SIMULATED_INTENT", "SIMULATED_FILL"}

\* Records of these types lead back to every milestone before them.
Covers(log, n) ==
    \/ n = Sources + 3 /\ Sources + 2 \in Parents(log, n)
    \/ \E s \in Parents(log, n) :
          /\ log[s].type \in Closing
          /\ \A k \in (s + 1) .. (n - 1) : log[k].type \in Milestones => k \in Parents(log, n)

WellCaused(log, n) ==
    /\ log[n].type = "SOURCE_ADMISSION" => Fixture \in log[n].causes
    /\ log[n].type \notin Admissions =>
          \E k \in Parents(log, n) : log[k].type # "CONFIG_ADMISSION"
    /\ log[n].type \in Closing => Covers(log, n)

-----------------------------------------------------------------------------
(* The inductive invariant *)

Kept == {Fixture, Config, Registry, Manifest, RunClosure}

\* What a record is about, and what its causes are found among.
RecordAt(log, retained, n) ==
    /\ log[n].type # "RUN_END" => log[n].object = ObjectAt(n)
    /\ log[n].causes \subseteq {ObjectAt(k) : k \in 1 .. (n - 1)} \cup Kept \cup retained

Records ==
    /\ \E S : ledger \in Seq(S)
    /\ Len(ledger) > Sources + 3
    /\ keys \subseteq {"key"} \X Nat
    /\ \A n \in 1 .. Len(ledger) : RecordAt(ledger, keys, n)

Traced == \A n \in 1 .. Len(ledger) : WellCaused(ledger, n)

\* The digest is that of an object in the log, of a record of these types.
Names(log, digest, types) ==
    \E k \in 1 .. Len(log) : digest = ObjectAt(k) /\ log[k].type \in types

Beyond == RecordTypes \ (Admissions \cup {"RUN_END"})

\* The digest is that of the latest state, and there is no milestone since.
NamesState(log, digest) ==
    \E s \in 1 .. Len(log) :
       /\ digest = ObjectAt(s) /\ log[s].type \in States
       /\ \A k \in (s + 1) .. Len(log) : log[k].type \notin Milestones

NamedType ==
    [source : Digests, config : Digests, state : Digests, event : Optional(Digests),
     snapshot : Optional(Digests), validation : Optional(Digests), signal : Optional(Digests),
     decision : Optional(Digests), intent : Optional(Digests), reconciliation : Digests]

Named ==
    /\ named \in NamedType
    /\ Names(ledger, named.source, {"SOURCE_ADMISSION"})
    /\ Names(ledger, named.config, {"CONFIG_ADMISSION"})
    /\ NamesState(ledger, named.state)
    /\ \A digest \in {named.event, named.snapshot, named.validation, named.signal, named.decision,
                      named.intent} : digest = Null \/ Names(ledger, digest, Beyond)

\* When the next step needs a digest it is there.
Ready ==
    /\ group \in 0 .. MaxGroup
    /\ phase = "GROUP_GATE" => group = 0 \/ named.decision # Null
    /\ phase \in {"FILL_OR_EXPIRY", "GROUP_MARK", "SNAPSHOT"} => named.event # Null

TraceInv == Records /\ Traced /\ Named /\ Ready

-----------------------------------------------------------------------------
(* What a trail leads back to *)

LEMMA SameUnion ==
    ASSUME NEW S, NEW A, NEW B, \A k \in S : A[k] = B[k]
    PROVE  UNION {{k} \cup A[k] : k \in S} = UNION {{k} \cup B[k] : k \in S}
OBVIOUS

LEMMA TrailsExist ==
    ASSUME NEW l \in Nat, NEW log, DOMAIN log = 1 .. l
    PROVE  \E A : IsTrail(A, log)
<1> DEFINE Above(A, n) == UNION {{k} \cup A[k] : k \in Parents(log, n)}
           Q == {d \in Nat : d <= l => \E A : A = [n \in 1 .. d |-> Above(A, n)]}
<1>1. 0 \in Q
  <2> DEFINE A == [n \in 1 .. 0 |-> {}]
  <2>1. A = [n \in 1 .. 0 |-> Above(A, n)]
    OBVIOUS
  <2> QED BY <2>1
<1>2. ASSUME NEW d \in Nat, d \in Q PROVE d + 1 \in Q
  <2> SUFFICES ASSUME d + 1 <= l
               PROVE  \E A : A = [n \in 1 .. (d + 1) |-> Above(A, n)]
    OBVIOUS
  <2>1. PICK A : A = [n \in 1 .. d |-> Above(A, n)]
    BY <1>2
  <2> DEFINE x == Above(A, d + 1)
             B == [n \in 1 .. (d + 1) |-> IF n = d + 1 THEN x ELSE A[n]]
  <2>2. ASSUME NEW n \in 1 .. (d + 1) PROVE Above(A, n) = Above(B, n)
    <3>1. \A k \in Parents(log, n) : A[k] = B[k]
      <4>1. Parents(log, n) \subseteq 1 .. (n - 1)
        BY DEF Parents
      <4> HIDE DEF x
      <4> QED BY <4>1
    <3> HIDE DEF B, x
    <3> QED BY <3>1, SameUnion
  <2>3. \A n \in 1 .. (d + 1) : B[n] = Above(B, n)
    <3>1. \A n \in 1 .. d : A[n] = Above(A, n)
      <4> DEFINE F(n) == Above(A, n)
      <4> HIDE DEF F
      <4>1. A = [n \in 1 .. d |-> F(n)]
        BY <2>1 DEF F
      <4> QED BY <4>1 DEF F
    <3>2. \A n \in 1 .. (d + 1) : B[n] = Above(A, n)
      <4> HIDE DEF Above
      <4> QED BY <3>1
    <3> HIDE DEF Above, B
    <3> QED BY <2>2, <3>2
  <2>4. B = [n \in 1 .. (d + 1) |-> Above(B, n)]
    <3> DEFINE G == [n \in 1 .. (d + 1) |-> Above(B, n)]
    <3>1. B = [n \in 1 .. (d + 1) |-> B[n]]
      <4> HIDE DEF x
      <4> QED OBVIOUS
    <3>2. \A n \in 1 .. (d + 1) : B[n] = G[n]
      <4> HIDE DEF Above, B
      <4> QED BY <2>3
    <3>3. G = [n \in 1 .. (d + 1) |-> G[n]]
      <4> HIDE DEF Above, B
      <4> QED OBVIOUS
    <3> HIDE DEF B, G
    <3>4. B = G
      BY <3>1, <3>2, <3>3
    <3> QED BY <3>4 DEF G
  <2> HIDE DEF B, Above
  <2> QED BY <2>4
<1>3. l \in Q
  <2> HIDE DEF Q
  <2> QED BY <1>1, <1>2, Induction
<1> QED BY <1>3 DEF IsTrail

\* The operator of the property is such a trail.
LEMMA AncestorsTrail ==
    ASSUME NEW l \in Nat, DOMAIN ledger = 1 .. l
    PROVE  IsTrail(Ancestors, ledger)
<1>1. \E A : IsTrail(A, ledger)
  BY TrailsExist
<1>2. \E A : A = [n \in DOMAIN ledger |->
                    UNION {{k} \cup A[k] :
                             k \in {k \in 1 .. (n - 1) : ledger[k].type # "RUN_END"
                                                         /\ ledger[k].object \in ledger[n].causes}}]
  BY <1>1 DEF IsTrail, Parents
<1> QED BY <1>2 DEF Ancestors, IsTrail, Parents

LEMMA TrailAt ==
    ASSUME NEW log, NEW A, IsTrail(A, log), NEW n \in DOMAIN log
    PROVE  \A k \in Parents(log, n) : k \in A[n] /\ A[k] \subseteq A[n]
<1> DEFINE F(m) == UNION {{k} \cup A[k] : k \in Parents(log, m)}
<1>1. A[n] = F(n)
  <2> HIDE DEF F
  <2>1. A = [m \in DOMAIN log |-> F(m)]
    BY DEF IsTrail, F
  <2> QED BY <2>1
<1> QED BY <1>1

\* It leads back to a source, and to every milestone before it.
Grounded(A, log, n) == \E k \in A[n] : Fixture \in log[k].causes
Covered(A, log, n) ==
    \A k \in (Sources + 2) .. (n - 1) : log[k].type \in Milestones => k \in A[n]

LEMMA TrailsLeadBack ==
    ASSUME NEW l \in Nat, NEW log, DOMAIN log = 1 .. l, \A n \in 1 .. l : WellCaused(log, n),
           NEW A, IsTrail(A, log), NEW n \in 1 .. l
    PROVE  /\ log[n].type \notin Admissions => Grounded(A, log, n)
           /\ log[n].type \in Closing => Covered(A, log, n)
<1> DEFINE Good(m) == /\ log[m].type \notin Admissions => Grounded(A, log, m)
                      /\ log[m].type \in Closing => Covered(A, log, m)
           Q == {d \in Nat : \A m \in 1 .. l : m <= d => Good(m)}
<1>1. 0 \in Q
  OBVIOUS
<1>2. ASSUME NEW d \in Nat, d \in Q PROVE d + 1 \in Q
  <2> SUFFICES ASSUME NEW m \in 1 .. l, m = d + 1 PROVE Good(m)
    <3> HIDE DEF Good
    <3> QED BY <1>2
  <2>1. \A k \in 1 .. (m - 1) : Good(k)
    <3> HIDE DEF Good
    <3> QED BY <1>2
  <2>2. WellCaused(log, m) /\ m \in DOMAIN log
    OBVIOUS
  <2>3. \A k \in Parents(log, m) : k \in A[m] /\ A[k] \subseteq A[m]
    BY <2>2, TrailAt
  <2>4. Parents(log, m) \subseteq 1 .. (m - 1)
    BY DEF Parents
  <2>5. ASSUME log[m].type \notin Admissions PROVE Grounded(A, log, m)
    <3>1. PICK k \in Parents(log, m) : log[k].type # "CONFIG_ADMISSION"
      BY <2>2, <2>5 DEF WellCaused
    <3>2. CASE log[k].type = "SOURCE_ADMISSION"
      <4>1. WellCaused(log, k)
        BY <2>4, <3>1
      <4> QED BY <2>3, <3>1, <3>2, <4>1 DEF WellCaused, Grounded
    <3>3. CASE log[k].type # "SOURCE_ADMISSION"
      <4>1. Grounded(A, log, k)
        BY <2>1, <2>4, <3>1, <3>3 DEF Admissions
      <4> QED BY <2>3, <3>1, <4>1 DEF Grounded
    <3> QED BY <3>2, <3>3
  <2>6. ASSUME log[m].type \in Closing PROVE Covered(A, log, m)
    <3>1. Covers(log, m)
      BY <2>2, <2>6 DEF WellCaused
    <3>2. CASE m = Sources + 3 /\ Sources + 2 \in Parents(log, m)
      <4>1. \A k \in (Sources + 2) .. (m - 1) : k = Sources + 2
        BY <3>2, ReplayAssumption DEF ReplayAssumption
      <4> QED BY <2>3, <3>2, <4>1 DEF Covered
    <3>3. CASE \E s \in Parents(log, m) :
                 /\ log[s].type \in Closing
                 /\ \A k \in (s + 1) .. (m - 1) : log[k].type \in Milestones => k \in Parents(log, m)
      <4>1. PICK s \in Parents(log, m) :
                 /\ log[s].type \in Closing
                 /\ \A k \in (s + 1) .. (m - 1) : log[k].type \in Milestones => k \in Parents(log, m)
        BY <3>3
      <4>2. s \in 1 .. (m - 1) /\ Covered(A, log, s)
        BY <2>1, <2>4, <4>1
      <4>3. s \in A[m] /\ A[s] \subseteq A[m]
        BY <2>3
      <4> SUFFICES ASSUME NEW k \in (Sources + 2) .. (m - 1), log[k].type \in Milestones
                   PROVE  k \in A[m]
        BY DEF Covered
      <4>4. CASE k \in (Sources + 2) .. (s - 1)
        BY <4>2, <4>3, <4>4 DEF Covered
      <4>5. CASE k = s
        BY <4>3, <4>5
      <4>6. CASE k \in (s + 1) .. (m - 1)
        BY <2>3, <4>1, <4>6
      <4>7. k \in (Sources + 2) .. (s - 1) \/ k = s \/ k \in (s + 1) .. (m - 1)
        BY <4>2, ReplayAssumption DEF ReplayAssumption
      <4> QED BY <4>4, <4>5, <4>6, <4>7
    <3> QED BY <3>1, <3>2, <3>3 DEF Covers
  <2> QED BY <2>5, <2>6
<1>3. n \in Q
  <2> HIDE DEF Q
  <2> QED BY <1>1, <1>2, Induction
<1> QED BY <1>3

-----------------------------------------------------------------------------
(* What a digest is found to be *)

Parts == {"objects", "bytes", "keys"}

\* A digest that is found in one part only, where it is what it should be.
LEMMA ClassifySound ==
    ASSUME NEW store, NEW c, NEW part \in Parts, c \in DOMAIN store[part], store[part][c] = c,
           \A p \in Parts \ {part} : c \notin DOMAIN store[p],
           \A d \in DOMAIN store.keys : store.keys[d] = d
    PROVE  Classify(c, store) = part
<1> DEFINE found(p) == c \in DOMAIN store[p]
           sound(p) == found(p) /\ store[p][c] = c
           kinds == {p \in {"objects", "bytes", "keys"} : sound(p)}
           preimages == {d \in DOMAIN store.keys : d = c \/ store.keys[d] = c}
<1>1. kinds = {part}
  BY DEF Parts
<1>2. ~ \E d \in preimages : d # c \/ store.keys[d] # c
  OBVIOUS
<1>3. ~ \E p \in {"objects", "bytes"} : found(p) /\ ~sound(p)
  BY DEF Parts
<1>4. ~(Cardinality(kinds) > 1)
  <2>1. Cardinality({part}) = 1
    BY FS_Singleton
  <2> HIDE DEF kinds
  <2>2. Cardinality(kinds) = 1
    BY <1>1, <2>1
  <2> QED BY <2>2
<1>5. kinds # {} /\ (CHOOSE p \in kinds : TRUE) = part
  BY <1>1
<1>6. Classify(c, store)
        = IF \E d \in preimages : d # c \/ store.keys[d] # c THEN "PREIMAGE_MISMATCH"
          ELSE IF \E p \in {"objects", "bytes"} : found(p) /\ ~sound(p) THEN "RESOLUTION_MISMATCH"
          ELSE IF Cardinality(kinds) > 1 THEN "AMBIGUOUS"
          ELSE IF kinds = {} THEN "UNRESOLVED"
          ELSE CHOOSE p \in kinds : TRUE
  BY Zenon DEF Classify
<1> HIDE DEF kinds, preimages, sound, found
<1> QED BY <1>2, <1>3, <1>4, <1>5, <1>6

\* A digest that is found in a part where it is not what it should be.
LEMMA ClassifyUnsound ==
    ASSUME NEW store, NEW c, NEW part \in Parts, c \in DOMAIN store[part], store[part][c] # c
    PROVE  Classify(c, store) # part
<1> DEFINE found(p) == c \in DOMAIN store[p]
           sound(p) == found(p) /\ store[p][c] = c
           kinds == {p \in {"objects", "bytes", "keys"} : sound(p)}
           preimages == {d \in DOMAIN store.keys : d = c \/ store.keys[d] = c}
<1>1. (\E d \in preimages : d # c \/ store.keys[d] # c)
      \/ \E p \in {"objects", "bytes"} : found(p) /\ ~sound(p)
  BY DEF Parts
<1>2. Classify(c, store)
        = IF \E d \in preimages : d # c \/ store.keys[d] # c THEN "PREIMAGE_MISMATCH"
          ELSE IF \E p \in {"objects", "bytes"} : found(p) /\ ~sound(p) THEN "RESOLUTION_MISMATCH"
          ELSE IF Cardinality(kinds) > 1 THEN "AMBIGUOUS"
          ELSE IF kinds = {} THEN "UNRESOLVED"
          ELSE CHOOSE p \in kinds : TRUE
  BY Zenon DEF Classify
<1> HIDE DEF kinds, preimages, sound, found
<1>3. Classify(c, store) \in {"PREIMAGE_MISMATCH", "RESOLUTION_MISMATCH", "AMBIGUOUS", "UNRESOLVED"}
  BY <1>1, <1>2
<1> QED BY <1>3 DEF Parts

\* The places of the causes of a run's records do not coincide.
LEMMA DigestsApart ==
    ASSUME NEW i, NEW j
    PROVE  /\ ObjectAt(i) # Bytes(j) /\ ObjectAt(i) # <<"key", j>> /\ Bytes(i) # <<"key", j>>
           /\ ObjectAt(i) = ObjectAt(j) => i = j
           /\ i \in Nat => Null \notin {ObjectAt(i), Bytes(i), <<"key", i>>}
BY DigestAssumption DEF DigestAssumption, Digests, ObjectAt, Bytes

LEMMA CausesClassified ==
    ASSUME Records, NEW n \in 1 .. Len(ledger), NEW c \in ledger[n].causes
    PROVE  \E part \in Parts :
              /\ Classify(c, StoreBefore(n)) = part
              /\ Classify(c, [StoreBefore(n) EXCEPT ![part][c] = Null]) # part
<1> DEFINE O == {ObjectAt(k) : k \in 1 .. (n - 1)}
           store == StoreBefore(n)
<1>0. /\ DOMAIN store = Parts
      /\ DOMAIN store.objects = O /\ DOMAIN store.bytes = Kept /\ DOMAIN store.keys = keys
      /\ \A d \in O : store.objects[d] = d
      /\ \A d \in Kept : store.bytes[d] = d
      /\ \A d \in keys : store.keys[d] = d
  BY DEF StoreBefore, Identity, Parts, Kept
<1>1. c \in O \cup Kept \cup keys
  BY DEF Records, RecordAt
<1>2. \A d \in O : \E i \in Nat : d = ObjectAt(i)
  BY DEF Records
<1>3. \A d \in Kept : \E i \in Nat : d = Bytes(i)
  BY DEF Kept, Fixture, Config, Registry, Manifest, RunClosure
<1>4. \A d \in keys : \E i \in Nat : d = <<"key", i>>
  BY DEF Records
<1>5. O \cap Kept = {} /\ O \cap keys = {} /\ Kept \cap keys = {} /\ c # Null
  <2> HIDE DEF O
  <2>1. \A i \in Nat : Null \notin {ObjectAt(i), Bytes(i), <<"key", i>>}
    BY DigestsApart
  <2>2. \A i, j : ObjectAt(i) # Bytes(j) /\ ObjectAt(i) # <<"key", j>> /\ Bytes(i) # <<"key", j>>
    BY DigestsApart
  <2>3. c # Null
    BY <1>1, <1>2, <1>3, <1>4, <2>1
  <2> QED BY <1>2, <1>3, <1>4, <2>2, <2>3
<1> HIDE DEF O, store
<1>6. PICK part \in Parts :
         /\ c \in DOMAIN store[part] /\ store[part][c] = c
         /\ \A p \in Parts \ {part} : c \notin DOMAIN store[p]
  <2>1. CASE c \in O
    BY <1>0, <1>5, <2>1 DEF Parts
  <2>2. CASE c \in Kept
    BY <1>0, <1>5, <2>2 DEF Parts
  <2>3. CASE c \in keys
    BY <1>0, <1>5, <2>3 DEF Parts
  <2> QED BY <1>1, <2>1, <2>2, <2>3
<1>7. Classify(c, store) = part
  BY <1>0, <1>6, ClassifySound
<1> DEFINE altered == [store EXCEPT ![part][c] = Null]
<1>8. c \in DOMAIN altered[part] /\ altered[part][c] # c
  BY <1>0, <1>5, <1>6
<1>9. Classify(c, altered) # part
  <2> HIDE DEF altered
  <2> QED BY <1>8, ClassifyUnsound
<1> QED BY <1>7, <1>9 DEF store

LEMMA TraceSuffices == ASSUME TraceInv PROVE LedgerTracesBack
<1>1. PICK l \in Nat : l = Len(ledger) /\ DOMAIN ledger = 1 .. l
  BY DEF TraceInv, Records
<1>2. IsTrail(Ancestors, ledger)
  BY <1>1, AncestorsTrail
<1>3. \A n \in 1 .. l : WellCaused(ledger, n)
  BY <1>1 DEF TraceInv, Traced
<1>4. \A n \in 1 .. l : /\ ledger[n].type \notin Admissions => Grounded(Ancestors, ledger, n)
                        /\ ledger[n].type \in Closing => Covered(Ancestors, ledger, n)
  BY <1>1, <1>2, <1>3, TrailsLeadBack
<1> SUFFICES ASSUME NEW n \in Latest
             PROVE  LET store == StoreBefore(n)
                        trail == Ancestors[n]
                    IN  /\ \A cause \in ledger[n].causes : \E part \in {"objects", "bytes", "keys"} :
                              /\ Classify(cause, store) = part
                              /\ Classify(cause, [store EXCEPT ![part][cause] = Null]) # part
                        /\ ledger[n].type \notin {"SOURCE_ADMISSION", "CONFIG_ADMISSION"} =>
                              \E k \in trail : Fixture \in ledger[k].causes
                        /\ ledger[n].type \in {"PORTFOLIO_STATE", "KILL_STATE", "RUN_END"} =>
                              \A k \in (Sources + 2) .. (n - 1) :
                                 ledger[k].type \in {"RUN_RECEIPT", "PORTFOLIO_STATE", "KILL_STATE",
                                                     "SIMULATED_INTENT", "SIMULATED_FILL"} => k \in trail
  BY Zenon DEF LedgerTracesBack
<1>5. n \in 1 .. l
  BY <1>1 DEF Latest
<1>6. \A cause \in ledger[n].causes : \E part \in Parts :
         /\ Classify(cause, StoreBefore(n)) = part
         /\ Classify(cause, [StoreBefore(n) EXCEPT ![part][cause] = Null]) # part
  BY <1>1, <1>5, CausesClassified DEF TraceInv
<1>7. ledger[n].type \notin Admissions => Grounded(Ancestors, ledger, n)
  BY <1>4, <1>5, Zenon
<1>8. ledger[n].type \in Closing => Covered(Ancestors, ledger, n)
  BY <1>4, <1>5, Zenon
<1>9. {"PORTFOLIO_STATE", "KILL_STATE", "RUN_END"} \subseteq Closing
  BY DEF Closing, States
<1>10. {"RUN_RECEIPT", "PORTFOLIO_STATE", "KILL_STATE", "SIMULATED_INTENT", "SIMULATED_FILL"}
         \subseteq Milestones
  BY DEF Milestones, States
<1> QED BY <1>6, <1>7, <1>8, <1>9, <1>10, Zenon DEF Parts, Admissions, Grounded, Covered

-----------------------------------------------------------------------------
(* What a step writes *)

\* What the invariant says of a record that was just written.
Recorded(r, n, type, causes) ==
    r.type = type /\ r.causes = causes /\ (type # "RUN_END" => r.object = ObjectAt(n))

LEMMA FromBatch ==
    ASSUME NEW start \in Nat, NEW m \in Nat, NEW batch, batch = [i \in 1 .. m |-> batch[i]]
    PROVE  /\ \E S : RecordsFrom(start, batch) \in Seq(S)
           /\ Len(RecordsFrom(start, batch)) = m
           /\ \A i \in 1 .. m :
                 Recorded(RecordsFrom(start, batch)[i], start + i, batch[i].type,
                          Causes(batch[i].type, batch[i].context))
<1> DEFINE F(i) ==
        LET n == start + i
        IN  [record_id |-> <<"record", n>>, sequence |-> n - 1,
             previous |-> IF n = 1 THEN Null ELSE <<"record", n - 1>>,
             type |-> batch[i].type, object_schema |-> ObjectSchema[batch[i].type],
             object |-> IF batch[i].type = "RUN_END" THEN named.state ELSE ObjectAt(n),
             decision |-> Null, ingest |-> Null, group |-> Null, clock |-> Null,
             causes |-> Causes(batch[i].type, batch[i].context),
             entries |-> batch[i].entries, residuals |-> <<0, 0>>,
             unmatched_reservations |-> 0]
<1>1. DOMAIN batch = 1 .. m
  OBVIOUS
<1>2. RecordsFrom(start, batch) = [i \in 1 .. m |-> F(i)]
  BY <1>1 DEF RecordsFrom
<1>3. \A i \in 1 .. m : Recorded(F(i), start + i, batch[i].type,
                                 Causes(batch[i].type, batch[i].context))
  BY DEF Recorded
<1> HIDE DEF F
<1>4. RecordsFrom(start, batch) \in Seq({F(i) : i \in 1 .. m})
  BY <1>2
<1>5. Len(RecordsFrom(start, batch)) = m
  BY <1>2
<1>6. \A i \in 1 .. m : RecordsFrom(start, batch)[i] = F(i)
  BY <1>2
<1> QED BY <1>3, <1>4, <1>5, <1>6

\* The ledger grows by the records of the batch.
Grows(m) ==
    /\ \E S : ledger' \in Seq(S)
    /\ Len(ledger') = Len(ledger) + m
    /\ \A n \in 1 .. Len(ledger) : ledger'[n] = ledger[n]

Wrote(i, type, causes) == Recorded(ledger'[Len(ledger) + i], Len(ledger) + i, type, causes)

LEMMA Appended ==
    ASSUME NEW X, NEW s \in Seq(X), NEW t \in Seq(X)
    PROVE  /\ s \o t \in Seq(X) /\ Len(s \o t) = Len(s) + Len(t)
           /\ \A n \in 1 .. Len(s) : (s \o t)[n] = s[n]
           /\ \A i \in 1 .. Len(t) : (s \o t)[Len(s) + i] = t[i]
OBVIOUS

LEMMA Written ==
    ASSUME \E S : ledger \in Seq(S), NEW m \in Nat, NEW batch, batch = [i \in 1 .. m |-> batch[i]],
           Write(batch)
    PROVE  /\ Grows(m)
           /\ \A i \in 1 .. m :
                 Wrote(i, batch[i].type, Causes(batch[i].type, batch[i].context))
<1>1. PICK S : ledger \in Seq(S)
  OBVIOUS
<1>2. PICK l \in Nat : l = Len(ledger)
  BY <1>1
<1>3. PICK recs : recs = RecordsFrom(l, batch)
  OBVIOUS
<1>4. PICK T : recs \in Seq(T)
  BY <1>2, <1>3, FromBatch
<1>5. Len(recs) = m
        /\ \A i \in 1 .. m : Recorded(recs[i], l + i, batch[i].type,
                                      Causes(batch[i].type, batch[i].context))
  BY <1>2, <1>3, FromBatch
<1>6. ledger' = ledger \o recs
  BY <1>2, <1>3 DEF Write
<1>7. ledger \in Seq(S \cup T) /\ recs \in Seq(S \cup T)
  BY <1>1, <1>4
<1>8. /\ ledger' \in Seq(S \cup T) /\ Len(ledger') = l + m
      /\ \A n \in 1 .. l : ledger'[n] = ledger[n]
      /\ \A i \in 1 .. m : ledger'[l + i] = recs[i]
  <2>1. /\ ledger \o recs \in Seq(S \cup T) /\ Len(ledger \o recs) = Len(ledger) + Len(recs)
        /\ \A n \in 1 .. Len(ledger) : (ledger \o recs)[n] = ledger[n]
        /\ \A i \in 1 .. Len(recs) : (ledger \o recs)[Len(ledger) + i] = recs[i]
    BY <1>7, Appended
  <2> QED BY <1>2, <1>5, <1>6, <2>1, Zenon
<1> QED BY <1>2, <1>5, <1>8, Zenon DEF Grows, Wrote

-----------------------------------------------------------------------------
(* The causes of each type of record *)

LEMMA SourceCauses == \A x : Causes("SOURCE_ADMISSION", [fixture_manifest |-> x]) = {x} \ {Null}
BY DEF Causes, RequiredCauses, OptionalCauses, ListedCauses, Field, RecordTypes, ObjectSchema

LEMMA ConfigCauses == \A x : Causes("CONFIG_ADMISSION", [validated_config |-> x]) = {x} \ {Null}
BY DEF Causes, RequiredCauses, OptionalCauses, ListedCauses, Field, RecordTypes, ObjectSchema

LEMMA RunCauses ==
    \A a, b, c, d, e :
       Causes("RUN_RECEIPT", [fixture_manifest |-> a, config_admission |-> b, run_closure |-> c,
                              validated_config |-> d, source_admissions |-> e])
          = ({a, b, c, d} \ {Null}) \cup ToSet(e)
BY DEF Causes, RequiredCauses, OptionalCauses, ListedCauses, Field, RecordTypes, ObjectSchema

LEMMA EventCauses == \A x : Causes("RAW_ADMISSION", [source_admission |-> x]) = {x} \ {Null}
BY DEF Causes, RequiredCauses, OptionalCauses, ListedCauses, Field, RecordTypes, ObjectSchema

LEMMA SnapshotCauses == \A x : Causes("FEATURE_SNAPSHOT", [raw_events |-> <<x>>]) = {x}
BY DEF Causes, RequiredCauses, OptionalCauses, ListedCauses, Field, RecordTypes, ObjectSchema, ToSet

LEMMA ValidationCauses ==
    \A a, b, c :
       Causes("MODEL_VALIDATION", [feature_snapshot |-> a, model_registry |-> b, model_manifest |-> c])
          = {a, b, c} \ {Null}
BY DEF Causes, RequiredCauses, OptionalCauses, ListedCauses, Field, RecordTypes, ObjectSchema

LEMMA SignalCauses == \A x : Causes("MODEL_SIGNAL_ACCEPTED", [model_validation |-> x]) = {x} \ {Null}
BY DEF Causes, RequiredCauses, OptionalCauses, ListedCauses, Field, RecordTypes, ObjectSchema

LEMMA DecisionCauses ==
    \A d : Causes("RISK_DECISION", DecisionContext(d))
             = {named.snapshot, named.state, named.config,
                IF d.validated_config THEN Config ELSE Null,
                IF d.model_validation THEN named.validation ELSE Null,
                IF d.model_signal THEN named.signal ELSE Null} \ {Null}
BY DEF Causes, RequiredCauses, OptionalCauses, ListedCauses, Field, RecordTypes, ObjectSchema,
       DecisionContext

LEMMA IntentCauses ==
    \A a, b : Causes("SIMULATED_INTENT", [risk_decision |-> a, state_before |-> b]) = {a, b} \ {Null}
BY DEF Causes, RequiredCauses, OptionalCauses, ListedCauses, Field, RecordTypes, ObjectSchema

LEMMA FillCauses ==
    \A a, b, c, d, e :
       Causes("SIMULATED_FILL", [intent |-> a, state_before |-> b, fill_event |-> c, reasons |-> d,
                                 latching_risk_decision |-> e]) = {a, b, c, e} \ {Null}
BY DEF Causes, RequiredCauses, OptionalCauses, ListedCauses, Field, RecordTypes, ObjectSchema

LEMMA StateCauses ==
    \A a, b : \A type \in States :
       Causes(type, [causation |-> a, previous_state |-> b]) = {a, b} \ {Null}
<1>1. \A a, b : Causes("PORTFOLIO_STATE", [causation |-> a, previous_state |-> b]) = {a, b} \ {Null}
  BY DEF Causes, RequiredCauses, OptionalCauses, ListedCauses, Field, RecordTypes, ObjectSchema
<1>2. \A a, b : Causes("KILL_STATE", [causation |-> a, previous_state |-> b]) = {a, b} \ {Null}
  BY DEF Causes, RequiredCauses, OptionalCauses, ListedCauses, Field, RecordTypes, ObjectSchema
<1> QED BY <1>1, <1>2, Zenon DEF States

LEMMA GenesisCauses == \A x : Causes("PORTFOLIO_STATE", [causation |-> x]) = {x} \ {Null}
BY DEF Causes, RequiredCauses, OptionalCauses, ListedCauses, Field, RecordTypes, ObjectSchema

LEMMA ReconciliationCauses ==
    \A a, b, c :
       Causes("RECONCILIATION", [state_before |-> a, state_after |-> b, reconciled |-> c])
          = ({a, b} \ {Null}) \cup ToSet(c)
BY DEF Causes, RequiredCauses, OptionalCauses, ListedCauses, Field, RecordTypes, ObjectSchema

LEMMA EndCauses == \A x : Causes("RUN_END", [final_reconciliation |-> x]) = {x} \ {Null}
BY DEF Causes, RequiredCauses, OptionalCauses, ListedCauses, Field, RecordTypes, ObjectSchema

-----------------------------------------------------------------------------
(* A step keeps the invariant if the records it writes are well caused *)

LEMMA OldRecordsStay ==
    ASSUME NEW l \in Nat, NEW old, NEW new, NEW more, \A n \in 1 .. l : new[n] = old[n],
           NEW less, less \subseteq more, NEW n \in 1 .. l, RecordAt(old, less, n), WellCaused(old, n)
    PROVE  RecordAt(new, more, n) /\ WellCaused(new, n)
<1>1. new[n] = old[n] /\ \A k \in 1 .. (n - 1) : new[k] = old[k]
  OBVIOUS
<1>2. RecordAt(new, more, n)
  BY <1>1 DEF RecordAt
<1>3. Parents(new, n) = Parents(old, n) /\ Parents(old, n) \subseteq 1 .. (n - 1)
  BY <1>1 DEF Parents
<1>4. Covers(old, n) => Covers(new, n)
  <2>1. CASE n = Sources + 3 /\ Sources + 2 \in Parents(old, n)
    BY <1>3, <2>1 DEF Covers
  <2>2. ASSUME NEW s \in Parents(old, n), old[s].type \in Closing,
               \A k \in (s + 1) .. (n - 1) : old[k].type \in Milestones => k \in Parents(old, n)
        PROVE  Covers(new, n)
    <3>1. s \in 1 .. (n - 1)
      BY <1>3
    <3>2. \A k \in (s + 1) .. (n - 1) : k \in 1 .. (n - 1)
      BY <3>1
    <3> QED BY <1>1, <1>3, <2>2, <3>1, <3>2, Zenon DEF Covers
  <2> QED BY <2>1, <2>2, Zenon DEF Covers
<1>5. WellCaused(new, n)
  BY <1>1, <1>3, <1>4, Zenon DEF WellCaused
<1> QED BY <1>2, <1>5

\* A record that names the object of an earlier one joins the latter's trail.
LEMMA Joins ==
    ASSUME NEW log, NEW n \in Nat, NEW retained,
           \A k \in 1 .. (n - 1) : log[k].type # "RUN_END" => log[k].object = ObjectAt(k),
           NEW type, NEW causes, Recorded(log[n], n, type, causes), type \notin Admissions,
           causes \subseteq {ObjectAt(k) : k \in 1 .. (n - 1)} \cup Kept \cup retained,
           NEW p \in 1 .. (n - 1), ObjectAt(p) \in causes,
           log[p].type \notin {"RUN_END", "CONFIG_ADMISSION"},
           type \in Closing =>
              /\ log[p].type \in Closing
              /\ \A k \in (p + 1) .. (n - 1) : log[k].type \in Milestones => ObjectAt(k) \in causes
    PROVE  RecordAt(log, retained, n) /\ WellCaused(log, n)
<1>1. log[n].type = type /\ log[n].causes = causes
      /\ (type # "RUN_END" => log[n].object = ObjectAt(n))
  BY DEF Recorded
<1>2. RecordAt(log, retained, n)
  BY <1>1 DEF RecordAt
<1>3. p \in Parents(log, n)
  BY <1>1 DEF Parents
<1>4. \A k \in (p + 1) .. (n - 1) : log[k].type \in Milestones /\ ObjectAt(k) \in causes
                                      => k \in Parents(log, n)
  BY <1>1 DEF Parents, Milestones, States
<1>5. type \in Closing => Covers(log, n)
  BY <1>3, <1>4 DEF Covers
<1> QED BY <1>1, <1>2, <1>3, <1>5 DEF WellCaused, Admissions

LEMMA ObjectDigests == \A k \in Nat : ObjectAt(k) \in Digests /\ ObjectAt(k) # Null
BY DigestAssumption DEF DigestAssumption, Digests, ObjectAt

LEMMA NamesStay ==
    ASSUME NEW l \in Nat, NEW old, NEW new, Len(old) = l, NEW m \in Nat, Len(new) = l + m,
           \A n \in 1 .. l : new[n] = old[n],
           NEW digest, NEW types, Names(old, digest, types)
    PROVE  Names(new, digest, types)
<1>1. PICK k \in 1 .. l : digest = ObjectAt(k) /\ old[k].type \in types
  BY DEF Names
<1>2. k \in 1 .. (l + m) /\ new[k].type \in types
  BY <1>1
<1> QED BY <1>1, <1>2 DEF Names

LEMMA StateStays ==
    ASSUME NEW l \in Nat, NEW old, NEW new, Len(old) = l, NEW m \in Nat, Len(new) = l + m,
           \A n \in 1 .. l : new[n] = old[n],
           \A n \in (l + 1) .. (l + m) : new[n].type \notin Milestones,
           NEW digest, NamesState(old, digest)
    PROVE  NamesState(new, digest)
<1>1. PICK s \in 1 .. l : /\ digest = ObjectAt(s) /\ old[s].type \in States
                          /\ \A k \in (s + 1) .. l : old[k].type \notin Milestones
  BY DEF NamesState
<1>2. s \in 1 .. (l + m) /\ new[s].type \in States
  BY <1>1
<1>3. \A k \in (s + 1) .. (l + m) : k \in 1 .. l \/ k \in (l + 1) .. (l + m)
  OBVIOUS
<1>4. \A k \in (s + 1) .. (l + m) : new[k].type \notin Milestones
  BY <1>1, <1>3
<1> QED BY <1>1, <1>2, <1>4 DEF NamesState

LEMMA StepRecords ==
    ASSUME Records, Traced, NEW m \in Nat, Grows(m), keys \subseteq keys',
           keys' \subseteq {"key"} \X Nat,
           \A i \in 1 .. m : /\ RecordAt(ledger', keys', Len(ledger) + i)
                             /\ WellCaused(ledger', Len(ledger) + i)
    PROVE  Records' /\ Traced'
<1>1. PICK l \in Nat : l = Len(ledger)
  BY DEF Records
<1>2. Len(ledger') = l + m /\ \A n \in 1 .. l : ledger'[n] = ledger[n]
  BY <1>1 DEF Grows
<1>3. \A n \in 1 .. l : RecordAt(ledger, keys, n) /\ WellCaused(ledger, n)
  BY <1>1 DEF Records, Traced
<1>4. \A n \in 1 .. l : RecordAt(ledger', keys', n) /\ WellCaused(ledger', n)
  BY <1>2, <1>3, OldRecordsStay
<1>5. \A n \in 1 .. (l + m) : n \in 1 .. l \/ \E i \in 1 .. m : n = l + i
  <2> SUFFICES ASSUME NEW n \in 1 .. (l + m), n \notin 1 .. l PROVE \E i \in 1 .. m : n = l + i
    OBVIOUS
  <2>1. n - l \in 1 .. m /\ n = l + (n - l)
    OBVIOUS
  <2> QED BY <2>1
<1>6. \A n \in 1 .. (l + m) : RecordAt(ledger', keys', n) /\ WellCaused(ledger', n)
  BY <1>1, <1>4, <1>5, Zenon
<1>7. l + m > Sources + 3
  BY <1>1, ReplayAssumption DEF ReplayAssumption, Records
<1> QED BY <1>2, <1>6, <1>7 DEF Records, Traced, Grows

-----------------------------------------------------------------------------
(* The steps *)

\* The ledger and `named` before a step: its length, and the place of the latest state.
Standing(l, s) ==
    /\ s \in 1 .. l /\ l = Len(ledger) /\ l > Sources + 3 /\ \E S : ledger \in Seq(S)
    /\ \A k \in 1 .. l : ledger[k].type # "RUN_END" => ledger[k].object = ObjectAt(k)
    /\ named.state = ObjectAt(s) /\ ledger[s].type \in States
    /\ \A k \in (s + 1) .. l : ledger[k].type \notin Milestones
    /\ \A d \in {named.source, named.config, named.state, named.event, named.snapshot,
                 named.validation, named.signal, named.decision, named.intent} \ {Null} :
          \E k \in 1 .. l : d = ObjectAt(k)

LEMMA Before ==
    ASSUME TraceInv
    PROVE  \E l \in Nat, s \in Nat : Standing(l, s)
<1>1. PICK l \in Nat : l = Len(ledger) /\ l > Sources + 3
  BY DEF TraceInv, Records
<1>2. \A k \in 1 .. l : ledger[k].type # "RUN_END" => ledger[k].object = ObjectAt(k)
  BY <1>1 DEF TraceInv, Records, RecordAt
<1>3. PICK s \in 1 .. l : /\ named.state = ObjectAt(s) /\ ledger[s].type \in States
                          /\ \A k \in (s + 1) .. l : ledger[k].type \notin Milestones
  BY <1>1 DEF TraceInv, Named, NamesState
<1>4. \A d \in {named.source, named.config, named.state, named.event, named.snapshot,
                named.validation, named.signal, named.decision, named.intent} \ {Null} :
         \E k \in 1 .. l : d = ObjectAt(k)
  <2>1. \A d, types : Names(ledger, d, types) => \E k \in 1 .. l : d = ObjectAt(k)
    BY <1>1, Zenon DEF Names
  <2>2. Names(ledger, named.source, {"SOURCE_ADMISSION"}) /\ Names(ledger, named.config, {"CONFIG_ADMISSION"})
    BY Zenon DEF TraceInv, Named
  <2>3. \A d \in {named.event, named.snapshot, named.validation, named.signal, named.decision,
                  named.intent} : d = Null \/ Names(ledger, d, Beyond)
    BY Zenon DEF TraceInv, Named
  <2> QED BY <1>3, <2>1, <2>2, <2>3
<1>5. \E S : ledger \in Seq(S)
  BY DEF TraceInv, Records
<1>6. s \in Nat
  OBVIOUS
<1> QED BY <1>1, <1>2, <1>3, <1>4, <1>5, <1>6, Zenon DEF Standing

LEMMA PairTuples ==
    /\ \A a : <<a>> = [i \in 1 .. 1 |-> <<a>>[i]] /\ <<a>>[1] = a
    /\ \A a, b : <<a, b>> = [i \in 1 .. 2 |-> <<a, b>>[i]] /\ <<a, b>>[1] = a /\ <<a, b>>[2] = b
    /\ \A a, b, c : /\ <<a, b, c>> = [i \in 1 .. 3 |-> <<a, b, c>>[i]]
                    /\ <<a, b, c>>[1] = a /\ <<a, b, c>>[2] = b /\ <<a, b, c>>[3] = c
OBVIOUS

LEMMA DocFields ==
    \A type, doc, context, entries :
       Doc(type, doc, context, entries).type = type /\ Doc(type, doc, context, entries).context = context
BY DEF Doc

\* Batches of one, two and three records.
LEMMA WroteOne ==
    ASSUME \E S : ledger \in Seq(S), NEW type, NEW doc, NEW context, NEW entries,
           Write(<<Doc(type, doc, context, entries)>>)
    PROVE  Grows(1) /\ Wrote(1, type, Causes(type, context))
<1>1. PICK a : a = Doc(type, doc, context, entries)
  OBVIOUS
<1>2. a.type = type /\ a.context = context
  BY <1>1, DocFields
<1>3. <<a>> = [i \in 1 .. 1 |-> <<a>>[i]] /\ <<a>>[1] = a /\ Write(<<a>>)
  BY <1>1, PairTuples
<1>4. Grows(1) /\ \A i \in 1 .. 1 : Wrote(i, <<a>>[i].type, Causes(<<a>>[i].type, <<a>>[i].context))
  BY <1>3, Written
<1>5. 1 \in 1 .. 1
  OBVIOUS
<1> QED BY <1>2, <1>3, <1>4, <1>5, Zenon

LEMMA WroteTwo ==
    ASSUME \E S : ledger \in Seq(S), NEW a, NEW b, Write(<<a, b>>)
    PROVE  Grows(2) /\ Wrote(1, a.type, Causes(a.type, a.context))
                    /\ Wrote(2, b.type, Causes(b.type, b.context))
<1>1. <<a, b>> = [i \in 1 .. 2 |-> <<a, b>>[i]] /\ <<a, b>>[1] = a /\ <<a, b>>[2] = b
  BY PairTuples
<1>2. Grows(2) /\ \A i \in 1 .. 2 : Wrote(i, <<a, b>>[i].type, Causes(<<a, b>>[i].type, <<a, b>>[i].context))
  BY <1>1, Written
<1>3. 1 \in 1 .. 2 /\ 2 \in 1 .. 2
  OBVIOUS
<1> QED BY <1>1, <1>2, <1>3, Zenon

LEMMA WroteThree ==
    ASSUME \E S : ledger \in Seq(S), NEW a, NEW b, NEW c, Write(<<a, b, c>>)
    PROVE  Grows(3) /\ Wrote(1, a.type, Causes(a.type, a.context))
                    /\ Wrote(2, b.type, Causes(b.type, b.context))
                    /\ Wrote(3, c.type, Causes(c.type, c.context))
<1>1. /\ <<a, b, c>> = [i \in 1 .. 3 |-> <<a, b, c>>[i]]
      /\ <<a, b, c>>[1] = a /\ <<a, b, c>>[2] = b /\ <<a, b, c>>[3] = c
  BY PairTuples
<1>2. Grows(3) /\ \A i \in 1 .. 3 : Wrote(i, <<a, b, c>>[i].type,
                                             Causes(<<a, b, c>>[i].type, <<a, b, c>>[i].context))
  BY <1>1, Written
<1>3. 1 \in 1 .. 3 /\ 2 \in 1 .. 3 /\ 3 \in 1 .. 3
  OBVIOUS
<1> QED BY <1>1, <1>2, <1>3, Zenon

\* A record outside the closing types joins the trail of any earlier one.
LEMMA JoinsAny ==
    ASSUME NEW log, NEW n \in Nat, NEW retained,
           \A k \in 1 .. (n - 1) : log[k].type # "RUN_END" => log[k].object = ObjectAt(k),
           NEW type, NEW causes, Recorded(log[n], n, type, causes),
           type \notin Admissions, type \notin Closing,
           NEW p \in 1 .. (n - 1), ObjectAt(p) \in causes,
           log[p].type \notin {"RUN_END", "CONFIG_ADMISSION"},
           \A c \in causes : c \in Kept \cup retained \/ \E k \in 1 .. (n - 1) : c = ObjectAt(k)
    PROVE  RecordAt(log, retained, n) /\ WellCaused(log, n)
<1>1. causes \subseteq {ObjectAt(k) : k \in 1 .. (n - 1)} \cup Kept \cup retained
  OBVIOUS
<1> QED BY <1>1, Joins, Zenon

\* A closing record joins that of the closing record before, and names what
\* milestones there are in between.
LEMMA JoinsClosing ==
    ASSUME NEW log, NEW n \in Nat, NEW retained,
           \A k \in 1 .. (n - 1) : log[k].type # "RUN_END" => log[k].object = ObjectAt(k),
           NEW type \in Closing, NEW causes, Recorded(log[n], n, type, causes),
           NEW p \in 1 .. (n - 1), ObjectAt(p) \in causes, log[p].type \in Closing \ {"RUN_END"},
           \A k \in (p + 1) .. (n - 1) : log[k].type \in Milestones => ObjectAt(k) \in causes,
           \A c \in causes : c \in Kept \cup retained \/ \E k \in 1 .. (n - 1) : c = ObjectAt(k)
    PROVE  RecordAt(log, retained, n) /\ WellCaused(log, n)
<1>1. causes \subseteq {ObjectAt(k) : k \in 1 .. (n - 1)} \cup Kept \cup retained
  OBVIOUS
<1>2. type \notin Admissions /\ log[p].type \notin {"RUN_END", "CONFIG_ADMISSION"}
      /\ log[p].type \in Closing
  BY DEF Admissions, Closing, States
<1> QED BY <1>1, <1>2, Joins, Zenon

LEMMA NamedAfter ==
    ASSUME TraceInv, NEW m \in Nat, Grows(m), named' \in NamedType,
           named'.source = named.source, named'.config = named.config,
           NamesState(ledger', named'.state),
           \A d \in {named'.event, named'.snapshot, named'.validation, named'.signal,
                     named'.decision, named'.intent} :
              \/ d = Null
              \/ d \in {named.event, named.snapshot, named.validation, named.signal, named.decision,
                        named.intent}
              \/ \E i \in 1 .. m : d = ObjectAt(Len(ledger) + i)
                                   /\ ledger'[Len(ledger) + i].type \in Beyond
    PROVE  Named'
<1>1. PICK l \in Nat : l = Len(ledger)
  BY DEF TraceInv, Records
<1>2. Len(ledger') = l + m /\ \A k \in 1 .. l : ledger'[k] = ledger[k]
  BY <1>1, Zenon DEF Grows
<1>3. \A d, types : Names(ledger, d, types) => Names(ledger', d, types)
  BY <1>1, <1>2, NamesStay
<1>4. \A i \in 1 .. m : ledger'[l + i].type \in Beyond => Names(ledger', ObjectAt(l + i), Beyond)
  <2> TAKE i \in 1 .. m
  <2>1. l + i \in 1 .. (l + m)
    OBVIOUS
  <2> QED BY <1>2, <2>1, Zenon DEF Names
<1>5. /\ Names(ledger, named.source, {"SOURCE_ADMISSION"})
      /\ Names(ledger, named.config, {"CONFIG_ADMISSION"})
      /\ \A d \in {named.event, named.snapshot, named.validation, named.signal, named.decision,
                   named.intent} : d = Null \/ Names(ledger, d, Beyond)
  BY Zenon DEF TraceInv, Named
<1>6. \A d \in {named'.event, named'.snapshot, named'.validation, named'.signal, named'.decision,
                named'.intent} : d = Null \/ Names(ledger', d, Beyond)
  BY <1>1, <1>3, <1>4, <1>5, Zenon
<1> QED BY <1>3, <1>5, <1>6, Zenon DEF Named

LEMMA LatestState ==
    ASSUME NEW log, NEW n \in 1 .. Len(log), log[n].type \in States,
           \A k \in (n + 1) .. Len(log) : log[k].type \notin Milestones
    PROVE  NamesState(log, ObjectAt(n))
BY DEF NamesState

\* The i-th record of a step.
LEMMA PlainStep ==
    ASSUME NEW l \in Nat, NEW s \in Nat, Standing(l, s), NEW m \in Nat, Grows(m), NEW i \in 1 .. m,
           \A j \in 1 .. (i - 1) : ledger'[l + j].object = ObjectAt(l + j),
           NEW type, NEW causes, Wrote(i, type, causes), type \notin Admissions, type \notin Closing,
           NEW p \in 1 .. (l + i - 1), ObjectAt(p) \in causes,
           ledger'[p].type \notin {"RUN_END", "CONFIG_ADMISSION"},
           \A c \in causes : c \in Kept \cup keys' \/ \E k \in 1 .. (l + i - 1) : c = ObjectAt(k)
    PROVE  RecordAt(ledger', keys', l + i) /\ WellCaused(ledger', l + i)
<1>1. PICK n \in Nat : n = l + i
  OBVIOUS
<1>2. l = Len(ledger) /\ \A k \in 1 .. l : ledger[k].type # "RUN_END" => ledger[k].object = ObjectAt(k)
  BY DEF Standing
<1>3. \A k \in 1 .. l : ledger'[k] = ledger[k]
  BY <1>2 DEF Grows
<1>4. \A k \in 1 .. (n - 1) : k \in 1 .. l \/ \E j \in 1 .. (i - 1) : k = l + j
  <2> SUFFICES ASSUME NEW k \in 1 .. (n - 1), k \notin 1 .. l PROVE \E j \in 1 .. (i - 1) : k = l + j
    OBVIOUS
  <2>1. k - l \in 1 .. (i - 1) /\ k = l + (k - l)
    BY <1>1
  <2> QED BY <2>1
<1>5. \A k \in 1 .. (n - 1) : ledger'[k].type # "RUN_END" => ledger'[k].object = ObjectAt(k)
  BY <1>2, <1>3, <1>4, Zenon
<1>6. Recorded(ledger'[n], n, type, causes)
  BY <1>1, <1>2 DEF Wrote
<1>7. /\ p \in 1 .. (n - 1)
      /\ \A c \in causes : c \in Kept \cup keys' \/ \E k \in 1 .. (n - 1) : c = ObjectAt(k)
  BY <1>1
<1>8. RecordAt(ledger', keys', n) /\ WellCaused(ledger', n)
  BY <1>5, <1>6, <1>7, JoinsAny, Zenon
<1> QED BY <1>1, <1>8

LEMMA ClosingStep ==
    ASSUME NEW l \in Nat, NEW s \in Nat, Standing(l, s), NEW m \in Nat, Grows(m), NEW i \in 1 .. m,
           \A j \in 1 .. (i - 1) : ledger'[l + j].object = ObjectAt(l + j),
           NEW type \in Closing, NEW causes, Wrote(i, type, causes),
           NEW p \in 1 .. (l + i - 1), ObjectAt(p) \in causes,
           ledger'[p].type \in Closing \ {"RUN_END"},
           \A k \in (p + 1) .. (l + i - 1) : ledger'[k].type \in Milestones => ObjectAt(k) \in causes,
           \A c \in causes : c \in Kept \cup keys' \/ \E k \in 1 .. (l + i - 1) : c = ObjectAt(k)
    PROVE  RecordAt(ledger', keys', l + i) /\ WellCaused(ledger', l + i)
<1>1. PICK n \in Nat : n = l + i
  OBVIOUS
<1>2. l = Len(ledger) /\ \A k \in 1 .. l : ledger[k].type # "RUN_END" => ledger[k].object = ObjectAt(k)
  BY DEF Standing
<1>3. \A k \in 1 .. l : ledger'[k] = ledger[k]
  BY <1>2 DEF Grows
<1>4. \A k \in 1 .. (n - 1) : k \in 1 .. l \/ \E j \in 1 .. (i - 1) : k = l + j
  <2> SUFFICES ASSUME NEW k \in 1 .. (n - 1), k \notin 1 .. l PROVE \E j \in 1 .. (i - 1) : k = l + j
    OBVIOUS
  <2>1. k - l \in 1 .. (i - 1) /\ k = l + (k - l)
    BY <1>1
  <2> QED BY <2>1
<1>5. \A k \in 1 .. (n - 1) : ledger'[k].type # "RUN_END" => ledger'[k].object = ObjectAt(k)
  BY <1>2, <1>3, <1>4, Zenon
<1>6. Recorded(ledger'[n], n, type, causes)
  BY <1>1, <1>2 DEF Wrote
<1>7. /\ p \in 1 .. (n - 1)
      /\ \A k \in (p + 1) .. (n - 1) : ledger'[k].type \in Milestones => ObjectAt(k) \in causes
      /\ \A c \in causes : c \in Kept \cup keys' \/ \E k \in 1 .. (n - 1) : c = ObjectAt(k)
  BY <1>1
<1>8. RecordAt(ledger', keys', n) /\ WellCaused(ledger', n)
  BY <1>5, <1>6, <1>7, JoinsClosing, Zenon
<1> QED BY <1>1, <1>8

\* All the records of a step.
LEMMA StepDone ==
    ASSUME TraceInv, NEW l \in Nat, NEW s \in Nat, Standing(l, s), NEW m \in Nat, Grows(m),
           keys \subseteq keys', keys' \subseteq {"key"} \X Nat,
           \A i \in 1 .. m : RecordAt(ledger', keys', l + i) /\ WellCaused(ledger', l + i)
    PROVE  Records' /\ Traced'
<1>1. l = Len(ledger) /\ Records /\ Traced
  BY DEF Standing, TraceInv
<1> QED BY <1>1, StepRecords

\* Nothing a step writes is a state: the latest one stays.
LEMMA StateStands ==
    ASSUME TraceInv, NEW l \in Nat, NEW s \in Nat, Standing(l, s), NEW m \in Nat, Grows(m),
           \A i \in 1 .. m : ledger'[l + i].type \notin Milestones
    PROVE  NamesState(ledger', named.state)
<1>1. NamesState(ledger, named.state) /\ l = Len(ledger)
  BY DEF TraceInv, Named, Standing
<1>2. Len(ledger') = l + m /\ \A n \in 1 .. l : ledger'[n] = ledger[n]
  BY <1>1 DEF Grows
<1>3. \A n \in (l + 1) .. (l + m) : ledger'[n].type \notin Milestones
  <2> SUFFICES ASSUME NEW n \in (l + 1) .. (l + m) PROVE ledger'[n].type \notin Milestones
    OBVIOUS
  <2>1. n - l \in 1 .. m /\ n = l + (n - l)
    OBVIOUS
  <2> QED BY <2>1
<1> QED BY <1>1, <1>2, <1>3, StateStays

LEMMA ObjectPlace ==
    ASSUME NEW l \in Nat, NEW s \in Nat, Standing(l, s), NEW i \in Nat
    PROVE  Object(i) = ObjectAt(l + i) /\ ObjectAt(l + i) \in Digests /\ ObjectAt(l + i) # Null
<1>1. Object(i) = ObjectAt(l + i)
  BY DEF Standing, Object, ObjectAt
<1>2. l + i \in Nat
  OBVIOUS
<1> QED BY <1>1, <1>2, ObjectDigests

LEMMA WroteObject ==
    ASSUME NEW l \in Nat, NEW s \in Nat, Standing(l, s), NEW i \in Nat, NEW type, NEW causes,
           Wrote(i, type, causes)
    PROVE  /\ ledger'[l + i].type = type
           /\ type # "RUN_END" => ledger'[l + i].object = ObjectAt(l + i)
BY DEF Standing, Wrote, Recorded

-----------------------------------------------------------------------------
(* A group is admitted *)

LEMMA RawGroupCommitKeeps == ASSUME TraceInv, RawGroupCommit PROVE TraceInv'
<1>1. PICK l \in Nat, s \in Nat : Standing(l, s)
  BY Before
<1>2. PICK doc : Write(<<Doc("RAW_ADMISSION", doc, [source_admission |-> named.source], NoEntries)>>)
  BY Zenon DEF RawGroupCommit
<1>3. PICK p \in 1 .. l : named.source = ObjectAt(p) /\ ledger[p].type = "SOURCE_ADMISSION"
  BY <1>1 DEF Standing, TraceInv, Named, Names
<1>4. Grows(1) /\ Wrote(1, "RAW_ADMISSION", {ObjectAt(p)})
  <2>1. Causes("RAW_ADMISSION", [source_admission |-> named.source]) = {ObjectAt(p)}
    BY <1>3, EventCauses, ObjectDigests
  <2>2. \E S : ledger \in Seq(S)
    BY <1>1 DEF Standing
  <2> QED BY <1>2, <2>1, <2>2, WroteOne, Zenon
<1>5. ledger'[l + 1].type = "RAW_ADMISSION"
  BY <1>1, <1>4, WroteObject
<1>6. keys' = keys
  BY DEF RawGroupCommit
<1>7. Records' /\ Traced'
  <2>1. "RAW_ADMISSION" \notin Admissions /\ "RAW_ADMISSION" \notin Closing
    BY DEF Admissions, Closing, States
  <2>2. 1 \in 1 .. 1 /\ (1 .. (1 - 1)) = {} /\ p \in 1 .. (l + 1 - 1)
    BY <1>3
  <2>3. ledger'[p].type = "SOURCE_ADMISSION"
    BY <1>1, <1>3, <1>4 DEF Standing, Grows
  <2>4. RecordAt(ledger', keys', l + 1) /\ WellCaused(ledger', l + 1)
    BY <1>1, <1>4, <2>1, <2>2, <2>3, PlainStep
  <2>5. \A i \in 1 .. 1 : i = 1
    OBVIOUS
  <2>6. keys \subseteq keys' /\ keys' \subseteq {"key"} \X Nat
    BY <1>6 DEF TraceInv, Records
  <2> QED BY <1>1, <1>4, <2>4, <2>5, <2>6, StepDone
<1>8. ObjectAt(l + 1) \in Digests /\ ObjectAt(l + 1) # Null /\ Object(1) = ObjectAt(l + 1)
  BY <1>1, ObjectPlace
<1>9. named' = [named EXCEPT !.event = ObjectAt(l + 1)]
  BY <1>8 DEF RawGroupCommit
<1>10. /\ named'.event = ObjectAt(l + 1)
       /\ named'.source = named.source /\ named'.config = named.config /\ named'.state = named.state
       /\ named'.snapshot = named.snapshot /\ named'.validation = named.validation
       /\ named'.signal = named.signal /\ named'.decision = named.decision
       /\ named'.intent = named.intent
       /\ named' \in NamedType
  BY <1>8, <1>9 DEF TraceInv, Named, NamedType, Optional
<1>11. Named'
  <2>1. NamesState(ledger', named.state)
    <3>1. \A i \in 1 .. 1 : ledger'[l + i].type \notin Milestones
      BY <1>5 DEF Milestones, States
    <3> QED BY <1>1, <1>4, <3>1, StateStands
  <2>2. "RAW_ADMISSION" \in Beyond /\ l = Len(ledger)
    BY <1>1 DEF Beyond, Admissions, RecordTypes, ObjectSchema, Standing
  <2> QED BY <1>4, <1>5, <1>10, <2>1, <2>2, NamedAfter
<1>12. Ready'
  BY <1>8, <1>10, ReplayAssumption DEF TraceInv, Ready, RawGroupCommit, ReplayAssumption
<1> QED BY <1>7, <1>11, <1>12 DEF TraceInv
-----------------------------------------------------------------------------
(* A fill *)

LEMMA FillDocs ==
    ASSUME NEW f, NEW n, NEW latching
    PROVE  \E a, b : /\ FillRecords(f, n, latching) = <<a, b>>
                     /\ a.type = "SIMULATED_FILL"
                     /\ a.context = [intent |-> named.intent, state_before |-> named.state,
                                     fill_event |-> IF f.fill_event = Null THEN Null ELSE named.event,
                                     reasons |-> f.reasons, latching_risk_decision |-> latching]
                     /\ b.type = "PORTFOLIO_STATE"
                     /\ b.context = [causation |-> Object(n), previous_state |-> named.state]
<1>1. PICK after : after = Settled(portfolio, intent, f, Object(n))
  OBVIOUS
<1>2. PICK c, d :
         /\ c = [intent |-> named.intent, state_before |-> named.state,
                 fill_event |-> IF f.fill_event = Null THEN Null ELSE named.event,
                 reasons |-> f.reasons, latching_risk_decision |-> latching]
         /\ d = [causation |-> Object(n), previous_state |-> named.state]
  OBVIOUS
<1>3. PICK a, b : /\ a = Doc("SIMULATED_FILL", f, c, FillEntries(f, after))
                  /\ b = Doc("PORTFOLIO_STATE", after, d, NoEntries)
  OBVIOUS
<1>4. FillRecords(f, n, latching) = <<a, b>>
  BY <1>1, <1>2, <1>3, Zenon DEF FillRecords
<1>5. a.type = "SIMULATED_FILL" /\ a.context = c /\ b.type = "PORTFOLIO_STATE" /\ b.context = d
  BY <1>3 DEF Doc
<1> QED BY <1>2, <1>4, <1>5, Zenon

\* What a fill and its state may name.
LEMMA FillNames ==
    ASSUME NEW f, NEW latching, NEW F,
           F = Causes("SIMULATED_FILL",
                  [intent |-> named.intent, state_before |-> named.state,
                   fill_event |-> IF f.fill_event = Null THEN Null ELSE named.event,
                   reasons |-> f.reasons, latching_risk_decision |-> latching])
    PROVE  /\ F \subseteq {named.intent, named.state, named.event, latching} \ {Null}
           /\ named.state # Null => named.state \in F
           /\ latching # Null => latching \in F
BY FillCauses

\* The records of a fill that is settled on its own.
LEMMA FillRecorded ==
    ASSUME TraceInv, NEW f, Write(FillRecords(f, 1, Null)), keys' = keys
    PROVE  Records' /\ Traced' /\ Grows(2) /\ NamesState(ledger', Object(2))
<1>1. PICK l \in Nat, s \in Nat : Standing(l, s)
  BY Before
<1>2. PICK a, b :
         /\ FillRecords(f, 1, Null) = <<a, b>>
         /\ a.type = "SIMULATED_FILL"
         /\ a.context = [intent |-> named.intent, state_before |-> named.state,
                         fill_event |-> IF f.fill_event = Null THEN Null ELSE named.event,
                         reasons |-> f.reasons, latching_risk_decision |-> Null]
         /\ b.type = "PORTFOLIO_STATE"
         /\ b.context = [causation |-> Object(1), previous_state |-> named.state]
  BY FillDocs
<1>3. PICK F : F = Causes(a.type, a.context)
  OBVIOUS
<1>4. PICK C : C = {ObjectAt(l + 1), ObjectAt(s)}
  OBVIOUS
<1>5. s \in 1 .. l /\ named.state = ObjectAt(s) /\ ObjectAt(s) # Null /\ ObjectAt(l + 1) # Null
      /\ Object(1) = ObjectAt(l + 1) /\ Object(2) = ObjectAt(l + 2)
  BY <1>1, ObjectPlace, ObjectDigests DEF Standing
<1>6. F \subseteq {named.intent, named.state, named.event} \ {Null} /\ ObjectAt(s) \in F
  BY <1>2, <1>3, <1>5, FillNames
<1>7. Causes(b.type, b.context) = C
  <2>1. Causes("PORTFOLIO_STATE", [causation |-> Object(1), previous_state |-> named.state])
          = {Object(1), named.state} \ {Null}
    BY StateCauses DEF States
  <2> QED BY <1>2, <1>4, <1>5, <2>1
<1>8. Grows(2) /\ Wrote(1, "SIMULATED_FILL", F) /\ Wrote(2, "PORTFOLIO_STATE", C)
  <2>1. Write(<<a, b>>) /\ \E S : ledger \in Seq(S)
    BY <1>1, <1>2 DEF Standing
  <2>2. Grows(2) /\ Wrote(1, a.type, Causes(a.type, a.context)) /\ Wrote(2, b.type, Causes(b.type, b.context))
    BY <2>1, WroteTwo, Zenon
  <2> QED BY <1>2, <1>3, <1>7, <2>2
<1>9. /\ ledger'[l + 1].type = "SIMULATED_FILL" /\ ledger'[l + 1].object = ObjectAt(l + 1)
      /\ ledger'[l + 2].type = "PORTFOLIO_STATE"
  BY <1>1, <1>8, WroteObject
<1>10. ledger'[s] = ledger[s] /\ ledger[s].type \in States
       /\ \A k \in (s + 1) .. l : ledger'[k].type \notin Milestones
  BY <1>1, <1>8 DEF Standing, Grows
<1>11. RecordAt(ledger', keys', l + 1) /\ WellCaused(ledger', l + 1)
  <2>1. "SIMULATED_FILL" \notin Admissions /\ "SIMULATED_FILL" \notin Closing
    BY DEF Admissions, Closing, States
  <2>2. 1 \in 1 .. 2 /\ (1 .. (1 - 1)) = {} /\ s \in 1 .. (l + 1 - 1) /\ (1 .. (l + 1 - 1)) = 1 .. l
    BY <1>5
  <2>3. ledger'[s].type \notin {"RUN_END", "CONFIG_ADMISSION"}
    BY <1>10 DEF States
  <2>4. \A c \in F : \E k \in 1 .. l : c = ObjectAt(k)
    <3>1. \A c \in F : c \in {named.intent, named.state, named.event} /\ c # Null
      BY <1>6
    <3> QED BY <1>1, <3>1, Zenon DEF Standing
  <2>5. \A c \in F : c \in Kept \cup keys' \/ \E k \in 1 .. (l + 1 - 1) : c = ObjectAt(k)
    BY <2>2, <2>4
  <2> QED BY <1>1, <1>6, <1>8, <2>1, <2>2, <2>3, <2>5, PlainStep
<1>12. RecordAt(ledger', keys', l + 2) /\ WellCaused(ledger', l + 2)
  <2>1. "PORTFOLIO_STATE" \in Closing
    BY DEF Closing, States
  <2>2. 2 \in 1 .. 2 /\ \A j \in 1 .. (2 - 1) : ledger'[l + j].object = ObjectAt(l + j)
    BY <1>9
  <2>3. s \in 1 .. (l + 2 - 1) /\ ledger'[s].type \in Closing \ {"RUN_END"}
    BY <1>5, <1>10 DEF Closing, States
  <2>4. \A k \in (s + 1) .. (l + 2 - 1) : ledger'[k].type \in Milestones => ObjectAt(k) \in C
    BY <1>4, <1>5, <1>10
  <2>5. \A c \in C : c \in Kept \cup keys' \/ \E k \in 1 .. (l + 2 - 1) : c = ObjectAt(k)
    BY <1>4, <1>5
  <2>6. ObjectAt(s) \in C
    BY <1>4
  <2> QED BY <1>1, <1>8, <2>1, <2>2, <2>3, <2>4, <2>5, <2>6, ClosingStep
<1>13. Records' /\ Traced'
  <2>1. \A i \in 1 .. 2 : i = 1 \/ i = 2
    OBVIOUS
  <2>2. keys \subseteq keys' /\ keys' \subseteq {"key"} \X Nat
    BY DEF TraceInv, Records
  <2> QED BY <1>1, <1>8, <1>11, <1>12, <2>1, <2>2, StepDone
<1>14. NamesState(ledger', Object(2))
  <2>1. l + 2 \in 1 .. Len(ledger') /\ ledger'[l + 2].type \in States
        /\ \A k \in (l + 2 + 1) .. Len(ledger') : FALSE
    BY <1>1, <1>8, <1>9 DEF States, Standing, Grows
  <2> QED BY <1>5, <2>1, LatestState
<1> QED BY <1>8, <1>13, <1>14

LEMMA FillNamed ==
    ASSUME TraceInv, Grows(2), NamesState(ledger', Object(2)),
           named' = [named EXCEPT !.state = Object(2), !.intent = Null]
    PROVE  Named' /\ named'.event = named.event /\ named'.decision = named.decision
<1>1. Object(2) \in Digests
  <2>1. PICK l \in Nat, s \in Nat : Standing(l, s)
    BY Before
  <2> QED BY <2>1, ObjectPlace
<1>2. /\ named'.state = Object(2) /\ named'.intent = Null
      /\ named'.source = named.source /\ named'.config = named.config /\ named'.event = named.event
      /\ named'.snapshot = named.snapshot /\ named'.validation = named.validation
      /\ named'.signal = named.signal /\ named'.decision = named.decision
      /\ named' \in NamedType
  BY <1>1 DEF TraceInv, Named, NamedType, Optional
<1> QED BY <1>2, NamedAfter

LEMMA FillKeeps == ASSUME TraceInv, Fill PROVE TraceInv'
<1>1. PICK f : Write(FillRecords(f, 1, Null))
  BY Zenon DEF Fill
<1>2. Records' /\ Traced' /\ Grows(2) /\ NamesState(ledger', Object(2))
  BY <1>1, FillRecorded DEF Fill
<1>3. Named' /\ named'.event = named.event
  BY <1>2, FillNamed DEF Fill
<1>4. Ready'
  BY <1>3 DEF TraceInv, Ready, Fill
<1> QED BY <1>2, <1>3, <1>4 DEF TraceInv

LEMMA FinalGateKeeps == ASSUME TraceInv, FinalGate PROVE TraceInv'
<1>1. PICK f : Write(FillRecords(f, 1, Null))
  BY Zenon DEF FinalGate
<1>2. Records' /\ Traced' /\ Grows(2) /\ NamesState(ledger', Object(2))
  BY <1>1, FillRecorded DEF FinalGate
<1>3. Named' /\ named'.decision = named.decision
  BY <1>2, FillNamed DEF FinalGate
<1>4. Ready'
  BY <1>3 DEF TraceInv, Ready, FinalGate
<1> QED BY <1>2, <1>3, <1>4 DEF TraceInv

-----------------------------------------------------------------------------
(* A mark and a snapshot *)

\* A state that follows the latest one, caused by a key.
LEMMA KeyedState ==
    ASSUME NEW l \in Nat, NEW s \in Nat, Standing(l, s), NEW m \in Nat, Grows(m), NEW i \in 1 .. m,
           \A j \in 1 .. (i - 1) : ledger'[l + j].object = ObjectAt(l + j),
           NEW type \in States, NEW key \in keys', NEW p \in 1 .. (l + i - 1),
           Wrote(i, type, {key, ObjectAt(p)}), ledger'[p].type \in States,
           \A k \in (p + 1) .. (l + i - 1) : ledger'[k].type \notin Milestones
    PROVE  RecordAt(ledger', keys', l + i) /\ WellCaused(ledger', l + i)
<1>1. PICK C : C = {key, ObjectAt(p)}
  OBVIOUS
<1>2. type \in Closing /\ ledger'[p].type \in Closing \ {"RUN_END"}
  BY DEF Closing, States
<1>3. ObjectAt(p) \in C /\ Wrote(i, type, C)
  BY <1>1
<1>4. \A c \in C : c \in Kept \cup keys' \/ \E k \in 1 .. (l + i - 1) : c = ObjectAt(k)
  BY <1>1
<1>5. \A k \in (p + 1) .. (l + i - 1) : ledger'[k].type \in Milestones => ObjectAt(k) \in C
  OBVIOUS
<1> QED BY <1>2, <1>3, <1>4, <1>5, ClosingStep, Zenon

LEMMA GroupMarkKeeps == ASSUME TraceInv, GroupMark PROVE TraceInv'
<1>1. PICK l \in Nat, s \in Nat : Standing(l, s)
  BY Before
<1>2. group' = group /\ phase' = "SNAPSHOT" /\ phase = "GROUP_MARK" /\ named.event # Null
  BY DEF GroupMark, TraceInv, Ready
<1>3. CASE Holding(portfolio)
  <2>1. PICK doc, entries :
           Write(<<Doc("PORTFOLIO_STATE", doc,
                       [causation |-> MarkKey(group), previous_state |-> named.state], entries)>>)
    BY <1>3, Zenon DEF GroupMark
  <2>2. named' = [named EXCEPT !.state = Object(1)] /\ keys' = keys \cup {MarkKey(group)}
    BY <1>3, Zenon DEF GroupMark
  <2>3. PICK key : key = MarkKey(group)
    OBVIOUS
  <2>4. key \in {"key"} \X Nat /\ key # Null
    BY <2>3, DigestAssumption, ReplayAssumption
       DEF TraceInv, Ready, MarkKey, DigestAssumption, Digests, ReplayAssumption
  <2>5. s \in 1 .. l /\ named.state = ObjectAt(s) /\ ObjectAt(s) # Null
        /\ Object(1) = ObjectAt(l + 1) /\ ObjectAt(l + 1) \in Digests
    BY <1>1, ObjectPlace, ObjectDigests DEF Standing
  <2>6. Grows(1) /\ Wrote(1, "PORTFOLIO_STATE", {key, ObjectAt(s)})
    <3>1. Causes("PORTFOLIO_STATE", [causation |-> MarkKey(group), previous_state |-> named.state])
            = {key, ObjectAt(s)}
      <4>1. Causes("PORTFOLIO_STATE", [causation |-> MarkKey(group), previous_state |-> named.state])
              = {MarkKey(group), named.state} \ {Null}
        BY StateCauses DEF States
      <4> QED BY <2>3, <2>4, <2>5, <4>1
    <3>2. \E S : ledger \in Seq(S)
      BY <1>1 DEF Standing
    <3> QED BY <2>1, <3>1, <3>2, WroteOne, Zenon
  <2>7. ledger'[l + 1].type = "PORTFOLIO_STATE"
    BY <1>1, <2>6, WroteObject
  <2>8. ledger'[s] = ledger[s] /\ ledger[s].type \in States
        /\ \A k \in (s + 1) .. l : ledger'[k].type \notin Milestones
    BY <1>1, <2>6 DEF Standing, Grows
  <2>9. Records' /\ Traced'
    <3>1. 1 \in 1 .. 1 /\ (1 .. (1 - 1)) = {} /\ s \in 1 .. (l + 1 - 1) /\ l + 1 - 1 = l
      BY <2>5
    <3>2. "PORTFOLIO_STATE" \in States /\ key \in keys' /\ ledger'[s].type \in States
      BY <2>2, <2>3, <2>8 DEF States
    <3>3. RecordAt(ledger', keys', l + 1) /\ WellCaused(ledger', l + 1)
      BY <1>1, <2>6, <2>8, <3>1, <3>2, KeyedState
    <3>4. \A i \in 1 .. 1 : i = 1
      OBVIOUS
    <3>5. keys \subseteq keys' /\ keys' \subseteq {"key"} \X Nat
      BY <2>2, <2>3, <2>4 DEF TraceInv, Records
    <3> QED BY <1>1, <2>6, <3>3, <3>4, <3>5, StepDone
  <2>10. /\ named'.state = ObjectAt(l + 1)
         /\ named'.source = named.source /\ named'.config = named.config /\ named'.event = named.event
         /\ named'.snapshot = named.snapshot /\ named'.validation = named.validation
         /\ named'.signal = named.signal /\ named'.decision = named.decision
         /\ named'.intent = named.intent
         /\ named' \in NamedType
    BY <2>2, <2>5 DEF TraceInv, Named, NamedType, Optional
  <2>11. NamesState(ledger', ObjectAt(l + 1))
    <3>1. l + 1 \in 1 .. Len(ledger') /\ ledger'[l + 1].type \in States
          /\ \A k \in (l + 1 + 1) .. Len(ledger') : FALSE
      BY <1>1, <2>6, <2>7 DEF States, Standing, Grows
    <3> QED BY <3>1, LatestState
  <2>12. Named'
    BY <2>6, <2>10, <2>11, NamedAfter
  <2>13. Ready'
    BY <1>2, <2>10 DEF TraceInv, Ready
  <2> QED BY <2>9, <2>12, <2>13 DEF TraceInv
<1>4. CASE ~Holding(portfolio)
  <2>1. Write(<<>>) /\ named' = named /\ keys' = keys
    BY <1>4, Zenon DEF GroupMark
  <2>2. Grows(0)
    <3>1. << >> = [i \in 1 .. 0 |-> << >>[i]] /\ \E S : ledger \in Seq(S)
      BY <1>1 DEF Standing
    <3> QED BY <2>1, <3>1, Written
  <2>3. Records' /\ Traced'
    <3>1. \A i \in 1 .. 0 : RecordAt(ledger', keys', l + i) /\ WellCaused(ledger', l + i)
      OBVIOUS
    <3>2. keys \subseteq keys' /\ keys' \subseteq {"key"} \X Nat
      BY <2>1 DEF TraceInv, Records
    <3> QED BY <1>1, <2>2, <3>1, <3>2, StepDone
  <2>4. NamesState(ledger', named.state)
    <3>1. \A i \in 1 .. 0 : ledger'[l + i].type \notin Milestones
      OBVIOUS
    <3> QED BY <1>1, <2>2, <3>1, StateStands
  <2>5. Named'
    <3>1. named' \in NamedType
      BY <2>1 DEF TraceInv, Named
    <3> QED BY <2>1, <2>2, <2>4, <3>1, NamedAfter
  <2>6. Ready'
    BY <1>2, <2>1 DEF TraceInv, Ready
  <2> QED BY <2>3, <2>5, <2>6 DEF TraceInv
<1> QED BY <1>3, <1>4

\* A snapshot, the validation of a model's signal, the signal.
LEMMA SnapshotRecorded ==
    ASSUME TraceInv, named.event # Null, keys' = keys, NEW m \in 1 .. 3, Grows(m),
           NEW l \in Nat, NEW s \in Nat, Standing(l, s),
           Wrote(1, "FEATURE_SNAPSHOT", {named.event}),
           m > 1 => Wrote(2, "MODEL_VALIDATION", {ObjectAt(l + 1), Registry, Manifest}),
           m > 2 => Wrote(3, "MODEL_SIGNAL_ACCEPTED", {ObjectAt(l + 2)})
    PROVE  /\ Records' /\ Traced' /\ NamesState(ledger', named.state)
           /\ \A i \in 1 .. m : ledger'[l + i].type \in Beyond
<1>1. PICK p \in 1 .. l : named.event = ObjectAt(p) /\ ledger[p].type \in Beyond
  BY DEF Standing, TraceInv, Named, Names
<1>2. ledger'[p] = ledger[p]
  BY <1>1 DEF Standing, Grows
<1>3. /\ ledger'[l + 1].type = "FEATURE_SNAPSHOT" /\ ledger'[l + 1].object = ObjectAt(l + 1)
      /\ m > 1 => /\ ledger'[l + 2].type = "MODEL_VALIDATION"
                  /\ ledger'[l + 2].object = ObjectAt(l + 2)
      /\ m > 2 => ledger'[l + 3].type = "MODEL_SIGNAL_ACCEPTED"
  <2>1. ledger'[l + 1].type = "FEATURE_SNAPSHOT" /\ ledger'[l + 1].object = ObjectAt(l + 1)
    BY WroteObject
  <2>2. m > 1 => ledger'[l + 2].type = "MODEL_VALIDATION" /\ ledger'[l + 2].object = ObjectAt(l + 2)
    BY WroteObject
  <2>3. m > 2 => ledger'[l + 3].type = "MODEL_SIGNAL_ACCEPTED"
    BY WroteObject
  <2> QED BY <2>1, <2>2, <2>3
<1>4. {"FEATURE_SNAPSHOT", "MODEL_VALIDATION", "MODEL_SIGNAL_ACCEPTED"}
        \cap (Admissions \cup Closing \cup Milestones \cup {"RUN_END", "CONFIG_ADMISSION"}) = {}
  BY DEF Admissions, Closing, Milestones, States
<1>5. RecordAt(ledger', keys', l + 1) /\ WellCaused(ledger', l + 1)
  <2>1. 1 \in 1 .. m /\ (1 .. (1 - 1)) = {} /\ p \in 1 .. (l + 1 - 1)
    BY <1>1
  <2>2. PICK C : C = {named.event}
    OBVIOUS
  <2>3. Wrote(1, "FEATURE_SNAPSHOT", C) /\ ObjectAt(p) \in C
        /\ \A c \in C : c \in Kept \cup keys' \/ \E k \in 1 .. (l + 1 - 1) : c = ObjectAt(k)
    BY <1>1, <2>1, <2>2
  <2>4. ledger'[p].type \notin {"RUN_END", "CONFIG_ADMISSION"}
    BY <1>1, <1>2 DEF Beyond, Admissions
  <2>5. "FEATURE_SNAPSHOT" \notin Admissions /\ "FEATURE_SNAPSHOT" \notin Closing
    BY <1>4
  <2> QED BY <2>1, <2>3, <2>4, <2>5, PlainStep
<1>6. ASSUME m > 1 PROVE RecordAt(ledger', keys', l + 2) /\ WellCaused(ledger', l + 2)
  <2>1. 2 \in 1 .. m /\ (\A j \in 1 .. (2 - 1) : j = 1) /\ l + 1 \in 1 .. (l + 2 - 1)
    BY <1>6
  <2>2. PICK C : C = {ObjectAt(l + 1), Registry, Manifest}
    OBVIOUS
  <2>3. Wrote(2, "MODEL_VALIDATION", C) /\ ObjectAt(l + 1) \in C
        /\ \A c \in C : c \in Kept \cup keys' \/ \E k \in 1 .. (l + 2 - 1) : c = ObjectAt(k)
    BY <1>6, <2>1, <2>2 DEF Kept
  <2>4. ledger'[l + 1].type \notin {"RUN_END", "CONFIG_ADMISSION"}
    BY <1>3
  <2>5. "MODEL_VALIDATION" \notin Admissions /\ "MODEL_VALIDATION" \notin Closing
    BY <1>4
  <2>6. \A j \in 1 .. (2 - 1) : ledger'[l + j].object = ObjectAt(l + j)
    BY <1>3, <2>1
  <2> QED BY <2>1, <2>3, <2>4, <2>5, <2>6, PlainStep
<1>7. ASSUME m > 2 PROVE RecordAt(ledger', keys', l + 3) /\ WellCaused(ledger', l + 3)
  <2>1. 3 \in 1 .. m /\ (\A j \in 1 .. (3 - 1) : j = 1 \/ j = 2) /\ l + 2 \in 1 .. (l + 3 - 1) /\ m > 1
    BY <1>7
  <2>2. PICK C : C = {ObjectAt(l + 2)}
    OBVIOUS
  <2>3. Wrote(3, "MODEL_SIGNAL_ACCEPTED", C) /\ ObjectAt(l + 2) \in C
        /\ \A c \in C : c \in Kept \cup keys' \/ \E k \in 1 .. (l + 3 - 1) : c = ObjectAt(k)
    BY <1>7, <2>1, <2>2
  <2>4. ledger'[l + 2].type \notin {"RUN_END", "CONFIG_ADMISSION"}
    BY <1>3, <2>1
  <2>5. "MODEL_SIGNAL_ACCEPTED" \notin Admissions /\ "MODEL_SIGNAL_ACCEPTED" \notin Closing
    BY <1>4
  <2>6. \A j \in 1 .. (3 - 1) : ledger'[l + j].object = ObjectAt(l + j)
    BY <1>3, <2>1
  <2> QED BY <2>1, <2>3, <2>4, <2>5, <2>6, PlainStep
<1>8. \A i \in 1 .. m : i = 1 \/ (i = 2 /\ m > 1) \/ (i = 3 /\ m > 2)
  OBVIOUS
<1>9. Records' /\ Traced'
  <2>1. keys \subseteq keys' /\ keys' \subseteq {"key"} \X Nat /\ m \in Nat
    BY DEF TraceInv, Records
  <2>2. \A i \in 1 .. m : RecordAt(ledger', keys', l + i) /\ WellCaused(ledger', l + i)
    BY <1>5, <1>6, <1>7, <1>8
  <2> QED BY <2>1, <2>2, StepDone
<1>10. \A i \in 1 .. m : ledger'[l + i].type \in {"FEATURE_SNAPSHOT", "MODEL_VALIDATION",
                                                   "MODEL_SIGNAL_ACCEPTED"}
  BY <1>3, <1>8
<1>11. NamesState(ledger', named.state)
  <2>1. \A i \in 1 .. m : ledger'[l + i].type \notin Milestones
    BY <1>4, <1>10
  <2> QED BY <2>1, StateStands
<1>12. {"FEATURE_SNAPSHOT", "MODEL_VALIDATION", "MODEL_SIGNAL_ACCEPTED"} \subseteq Beyond
  BY DEF Beyond, Admissions, RecordTypes, ObjectSchema
<1> QED BY <1>9, <1>10, <1>11, <1>12

LEMMA SnapshotNamed ==
    ASSUME TraceInv, NEW m \in 1 .. 3, Grows(m), NEW l \in Nat, NEW s \in Nat, Standing(l, s),
           NamesState(ledger', named.state),
           \A i \in 1 .. m : ledger'[l + i].type \in Beyond,
           NEW v, v = Null \/ (m > 1 /\ v = ObjectAt(l + 2)),
           NEW g, g = Null \/ (m > 2 /\ g = ObjectAt(l + 3)),
           named' = [named EXCEPT !.snapshot = ObjectAt(l + 1), !.validation = v, !.signal = g]
    PROVE  Named' /\ named'.event = named.event /\ named'.decision = named.decision
<1>1. ObjectAt(l + 1) \in Digests /\ v \in Optional(Digests) /\ g \in Optional(Digests)
  BY ObjectDigests DEF Optional
<1>2. /\ named'.snapshot = ObjectAt(l + 1) /\ named'.validation = v /\ named'.signal = g
      /\ named'.source = named.source /\ named'.config = named.config /\ named'.event = named.event
      /\ named'.state = named.state /\ named'.decision = named.decision
      /\ named'.intent = named.intent
      /\ named' \in NamedType
  BY <1>1 DEF TraceInv, Named, NamedType, Optional
<1>3. l = Len(ledger) /\ m \in Nat /\ 1 \in 1 .. m
      /\ (m > 1 => 2 \in 1 .. m) /\ (m > 2 => 3 \in 1 .. m)
  BY DEF Standing
<1>4. \A d \in {ObjectAt(l + 1), v, g} :
         d = Null \/ \E i \in 1 .. m : d = ObjectAt(l + i) /\ ledger'[l + i].type \in Beyond
  BY <1>3
<1>5. \A d \in {named'.event, named'.snapshot, named'.validation, named'.signal, named'.decision,
                named'.intent} :
         \/ d = Null
         \/ d \in {named.event, named.snapshot, named.validation, named.signal, named.decision,
                   named.intent}
         \/ \E i \in 1 .. m : d = ObjectAt(Len(ledger) + i) /\ ledger'[Len(ledger) + i].type \in Beyond
  <2> SUFFICES ASSUME NEW d \in {named'.event, named'.snapshot, named'.validation, named'.signal,
                                 named'.decision, named'.intent}
               PROVE  \/ d = Null
                      \/ d \in {named.event, named.snapshot, named.validation, named.signal, named.decision,
                                named.intent}
                      \/ \E i \in 1 .. m : /\ d = ObjectAt(Len(ledger) + i)
                                           /\ ledger'[Len(ledger) + i].type \in Beyond
    OBVIOUS
  <2>1. d \in {ObjectAt(l + 1), v, g} \/ d \in {named.event, named.decision, named.intent}
    BY ONLY <1>2, d \in {named'.event, named'.snapshot, named'.validation, named'.signal, named'.decision,
                         named'.intent}
  <2> QED BY ONLY <1>3, <1>4, <2>1, Zenon
<1>6. NamesState(ledger', named'.state) /\ m \in Nat
  BY <1>2, <1>3
<1>7. Named'
  BY ONLY TraceInv, Grows(m), <1>2, <1>5, <1>6, NamedAfter
<1> QED BY <1>2, <1>7

\* The documents of a snapshot and their causes.
LEMMA SnapshotWrites ==
    ASSUME TraceInv, named.event # Null, NEW l \in Nat, NEW s \in Nat, Standing(l, s),
           NEW snapshot, NEW validation, NEW signal,
           snapshot.type = "FEATURE_SNAPSHOT", snapshot.context = [raw_events |-> <<named.event>>],
           validation.type = "MODEL_VALIDATION",
           validation.context = [feature_snapshot |-> Object(1), model_registry |-> Registry,
                                 model_manifest |-> Manifest],
           signal.type = "MODEL_SIGNAL_ACCEPTED",
           signal.context = [model_validation |-> Object(2)]
    PROVE  /\ Causes(snapshot.type, snapshot.context) = {named.event}
           /\ Causes(validation.type, validation.context) = {ObjectAt(l + 1), Registry, Manifest}
           /\ Causes(signal.type, signal.context) = {ObjectAt(l + 2)}
<1>1. /\ Object(1) = ObjectAt(l + 1) /\ Object(2) = ObjectAt(l + 2)
      /\ ObjectAt(l + 1) # Null /\ ObjectAt(l + 2) # Null
  BY ObjectPlace
<1>2. Registry # Null /\ Manifest # Null
  BY DigestsApart DEF Registry, Manifest
<1>3. Causes(snapshot.type, snapshot.context) = {named.event}
  BY SnapshotCauses
<1>4. Causes(validation.type, validation.context) = {ObjectAt(l + 1), Registry, Manifest}
  <2>1. Causes(validation.type, validation.context) = {Object(1), Registry, Manifest} \ {Null}
    BY ValidationCauses
  <2> QED BY <1>1, <1>2, <2>1
<1>5. Causes(signal.type, signal.context) = {ObjectAt(l + 2)}
  <2>1. Causes(signal.type, signal.context) = {Object(2)} \ {Null}
    BY SignalCauses
  <2> QED BY <1>1, <2>1
<1> QED BY <1>3, <1>4, <1>5

LEMMA SnapshotKeeps == ASSUME TraceInv, Snapshot PROVE TraceInv'
<1>1. PICK l \in Nat, s \in Nat : Standing(l, s)
  BY Before
<1>2. /\ named.event # Null /\ keys' = keys /\ group' = group /\ phase' = "RISK_AND_STATE_EFFECT"
      /\ group \in 0 .. MaxGroup
  BY DEF Snapshot, TraceInv, Ready
<1>3. PICK a, b : /\ a = Doc("FEATURE_SNAPSHOT", FeatureSnapshot, [raw_events |-> <<named.event>>],
                             NoEntries)
                  /\ b = Doc("MODEL_VALIDATION", Null,
                             [feature_snapshot |-> Object(1), model_registry |-> Registry,
                              model_manifest |-> Manifest], NoEntries)
  OBVIOUS
<1>4. /\ Object(1) = ObjectAt(l + 1) /\ Object(2) = ObjectAt(l + 2) /\ Object(3) = ObjectAt(l + 3)
      /\ \E S : ledger \in Seq(S)
  BY <1>1, ObjectPlace DEF Standing
<1>5. \E m, v, g :
         /\ m \in 1 .. 3 /\ Grows(m)
         /\ Wrote(1, "FEATURE_SNAPSHOT", {named.event})
         /\ m > 1 => Wrote(2, "MODEL_VALIDATION", {ObjectAt(l + 1), Registry, Manifest})
         /\ m > 2 => Wrote(3, "MODEL_SIGNAL_ACCEPTED", {ObjectAt(l + 2)})
         /\ v = Null \/ (m > 1 /\ v = ObjectAt(l + 2))
         /\ g = Null \/ (m > 2 /\ g = ObjectAt(l + 3))
         /\ named' = [named EXCEPT !.snapshot = ObjectAt(l + 1), !.validation = v, !.signal = g]
  <2>1. /\ a.type = "FEATURE_SNAPSHOT" /\ a.context = [raw_events |-> <<named.event>>]
        /\ b.type = "MODEL_VALIDATION"
        /\ b.context = [feature_snapshot |-> Object(1), model_registry |-> Registry,
                        model_manifest |-> Manifest]
    BY <1>3 DEF Doc
  <2>2. \A c : c.type = "MODEL_SIGNAL_ACCEPTED" /\ c.context = [model_validation |-> Object(2)] =>
           /\ Causes(a.type, a.context) = {named.event}
           /\ Causes(b.type, b.context) = {ObjectAt(l + 1), Registry, Manifest}
           /\ Causes(c.type, c.context) = {ObjectAt(l + 2)}
    BY <1>1, <1>2, <2>1, SnapshotWrites
  <2>3. PICK c0 : c0.type = "MODEL_SIGNAL_ACCEPTED" /\ c0.context = [model_validation |-> Object(2)]
    <3>1. PICK e : e = [model_validation |-> Object(2)]
      OBVIOUS
    <3>2. [type |-> "MODEL_SIGNAL_ACCEPTED", context |-> e].type = "MODEL_SIGNAL_ACCEPTED"
          /\ [type |-> "MODEL_SIGNAL_ACCEPTED", context |-> e].context = e
      OBVIOUS
    <3> QED BY <3>1, <3>2, Zenon
  <2>4. /\ Causes(a.type, a.context) = {named.event}
        /\ Causes(b.type, b.context) = {ObjectAt(l + 1), Registry, Manifest}
    BY <2>2, <2>3, Zenon
  <2>5. CASE /\ Write(<<a>>)
             /\ named' = [named EXCEPT !.snapshot = Object(1), !.validation = Null, !.signal = Null]
    <3>1. Grows(1) /\ Wrote(1, "FEATURE_SNAPSHOT", {named.event})
      <4>1. Causes("FEATURE_SNAPSHOT", [raw_events |-> <<named.event>>]) = {named.event}
        BY SnapshotCauses
      <4> QED BY <1>3, <1>4, <2>5, <4>1, WroteOne, Zenon
    <3>2. 1 \in 1 .. 3 /\ ~(1 > 1) /\ ~(1 > 2)
      OBVIOUS
    <3> QED BY <1>4, <2>5, <3>1, <3>2, Zenon
  <2>6. CASE /\ Write(<<a, b>>)
             /\ named' = [named EXCEPT !.snapshot = Object(1), !.validation = Object(2),
                                       !.signal = Null]
    <3>1. Grows(2) /\ Wrote(1, "FEATURE_SNAPSHOT", {named.event})
          /\ Wrote(2, "MODEL_VALIDATION", {ObjectAt(l + 1), Registry, Manifest})
      BY <1>4, <2>1, <2>4, <2>6, WroteTwo, Zenon
    <3>2. 2 \in 1 .. 3 /\ 2 > 1 /\ ~(2 > 2)
      OBVIOUS
    <3> QED BY <1>4, <2>6, <3>1, <3>2, Zenon
  <2>7. CASE \E bias \in Biases :
                /\ group \in Consulted
                /\ Write(<<a, b, Doc("MODEL_SIGNAL_ACCEPTED", ModelSignal(bias, 2),
                                     [model_validation |-> Object(2)], NoEntries)>>)
                /\ named' = [named EXCEPT !.snapshot = Object(1), !.validation = Object(2),
                                          !.signal = Object(3)]
    <3>1. PICK bias : Write(<<a, b, Doc("MODEL_SIGNAL_ACCEPTED", ModelSignal(bias, 2),
                                        [model_validation |-> Object(2)], NoEntries)>>)
      BY <2>7, Zenon
    <3>2. PICK c : c = Doc("MODEL_SIGNAL_ACCEPTED", ModelSignal(bias, 2),
                           [model_validation |-> Object(2)], NoEntries)
      OBVIOUS
    <3>3. c.type = "MODEL_SIGNAL_ACCEPTED" /\ c.context = [model_validation |-> Object(2)]
      BY <3>2 DEF Doc
    <3>4. Write(<<a, b, c>>)
      BY <3>1, <3>2, Zenon
    <3>5. Grows(3) /\ Wrote(1, "FEATURE_SNAPSHOT", {named.event})
          /\ Wrote(2, "MODEL_VALIDATION", {ObjectAt(l + 1), Registry, Manifest})
          /\ Wrote(3, "MODEL_SIGNAL_ACCEPTED", {ObjectAt(l + 2)})
      <4>1. Causes(c.type, c.context) = {ObjectAt(l + 2)}
        BY ONLY <2>2, <3>3
      <4>2. Grows(3) /\ Wrote(1, a.type, Causes(a.type, a.context)) /\ Wrote(2, b.type, Causes(b.type, b.context))
            /\ Wrote(3, c.type, Causes(c.type, c.context))
        BY ONLY <1>4, <3>4, WroteThree, Zenon
      <4> QED BY ONLY <2>1, <2>4, <3>3, <4>1, <4>2
    <3>6. 3 \in 1 .. 3 /\ 3 > 1 /\ 3 > 2
      OBVIOUS
    <3>7. named' = [named EXCEPT !.snapshot = Object(1), !.validation = Object(2), !.signal = Object(3)]
      BY <2>7, Zenon
    <3> QED BY <1>4, <3>5, <3>6, <3>7, Zenon
  <2> QED BY <1>3, <2>5, <2>6, <2>7, Zenon DEF Snapshot
<1>6. PICK m, v, g :
         /\ m \in 1 .. 3 /\ Grows(m)
         /\ Wrote(1, "FEATURE_SNAPSHOT", {named.event})
         /\ m > 1 => Wrote(2, "MODEL_VALIDATION", {ObjectAt(l + 1), Registry, Manifest})
         /\ m > 2 => Wrote(3, "MODEL_SIGNAL_ACCEPTED", {ObjectAt(l + 2)})
         /\ v = Null \/ (m > 1 /\ v = ObjectAt(l + 2))
         /\ g = Null \/ (m > 2 /\ g = ObjectAt(l + 3))
         /\ named' = [named EXCEPT !.snapshot = ObjectAt(l + 1), !.validation = v, !.signal = g]
  BY <1>5, Zenon
<1>7. /\ Records' /\ Traced' /\ NamesState(ledger', named.state)
      /\ \A i \in 1 .. m : ledger'[l + i].type \in Beyond
  BY <1>1, <1>2, <1>6, SnapshotRecorded, Zenon
<1>8. Named'
  BY <1>1, <1>6, <1>7, SnapshotNamed, Zenon
<1>9. Ready'
  BY <1>2 DEF Ready
<1> QED BY <1>7, <1>8, <1>9 DEF TraceInv

-----------------------------------------------------------------------------
(* A decision and what it leads to *)

\* A decision is about the latest state.
LEMMA DecisionStep ==
    ASSUME TraceInv, NEW l \in Nat, NEW s \in Nat, Standing(l, s), NEW m \in Nat, m > 0, Grows(m),
           NEW d, Wrote(1, "RISK_DECISION", Causes("RISK_DECISION", DecisionContext(d)))
    PROVE  /\ RecordAt(ledger', keys', l + 1) /\ WellCaused(ledger', l + 1)
           /\ ledger'[l + 1].type = "RISK_DECISION" /\ ledger'[l + 1].object = ObjectAt(l + 1)
<1>1. PICK D : D = Causes("RISK_DECISION", DecisionContext(d))
  OBVIOUS
<1>2. s \in 1 .. l /\ named.state = ObjectAt(s) /\ ObjectAt(s) # Null
  BY ObjectDigests DEF Standing
<1>3. /\ \A c \in D : \/ c = Config
                      \/ c \in {named.snapshot, named.state, named.config, named.validation,
                                named.signal} \ {Null}
      /\ ObjectAt(s) \in D
  BY <1>1, <1>2, DecisionCauses
<1>4. \A c \in {named.snapshot, named.state, named.config, named.validation, named.signal} \ {Null} :
         \E k \in 1 .. l : c = ObjectAt(k)
  BY Zenon DEF Standing
<1>5. 1 \in 1 .. m /\ (1 .. (1 - 1)) = {} /\ s \in 1 .. (l + 1 - 1) /\ (1 .. (l + 1 - 1)) = 1 .. l
  BY <1>2
<1>6. \A c \in D : c \in Kept \cup keys' \/ \E k \in 1 .. (l + 1 - 1) : c = ObjectAt(k)
  <2>1. Config \in Kept
    BY DEF Kept
  <2> QED BY <1>3, <1>4, <1>5, <2>1, Zenon
<1>7. ledger'[s].type \notin {"RUN_END", "CONFIG_ADMISSION"}
  BY <1>2 DEF Standing, Grows, States
<1>8. "RISK_DECISION" \notin Admissions /\ "RISK_DECISION" \notin Closing
  BY DEF Admissions, Closing, States
<1>9. RecordAt(ledger', keys', l + 1) /\ WellCaused(ledger', l + 1)
  BY <1>1, <1>3, <1>5, <1>6, <1>7, <1>8, PlainStep
<1> QED BY <1>9, WroteObject

LEMMA DenyKeeps == ASSUME TraceInv, Deny PROVE TraceInv'
<1>1. PICK l \in Nat, s \in Nat : Standing(l, s)
  BY Before
<1>2. PICK d : Write(<<Doc("RISK_DECISION", d, DecisionContext(d), NoEntries)>>)
  BY Zenon DEF Deny
<1>3. /\ named' = [named EXCEPT !.decision = Object(1)] /\ phase' = "GROUP_GATE"
      /\ group' = group /\ keys' = keys /\ group \in 0 .. MaxGroup
  BY DEF Deny, TraceInv, Ready
<1>4. Grows(1) /\ Wrote(1, "RISK_DECISION", Causes("RISK_DECISION", DecisionContext(d)))
  <2>1. \E S : ledger \in Seq(S)
    BY <1>1 DEF Standing
  <2> QED BY <1>2, <2>1, WroteOne, Zenon
<1>5. /\ RecordAt(ledger', keys', l + 1) /\ WellCaused(ledger', l + 1)
      /\ ledger'[l + 1].type = "RISK_DECISION"
  <2>1. 1 > 0
    OBVIOUS
  <2> QED BY <1>1, <1>4, <2>1, DecisionStep
<1>6. \A i \in 1 .. 1 : i = 1
  OBVIOUS
<1>7. Records' /\ Traced'
  <2>1. keys \subseteq keys' /\ keys' \subseteq {"key"} \X Nat
    BY <1>3 DEF TraceInv, Records
  <2> QED BY <1>1, <1>4, <1>5, <1>6, <2>1, StepDone
<1>8. NamesState(ledger', named.state)
  <2>1. \A i \in 1 .. 1 : ledger'[l + i].type \notin Milestones
    BY <1>5, <1>6 DEF Milestones, States
  <2> QED BY <1>1, <1>4, <2>1, StateStands
<1>9. Object(1) = ObjectAt(l + 1) /\ ObjectAt(l + 1) \in Digests /\ ObjectAt(l + 1) # Null
  BY <1>1, ObjectPlace
<1>10. /\ named'.decision = ObjectAt(l + 1)
       /\ named'.source = named.source /\ named'.config = named.config /\ named'.state = named.state
       /\ named'.event = named.event /\ named'.snapshot = named.snapshot
       /\ named'.validation = named.validation /\ named'.signal = named.signal
       /\ named'.intent = named.intent
       /\ named' \in NamedType
  BY <1>3, <1>9 DEF TraceInv, Named, NamedType, Optional
<1>11. Named'
  <2>1. "RISK_DECISION" \in Beyond /\ l = Len(ledger)
    BY <1>1 DEF Beyond, Admissions, RecordTypes, ObjectSchema, Standing
  <2> QED BY <1>4, <1>5, <1>8, <1>10, <2>1, NamedAfter
<1>12. Ready'
  BY <1>3, <1>9, <1>10 DEF Ready
<1> QED BY <1>7, <1>11, <1>12 DEF TraceInv

LEMMA ApproveKeeps == ASSUME TraceInv, Approve PROVE TraceInv'
<1>1. PICK l \in Nat, s \in Nat : Standing(l, s)
  BY Before
<1>2. /\ named' = [named EXCEPT !.decision = Object(1), !.intent = Object(2), !.state = Object(3)]
      /\ phase' = "GROUP_GATE" /\ group' = group /\ keys' = keys /\ group \in 0 .. MaxGroup
  BY DEF Approve, TraceInv, Ready
<1>3. PICK d, i, x, y : 
         Write(<< Doc("RISK_DECISION", d, DecisionContext(d), NoEntries),
                  Doc("SIMULATED_INTENT", i,
                      [risk_decision |-> Object(1), state_before |-> named.state], x),
                  Doc("PORTFOLIO_STATE", y,
                      [causation |-> Object(2), previous_state |-> named.state], NoEntries) >>)
  BY Zenon DEF Approve
<1>4. PICK a, b, c :
         /\ a = Doc("RISK_DECISION", d, DecisionContext(d), NoEntries)
         /\ b = Doc("SIMULATED_INTENT", i, [risk_decision |-> Object(1), state_before |-> named.state], x)
         /\ c = Doc("PORTFOLIO_STATE", y, [causation |-> Object(2), previous_state |-> named.state],
                    NoEntries)
  OBVIOUS
<1>5. /\ s \in 1 .. l /\ named.state = ObjectAt(s) /\ ObjectAt(s) # Null
      /\ Object(1) = ObjectAt(l + 1) /\ Object(2) = ObjectAt(l + 2) /\ Object(3) = ObjectAt(l + 3)
      /\ {ObjectAt(l + 1), ObjectAt(l + 2), ObjectAt(l + 3)} \subseteq Digests
      /\ ObjectAt(l + 1) # Null /\ ObjectAt(l + 2) # Null
  <2>1. s \in 1 .. l /\ named.state = ObjectAt(s) /\ ObjectAt(s) # Null
    BY ONLY <1>1, ObjectDigests, s \in Nat DEF Standing
  <2>2. \A n \in 1 .. 3 : Object(n) = ObjectAt(l + n)
    BY <1>1, ObjectPlace
  <2>3. \A n \in 1 .. 3 : ObjectAt(l + n) \in Digests /\ ObjectAt(l + n) # Null
    BY ONLY ObjectDigests, l \in Nat
  <2> QED BY ONLY <2>1, <2>2, <2>3
<1>6. PICK B, C : B = {ObjectAt(l + 1), ObjectAt(s)} /\ C = {ObjectAt(l + 2), ObjectAt(s)}
  OBVIOUS
<1>7. /\ Grows(3) /\ Wrote(1, "RISK_DECISION", Causes("RISK_DECISION", DecisionContext(d)))
      /\ Wrote(2, "SIMULATED_INTENT", B) /\ Wrote(3, "PORTFOLIO_STATE", C)
  <2>1. /\ a.type = "RISK_DECISION" /\ a.context = DecisionContext(d)
        /\ b.type = "SIMULATED_INTENT" /\ c.type = "PORTFOLIO_STATE"
        /\ b.context = [risk_decision |-> Object(1), state_before |-> named.state]
        /\ c.context = [causation |-> Object(2), previous_state |-> named.state]
    BY <1>4 DEF Doc
  <2>2. Causes(b.type, b.context) = B
    <3>1. Causes(b.type, b.context) = {Object(1), named.state} \ {Null}
      BY <2>1, IntentCauses
    <3> QED BY <1>5, <1>6, <3>1
  <2>3. Causes(c.type, c.context) = C
    <3>1. Causes("PORTFOLIO_STATE", c.context) = {Object(2), named.state} \ {Null}
      BY <2>1, StateCauses DEF States
    <3> QED BY <1>5, <1>6, <2>1, <3>1
  <2>4. Write(<<a, b, c>>) /\ \E S : ledger \in Seq(S)
    BY <1>1, <1>3, <1>4, Zenon DEF Standing
  <2>5. Grows(3) /\ Wrote(1, a.type, Causes(a.type, a.context))
        /\ Wrote(2, b.type, Causes(b.type, b.context)) /\ Wrote(3, c.type, Causes(c.type, c.context))
    BY <2>4, WroteThree, Zenon
  <2> QED BY <2>1, <2>2, <2>3, <2>5, Zenon
<1>8. /\ RecordAt(ledger', keys', l + 1) /\ WellCaused(ledger', l + 1)
      /\ ledger'[l + 1].type = "RISK_DECISION" /\ ledger'[l + 1].object = ObjectAt(l + 1)
  <2>1. 3 \in Nat /\ 3 > 0
    OBVIOUS
  <2> QED BY <1>1, <1>7, <2>1, DecisionStep
<1>9. /\ ledger'[l + 2].type = "SIMULATED_INTENT" /\ ledger'[l + 2].object = ObjectAt(l + 2)
      /\ ledger'[l + 3].type = "PORTFOLIO_STATE"
  BY <1>1, <1>7, WroteObject
<1>10. ledger'[s] = ledger[s] /\ ledger[s].type \in States
       /\ \A k \in (s + 1) .. l : ledger'[k].type \notin Milestones
  BY <1>1, <1>7 DEF Standing, Grows
<1>11. RecordAt(ledger', keys', l + 2) /\ WellCaused(ledger', l + 2)
  <2>1. "SIMULATED_INTENT" \notin Admissions /\ "SIMULATED_INTENT" \notin Closing
    BY DEF Admissions, Closing, States
  <2>2. 2 \in 1 .. 3 /\ (\A j \in 1 .. (2 - 1) : j = 1) /\ l + 1 \in 1 .. (l + 2 - 1)
        /\ s \in 1 .. (l + 2 - 1)
    BY <1>5
  <2>3. \A j \in 1 .. (2 - 1) : ledger'[l + j].object = ObjectAt(l + j)
    BY <1>8, <2>2
  <2>4. ledger'[l + 1].type \notin {"RUN_END", "CONFIG_ADMISSION"} /\ ObjectAt(l + 1) \in B
    BY <1>6, <1>8
  <2>5. \A z \in B : z \in Kept \cup keys' \/ \E k \in 1 .. (l + 2 - 1) : z = ObjectAt(k)
    BY <1>6, <2>2
  <2> QED BY <1>1, <1>7, <2>1, <2>2, <2>3, <2>4, <2>5, PlainStep
<1>12. RecordAt(ledger', keys', l + 3) /\ WellCaused(ledger', l + 3)
  <2>1. "PORTFOLIO_STATE" \in Closing
    BY DEF Closing, States
  <2>2. 3 \in 1 .. 3 /\ (\A j \in 1 .. (3 - 1) : j = 1 \/ j = 2) /\ l + 2 \in 1 .. (l + 3 - 1)
        /\ s \in 1 .. (l + 3 - 1)
        /\ \A k \in (s + 1) .. (l + 3 - 1) : k \in (s + 1) .. l \/ k = l + 1 \/ k = l + 2
    BY <1>5
  <2>3. \A j \in 1 .. (3 - 1) : ledger'[l + j].object = ObjectAt(l + j)
    BY <1>8, <1>9, <2>2
  <2>4. ledger'[s].type \in Closing \ {"RUN_END"} /\ ObjectAt(s) \in C
    BY <1>6, <1>10 DEF Closing, States
  <2>5. \A k \in (s + 1) .. (l + 3 - 1) : ledger'[k].type \in Milestones => ObjectAt(k) \in C
    BY <1>6, <1>8, <1>10, <2>2 DEF Milestones, States
  <2>6. \A z \in C : z \in Kept \cup keys' \/ \E k \in 1 .. (l + 3 - 1) : z = ObjectAt(k)
    BY <1>6, <2>2
  <2> QED BY <1>1, <1>7, <2>1, <2>2, <2>3, <2>4, <2>5, <2>6, ClosingStep
<1>13. Records' /\ Traced'
  <2>1. \A j \in 1 .. 3 : j = 1 \/ j = 2 \/ j = 3
    OBVIOUS
  <2>2. keys \subseteq keys' /\ keys' \subseteq {"key"} \X Nat
    BY <1>2 DEF TraceInv, Records
  <2> QED BY <1>1, <1>7, <1>8, <1>11, <1>12, <2>1, <2>2, StepDone
<1>14. NamesState(ledger', ObjectAt(l + 3))
  <2>1. l + 3 \in 1 .. Len(ledger') /\ ledger'[l + 3].type \in States
        /\ \A k \in (l + 3 + 1) .. Len(ledger') : FALSE
    BY <1>1, <1>7, <1>9 DEF States, Standing, Grows
  <2> QED BY <2>1, LatestState
<1>15. /\ named'.decision = ObjectAt(l + 1) /\ named'.intent = ObjectAt(l + 2)
       /\ named'.state = ObjectAt(l + 3)
       /\ named'.source = named.source /\ named'.config = named.config
       /\ named'.event = named.event /\ named'.snapshot = named.snapshot
       /\ named'.validation = named.validation /\ named'.signal = named.signal
       /\ named' \in NamedType
  BY <1>2, <1>5 DEF TraceInv, Named, NamedType, Optional
<1>16. Named'
  <2>1. "RISK_DECISION" \in Beyond /\ "SIMULATED_INTENT" \in Beyond /\ l = Len(ledger)
        /\ 1 \in 1 .. 3 /\ 2 \in 1 .. 3
    BY <1>1 DEF Beyond, Admissions, RecordTypes, ObjectSchema, Standing
  <2> QED BY <1>7, <1>8, <1>9, <1>14, <1>15, <2>1, NamedAfter
<1>17. Ready'
  BY <1>2, <1>5, <1>15 DEF Ready
<1> QED BY <1>13, <1>16, <1>17 DEF TraceInv

-----------------------------------------------------------------------------
(* The kill *)

LEMMA JoinedTwo == ASSUME NEW a, NEW b PROVE <<a>> \o << >> \o <<b>> = <<a, b>>
<1>1. <<a>> \o << >> = <<a>>
  OBVIOUS
<1>2. <<a>> \o <<b>> = <<a, b>>
  <2>1. <<a>> \o <<b>> \in Seq({a, b}) /\ Len(<<a>> \o <<b>>) = 2
    OBVIOUS
  <2>2. (<<a>> \o <<b>>)[1] = a
    OBVIOUS
  <2>3. (<<a>> \o <<b>>)[2] = b
    OBVIOUS
  <2>4. PICK z : z = <<a>> \o <<b>>
    BY Zenon
  <2>5. z \in Seq({a, b}) /\ Len(z) = 2 /\ z[1] = a /\ z[2] = b
    BY <2>1, <2>2, <2>3, <2>4, Zenon
  <2>6. z = <<a, b>>
    BY <2>5
  <2> QED BY <2>4, <2>6, Zenon
<1> QED BY <1>1, <1>2, Zenon

LEMMA JoinedFour == ASSUME NEW a, NEW b, NEW c, NEW d PROVE <<a>> \o <<b, c>> \o <<d>> = <<a, b, c, d>>
<1>1. <<a>> \o <<b, c>> = <<a, b, c>>
  <2>1. <<a>> \o <<b, c>> \in Seq({a, b, c}) /\ Len(<<a>> \o <<b, c>>) = 3
    OBVIOUS
  <2>2. (<<a>> \o <<b, c>>)[1] = a
    OBVIOUS
  <2>3. (<<a>> \o <<b, c>>)[2] = b
    OBVIOUS
  <2>4. (<<a>> \o <<b, c>>)[3] = c
    OBVIOUS
  <2>5. PICK z : z = <<a>> \o <<b, c>>
    BY Zenon
  <2>6. z \in Seq({a, b, c}) /\ Len(z) = 3 /\ z[1] = a /\ z[2] = b /\ z[3] = c
    BY <2>1, <2>2, <2>3, <2>4, <2>5, Zenon
  <2>7. z = <<a, b, c>>
    BY <2>6
  <2> QED BY <2>5, <2>7, Zenon
<1>2. <<a, b, c>> \o <<d>> = <<a, b, c, d>>
  <2>1. <<a, b, c>> \o <<d>> \in Seq({a, b, c, d}) /\ Len(<<a, b, c>> \o <<d>>) = 4
    OBVIOUS
  <2>2. (<<a, b, c>> \o <<d>>)[1] = a
    OBVIOUS
  <2>3. (<<a, b, c>> \o <<d>>)[2] = b
    OBVIOUS
  <2>4. (<<a, b, c>> \o <<d>>)[3] = c
    OBVIOUS
  <2>5. (<<a, b, c>> \o <<d>>)[4] = d
    OBVIOUS
  <2>6. PICK z : z = <<a, b, c>> \o <<d>>
    BY Zenon
  <2>7. z \in Seq({a, b, c, d}) /\ Len(z) = 4 /\ z[1] = a /\ z[2] = b /\ z[3] = c /\ z[4] = d
    BY <2>1, <2>2, <2>3, <2>4, <2>5, <2>6, Zenon
  <2>8. z = <<a, b, c, d>>
    BY <2>7
  <2> QED BY <2>6, <2>8, Zenon
<1> QED BY <1>1, <1>2, Zenon

LEMMA WroteFour ==
    ASSUME \E S : ledger \in Seq(S), NEW a, NEW b, NEW c, NEW d, Write(<<a, b, c, d>>)
    PROVE  Grows(4) /\ Wrote(1, a.type, Causes(a.type, a.context))
                    /\ Wrote(2, b.type, Causes(b.type, b.context))
                    /\ Wrote(3, c.type, Causes(c.type, c.context))
                    /\ Wrote(4, d.type, Causes(d.type, d.context))
<1>1. /\ <<a, b, c, d>> = [i \in 1 .. 4 |-> <<a, b, c, d>>[i]]
      /\ <<a, b, c, d>>[1] = a /\ <<a, b, c, d>>[2] = b /\ <<a, b, c, d>>[3] = c
      /\ <<a, b, c, d>>[4] = d
  OBVIOUS
<1>2. Grows(4) /\ \A i \in 1 .. 4 : Wrote(i, <<a, b, c, d>>[i].type,
                                             Causes(<<a, b, c, d>>[i].type, <<a, b, c, d>>[i].context))
  BY <1>1, Written
<1>3. 1 \in 1 .. 4 /\ 2 \in 1 .. 4 /\ 3 \in 1 .. 4 /\ 4 \in 1 .. 4
  OBVIOUS
<1> QED BY <1>1, <1>2, <1>3, Zenon

\* A kill without an open intent.
LEMMA KillAlone ==
    ASSUME TraceInv, NEW l \in Nat, NEW s \in Nat, Standing(l, s), Grows(2),
           NEW d, Wrote(1, "RISK_DECISION", Causes("RISK_DECISION", DecisionContext(d))),
           NEW key \in {"key"} \X Nat, keys' = keys \cup {key},
           Wrote(2, "KILL_STATE", {key, ObjectAt(s)})
    PROVE  /\ Records' /\ Traced' /\ NamesState(ledger', ObjectAt(l + 2))
           /\ ledger'[l + 1].type = "RISK_DECISION"
<1>1. /\ RecordAt(ledger', keys', l + 1) /\ WellCaused(ledger', l + 1)
      /\ ledger'[l + 1].type = "RISK_DECISION" /\ ledger'[l + 1].object = ObjectAt(l + 1)
  <2>1. 2 \in Nat /\ 2 > 0
    OBVIOUS
  <2> QED BY <2>1, DecisionStep
<1>2. ledger'[l + 2].type = "KILL_STATE"
  BY WroteObject
<1>3. ledger'[s] = ledger[s] /\ ledger[s].type \in States /\ s \in 1 .. l
       /\ \A k \in (s + 1) .. l : ledger'[k].type \notin Milestones
  BY DEF Standing, Grows
<1>4. RecordAt(ledger', keys', l + 2) /\ WellCaused(ledger', l + 2)
  <2>1. "KILL_STATE" \in States /\ key \in keys'
    BY DEF States
  <2>2. 2 \in 1 .. 2 /\ (\A j \in 1 .. (2 - 1) : j = 1) /\ s \in 1 .. (l + 2 - 1)
        /\ \A k \in (s + 1) .. (l + 2 - 1) : k \in (s + 1) .. l \/ k = l + 1
    BY <1>3
  <2>3. \A j \in 1 .. (2 - 1) : ledger'[l + j].object = ObjectAt(l + j)
    BY <1>1, <2>2
  <2>4. \A k \in (s + 1) .. (l + 2 - 1) : ledger'[k].type \notin Milestones
    BY <1>1, <1>3, <2>2 DEF Milestones, States
  <2>5. ledger'[s].type \in States
    BY <1>3
  <2> QED BY <2>1, <2>2, <2>3, <2>4, <2>5, KeyedState
<1>5. Records' /\ Traced'
  <2>1. \A j \in 1 .. 2 : j = 1 \/ j = 2
    OBVIOUS
  <2>2. keys \subseteq keys' /\ keys' \subseteq {"key"} \X Nat
    BY DEF TraceInv, Records
  <2> QED BY <1>1, <1>4, <2>1, <2>2, StepDone
<1>6. NamesState(ledger', ObjectAt(l + 2))
  <2>1. l + 2 \in 1 .. Len(ledger') /\ ledger'[l + 2].type \in States
        /\ \A k \in (l + 2 + 1) .. Len(ledger') : FALSE
    BY <1>2 DEF States, Standing, Grows
  <2> QED BY <2>1, LatestState
<1> QED BY <1>1, <1>5, <1>6

\* A kill that first expires the open intent.
LEMMA KillExpiring ==
    ASSUME TraceInv, NEW l \in Nat, NEW s \in Nat, Standing(l, s), Grows(4),
           NEW d, Wrote(1, "RISK_DECISION", Causes("RISK_DECISION", DecisionContext(d))),
           NEW F, F \subseteq {named.intent, named.state, named.event, ObjectAt(l + 1)} \ {Null},
           ObjectAt(s) \in F, Wrote(2, "SIMULATED_FILL", F),
           Wrote(3, "PORTFOLIO_STATE", {ObjectAt(l + 2), ObjectAt(s)}),
           NEW key \in {"key"} \X Nat, keys' = keys \cup {key},
           Wrote(4, "KILL_STATE", {key, ObjectAt(l + 3)})
    PROVE  /\ Records' /\ Traced' /\ NamesState(ledger', ObjectAt(l + 4))
           /\ ledger'[l + 1].type = "RISK_DECISION"
<1>1. /\ RecordAt(ledger', keys', l + 1) /\ WellCaused(ledger', l + 1)
      /\ ledger'[l + 1].type = "RISK_DECISION" /\ ledger'[l + 1].object = ObjectAt(l + 1)
  <2>1. 4 \in Nat /\ 4 > 0
    OBVIOUS
  <2> QED BY <2>1, DecisionStep
<1>2. /\ ledger'[l + 2].type = "SIMULATED_FILL" /\ ledger'[l + 2].object = ObjectAt(l + 2)
      /\ ledger'[l + 3].type = "PORTFOLIO_STATE" /\ ledger'[l + 3].object = ObjectAt(l + 3)
      /\ ledger'[l + 4].type = "KILL_STATE"
  BY WroteObject
<1>3. ledger'[s] = ledger[s] /\ ledger[s].type \in States /\ s \in 1 .. l
       /\ \A k \in (s + 1) .. l : ledger'[k].type \notin Milestones
  BY DEF Standing, Grows
<1>4. RecordAt(ledger', keys', l + 2) /\ WellCaused(ledger', l + 2)
  <2>1. "SIMULATED_FILL" \notin Admissions /\ "SIMULATED_FILL" \notin Closing
    BY DEF Admissions, Closing, States
  <2>2. 2 \in 1 .. 4 /\ (\A j \in 1 .. (2 - 1) : j = 1) /\ s \in 1 .. (l + 2 - 1)
        /\ l + 1 \in 1 .. (l + 2 - 1) /\ \A k \in 1 .. l : k \in 1 .. (l + 2 - 1)
    BY <1>3
  <2>3. \A j \in 1 .. (2 - 1) : ledger'[l + j].object = ObjectAt(l + j)
    BY <1>1, <2>2
  <2>4. ledger'[s].type \notin {"RUN_END", "CONFIG_ADMISSION"}
    BY <1>3 DEF States
  <2>5. \A c \in F : c \in Kept \cup keys' \/ \E k \in 1 .. (l + 2 - 1) : c = ObjectAt(k)
    <3>1. \A c \in F : c \in {named.intent, named.state, named.event} \ {Null} \/ c = ObjectAt(l + 1)
      OBVIOUS
    <3>2. \A c \in {named.intent, named.state, named.event} \ {Null} :
             \E k \in 1 .. l : c = ObjectAt(k)
      BY Zenon DEF Standing
    <3> QED BY <2>2, <3>1, <3>2, Zenon
  <2>6. 4 \in Nat
    OBVIOUS
  <2> QED BY <2>1, <2>2, <2>3, <2>4, <2>5, <2>6, PlainStep, ZenonT(60)
<1>5. RecordAt(ledger', keys', l + 3) /\ WellCaused(ledger', l + 3)
  <2>1. "PORTFOLIO_STATE" \in Closing
    BY DEF Closing, States
  <2>0. PICK C : C = {ObjectAt(l + 2), ObjectAt(s)}
    OBVIOUS
  <2>2. 3 \in 1 .. 4 /\ (\A j \in 1 .. (3 - 1) : j = 1 \/ j = 2) /\ l + 2 \in 1 .. (l + 3 - 1)
        /\ s \in 1 .. (l + 3 - 1)
        /\ \A k \in (s + 1) .. (l + 3 - 1) : k \in (s + 1) .. l \/ k = l + 1 \/ k = l + 2
    BY <1>3
  <2>3. \A j \in 1 .. (3 - 1) : ledger'[l + j].object = ObjectAt(l + j)
    BY <1>1, <1>2, <2>2
  <2>4. ledger'[s].type \in Closing \ {"RUN_END"} /\ ObjectAt(s) \in C
    BY <1>3, <2>0 DEF Closing, States
  <2>5. \A k \in (s + 1) .. (l + 3 - 1) : ledger'[k].type \in Milestones => ObjectAt(k) \in C
    BY <1>1, <1>3, <2>0, <2>2 DEF Milestones, States
  <2>6. \A z \in C : z \in Kept \cup keys' \/ \E k \in 1 .. (l + 3 - 1) : z = ObjectAt(k)
    BY <2>0, <2>2
  <2>7. 4 \in Nat /\ Wrote(3, "PORTFOLIO_STATE", C)
    BY <2>0
  <2> QED BY <2>1, <2>2, <2>3, <2>4, <2>5, <2>6, <2>7, ClosingStep, ZenonT(60)
<1>6. RecordAt(ledger', keys', l + 4) /\ WellCaused(ledger', l + 4)
  <2>1. "KILL_STATE" \in States /\ key \in keys'
    BY DEF States
  <2>2. 4 \in 1 .. 4 /\ (\A j \in 1 .. (4 - 1) : j = 1 \/ j = 2 \/ j = 3)
        /\ l + 3 \in 1 .. (l + 4 - 1) /\ l + 3 \in Nat /\ ((l + 3 + 1) .. (l + 4 - 1)) = {}
    OBVIOUS
  <2>3. \A j \in 1 .. (4 - 1) : ledger'[l + j].object = ObjectAt(l + j)
    BY <1>1, <1>2, <2>2
  <2>4. ledger'[l + 3].type \in States
    BY <1>2 DEF States
  <2>5. \A k \in (l + 3 + 1) .. (l + 4 - 1) : ledger'[k].type \notin Milestones
    BY <2>2
  <2> QED BY <2>1, <2>2, <2>3, <2>4, <2>5, KeyedState
<1>7. Records' /\ Traced'
  <2>1. \A j \in 1 .. 4 : j = 1 \/ j = 2 \/ j = 3 \/ j = 4
    OBVIOUS
  <2>2. keys \subseteq keys' /\ keys' \subseteq {"key"} \X Nat
    BY DEF TraceInv, Records
  <2> QED BY <1>1, <1>4, <1>5, <1>6, <2>1, <2>2, StepDone
<1>8. NamesState(ledger', ObjectAt(l + 4))
  <2>1. l + 4 \in 1 .. Len(ledger') /\ ledger'[l + 4].type \in States
        /\ \A k \in (l + 4 + 1) .. Len(ledger') : FALSE
    BY <1>2 DEF States, Standing, Grows
  <2> QED BY <2>1, LatestState
<1> QED BY <1>1, <1>7, <1>8

LEMMA KillKeeps == ASSUME TraceInv, Kill PROVE TraceInv'
<1>1. PICK l \in Nat, s \in Nat : Standing(l, s)
  BY Before
<1>2. /\ phase' = "GROUP_GATE" /\ group' = group /\ keys' = keys \cup {RiskKey(group)}
      /\ group \in 0 .. MaxGroup
  BY DEF Kill, TraceInv, Ready
<1>3. PICK key : key = RiskKey(group)
  OBVIOUS
<1>4. key \in {"key"} \X Nat /\ key # Null /\ keys' = keys \cup {key}
  BY <1>2, <1>3, DigestAssumption, ReplayAssumption
     DEF RiskKey, DigestAssumption, Digests, ReplayAssumption
<1>5. /\ s \in 1 .. l /\ named.state = ObjectAt(s) /\ ObjectAt(s) # Null /\ l = Len(ledger)
      /\ \A i \in 1 .. 4 : /\ Object(i) = ObjectAt(l + i) /\ ObjectAt(l + i) \in Digests
                           /\ ObjectAt(l + i) # Null
      /\ \E S : ledger \in Seq(S)
  <2>1. \A i \in Nat : Object(i) = ObjectAt(l + i) /\ ObjectAt(l + i) \in Digests
                       /\ ObjectAt(l + i) # Null
    BY <1>1, ObjectPlace
  <2>2. \A i \in 1 .. 4 : i \in Nat
    OBVIOUS
  <2>3. /\ s \in 1 .. l /\ named.state = ObjectAt(s) /\ l = Len(ledger)
        /\ \E S : ledger \in Seq(S)
    BY <1>1 DEF Standing
  <2>4. ObjectAt(s) # Null
    BY ObjectDigests
  <2> QED BY <2>1, <2>2, <2>3, <2>4, Zenon
<1>6. \A m \in {2, 4} : Object(m) = ObjectAt(l + m) /\ Object(1) = ObjectAt(l + 1)
                        /\ {ObjectAt(l + m), ObjectAt(l + 1)} \subseteq Digests \ {Null}
  BY <1>5
<1>7. \E m \in {2, 4} :
         /\ Grows(m) /\ Records' /\ Traced' /\ NamesState(ledger', ObjectAt(l + m))
         /\ ledger'[l + 1].type = "RISK_DECISION"
         /\ named' = [named EXCEPT !.decision = ObjectAt(l + 1), !.intent = Null,
                                   !.state = ObjectAt(l + m)]
  <2>1. CASE intent = Null
    <3>1. PICK d, y :
             /\ Write(<<Doc("RISK_DECISION", d, DecisionContext(d), NoEntries)>> \o << >>
                      \o <<Doc("KILL_STATE", y, [causation |-> RiskKey(group),
                                                 previous_state |-> named.state], NoEntries)>>)
             /\ named' = [named EXCEPT !.decision = Object(1), !.intent = Null,
                                       !.state = Object(Len(<< >>) + 2)]
      BY <2>1, Zenon DEF Kill
    <3>2. PICK a, c :
             /\ a = Doc("RISK_DECISION", d, DecisionContext(d), NoEntries)
             /\ c = Doc("KILL_STATE", y, [causation |-> RiskKey(group),
                                          previous_state |-> named.state], NoEntries)
      OBVIOUS
    <3>3. Write(<<a, c>>)
      <4>1. Write(<<a>> \o << >> \o <<c>>)
        BY <3>1, <3>2, Zenon
      <4> QED BY <4>1, JoinedTwo, Zenon
    <3>4. /\ a.type = "RISK_DECISION" /\ a.context = DecisionContext(d) /\ c.type = "KILL_STATE"
          /\ c.context = [causation |-> RiskKey(group), previous_state |-> named.state]
      BY <3>2 DEF Doc
    <3>5. Causes(c.type, c.context) = {key, ObjectAt(s)}
      <4>1. Causes("KILL_STATE", c.context) = {RiskKey(group), named.state} \ {Null}
        BY <3>4, StateCauses DEF States
      <4> QED BY <1>3, <1>4, <1>5, <3>4, <4>1
    <3>6. /\ Grows(2) /\ Wrote(1, "RISK_DECISION", Causes("RISK_DECISION", DecisionContext(d)))
          /\ Wrote(2, "KILL_STATE", {key, ObjectAt(s)})
      <4>1. Grows(2) /\ Wrote(1, a.type, Causes(a.type, a.context))
            /\ Wrote(2, c.type, Causes(c.type, c.context))
        BY <1>5, <3>3, WroteTwo, Zenon
      <4> QED BY <3>4, <3>5, <4>1, Zenon
    <3>7. /\ Records' /\ Traced' /\ NamesState(ledger', ObjectAt(l + 2))
          /\ ledger'[l + 1].type = "RISK_DECISION"
      BY <1>1, <1>4, <3>6, KillAlone, Zenon
    <3>8. Len(<< >>) + 2 = 2
      OBVIOUS
    <3>9. named' = [named EXCEPT !.decision = ObjectAt(l + 1), !.intent = Null,
                                 !.state = ObjectAt(l + 2)]
      BY <1>6, <3>1, <3>8
    <3> QED BY <3>6, <3>7, <3>9, Zenon
  <2>2. CASE intent # Null
    <3>1. PICK d, f, y :
             /\ Write(<<Doc("RISK_DECISION", d, DecisionContext(d), NoEntries)>>
                      \o FillRecords(f, 2, Object(1))
                      \o <<Doc("KILL_STATE", y, [causation |-> RiskKey(group),
                                                 previous_state |-> Object(3)], NoEntries)>>)
             /\ named' = [named EXCEPT !.decision = Object(1), !.intent = Null,
                                       !.state = Object(Len(FillRecords(f, 2, Object(1))) + 2)]
      BY <2>2, Zenon DEF Kill
    <3>2. PICK a, c :
             /\ a = Doc("RISK_DECISION", d, DecisionContext(d), NoEntries)
             /\ c = Doc("KILL_STATE", y, [causation |-> RiskKey(group),
                                          previous_state |-> Object(3)], NoEntries)
      OBVIOUS
    <3>3. PICK x, z :
             /\ FillRecords(f, 2, Object(1)) = <<x, z>>
             /\ x.type = "SIMULATED_FILL"
             /\ x.context = [intent |-> named.intent, state_before |-> named.state,
                             fill_event |-> IF f.fill_event = Null THEN Null ELSE named.event,
                             reasons |-> f.reasons, latching_risk_decision |-> Object(1)]
             /\ z.type = "PORTFOLIO_STATE"
             /\ z.context = [causation |-> Object(2), previous_state |-> named.state]
      BY FillDocs
    <3>4. Write(<<a, x, z, c>>)
      <4>1. Write(<<a>> \o <<x, z>> \o <<c>>)
        BY <3>1, <3>2, <3>3, Zenon
      <4> QED BY <4>1, JoinedFour, Zenon
    <3>5. /\ a.type = "RISK_DECISION" /\ a.context = DecisionContext(d) /\ c.type = "KILL_STATE"
          /\ c.context = [causation |-> RiskKey(group), previous_state |-> Object(3)]
      BY <3>2 DEF Doc
    <3>6. PICK F : F = Causes(x.type, x.context)
      OBVIOUS
    <3>7. F \subseteq {named.intent, named.state, named.event, ObjectAt(l + 1)} \ {Null}
          /\ ObjectAt(s) \in F
      BY <1>5, <1>6, <3>3, <3>6, FillNames
    <3>9. Causes(z.type, z.context) = {ObjectAt(l + 2), ObjectAt(s)}
      <4>1. Causes("PORTFOLIO_STATE", z.context) = {Object(2), named.state} \ {Null}
        BY <3>3, StateCauses DEF States
      <4> QED BY <1>5, <1>6, <3>3, <4>1
    <3>10. Causes(c.type, c.context) = {key, ObjectAt(l + 3)}
      <4>1. Causes("KILL_STATE", c.context) = {RiskKey(group), Object(3)} \ {Null}
        BY <3>5, StateCauses DEF States
      <4> QED BY <1>3, <1>4, <1>5, <3>5, <4>1
    <3>11. /\ Grows(4) /\ Wrote(1, "RISK_DECISION", Causes("RISK_DECISION", DecisionContext(d)))
           /\ Wrote(2, "SIMULATED_FILL", F)
           /\ Wrote(3, "PORTFOLIO_STATE", {ObjectAt(l + 2), ObjectAt(s)})
           /\ Wrote(4, "KILL_STATE", {key, ObjectAt(l + 3)})
      <4>1. /\ Grows(4) /\ Wrote(1, a.type, Causes(a.type, a.context))
            /\ Wrote(2, x.type, Causes(x.type, x.context)) /\ Wrote(3, z.type, Causes(z.type, z.context))
            /\ Wrote(4, c.type, Causes(c.type, c.context))
        BY <1>5, <3>4, WroteFour, Zenon
      <4> QED BY <3>3, <3>5, <3>6, <3>9, <3>10, <4>1, Zenon
    <3>12. /\ Records' /\ Traced' /\ NamesState(ledger', ObjectAt(l + 4))
           /\ ledger'[l + 1].type = "RISK_DECISION"
      BY <1>1, <1>4, <3>7, <3>11, KillExpiring, Zenon
    <3>13. Len(FillRecords(f, 2, Object(1))) + 2 = 4
      <4>1. PICK r : r = FillRecords(f, 2, Object(1))
        OBVIOUS
      <4>2. r = <<x, z>>
        BY <3>3, <4>1
      <4>3. Len(r) + 2 = 4
        BY <4>2
      <4> QED BY <4>1, <4>3
    <3>14. named' = [named EXCEPT !.decision = ObjectAt(l + 1), !.intent = Null,
                                  !.state = ObjectAt(l + 4)]
      BY <1>6, <3>1, <3>13
    <3> QED BY <3>11, <3>12, <3>14, Zenon
  <2> QED BY <2>1, <2>2
<1>8. PICK m \in {2, 4} :
         /\ Grows(m) /\ Records' /\ Traced' /\ NamesState(ledger', ObjectAt(l + m))
         /\ ledger'[l + 1].type = "RISK_DECISION"
         /\ named' = [named EXCEPT !.decision = ObjectAt(l + 1), !.intent = Null,
                                   !.state = ObjectAt(l + m)]
  BY <1>7
<1>9. /\ named'.decision = ObjectAt(l + 1) /\ named'.intent = Null /\ named'.state = ObjectAt(l + m)
      /\ named'.source = named.source /\ named'.config = named.config
      /\ named'.event = named.event /\ named'.snapshot = named.snapshot
      /\ named'.validation = named.validation /\ named'.signal = named.signal
      /\ named' \in NamedType
  BY <1>6, <1>8 DEF TraceInv, Named, NamedType, Optional
<1>10. Named'
  <2>1. "RISK_DECISION" \in Beyond /\ l = Len(ledger) /\ 1 \in 1 .. m /\ m \in Nat
    BY <1>5 DEF Beyond, Admissions, RecordTypes, ObjectSchema
  <2> QED BY <1>8, <1>9, <2>1, NamedAfter
<1>11. Ready'
  BY <1>2, <1>6, <1>8, <1>9 DEF Ready
<1> QED BY <1>8, <1>10, <1>11 DEF TraceInv

-----------------------------------------------------------------------------
(* The end of the run *)

LEMMA RunEndKeeps == ASSUME TraceInv, RunEnd PROVE TraceInv'
<1>1. PICK l \in Nat, s \in Nat : Standing(l, s)
  BY Before
<1>2. /\ named' = [named EXCEPT !.reconciliation = Object(1)] /\ phase' = "RUN_END"
      /\ group' = group /\ keys' = keys /\ group \in 0 .. MaxGroup /\ named.decision # Null
  BY ReplayAssumption DEF RunEnd, TraceInv, Ready, ReplayAssumption
<1>3. PICK e : e = named.decision
  OBVIOUS
<1>4. PICK q \in 1 .. l : e = ObjectAt(q)
  BY <1>1, <1>2, <1>3 DEF Standing
<1>5. /\ s \in 1 .. l /\ named.state = ObjectAt(s) /\ ObjectAt(s) # Null
      /\ Object(1) = ObjectAt(l + 1) /\ ObjectAt(l + 1) \in Digests /\ ObjectAt(l + 1) # Null
      /\ \E S : ledger \in Seq(S)
  BY <1>1, ObjectPlace, ObjectDigests DEF Standing
<1>6. PICK B : B = {ObjectAt(s), ObjectAt(q)}
  OBVIOUS
<1>7. Grows(2) /\ Wrote(1, "RECONCILIATION", B) /\ Wrote(2, "RUN_END", {ObjectAt(l + 1)})
  <2>1. PICK a, b :
           /\ a = Doc("RECONCILIATION", Null,
                      [state_before |-> named.state, state_after |-> named.state,
                       reconciled |-> <<named.decision>>], NoEntries)
           /\ b = Doc("RUN_END", portfolio, [final_reconciliation |-> Object(1)], NoEntries)
    OBVIOUS
  <2>2. Write(<<a, b>>)
    BY <2>1, Zenon DEF RunEnd
  <2>3. /\ a.type = "RECONCILIATION" /\ b.type = "RUN_END"
        /\ a.context = [state_before |-> named.state, state_after |-> named.state,
                        reconciled |-> <<named.decision>>]
        /\ b.context = [final_reconciliation |-> Object(1)]
    BY <2>1 DEF Doc
  <2>4. Causes(a.type, a.context) = B
    <3>1. Causes(a.type, a.context) = ({named.state, named.state} \ {Null}) \cup ToSet(<<named.decision>>)
      BY <2>3, ReconciliationCauses
    <3>2. ToSet(<<named.decision>>) = {named.decision}
      BY DEF ToSet
    <3> QED BY <1>3, <1>4, <1>5, <1>6, <3>1, <3>2
  <2>5. Causes(b.type, b.context) = {ObjectAt(l + 1)}
    <3>1. Causes(b.type, b.context) = {Object(1)} \ {Null}
      BY <2>3, EndCauses, Zenon
    <3> QED BY <1>5, <3>1
  <2>6. Grows(2) /\ Wrote(1, a.type, Causes(a.type, a.context))
        /\ Wrote(2, b.type, Causes(b.type, b.context))
    BY <1>5, <2>2, WroteTwo, Zenon
  <2> QED BY <2>3, <2>4, <2>5, <2>6, Zenon
<1>8. /\ ledger'[l + 1].type = "RECONCILIATION" /\ ledger'[l + 1].object = ObjectAt(l + 1)
      /\ ledger'[l + 2].type = "RUN_END"
  BY <1>1, <1>7, WroteObject
<1>9. ledger'[s] = ledger[s] /\ ledger[s].type \in States
      /\ \A k \in (s + 1) .. l : ledger'[k].type \notin Milestones
  BY <1>1, <1>7 DEF Standing, Grows
<1>10. RecordAt(ledger', keys', l + 1) /\ WellCaused(ledger', l + 1)
  <2>1. "RECONCILIATION" \in Closing
    BY DEF Closing
  <2>2. 1 \in 1 .. 2 /\ (1 .. (1 - 1)) = {} /\ s \in 1 .. (l + 1 - 1) /\ q \in 1 .. (l + 1 - 1)
        /\ l + 1 - 1 = l
    BY <1>5
  <2>3. ledger'[s].type \in Closing \ {"RUN_END"} /\ ObjectAt(s) \in B
    BY <1>6, <1>9 DEF Closing, States
  <2>4. \A k \in (s + 1) .. (l + 1 - 1) : ledger'[k].type \in Milestones => ObjectAt(k) \in B
    BY <1>9, <2>2
  <2>5. \A c \in B : c \in Kept \cup keys' \/ \E k \in 1 .. (l + 1 - 1) : c = ObjectAt(k)
    BY <1>6, <2>2
  <2>6. \A j \in 1 .. (1 - 1) : ledger'[l + j].object = ObjectAt(l + j)
    BY <2>2
  <2> QED BY <1>1, <1>7, <2>1, <2>2, <2>3, <2>4, <2>5, <2>6, ClosingStep
<1>11. RecordAt(ledger', keys', l + 2) /\ WellCaused(ledger', l + 2)
  <2>0. PICK C : C = {ObjectAt(l + 1)}
    OBVIOUS
  <2>1. "RUN_END" \in Closing /\ Wrote(2, "RUN_END", C)
    BY <1>7, <2>0 DEF Closing
  <2>2. 2 \in 1 .. 2 /\ (\A j \in 1 .. (2 - 1) : j = 1) /\ l + 1 \in 1 .. (l + 2 - 1)
        /\ ((l + 1 + 1) .. (l + 2 - 1)) = {}
    OBVIOUS
  <2>3. ledger'[l + 1].type \in Closing \ {"RUN_END"} /\ ObjectAt(l + 1) \in C
    BY <1>8, <2>0 DEF Closing
  <2>4. \A k \in (l + 1 + 1) .. (l + 2 - 1) : ledger'[k].type \in Milestones => ObjectAt(k) \in C
    BY <2>2
  <2>5. \A c \in C : c \in Kept \cup keys' \/ \E k \in 1 .. (l + 2 - 1) : c = ObjectAt(k)
    BY <2>0, <2>2
  <2>6. \A j \in 1 .. (2 - 1) : ledger'[l + j].object = ObjectAt(l + j)
    BY <1>8, <2>2
  <2>7. 2 \in Nat /\ Grows(2)
    BY <1>7
  <2> QED BY <1>1, <2>1, <2>2, <2>3, <2>4, <2>5, <2>6, <2>7, ClosingStep, Zenon
<1>12. \A i \in 1 .. 2 : i = 1 \/ i = 2
  OBVIOUS
<1>13. Records' /\ Traced'
  <2>1. keys \subseteq keys' /\ keys' \subseteq {"key"} \X Nat
    BY <1>2 DEF TraceInv, Records
  <2> QED BY <1>1, <1>7, <1>10, <1>11, <1>12, <2>1, StepDone
<1>14. NamesState(ledger', named.state)
  <2>1. \A i \in 1 .. 2 : ledger'[l + i].type \notin Milestones
    BY <1>8, <1>12 DEF Milestones, States
  <2> QED BY <1>1, <1>7, <2>1, StateStands
<1>15. /\ named'.reconciliation = ObjectAt(l + 1)
       /\ named'.source = named.source /\ named'.config = named.config /\ named'.state = named.state
       /\ named'.event = named.event /\ named'.snapshot = named.snapshot
       /\ named'.validation = named.validation /\ named'.signal = named.signal
       /\ named'.decision = named.decision /\ named'.intent = named.intent
       /\ named' \in NamedType
  BY <1>2, <1>5 DEF TraceInv, Named, NamedType, Optional
<1>16. Named'
  BY <1>7, <1>14, <1>15, NamedAfter
<1>17. Ready'
  BY <1>2 DEF Ready
<1> QED BY <1>13, <1>16, <1>17 DEF TraceInv

-----------------------------------------------------------------------------
(* The first records *)

LEMMA RemoveAtParts ==
    ASSUME NEW X, NEW n \in Nat, NEW ids \in Seq(X), Len(ids) = n, NEW place \in 1 .. n
    PROVE  /\ ToSet(RemoveAt(ids, place)) \subseteq {ids[k] : k \in 1 .. n}
           /\ \A k \in 1 .. n : k # place => ids[k] \in ToSet(RemoveAt(ids, place))
<1>1. PICK u, v : u = SubSeq(ids, 1, place - 1) /\ v = SubSeq(ids, place + 1, n)
  OBVIOUS
<1>2. /\ u \in Seq(X) /\ Len(u) = place - 1 /\ \A i \in 1 .. (place - 1) : u[i] = ids[i]
  BY <1>1
<1>3. /\ v \in Seq(X) /\ Len(v) = n - place /\ \A i \in 1 .. (n - place) : v[i] = ids[place + i]
  BY <1>1
<1>4. PICK r : r = u \o v
  OBVIOUS
<1>5. RemoveAt(ids, place) = r
  BY <1>1, <1>4, Zenon DEF RemoveAt
<1>6. /\ r \in Seq(X) /\ Len(r) = n - 1
      /\ \A i \in 1 .. (place - 1) : r[i] = ids[i]
      /\ \A i \in 1 .. (n - place) : r[place - 1 + i] = ids[place + i]
  <2>1. u \in Seq(X) /\ v \in Seq(X)
    BY <1>2, <1>3
  <2>2. /\ u \o v \in Seq(X) /\ Len(u \o v) = Len(u) + Len(v)
        /\ \A i \in 1 .. Len(u) : (u \o v)[i] = u[i]
        /\ \A i \in 1 .. Len(v) : (u \o v)[Len(u) + i] = v[i]
    BY <2>1, Appended
  <2>3. /\ r \in Seq(X) /\ Len(r) = (place - 1) + (n - place)
        /\ \A i \in 1 .. (place - 1) : r[i] = u[i]
        /\ \A i \in 1 .. (n - place) : r[place - 1 + i] = v[i]
    BY <1>2, <1>3, <1>4, <2>2, Zenon
  <2>4. (place - 1) + (n - place) = n - 1
    OBVIOUS
  <2> QED BY <1>2, <1>3, <2>3, <2>4, Zenon
<1>7. ToSet(r) = {r[i] : i \in 1 .. (n - 1)}
  BY <1>6 DEF ToSet
<1>8. ASSUME NEW i \in 1 .. (n - 1) PROVE \E k \in 1 .. n : r[i] = ids[k]
  <2>1. CASE i <= place - 1
    BY <1>6, <2>1
  <2>2. CASE i > place - 1
    <3>1. i - (place - 1) \in 1 .. (n - place) /\ place - 1 + (i - (place - 1)) = i
          /\ place + (i - (place - 1)) \in 1 .. n
      BY <2>2
    <3> QED BY <1>6, <3>1
  <2> QED BY <2>1, <2>2
<1>9. ASSUME NEW k \in 1 .. n, k # place PROVE \E i \in 1 .. (n - 1) : ids[k] = r[i]
  <2>1. CASE k < place
    BY <1>6, <2>1
  <2>2. CASE k > place
    <3>1. k - place \in 1 .. (n - place) /\ place + (k - place) = k
          /\ place - 1 + (k - place) \in 1 .. (n - 1)
      BY <2>2
    <3> QED BY <1>6, <3>1
  <2> QED BY <1>9, <2>1, <2>2
<1>10. ToSet(r) \subseteq {ids[k] : k \in 1 .. n}
  BY <1>7, <1>8
<1>11. \A k \in 1 .. n : k # place => ids[k] \in ToSet(r)
  BY <1>7, <1>9
<1> QED BY <1>5, <1>10, <1>11

Admitted(i, place, config) ==
    IF i = place THEN Doc("CONFIG_ADMISSION", Null, [validated_config |-> config], NoEntries)
    ELSE Doc("SOURCE_ADMISSION", Null, [fixture_manifest |-> Fixture], NoEntries)

\* The batch, place by place.
InPlaces(batch, place, config, ids) ==
    /\ batch = [i \in 1 .. (Sources + 4) |-> batch[i]]
    /\ \A i \in 1 .. (Sources + 1) : batch[i] = Admitted(i, place, config)
    /\ batch[Sources + 2] =
          Doc("RUN_RECEIPT", Null,
              [fixture_manifest |-> Fixture, config_admission |-> ids[place],
               run_closure |-> RunClosure, validated_config |-> config,
               source_admissions |-> RemoveAt(ids, place)], NoEntries)
    /\ batch[Sources + 3] =
          Doc("PORTFOLIO_STATE", Genesis(ObjectAt(Sources + 2)),
              [causation |-> ObjectAt(Sources + 2)], NoEntries)
    /\ batch[Sources + 4] =
          Doc("RECONCILIATION", Null,
              [state_before |-> ObjectAt(Sources + 3), state_after |-> ObjectAt(Sources + 3),
               reconciled |-> << >>], NoEntries)

LEMMA PrefixParts ==
    ASSUME NEW place \in 1 .. (Sources + 1), NEW valid, NEW batch, batch = Prefix(place, valid),
           NEW config, config = IF valid THEN Config ELSE Null,
           NEW ids, ids = [i \in 1 .. (Sources + 1) |-> ObjectAt(i)]
    PROVE  InPlaces(batch, place, config, ids)
<1>0. PICK n \in Nat : n = Sources + 1
  BY ReplayAssumption DEF ReplayAssumption
<1>1. PICK c, e :
         /\ c = [fixture_manifest |-> Fixture, config_admission |-> ids[place],
                 run_closure |-> RunClosure, validated_config |-> config,
                 source_admissions |-> RemoveAt(ids, place)]
         /\ e = [state_before |-> ObjectAt(Sources + 2 + 1), state_after |-> ObjectAt(Sources + 2 + 1),
                 reconciled |-> << >>]
  OBVIOUS
<1>2. PICK f, x, y, z :
         /\ f = [i \in 1 .. n |-> Admitted(i, place, config)]
         /\ x = Doc("RUN_RECEIPT", Null, c, NoEntries)
         /\ y = Doc("PORTFOLIO_STATE", Genesis(ObjectAt(Sources + 2)),
                    [causation |-> ObjectAt(Sources + 2)], NoEntries)
         /\ z = Doc("RECONCILIATION", Null, e, NoEntries)
  OBVIOUS
<1>3. batch = f \o <<x, y, z>>
  BY <1>0, <1>1, <1>2, Zenon DEF Prefix, Admitted
<1>4. PICK A : A = {Admitted(i, place, config) : i \in 1 .. n} \cup {x, y, z}
  OBVIOUS
<1>5. f \in Seq(A) /\ Len(f) = n /\ \A i \in 1 .. n : f[i] = Admitted(i, place, config)
  <2> DEFINE F(i) == Admitted(i, place, config)
  <2>1. f = [i \in 1 .. n |-> F(i)] /\ \A i \in 1 .. n : F(i) \in A
    BY <1>2, <1>4
  <2> HIDE DEF F
  <2>2. f \in Seq(A) /\ Len(f) = n /\ \A i \in 1 .. n : f[i] = F(i)
    BY <2>1
  <2> QED BY <2>2 DEF F
<1>6. PICK t : t = <<x, y, z>>
  OBVIOUS
<1>7. t \in Seq(A) /\ Len(t) = 3 /\ t[1] = x /\ t[2] = y /\ t[3] = z
  BY <1>4, <1>6
<1>8. /\ batch \in Seq(A) /\ Len(batch) = n + 3 /\ \A i \in 1 .. n : batch[i] = f[i]
      /\ batch[n + 1] = x /\ batch[n + 2] = y /\ batch[n + 3] = z
  <2>1. batch = f \o t
    BY <1>3, <1>6
  <2>2. f \in Seq(A) /\ t \in Seq(A)
    BY <1>5, <1>7
  <2>3. /\ f \o t \in Seq(A) /\ Len(f \o t) = Len(f) + Len(t)
        /\ \A i \in 1 .. Len(f) : (f \o t)[i] = f[i]
        /\ \A i \in 1 .. Len(t) : (f \o t)[Len(f) + i] = t[i]
    BY <2>2, Appended
  <2>4. /\ batch \in Seq(A) /\ Len(batch) = n + 3 /\ \A i \in 1 .. n : batch[i] = f[i]
        /\ \A i \in 1 .. 3 : batch[n + i] = t[i]
    BY <1>5, <1>7, <2>1, <2>3, Zenon
  <2>5. 1 \in 1 .. 3 /\ 2 \in 1 .. 3 /\ 3 \in 1 .. 3
    OBVIOUS
  <2> QED BY <1>7, <2>4, <2>5, Zenon
<1>9. n + 1 = Sources + 2 /\ n + 2 = Sources + 3 /\ n + 3 = Sources + 4 /\ Sources + 2 + 1 = Sources + 3
  BY <1>0, ReplayAssumption DEF ReplayAssumption
<1>11. batch = [i \in 1 .. (Sources + 4) |-> batch[i]]
  BY <1>8, <1>9
<1> QED BY <1>0, <1>1, <1>2, <1>5, <1>8, <1>9, <1>11, Zenon DEF InPlaces

LEMMA InitTraces == Init => TraceInv
<1> SUFFICES ASSUME Init PROVE TraceInv
  OBVIOUS
<1>0. Sources \in Nat /\ Sources > 0 /\ MaxGroup \in Nat
  BY ReplayAssumption DEF ReplayAssumption
<1>1. PICK place \in 1 .. (Sources + 1) :
         /\ named = [source |-> ObjectAt(IF place = 1 THEN 2 ELSE 1), config |-> ObjectAt(place),
                     state |-> ObjectAt(Sources + 3), event |-> Null, snapshot |-> Null,
                     validation |-> Null, signal |-> Null, decision |-> Null, intent |-> Null,
                     reconciliation |-> ObjectAt(Sources + 4)]
         /\ emitted = Prefix(place, configured)
         /\ ledger = RecordsFrom(0, emitted)
  BY DEF Init
<1>2. PICK config : config = IF configured THEN Config ELSE Null
  OBVIOUS
<1>3. PICK ids : ids = [i \in 1 .. (Sources + 1) |-> ObjectAt(i)]
  OBVIOUS
<1>4. PICK batch : batch = emitted
  OBVIOUS
<1>5. PICK n \in Nat : n = Sources + 4
  BY <1>0
<1>6. /\ batch = [i \in 1 .. n |-> batch[i]]
      /\ \A i \in 1 .. (Sources + 1) : batch[i] = Admitted(i, place, config)
      /\ batch[Sources + 2].type = "RUN_RECEIPT"
      /\ batch[Sources + 2].context =
            [fixture_manifest |-> Fixture, config_admission |-> ids[place],
             run_closure |-> RunClosure, validated_config |-> config,
             source_admissions |-> RemoveAt(ids, place)]
      /\ batch[Sources + 3].type = "PORTFOLIO_STATE"
      /\ batch[Sources + 3].context = [causation |-> ObjectAt(Sources + 2)]
      /\ batch[Sources + 4].type = "RECONCILIATION"
      /\ batch[Sources + 4].context =
            [state_before |-> ObjectAt(Sources + 3), state_after |-> ObjectAt(Sources + 3),
             reconciled |-> << >>]
  <2>1. batch = Prefix(place, configured) /\ place \in 1 .. (Sources + 1)
    BY <1>1, <1>4, Zenon
  <2>2. InPlaces(batch, place, config, ids)
    BY <1>2, <1>3, <2>1, PrefixParts
  <2>3. PICK c, d, e :
           /\ c = [fixture_manifest |-> Fixture, config_admission |-> ids[place],
                   run_closure |-> RunClosure, validated_config |-> config,
                   source_admissions |-> RemoveAt(ids, place)]
           /\ d = [causation |-> ObjectAt(Sources + 2)]
           /\ e = [state_before |-> ObjectAt(Sources + 3), state_after |-> ObjectAt(Sources + 3),
                   reconciled |-> << >>]
    OBVIOUS
  <2>4. /\ batch[Sources + 2] = Doc("RUN_RECEIPT", Null, c, NoEntries)
        /\ batch[Sources + 3] = Doc("PORTFOLIO_STATE", Genesis(ObjectAt(Sources + 2)), d, NoEntries)
        /\ batch[Sources + 4] = Doc("RECONCILIATION", Null, e, NoEntries)
    BY <2>2, <2>3, Zenon DEF InPlaces
  <2>5. /\ batch[Sources + 2].type = "RUN_RECEIPT" /\ batch[Sources + 2].context = c
        /\ batch[Sources + 3].type = "PORTFOLIO_STATE" /\ batch[Sources + 3].context = d
        /\ batch[Sources + 4].type = "RECONCILIATION" /\ batch[Sources + 4].context = e
    BY ONLY <2>4 DEF Doc
  <2> QED BY <1>5, <2>2, <2>3, <2>5, Zenon DEF InPlaces
<1>7. /\ \E S : ledger \in Seq(S)
      /\ Len(ledger) = n
      /\ \A i \in 1 .. n : Recorded(ledger[i], i, batch[i].type,
                                    Causes(batch[i].type, batch[i].context))
  <2>1. /\ \E S : RecordsFrom(0, batch) \in Seq(S)
        /\ Len(RecordsFrom(0, batch)) = n
        /\ \A i \in 1 .. n : Recorded(RecordsFrom(0, batch)[i], 0 + i, batch[i].type,
                                      Causes(batch[i].type, batch[i].context))
    BY <1>6, FromBatch
  <2>2. \A i \in 1 .. n : 0 + i = i
    OBVIOUS
  <2> QED BY <1>1, <1>4, <2>1, <2>2, Zenon
<1>8. /\ Fixture # Null /\ Config # Null /\ RunClosure # Null
      /\ {Fixture, Config, RunClosure} \subseteq Kept
  BY DigestsApart DEF Fixture, Config, RunClosure, Kept
<1>9. PICK R : R = Causes(batch[Sources + 2].type, batch[Sources + 2].context)
  OBVIOUS
<1>10. /\ \A c \in R : c \in Kept \/ \E k \in 1 .. (Sources + 1) : c = ObjectAt(k)
       /\ \A k \in 1 .. (Sources + 1) : k # place => ObjectAt(k) \in R
  <2>1. PICK T : T = ToSet(RemoveAt(ids, place))
    OBVIOUS
  <2>2. R = ({Fixture, ids[place], RunClosure, config} \ {Null}) \cup T
    BY <1>6, <1>9, <2>1, RunCauses
  <2>3. /\ T \subseteq {ids[k] : k \in 1 .. (Sources + 1)}
        /\ \A k \in 1 .. (Sources + 1) : k # place => ids[k] \in T
    <3>1. PICK m \in Nat : m = Sources + 1
      BY <1>0
    <3>2. PICK X : X = {ObjectAt(i) : i \in 1 .. m}
      OBVIOUS
    <3>3. ids \in Seq(X) /\ Len(ids) = m /\ place \in 1 .. m
      BY <1>3, <3>1, <3>2
    <3>4. /\ ToSet(RemoveAt(ids, place)) \subseteq {ids[k] : k \in 1 .. m}
          /\ \A k \in 1 .. m : k # place => ids[k] \in ToSet(RemoveAt(ids, place))
      BY <3>3, RemoveAtParts
    <3> QED BY <2>1, <3>1, <3>4, Zenon
  <2>4. \A k \in 1 .. (Sources + 1) : ids[k] = ObjectAt(k)
    BY <1>3
  <2>5. \A c \in R : c \in Kept \/ c = ids[place] \/ c \in T
    BY <1>2, <1>8, <2>2
  <2>6. \A k \in 1 .. (Sources + 1) : k # place => ObjectAt(k) \in R
    BY <2>2, <2>3, <2>4
  <2> QED BY <2>3, <2>4, <2>5, <2>6
<1>11. \A i \in 1 .. (Sources + 1) :
          IF i = place THEN \E K : K \subseteq {Config} /\ Recorded(ledger[i], i, "CONFIG_ADMISSION", K)
          ELSE Recorded(ledger[i], i, "SOURCE_ADMISSION", {Fixture})
  <2> TAKE i \in 1 .. (Sources + 1)
  <2>1. i \in 1 .. n
    BY <1>0, <1>5
  <2>2. Recorded(ledger[i], i, batch[i].type, Causes(batch[i].type, batch[i].context))
    BY <1>7, <2>1
  <2>3. CASE i = place
    <3>1. batch[i].type = "CONFIG_ADMISSION" /\ batch[i].context = [validated_config |-> config]
      <4>1. batch[i] = Admitted(i, place, config)
        BY <1>6, Zenon
      <4>2. batch[i] = Doc("CONFIG_ADMISSION", Null, [validated_config |-> config], NoEntries)
        BY <2>3, <4>1, Zenon DEF Admitted
      <4> QED BY <4>2 DEF Doc
    <3>2. Causes(batch[i].type, batch[i].context) = {config} \ {Null}
      BY <3>1, ConfigCauses
    <3>3. {config} \ {Null} \subseteq {Config}
      BY <1>2
    <3> QED BY <2>2, <2>3, <3>1, <3>2, <3>3, Zenon
  <2>4. CASE i # place
    <3>1. batch[i].type = "SOURCE_ADMISSION" /\ batch[i].context = [fixture_manifest |-> Fixture]
      <4>1. batch[i] = Admitted(i, place, config)
        BY <1>6, Zenon
      <4>2. batch[i] = Doc("SOURCE_ADMISSION", Null, [fixture_manifest |-> Fixture], NoEntries)
        BY <2>4, <4>1, Zenon DEF Admitted
      <4> QED BY <4>2 DEF Doc
    <3>2. Causes(batch[i].type, batch[i].context) = {Fixture} \ {Null}
      BY <3>1, SourceCauses
    <3>3. {Fixture} \ {Null} = {Fixture}
      BY <1>8
    <3> QED BY <2>2, <2>4, <3>1, <3>2, <3>3, Zenon
  <2> QED BY <2>3, <2>4
<1>12. /\ Recorded(ledger[Sources + 2], Sources + 2, "RUN_RECEIPT", R)
       /\ Recorded(ledger[Sources + 3], Sources + 3, "PORTFOLIO_STATE", {ObjectAt(Sources + 2)})
       /\ Recorded(ledger[Sources + 4], Sources + 4, "RECONCILIATION", {ObjectAt(Sources + 3)})
  <2>1. Sources + 2 \in 1 .. n /\ Sources + 3 \in 1 .. n /\ Sources + 4 \in 1 .. n
    BY <1>0, <1>5
  <2>2. ObjectAt(Sources + 2) # Null /\ ObjectAt(Sources + 3) # Null
    BY <1>0, ObjectDigests
  <2>3. Causes(batch[Sources + 3].type, batch[Sources + 3].context) = {ObjectAt(Sources + 2)}
    <3>1. Causes(batch[Sources + 3].type, batch[Sources + 3].context)
            = {ObjectAt(Sources + 2)} \ {Null}
      BY <1>6, GenesisCauses
    <3> QED BY <2>2, <3>1
  <2>4. Causes(batch[Sources + 4].type, batch[Sources + 4].context) = {ObjectAt(Sources + 3)}
    <3>0. PICK a : a = ObjectAt(Sources + 3)
      OBVIOUS
    <3>1. Causes(batch[Sources + 4].type, batch[Sources + 4].context) = ({a, a} \ {Null}) \cup ToSet(<< >>)
      <4>1. Causes("RECONCILIATION", [state_before |-> a, state_after |-> a, reconciled |-> << >>])
              = ({a, a} \ {Null}) \cup ToSet(<< >>)
        BY ReconciliationCauses
      <4> QED BY <1>6, <3>0, <4>1, Zenon
    <3>2. ToSet(<< >>) = {}
      BY DEF ToSet
    <3> QED BY <2>2, <3>0, <3>1, <3>2
  <2> QED BY <1>6, <1>7, <1>9, <2>1, <2>3, <2>4, Zenon
<1>13. \A i \in 1 .. n : i \in 1 .. (Sources + 1) \/ i = Sources + 2 \/ i = Sources + 3 \/ i = Sources + 4
  BY <1>0, <1>5
<1>14. \A i \in 1 .. n : ledger[i].type # "RUN_END" => ledger[i].object = ObjectAt(i)
  BY <1>7 DEF Recorded
<1>15. keys = {}
  BY DEF Init
<1>16. ASSUME NEW i \in 1 .. (Sources + 1) PROVE RecordAt(ledger, keys, i) /\ WellCaused(ledger, i)
  <2>1. CASE i = place
    <3>1. PICK K : K \subseteq {Config} /\ Recorded(ledger[i], i, "CONFIG_ADMISSION", K)
      BY <1>11, <2>1
    <3> QED BY <1>8, <3>1 DEF RecordAt, WellCaused, Recorded, Admissions, Closing, States
  <2>2. CASE i # place
    <3>1. Recorded(ledger[i], i, "SOURCE_ADMISSION", {Fixture})
      BY <1>11, <2>2
    <3> QED BY <1>8, <3>1 DEF RecordAt, WellCaused, Recorded, Admissions, Closing, States
  <2> QED BY <2>1, <2>2
<1>17. PICK q \in 1 .. (Sources + 1) : q # place /\ named.source = ObjectAt(q)
  <2>1. (IF place = 1 THEN 2 ELSE 1) \in 1 .. (Sources + 1) /\ (IF place = 1 THEN 2 ELSE 1) # place
    BY <1>0
  <2> QED BY <1>1, <2>1
<1>18. ledger[q].type = "SOURCE_ADMISSION" /\ ledger[place].type = "CONFIG_ADMISSION"
       /\ ledger[Sources + 2].type = "RUN_RECEIPT" /\ ledger[Sources + 3].type = "PORTFOLIO_STATE"
       /\ ledger[Sources + 4].type = "RECONCILIATION"
  BY <1>11, <1>12, <1>17 DEF Recorded
<1>19. RecordAt(ledger, keys, Sources + 2) /\ WellCaused(ledger, Sources + 2)
  <2>1. PICK m \in Nat : m = Sources + 2
    BY <1>0
  <2>2. m - 1 = Sources + 1 /\ \A i \in 1 .. (m - 1) : i \in 1 .. n
    BY <1>0, <1>5, <2>1
  <2>3. \A i \in 1 .. (m - 1) : ledger[i].type # "RUN_END" => ledger[i].object = ObjectAt(i)
    BY <1>14, <2>2
  <2>4. Recorded(ledger[m], m, "RUN_RECEIPT", R) /\ q \in 1 .. (m - 1) /\ ObjectAt(q) \in R
    BY <1>10, <1>12, <1>17, <2>1, <2>2
  <2>5. "RUN_RECEIPT" \notin Admissions /\ "RUN_RECEIPT" \notin Closing
    BY DEF Admissions, Closing, States
  <2>6. ledger[q].type \notin {"RUN_END", "CONFIG_ADMISSION"}
    BY <1>18
  <2>7. \A c \in R : c \in Kept \cup keys \/ \E k \in 1 .. (m - 1) : c = ObjectAt(k)
    BY <1>10, <2>2
  <2>8. RecordAt(ledger, keys, m) /\ WellCaused(ledger, m)
    BY <2>3, <2>4, <2>5, <2>6, <2>7, JoinsAny
  <2> QED BY <2>1, <2>8
<1>20. RecordAt(ledger, keys, Sources + 3) /\ WellCaused(ledger, Sources + 3)
  <2>1. PICK m \in Nat, p \in Nat : m = Sources + 3 /\ p = Sources + 2
    BY <1>0
  <2>2. p \in 1 .. (m - 1)
    BY <1>0, <2>1
  <2>3. ledger[p].type = "RUN_RECEIPT" /\ ledger[p].object = ObjectAt(p)
    BY <1>12, <2>1 DEF Recorded
  <2>4. /\ ledger[m].type = "PORTFOLIO_STATE" /\ ledger[m].causes = {ObjectAt(p)}
        /\ ledger[m].object = ObjectAt(m)
    BY <1>12, <2>1 DEF Recorded
  <2>5. p \in Parents(ledger, m)
    BY <2>2, <2>3, <2>4 DEF Parents
  <2>6. RecordAt(ledger, keys, m)
    BY <2>2, <2>4 DEF RecordAt
  <2>7. Covers(ledger, m)
    BY <2>1, <2>5 DEF Covers
  <2>8. WellCaused(ledger, m)
    BY <2>3, <2>4, <2>5, <2>7 DEF WellCaused
  <2> QED BY <2>1, <2>6, <2>8
<1>21. RecordAt(ledger, keys, Sources + 4) /\ WellCaused(ledger, Sources + 4)
  <2>0. PICK C : C = {ObjectAt(Sources + 3)}
    OBVIOUS
  <2>1. PICK m \in Nat, p \in Nat : m = Sources + 4 /\ p = Sources + 3
    BY <1>0
  <2>2. p \in 1 .. (m - 1) /\ ((p + 1) .. (m - 1)) = {} /\ \A i \in 1 .. (m - 1) : i \in 1 .. n
    BY <1>0, <1>5, <2>1
  <2>3. \A i \in 1 .. (m - 1) : ledger[i].type # "RUN_END" => ledger[i].object = ObjectAt(i)
    BY <1>14, <2>2
  <2>4. Recorded(ledger[m], m, "RECONCILIATION", C) /\ ObjectAt(p) \in C
    BY <1>12, <2>0, <2>1
  <2>5. "RECONCILIATION" \in Closing /\ ledger[p].type \in Closing \ {"RUN_END"}
    BY <1>18, <2>1 DEF Closing, States
  <2>6. \A c \in C : c \in Kept \cup keys \/ \E k \in 1 .. (m - 1) : c = ObjectAt(k)
    BY <2>0, <2>1, <2>2
  <2>7. \A k \in (p + 1) .. (m - 1) : ledger[k].type \in Milestones => ObjectAt(k) \in C
    BY <2>2
  <2>8. RecordAt(ledger, keys, m) /\ WellCaused(ledger, m)
    BY <2>2, <2>3, <2>4, <2>5, <2>6, <2>7, JoinsClosing, Zenon
  <2> QED BY <2>1, <2>8
<1>22. \A i \in 1 .. n : RecordAt(ledger, keys, i) /\ WellCaused(ledger, i)
  BY <1>13, <1>16, <1>19, <1>20, <1>21, Zenon
<1>23. Records /\ Traced
  BY <1>0, <1>5, <1>7, <1>15, <1>22 DEF Records, Traced
<1>24. Named
  <2>1. {q, place, Sources + 3, Sources + 4} \subseteq 1 .. n /\ {q, place, Sources + 3, Sources + 4} \subseteq Nat
    BY <1>0, <1>5
  <2>2. /\ named.source = ObjectAt(q) /\ named.config = ObjectAt(place)
        /\ named.state = ObjectAt(Sources + 3) /\ named.event = Null /\ named.snapshot = Null
        /\ named.validation = Null /\ named.signal = Null /\ named.decision = Null
        /\ named.intent = Null
    BY <1>1, <1>17
  <2>3. named \in NamedType
    <3>1. {ObjectAt(q), ObjectAt(place), ObjectAt(Sources + 3), ObjectAt(Sources + 4)} \subseteq Digests
      BY <2>1, ObjectDigests
    <3>2. named = [source |-> ObjectAt(q), config |-> ObjectAt(place),
                   state |-> ObjectAt(Sources + 3), event |-> Null, snapshot |-> Null,
                   validation |-> Null, signal |-> Null, decision |-> Null, intent |-> Null,
                   reconciliation |-> ObjectAt(Sources + 4)]
      BY <1>1, <2>2
    <3> QED BY <3>1, <3>2 DEF NamedType, Optional
  <2>4. /\ Names(ledger, named.source, {"SOURCE_ADMISSION"})
        /\ Names(ledger, named.config, {"CONFIG_ADMISSION"})
    BY <1>7, <1>18, <2>1, <2>2 DEF Names
  <2>5. NamesState(ledger, named.state)
    <3>1. \A k \in (Sources + 3 + 1) .. n : k = Sources + 4
      BY <1>0, <1>5
    <3>2. "RECONCILIATION" \notin Milestones /\ "PORTFOLIO_STATE" \in States
      BY DEF Milestones, States
    <3>3. /\ Sources + 3 \in 1 .. Len(ledger) /\ ledger[Sources + 3].type \in States
          /\ \A k \in (Sources + 3 + 1) .. Len(ledger) : ledger[k].type \notin Milestones
      BY <1>7, <1>18, <2>1, <3>1, <3>2
    <3> QED BY <2>2, <3>3, LatestState
  <2> QED BY <2>2, <2>3, <2>4, <2>5 DEF Named
<1>25. Ready
  BY <1>0 DEF Ready, Init
<1> QED BY <1>23, <1>24, <1>25 DEF TraceInv

-----------------------------------------------------------------------------

\* Every step keeps what is said of the records and of the digests at hand
\* (the replay's phases and the causes of ledger_contract.py:170-337).
THEOREM TraceInvariant == Spec => []TraceInv
<1>1. Init => TraceInv
  BY InitTraces
<1>2. TraceInv /\ [Next]_vars => TraceInv'
  <2> SUFFICES ASSUME TraceInv, [Next]_vars PROVE TraceInv'
    OBVIOUS
  <2>1. CASE RawGroupCommit
    BY <2>1, RawGroupCommitKeeps
  <2>2. CASE Fill
    BY <2>2, FillKeeps
  <2>3. CASE GroupMark
    BY <2>3, GroupMarkKeeps
  <2>4. CASE Snapshot
    BY <2>4, SnapshotKeeps
  <2>5. CASE Approve
    BY <2>5, ApproveKeeps
  <2>6. CASE Deny
    BY <2>6, DenyKeeps
  <2>7. CASE Kill
    BY <2>7, KillKeeps
  <2>8. CASE FinalGate
    BY <2>8, FinalGateKeeps
  <2>9. CASE RunEnd
    BY <2>9, RunEndKeeps
  <2>10. CASE UNCHANGED vars
    <3>1. ledger' = ledger /\ keys' = keys /\ named' = named /\ phase' = phase /\ group' = group
      BY <2>10 DEF vars
    <3>2. Records' /\ Traced'
      BY <3>1 DEF TraceInv, Records, Traced
    <3>3. Named'
      BY <3>1 DEF TraceInv, Named
    <3>4. Ready'
      BY <3>1 DEF TraceInv, Ready
    <3> QED BY <3>2, <3>3, <3>4 DEF TraceInv
  <2> QED BY <2>1, <2>2, <2>3, <2>4, <2>5, <2>6, <2>7, <2>8, <2>9, <2>10 DEF Next
<1> QED BY <1>1, <1>2, PTL DEF Spec

\* The causes that ledger_contract.py makes a record name are an audit trail,
\* for any number of admissions and groups: each is found among what was
\* retained before it, as one kind of thing; every record leads back to an
\* admitted source, every state to all the states and fills before it.
THEOREM LedgerTracesBackAlways == Spec => []LedgerTracesBack
BY TraceInvariant, TraceSuffices, PTL

-----------------------------------------------------------------------------
(* Sums over finite sets *)

\* Induction over the subsets of a finite set, an element at a time.
LEMMA SubsetInduction ==
    ASSUME NEW D, IsFiniteSet(D), NEW Q, {} \in Q,
           \A T \in SUBSET D : (\A x \in T : T \ {x} \in Q) => T \in Q
    PROVE  SUBSET D \subseteq Q
<1> DEFINE N == {n \in Nat : \A T \in SUBSET D : Cardinality(T) = n => T \in Q}
<1>1. \A T \in SUBSET D : IsFiniteSet(T) /\ Cardinality(T) \in Nat
  BY FS_Subset, FS_CardinalityType
<1>2. 0 \in N
  BY <1>1, FS_EmptySet
<1>3. ASSUME NEW n \in Nat, n \in N PROVE n + 1 \in N
  <2>1. ASSUME NEW T \in SUBSET D, Cardinality(T) = n + 1 PROVE T \in Q
    <3>1. \A x \in T : Cardinality(T \ {x}) = n
      BY <1>1, <2>1, FS_RemoveElement
    <3>2. \A x \in T : T \ {x} \in Q
      BY <1>3, <3>1
    <3> QED BY <3>2
  <2> QED BY <2>1
<1>4. Nat \subseteq N
  <2> HIDE DEF N
  <2> QED BY <1>2, <1>3, Induction
<1> QED BY <1>1, <1>4

-----------------------------------------------------------------------------
(* What a sum over a finite set is *)

One(T) == CHOOSE x \in T : TRUE

\* What the library's sum chooses: its value on every subset.
SumEquation(h, f, D) ==
    h = [T \in SUBSET D |-> IF T = {} THEN 0 ELSE f[One(T)] + h[T \ {One(T)}]]

LEMMA SumExists ==
    ASSUME NEW D, IsFiniteSet(D), NEW f \in [D -> Int]
    PROVE  \E h \in [SUBSET D -> Int] : SumEquation(h, f, D)
<1> DEFINE Small(n) == {T \in SUBSET D : Cardinality(T) <= n}
           Fits(h, n) == \A T \in Small(n) :
                            h[T] = IF T = {} THEN 0 ELSE f[One(T)] + h[T \ {One(T)}]
           N == {n \in Nat : \E h \in [Small(n) -> Int] : Fits(h, n)}
<1>1. \A T \in SUBSET D : /\ IsFiniteSet(T) /\ Cardinality(T) \in Nat
                          /\ T # {} => One(T) \in T /\ Cardinality(T \ {One(T)}) = Cardinality(T) - 1
                          /\ Cardinality(T) = 0 <=> T = {}
  <2>1. \A T \in SUBSET D : T # {} => One(T) \in T
    BY DEF One
  <2> QED BY <2>1, FS_Subset, FS_CardinalityType, FS_RemoveElement, FS_EmptySet
<1>0. \A T \in SUBSET D : Cardinality(T) \in Nat
  BY <1>1
<1>2. 0 \in N
  <2> DEFINE h == [T \in Small(0) |-> 0]
  <2>1. ASSUME NEW T \in Small(0) PROVE T = {}
    <3>1. T \in SUBSET D /\ Cardinality(T) <= 0
      OBVIOUS
    <3>2. PICK c : c = Cardinality(T)
      OBVIOUS
    <3>3. c \in Nat /\ c <= 0
      BY <1>0, <3>1, <3>2
    <3>4. c = 0
      BY <3>3
    <3> QED BY <1>1, <3>1, <3>2, <3>4
  <2>2. h \in [Small(0) -> Int] /\ Fits(h, 0)
    BY <2>1
  <2> QED BY <2>2
<1>3. ASSUME NEW n \in Nat, n \in N PROVE n + 1 \in N
  <2>1. PICK h \in [Small(n) -> Int] : Fits(h, n)
    BY <1>3
  <2> DEFINE g == [T \in Small(n + 1) |-> IF T = {} THEN 0 ELSE f[One(T)] + h[T \ {One(T)}]]
  <2>2. \A T \in Small(n + 1) : T # {} => T \ {One(T)} \in Small(n) /\ T \ {One(T)} \in Small(n + 1)
    BY <1>1
  <2>3. g \in [Small(n + 1) -> Int]
    BY <1>1, <2>2
  <2>4. \A T \in Small(n) : T \in Small(n + 1) /\ g[T] = h[T]
    <3>1. ASSUME NEW T \in Small(n) PROVE T \in Small(n + 1)
      <4>1. T \in SUBSET D /\ Cardinality(T) <= n
        OBVIOUS
      <4>2. PICK c : c = Cardinality(T)
        OBVIOUS
      <4>3. c \in Nat /\ c <= n
        BY <1>0, <4>1, <4>2
      <4>4. c <= n + 1
        BY <4>3
      <4> QED BY <4>1, <4>2, <4>4
    <3> QED BY <2>1, <3>1
  <2>5. Fits(g, n + 1)
    <3> SUFFICES ASSUME NEW T \in Small(n + 1)
                 PROVE  g[T] = IF T = {} THEN 0 ELSE f[One(T)] + g[T \ {One(T)}]
      OBVIOUS
    <3>1. CASE T = {}
      BY <3>1
    <3>2. CASE T # {}
      <4>1. g[T \ {One(T)}] = h[T \ {One(T)}]
        BY <2>2, <2>4, <3>2
      <4>2. g[T] = f[One(T)] + h[T \ {One(T)}]
        BY <3>2
      <4> QED BY <3>2, <4>1, <4>2
    <3> QED BY <3>1, <3>2
  <2>6. n + 1 \in Nat
    OBVIOUS
  <2> HIDE DEF g, Fits, Small
  <2> QED BY <2>3, <2>5, <2>6
<1>4. Nat \subseteq N
  <2> HIDE DEF N
  <2> QED BY <1>2, <1>3, Induction
<1>5. PICK n \in Nat : n = Cardinality(D)
  BY <1>1
<1>6. Small(n) = SUBSET D
  BY <1>1, <1>5, FS_Subset
<1>7. PICK h \in [Small(n) -> Int] : Fits(h, n)
  BY <1>4
<1> QED BY <1>6, <1>7 DEF SumEquation

-----------------------------------------------------------------------------
(* The books: what the figures of a state have to do with each other *)

StateFields ==
    {"sequence", "ingest", "group", "clock", "previous", "causation", "causation_schema",
     "balances", "positions", "realized", "unrealized", "session", "fees", "equity", "peak",
     "drawdown_bps", "kill_latched", "kill_reasons", "open_intents"}

Count == Nat \ {0}
Purse == [available : Nat, reserved : Nat, total : Nat]
Row == [quantity : Nat, reserved : Nat, cost_basis : Nat, market_value : Nat, unrealized : Int,
        mark : Count, stop : Count, take : Count]

StateShaped(p) ==
    /\ DOMAIN p = StateFields
    /\ DOMAIN p.balances = Mints /\ DOMAIN p.positions = {Base}
    /\ p.balances[Quote] \in Purse
    /\ p.positions[Base] # Null => p.positions[Base] \in Row /\ p.positions[Base].quantity > 0

\* What is held and its balance, figure by figure.
PositionSound(p) ==
    IF Holding(p)
    THEN LET x == p.positions[Base]
         IN  /\ x.reserved <= x.quantity
             /\ p.balances[Base] = Balance(x.quantity - x.reserved, x.reserved)
             /\ x.market_value = x.quantity * x.mark
             /\ x.unrealized = x.market_value - x.cost_basis
    ELSE p.balances[Base] = Null

\* The quote atoms a run began with are cash, cost or have been realized.
SummarySound(p) ==
    LET cash == p.balances[Quote]
    IN  /\ cash.total = cash.available + cash.reserved
        /\ p.realized \in Int /\ p.fees \in Nat /\ p.peak \in Nat
        /\ p.unrealized = Held(p).unrealized
        /\ p.session = p.realized + p.unrealized
        /\ p.equity = cash.total + Held(p).market_value
        /\ p.peak >= p.equity
        /\ p.drawdown_bps = DrawdownBps(p.peak, p.equity)
        /\ cash.total + Held(p).cost_basis = Capital + p.realized

Sound(p) ==
    /\ StateShaped(p)
    /\ p.sequence \in Nat /\ Lineage(p)
    /\ PositionSound(p)
    /\ SummarySound(p)

\* What is reserved of either asset, and whether an intent is open for it.
Reservations(p, quote, base, open) ==
    p.balances[Quote].reserved = quote /\ Held(p).reserved = base /\ p.open_intents = open

\* What a state holds is a row, of zeros when it is flat.
LEMMA HeldFields ==
    ASSUME NEW p, StateShaped(p)
    PROVE  /\ Held(p) \in Row
           /\ ~Holding(p) => Held(p).quantity = 0 /\ Held(p).reserved = 0 /\ Held(p).cost_basis = 0
                             /\ Held(p).market_value = 0 /\ Held(p).unrealized = 0
           /\ Holding(p) => Held(p) = p.positions[Base] /\ Held(p).quantity > 0
BY DEF StateShaped, Held, Holding, Row, Count

\* A null is neither a row of a position nor a balance.
LEMMA Present == Null \notin Row \cup Purse
<1> DEFINE Rows == [quantity : Int, reserved : Int, cost_basis : Int, market_value : Int,
                    unrealized : Int, mark : Int, stop : Int, take : Int]
           Purses == [available : Int, reserved : Int, total : Int]
<1>1. \A r \in Row : r \in Rows
  BY DEF Row, Count
<1>2. \A r \in Purse : r \in Purses
  BY DEF Purse
<1> QED BY <1>1, <1>2, AbsenceAssumption, Zenon DEF AbsenceAssumption

\* The state a run begins with.
LEMMA GenesisSound ==
    ASSUME NEW run
    PROVE  Sound(Genesis(run)) /\ Reservations(Genesis(run), 0, 0, {}) /\ ~Holding(Genesis(run))
<1> DEFINE p == Genesis(run)
<1>1. Capital \in Nat
  BY ReplayAssumption DEF ReplayAssumption
<1>2. /\ p.balances = BalanceRows(Balance(Capital, 0), Null)
      /\ p.positions = [m \in {Base} |-> Null]
      /\ p.sequence = 0 /\ p.previous = Null /\ p.causation_schema = "RUN_INITIALIZATION"
      /\ p.realized = 0 /\ p.unrealized = 0 /\ p.session = 0 /\ p.fees = 0
      /\ p.equity = Capital /\ p.peak = Capital /\ p.drawdown_bps = 0 /\ p.open_intents = {}
      /\ DOMAIN p = StateFields
  BY DEF Genesis, StateFields
<1>3. DOMAIN p.balances = Mints /\ p.balances[Quote] = Balance(Capital, 0) /\ p.balances[Base] = Null
  BY <1>2 DEF BalanceRows, Mints, Quote, Base
<1>4. DOMAIN p.positions = {Base} /\ p.positions[Base] = Null
  BY <1>2
<1> HIDE DEF p
<1>5. DrawdownBps(Capital, Capital) = 0
  BY <1>1 DEF DrawdownBps
<1>6. ~Holding(p)
  BY <1>4 DEF Holding
<1>7. p.balances[Quote].available = Capital /\ p.balances[Quote].reserved = 0
      /\ p.balances[Quote].total = Capital /\ p.balances[Quote] \in Purse
  BY <1>1, <1>3 DEF Balance, Purse
<1>8. StateShaped(p)
  BY ONLY <1>2, <1>3, <1>4, <1>7 DEF StateShaped
<1>9. SummarySound(p)
  BY <1>1, <1>2, <1>5, <1>6, <1>7, <1>8, HeldFields DEF SummarySound
<1>10. Lineage(p) /\ PositionSound(p) /\ Reservations(p, 0, 0, {})
  BY <1>2, <1>3, <1>6, <1>7, <1>8, HeldFields DEF Lineage, PositionSound, Reservations
<1> QED BY <1>2, <1>6, <1>8, <1>9, <1>10 DEF Sound, p

\* A state follows another one.
LEMMA Succeeds ==
    ASSUME NEW p, Sound(p), named.state # Null,
           NEW schema, schema # "RUN_INITIALIZATION", NEW cause,
           NEW quote \in Purse, quote.total = quote.available + quote.reserved,
           NEW x \in Row, NEW base \in Nat, base <= x.quantity,
           x.quantity = 0 => x.cost_basis = 0,
           NEW realized \in Int, quote.total + x.cost_basis = Capital + realized,
           NEW fees \in Nat, NEW open, NEW s,
           s = Succeeding(p, schema, cause, quote, x, base, realized, fees, open)
    PROVE  /\ Sound(s) /\ Reservations(s, quote.reserved, base, open)
           /\ s.balances[Quote] = quote /\ Held(s).quantity = x.quantity
           /\ s.realized = realized /\ s.sequence > 0
<1> DEFINE flat == x.quantity = 0
           value == x.quantity * x.mark
           unrealized == IF flat THEN 0 ELSE value - x.cost_basis
           equity == quote.total + value
           peak == IF equity > p.peak THEN equity ELSE p.peak
           row == [x EXCEPT !.reserved = base, !.market_value = value, !.unrealized = unrealized]
           balance == Balance(x.quantity - base, base)
<1>1. /\ DOMAIN p = StateFields /\ p.sequence \in Nat /\ p.peak \in Nat /\ DOMAIN p.positions = {Base}
  BY DEF Sound, StateShaped, SummarySound
<1>2. /\ x.quantity \in Nat /\ x.mark \in Count /\ x.cost_basis \in Nat /\ x.stop \in Count /\ x.take \in Count
      /\ quote.total \in Nat /\ quote.available \in Nat /\ quote.reserved \in Nat
  BY DEF Row, Purse
<1>3. /\ value \in Nat /\ unrealized \in Int /\ equity \in Nat /\ peak \in Nat /\ peak >= equity
      /\ flat => value = 0
  BY <1>1, <1>2 DEF Count
<1>4. s = [p EXCEPT
            !.sequence = @ + 1, !.ingest = group, !.group = group, !.clock = group,
            !.previous = named.state, !.causation_schema = schema, !.causation = cause,
            !.balances = BalanceRows(quote, IF flat THEN Null ELSE balance),
            !.positions[Base] = IF flat THEN Null ELSE row,
            !.realized = realized, !.unrealized = unrealized, !.session = realized + unrealized,
            !.fees = fees, !.equity = equity, !.peak = peak,
            !.drawdown_bps = DrawdownBps(peak, equity), !.open_intents = open]
  BY DEF Succeeding
<1>5. /\ row \in Row /\ row.quantity = x.quantity /\ row.reserved = base /\ row.market_value = value
      /\ row.unrealized = unrealized /\ row.cost_basis = x.cost_basis /\ row.mark = x.mark
  BY <1>2, <1>3 DEF Row
<1>6. row # Null
  BY <1>5, Present
<1> HIDE DEF flat, value, unrealized, equity, peak, row, balance
<1>7. /\ DOMAIN s = StateFields
      /\ s.sequence = p.sequence + 1 /\ s.previous = named.state /\ s.causation_schema = schema
      /\ s.balances = BalanceRows(quote, IF flat THEN Null ELSE balance)
      /\ s.realized = realized /\ s.unrealized = unrealized /\ s.session = realized + unrealized
      /\ s.fees = fees /\ s.equity = equity /\ s.peak = peak
      /\ s.drawdown_bps = DrawdownBps(peak, equity) /\ s.open_intents = open
  BY ONLY <1>1, <1>4 DEF StateFields
<1>8. DOMAIN s.positions = {Base} /\ s.positions[Base] = IF flat THEN Null ELSE row
  BY ONLY <1>1, <1>4 DEF StateFields
<1>9. /\ DOMAIN s.balances = Mints /\ s.balances[Quote] = quote
      /\ s.balances[Base] = IF flat THEN Null ELSE balance
  BY ONLY <1>7 DEF BalanceRows, Mints, Quote, Base
<1>10. Holding(s) <=> ~flat
  BY <1>6, <1>8 DEF Holding
<1>11. StateShaped(s)
  BY <1>2, <1>5, <1>7, <1>8, <1>9 DEF StateShaped, flat
<1>12. /\ Held(s).quantity = x.quantity /\ Held(s).reserved = base /\ Held(s).market_value = value
       /\ Held(s).unrealized = unrealized /\ Held(s).cost_basis = x.cost_basis
  <2>1. CASE flat
    <3>1. x.quantity = 0 /\ base = 0 /\ value = 0 /\ unrealized = 0 /\ x.cost_basis = 0
      BY <1>2, <1>3, <2>1 DEF flat, unrealized
    <3> QED BY <1>10, <1>11, <2>1, <3>1, HeldFields
  <2>2. CASE ~flat
    BY <1>5, <1>8, <1>10, <1>11, <2>2, HeldFields
  <2> QED BY <2>1, <2>2
<1>13. PositionSound(s)
  <2>1. CASE flat
    BY <1>9, <1>10, <2>1 DEF PositionSound
  <2>2. CASE ~flat
    <3>1. s.positions[Base] = row /\ s.balances[Base] = balance /\ Holding(s)
      BY <1>8, <1>9, <1>10, <2>2
    <3>2. row.unrealized = row.market_value - row.cost_basis
      BY <1>5, <2>2 DEF unrealized
    <3> QED BY <1>5, <3>1, <3>2 DEF PositionSound, value, balance
  <2> QED BY <2>1, <2>2
<1>14. SummarySound(s)
  BY <1>2, <1>3, <1>7, <1>9, <1>12 DEF SummarySound, equity
<1>15. s.sequence \in Nat /\ Lineage(s)
  BY <1>1, <1>7 DEF Lineage
<1> QED BY <1>7, <1>9, <1>11, <1>12, <1>13, <1>14, <1>15 DEF Sound, Reservations

-----------------------------------------------------------------------------
(* The validator of states agrees *)

LEMMA Lone == {Base} # {} /\ One({Base}) = Base /\ {Base} \ {Base} = {} /\ SUBSET {Base} = {{}, {Base}} /\ SUBSET {} = {{}}
BY DEF One

UnrealizedOver(p, D) == MapThenSumSet(LAMBDA m : p.positions[m].unrealized, D)

LEMMA SumOfUnrealized ==
    ASSUME NEW p, NEW D, D \in {{}, {Base}}, D # {} => p.positions[Base].unrealized \in Int
    PROVE  UnrealizedOver(p, D) = IF D = {} THEN 0 ELSE p.positions[Base].unrealized
<1> DEFINE Eq(h) == h = [T \in SUBSET D |->
                            IF T = {} THEN 0 ELSE p.positions[One(T)].unrealized + h[T \ {One(T)}]]
           g == [T \in SUBSET D |-> IF T = {} THEN 0 ELSE p.positions[Base].unrealized]
<1>1. Eq(g)
  <2>1. \A T \in SUBSET D : T = {} \/ (T = {Base} /\ D = {Base})
    OBVIOUS
  <2>2. \A T \in SUBSET D : g[T] = IF T = {} THEN 0 ELSE p.positions[One(T)].unrealized + g[T \ {One(T)}]
    <3> SUFFICES ASSUME NEW T \in SUBSET D, T = {Base}, D = {Base}
                 PROVE  g[T] = p.positions[One(T)].unrealized + g[T \ {One(T)}]
      BY <2>1
    <3>1. One(T) = Base /\ T \ {One(T)} = {} /\ {} \in SUBSET D
      BY Lone
    <3>2. g[T] = p.positions[Base].unrealized /\ g[{}] = 0
      BY <3>1
    <3>3. p.positions[Base].unrealized \in Int
      BY Lone
    <3> HIDE DEF g
    <3>4. p.positions[One(T)].unrealized = p.positions[Base].unrealized /\ g[T \ {One(T)}] = 0
      BY <3>1, <3>2, Zenon
    <3> QED BY ONLY <3>2, <3>3, <3>4
  <2> QED BY <2>2
<1>2. Eq(CHOOSE h : Eq(h))
  BY <1>1
<1>3. UnrealizedOver(p, D) = (CHOOSE h : Eq(h))[D]
  BY DEF UnrealizedOver, MapThenSumSet, MapThenFoldSet, One
<1>4. PICK h : Eq(h) /\ UnrealizedOver(p, D) = h[D]
  BY <1>2, <1>3
<1>5. h[D] = IF D = {} THEN 0 ELSE p.positions[Base].unrealized
  <2>1. D \in SUBSET D /\ {} \in SUBSET D
    OBVIOUS
  <2>2. h[{}] = 0
    BY <1>4, <2>1
  <2>3. CASE D = {}
    BY <2>2, <2>3
  <2>4. CASE D = {Base}
    <3>1. h[D] = p.positions[One(D)].unrealized + h[D \ {One(D)}]
      BY <1>4, <2>1, <2>4
    <3>2. One(D) = Base /\ D \ {One(D)} = {} /\ D # {}
      BY <2>4, Lone
    <3>3. p.positions[Base].unrealized \in Int
      BY <3>2
    <3>4. p.positions[One(D)].unrealized = p.positions[Base].unrealized /\ h[D \ {One(D)}] = 0
      BY <2>2, <3>2, Zenon
    <3>5. h[D] = p.positions[Base].unrealized
      BY ONLY <3>1, <3>3, <3>4
    <3> QED BY <3>2, <3>5
  <2> QED BY <2>3, <2>4
<1> QED BY <1>4, <1>5

ValueOver(p, D) == MapThenSumSet(LAMBDA m : p.positions[m].market_value, D)

LEMMA SumOfValues ==
    ASSUME NEW p, NEW D, D \in {{}, {Base}}, D # {} => p.positions[Base].market_value \in Int
    PROVE  ValueOver(p, D) = IF D = {} THEN 0 ELSE p.positions[Base].market_value
<1> DEFINE Eq(h) == h = [T \in SUBSET D |->
                            IF T = {} THEN 0 ELSE p.positions[One(T)].market_value + h[T \ {One(T)}]]
           g == [T \in SUBSET D |-> IF T = {} THEN 0 ELSE p.positions[Base].market_value]
<1>1. Eq(g)
  <2>1. \A T \in SUBSET D : T = {} \/ (T = {Base} /\ D = {Base})
    OBVIOUS
  <2>2. \A T \in SUBSET D : g[T] = IF T = {} THEN 0 ELSE p.positions[One(T)].market_value + g[T \ {One(T)}]
    <3> SUFFICES ASSUME NEW T \in SUBSET D, T = {Base}, D = {Base}
                 PROVE  g[T] = p.positions[One(T)].market_value + g[T \ {One(T)}]
      BY <2>1
    <3>1. One(T) = Base /\ T \ {One(T)} = {} /\ {} \in SUBSET D
      BY Lone
    <3>2. g[T] = p.positions[Base].market_value /\ g[{}] = 0
      BY <3>1
    <3>3. p.positions[Base].market_value \in Int
      BY Lone
    <3> HIDE DEF g
    <3>4. p.positions[One(T)].market_value = p.positions[Base].market_value /\ g[T \ {One(T)}] = 0
      BY <3>1, <3>2, Zenon
    <3> QED BY ONLY <3>2, <3>3, <3>4
  <2> QED BY <2>2
<1>2. Eq(CHOOSE h : Eq(h))
  BY <1>1
<1>3. ValueOver(p, D) = (CHOOSE h : Eq(h))[D]
  BY DEF ValueOver, MapThenSumSet, MapThenFoldSet, One
<1>4. PICK h : Eq(h) /\ ValueOver(p, D) = h[D]
  BY <1>2, <1>3
<1>5. h[D] = IF D = {} THEN 0 ELSE p.positions[Base].market_value
  <2>1. D \in SUBSET D /\ {} \in SUBSET D
    OBVIOUS
  <2>2. h[{}] = 0
    BY <1>4, <2>1
  <2>3. CASE D = {}
    BY <2>2, <2>3
  <2>4. CASE D = {Base}
    <3>1. h[D] = p.positions[One(D)].market_value + h[D \ {One(D)}]
      BY <1>4, <2>1, <2>4
    <3>2. One(D) = Base /\ D \ {One(D)} = {} /\ D # {}
      BY <2>4, Lone
    <3>3. p.positions[Base].market_value \in Int
      BY <3>2
    <3>4. p.positions[One(D)].market_value = p.positions[Base].market_value /\ h[D \ {One(D)}] = 0
      BY <2>2, <3>2, Zenon
    <3>5. h[D] = p.positions[Base].market_value
      BY ONLY <3>1, <3>3, <3>4
    <3> QED BY <3>2, <3>5
  <2> QED BY <2>3, <2>4
<1> QED BY <1>4, <1>5

LEMMA ListedRows ==
    ASSUME NEW p, Sound(p)
    PROVE  /\ Listed(p.balances) = IF Holding(p) THEN Mints ELSE {Quote}
           /\ Listed(p.positions) = IF Holding(p) THEN {Base} ELSE {}
<1>1. p.balances[Quote] # Null /\ (p.positions[Base] # Null <=> p.balances[Base] # Null)
  <2>1. p.balances[Quote] # Null
    BY Present DEF Sound, StateShaped
  <2>2. ASSUME p.positions[Base] # Null PROVE p.balances[Base] # Null
    <3>1. PICK x \in Row : x = p.positions[Base] /\ x.quantity > 0
      BY <2>2 DEF Sound, StateShaped
    <3>2. x.reserved <= x.quantity /\ p.balances[Base] = Balance(x.quantity - x.reserved, x.reserved)
      BY <2>2, <3>1 DEF Sound, PositionSound, Holding
    <3>3. x.quantity - x.reserved \in Nat /\ x.reserved \in Nat /\ x.quantity \in Nat
      BY <3>2 DEF Row
    <3>4. p.balances[Base] \in Purse
      BY <3>2, <3>3 DEF Balance, Purse
    <3> QED BY <3>4, Present
  <2>3. ASSUME p.positions[Base] = Null PROVE p.balances[Base] = Null
    BY <2>3 DEF Sound, PositionSound, Holding
  <2> QED BY <2>1, <2>2, <2>3
<1>2. DOMAIN p.balances = Mints /\ DOMAIN p.positions = {Base}
  BY DEF Sound, StateShaped
<1> QED BY <1>1, <1>2 DEF Listed, Mints, Holding

LEMMA SoundSummary ==
    ASSUME NEW p, Sound(p), StateInWidth(p)
    PROVE  SummaryValid(p)
<1>1. Listed(p.positions) = IF Holding(p) THEN {Base} ELSE {}
  BY ListedRows
<1>2. PICK D, x : D = Listed(p.positions) /\ x = Held(p)
  OBVIOUS
<1>3. /\ x \in Row
      /\ ~Holding(p) => x.market_value = 0 /\ x.unrealized = 0
      /\ Holding(p) => x = p.positions[Base]
  BY <1>2, HeldFields DEF Sound
<1>4. x.market_value \in Int /\ x.unrealized \in Int
  BY <1>3 DEF Row
<1>5. /\ D \in {{}, {Base}}
      /\ D # {} => p.positions[Base].unrealized \in Int
      /\ D # {} => p.positions[Base].market_value \in Int
  BY <1>1, <1>2, <1>3, <1>4
<1>6. UnrealizedOver(p, D) = x.unrealized /\ ValueOver(p, D) = x.market_value
  <2>1. UnrealizedOver(p, D) = IF D = {} THEN 0 ELSE p.positions[Base].unrealized
    BY ONLY <1>5, SumOfUnrealized
  <2>2. ValueOver(p, D) = IF D = {} THEN 0 ELSE p.positions[Base].market_value
    BY ONLY <1>5, SumOfValues
  <2> QED BY <1>1, <1>2, <1>3, <2>1, <2>2
<1>7. /\ p.unrealized = x.unrealized /\ p.session = p.realized + p.unrealized
      /\ p.equity = p.balances[Quote].total + x.market_value
      /\ p.peak >= p.equity /\ p.drawdown_bps = DrawdownBps(p.peak, p.equity)
  BY <1>2 DEF Sound, SummarySound
<1>8. {p.realized, p.unrealized, p.session} \subseteq I128 /\ {p.fees, p.equity, p.peak} \subseteq U64
  BY DEF StateInWidth
<1> QED BY <1>2, <1>6, <1>7, <1>8 DEF SummaryValid, UnrealizedOver, ValueOver

\* The balances and the positions of a sound state, as their validators want them.
LEMMA SoundPositions ==
    ASSUME NEW p, Sound(p), StateInWidth(p)
    PROVE  BalancesValid(p) /\ PositionsValid(p)
<1>1. /\ Listed(p.balances) = IF Holding(p) THEN Mints ELSE {Quote}
      /\ Listed(p.positions) = IF Holding(p) THEN {Base} ELSE {}
  BY ListedRows
<1>2. PICK q \in Purse : q = p.balances[Quote] /\ q.total = q.available + q.reserved
  BY DEF Sound, StateShaped, SummarySound
<1>3. Quote # Base /\ Mints = {Quote, Base}
  BY DEF Quote, Base, Mints
<1>4. \A m \in Listed(p.balances) :
         {p.balances[m].available, p.balances[m].reserved, p.balances[m].total} \subseteq U64
  BY DEF StateInWidth
<1>5. CASE ~Holding(p)
  <2>1. Listed(p.balances) = {Quote} /\ Listed(p.positions) = {}
    BY <1>1, <1>5
  <2>2. q.available + q.reserved = q.total
    BY <1>2 DEF Purse
  <2>3. BalancesValid(p)
    BY <1>2, <1>4, <2>1, <2>2 DEF BalancesValid
  <2>4. PositionsValid(p)
    BY <2>1, <1>3 DEF PositionsValid
  <2> QED BY <2>3, <2>4
<1>6. CASE Holding(p)
  <2>1. Listed(p.balances) = {Quote, Base} /\ Listed(p.positions) = {Base}
    BY <1>1, <1>3, <1>6
  <2>2. PICK x \in Row : x = p.positions[Base] /\ x.quantity > 0
    BY <1>6 DEF Sound, StateShaped, Holding
  <2>3. PICK b : b = p.balances[Base]
    OBVIOUS
  <2>4. /\ x.reserved <= x.quantity /\ b = Balance(x.quantity - x.reserved, x.reserved)
        /\ x.unrealized = x.market_value - x.cost_basis
    BY <1>6, <2>2, <2>3 DEF Sound, PositionSound
  <2>5. b.available + b.reserved = b.total /\ b.total = x.quantity /\ b.reserved = x.reserved /\ b.total > 0
    BY <2>2, <2>4 DEF Balance, Row
  <2>6. q.available + q.reserved = q.total
    BY <1>2 DEF Purse
  <2>7. BalancesValid(p)
    BY <1>2, <1>4, <2>1, <2>3, <2>5, <2>6 DEF BalancesValid
  <2>8. {x.quantity, x.reserved, x.cost_basis, x.market_value} \subseteq U64
        /\ {x.unrealized, x.mark, x.stop, x.take} \subseteq I128
    BY <2>1, <2>2 DEF StateInWidth
  <2>9. x.mark > 0 /\ x.stop > 0 /\ x.take > 0
    BY DEF Row, Count
  <2>10. PositionsValid(p)
    BY <1>3, <2>1, <2>2, <2>3, <2>4, <2>5, <2>8, <2>9 DEF PositionsValid
  <2> QED BY <2>7, <2>10
<1> QED BY <1>5, <1>6

\* Cash and position are worth the capital and what the session made.
LEMMA SoundEquity == ASSUME NEW p, Sound(p) PROVE p.equity = Capital + p.session
<1>1. PICK x \in Row : /\ x = Held(p) /\ p.unrealized = x.unrealized /\ p.session = p.realized + p.unrealized
                       /\ p.equity = p.balances[Quote].total + x.market_value
                       /\ p.balances[Quote].total + x.cost_basis = Capital + p.realized
                       /\ p.realized \in Int
  BY HeldFields DEF Sound, SummarySound
<1>2. x.unrealized = x.market_value - x.cost_basis
  <2>1. CASE Holding(p)
    BY <1>1, <2>1, HeldFields DEF Sound, PositionSound
  <2>2. CASE ~Holding(p)
    <3>1. x.unrealized = 0 /\ x.market_value = 0 /\ x.cost_basis = 0
      BY <1>1, <2>2, HeldFields DEF Sound
    <3> QED BY <3>1
  <2> QED BY <2>1, <2>2
<1>3. p.balances[Quote].total \in Nat /\ Capital \in Nat
  BY ReplayAssumption DEF Sound, StateShaped, Purse, ReplayAssumption
<1>4. x.market_value \in Nat /\ x.cost_basis \in Nat
  BY DEF Row
<1> QED BY <1>1, <1>2, <1>3, <1>4

\* A sound state adds up, whatever an open intent has reserved of it.
LEMMA SoundAddsUp ==
    ASSUME NEW p, Sound(p), NEW quote \in Nat, NEW base \in Nat, NEW open, Reservations(p, quote, base, open),
           quote > 0 \/ base > 0 <=> open # {}
    PROVE  StateAddsUp(p)
<1>1. StateInWidth(p) => BalancesValid(p) /\ PositionsValid(p) /\ SummaryValid(p)
  BY SoundSummary, SoundPositions
<1>2. p.equity = Capital + p.session
  BY SoundEquity
<1>3. (\E m \in Listed(p.balances) : p.balances[m].reserved > 0) <=> open # {}
  <2>1. p.balances[Quote].reserved = quote /\ Held(p).reserved = base
    BY DEF Reservations
  <2>2. CASE Holding(p)
    <3>1. Listed(p.balances) = {Quote, Base}
      BY <2>2, ListedRows DEF Mints
    <3>2. p.balances[Base].reserved = base
      BY <2>1, <2>2, HeldFields DEF Sound, PositionSound, Balance
    <3> QED BY <2>1, <3>1, <3>2
  <2>3. CASE ~Holding(p)
    <3>1. Listed(p.balances) = {Quote}
      BY <2>3, ListedRows
    <3>2. base = 0
      BY <2>1, <2>3, HeldFields DEF Sound
    <3> QED BY <2>1, <3>1, <3>2
  <2> QED BY <2>2, <2>3
<1>4. p.open_intents = open
  BY DEF Reservations
<1> QED BY <1>1, <1>2, <1>3, <1>4 DEF StateAddsUp, Sound

-----------------------------------------------------------------------------
(* The invariant of the books *)

\* An intent whose reservation the state holds.
IntentSound(i, p) ==
    /\ i \in IntentSchema
    /\ i.sequence > 0 /\ i.quantity > 0 /\ i.ingest = i.group /\ i.group <= group
    /\ i.reference \in Count /\ i.stop \in Count /\ i.take \in Count
    /\ \/ /\ i.action = "OPEN_LONG" /\ i.reserved_quote > 0 /\ i.reserved_base = 0
          /\ i.stop < i.reference /\ i.reference < i.take /\ ~Holding(p)
       \/ /\ i.action = "CLOSE_LONG" /\ i.reserved_quote = 0 /\ i.reserved_base = i.quantity
          /\ i.quantity = Held(p).quantity
    /\ Reservations(p, i.reserved_quote, i.reserved_base, p.open_intents) /\ p.open_intents # {}

Stages == {"GROUP_GATE", "FILL_OR_EXPIRY", "GROUP_MARK", "SNAPSHOT", "RISK_AND_STATE_EFFECT", "RUN_END"}

BooksInv ==
    /\ group \in 0 .. MaxGroup /\ price \in Nat /\ (group > 0 => price > 0)
    /\ phase \in Stages /\ (phase # "GROUP_GATE" => group > 0)
    /\ intent # Null => phase \in {"GROUP_GATE", "FILL_OR_EXPIRY"} /\ group > 0
    /\ phase = "FILL_OR_EXPIRY" => intent # Null /\ intent.group < group
    /\ Sound(portfolio)
    /\ intent = Null => Reservations(portfolio, 0, 0, {})
    /\ intent # Null => IntentSound(intent, portfolio)

-----------------------------------------------------------------------------
(* A fill and its settlement *)

\* Of a holding, the part of its cost that goes with some of it.
LEMMA Share ==
    ASSUME NEW c \in Nat, NEW a \in Nat, NEW q \in Nat, q > 0, a <= q
    PROVE  /\ (c * a) \div q \in Nat /\ (c * a) \div q <= c
           /\ a = q => (c * a) \div q = c
           /\ a = 0 => (c * a) \div q = 0
<1>1. c * a \in Nat /\ c * a <= c * q
  OBVIOUS
<1>2. PICK x \in Nat : x = c * a
  BY <1>1
<1>3. PICK d : d = x \div q
  OBVIOUS
<1>4. d \in Int /\ q * d <= x /\ x < q * d + q
  BY <1>2, <1>3
<1>5. d >= 0
  BY <1>2, <1>4
<1>6. d <= c
  BY <1>1, <1>2, <1>4
<1>7. a = q => d = c
  BY <1>1, <1>2, <1>4, <1>6
<1>8. a = 0 => d = 0
  BY <1>2, <1>4, <1>5
<1> QED BY <1>2, <1>3, <1>4, <1>5, <1>6, <1>7, <1>8

\* What a fill gives up of the reservation, and what it moves.
FillSound(f, i) ==
    /\ f.filled \in Nat /\ f.filled <= i.quantity /\ f.gross \in Nat /\ Fees(f) \in Nat
    /\ f.filled = 0 => f.gross = 0 /\ Fees(f) = 0
    /\ f.cash_delta = IF i.action = "OPEN_LONG" THEN -(f.gross + Fees(f)) ELSE f.gross - Fees(f)
    /\ f.released_quote
         = IF i.action = "OPEN_LONG" THEN i.reserved_quote - f.gross - Fees(f) ELSE 0
    /\ f.released_quote >= 0
    /\ f.released_base = IF i.action = "OPEN_LONG" THEN 0 ELSE i.quantity - f.filled
    /\ i.action = "CLOSE_LONG" => f.gross >= Fees(f)

\* After a fill: the proceeds and the cost leave no atom unaccounted for.
LEMMA Settles ==
    ASSUME BooksInv, intent # Null, named.state # Null, NEW f, FillSound(f, intent), NEW id, NEW s,
           s = Settled(portfolio, intent, f, id)
    PROVE  Sound(s) /\ Reservations(s, 0, 0, {})
<1>1. PICK i \in IntentSchema : i = intent /\ IntentSound(i, portfolio)
  BY DEF BooksInv, IntentSound
<1>2. PICK p : p = portfolio /\ Sound(p)
  BY DEF BooksInv
<1>3. PICK q \in Purse : /\ q = p.balances[Quote] /\ q.total = q.available + q.reserved
                         /\ q.reserved = i.reserved_quote
  BY <1>1, <1>2 DEF IntentSound, Reservations, Sound, StateShaped, SummarySound
<1>4. PICK x \in Row : /\ x = Held(p) /\ q.total + x.cost_basis = Capital + p.realized
                       /\ (~Holding(p) => x.quantity = 0 /\ x.cost_basis = 0)
                       /\ p.realized \in Int /\ p.fees \in Nat
  BY <1>2, <1>3, HeldFields DEF Sound, SummarySound
<1>5. price \in Count
  BY DEF BooksInv, Count
<1>6. /\ x.quantity \in Nat /\ x.cost_basis \in Nat /\ q.available \in Nat /\ q.reserved \in Nat
      /\ q.total \in Nat /\ i.quantity \in Nat /\ i.reserved_quote \in Nat /\ Capital \in Nat
      /\ i.stop \in Count /\ i.take \in Count
  BY <1>1, ReplayAssumption DEF Row, Purse, IntentSchema, IntentSound, ReplayAssumption
<1>7. PICK fee \in Nat, gross \in Nat, filled \in Nat :
         fee = Fees(f) /\ gross = f.gross /\ filled = f.filled /\ filled <= i.quantity
  BY <1>1 DEF FillSound
<1>8. CASE i.action = "OPEN_LONG"
  <2>1. ~Holding(p)
    BY <1>1, <1>2, <1>8 DEF IntentSound
  <2>2. /\ f.cash_delta = -(gross + fee) /\ f.released_quote = i.reserved_quote - gross - fee
        /\ f.released_quote >= 0 /\ (filled = 0 => gross = 0 /\ fee = 0)
    BY <1>1, <1>7, <1>8 DEF FillSound
  <2>3. PICK y : y = [x EXCEPT !.quantity = @ + f.filled, !.cost_basis = @ - f.cash_delta,
                               !.mark = price, !.stop = i.stop, !.take = i.take]
    OBVIOUS
  <2>4. y \in Row /\ y.quantity = filled /\ y.cost_basis = gross + fee
    <3>1. x.quantity + f.filled = filled /\ x.cost_basis - f.cash_delta = gross + fee /\ gross + fee \in Nat
      BY <1>4, <1>7, <2>1, <2>2
    <3>2. y = [x EXCEPT !.quantity = filled, !.cost_basis = gross + fee,
                        !.mark = price, !.stop = i.stop, !.take = i.take]
      BY <2>3, <3>1
    <3>3. filled \in Nat /\ price \in Count /\ i.stop \in Count /\ i.take \in Count
      BY <1>5, <1>6
    <3> QED BY ONLY <3>1, <3>2, <3>3, x \in Row DEF Row
  <2>5. PICK quote : quote = Balance(q.available + f.released_quote, 0)
    OBVIOUS
  <2>6. /\ quote \in Purse /\ quote.total = quote.available + quote.reserved /\ quote.reserved = 0
        /\ quote.total = q.total - gross - fee
    BY <1>3, <1>6, <2>2, <2>5 DEF Balance, Purse
  <2>7. s = Succeeding(p, "SIMULATED_FILL", id, quote, y, 0, p.realized, p.fees + Fees(f), {})
    BY <1>1, <1>2, <1>3, <1>4, <1>8, <2>3, <2>5 DEF Settled
  <2>8. p.fees + Fees(f) \in Nat
    BY <1>4, <1>7
  <2>9. quote.total + y.cost_basis = Capital + p.realized /\ (y.quantity = 0 => y.cost_basis = 0)
    BY <1>4, <1>6, <2>1, <2>2, <2>4, <2>6
  <2> QED BY <1>2, <1>4, <2>4, <2>6, <2>7, <2>8, <2>9, Succeeds
<1>9. CASE i.action = "CLOSE_LONG"
  <2>1. x.quantity = i.quantity /\ i.quantity > 0 /\ q.reserved = 0
    BY <1>1, <1>2, <1>3, <1>4, <1>9 DEF IntentSound
  <2>2. f.cash_delta = gross - fee /\ gross >= fee /\ (filled = 0 => gross = 0 /\ fee = 0)
    BY <1>1, <1>7, <1>9 DEF FillSound
  <2>3. PICK cost \in Nat : /\ cost = (x.cost_basis * filled) \div x.quantity /\ cost <= x.cost_basis
                            /\ filled = x.quantity => cost = x.cost_basis
                            /\ filled = 0 => cost = 0
    BY <1>6, <1>7, <2>1, Share
  <2>4. PICK y : y = [x EXCEPT !.quantity = @ - f.filled, !.cost_basis = @ - cost]
    OBVIOUS
  <2>5. y \in Row /\ y.quantity = x.quantity - filled /\ y.cost_basis = x.cost_basis - cost
    <3>1. x.quantity - filled \in Nat /\ x.cost_basis - cost \in Nat
      BY <1>6, <1>7, <2>1, <2>3
    <3>2. y = [x EXCEPT !.quantity = x.quantity - filled, !.cost_basis = x.cost_basis - cost]
      BY <1>7, <2>4
    <3> QED BY ONLY <3>1, <3>2, x \in Row DEF Row
  <2>6. PICK quote : quote = Balance(q.available + f.cash_delta, 0)
    OBVIOUS
  <2>7. /\ quote \in Purse /\ quote.total = quote.available + quote.reserved /\ quote.reserved = 0
        /\ quote.total = q.total + gross - fee
    BY <1>3, <1>6, <2>1, <2>2, <2>6 DEF Balance, Purse
  <2>8. PICK realized : realized = p.realized + f.cash_delta - (IF f.filled = 0 THEN 0 ELSE cost)
    OBVIOUS
  <2>9. realized = p.realized + gross - fee - cost /\ realized \in Int
    BY <1>4, <1>7, <2>2, <2>3, <2>8
  <2>10. cost = IF x.quantity = 0 THEN 0 ELSE (x.cost_basis * f.filled) \div x.quantity
    BY <1>6, <1>7, <2>1, <2>3
  <2>11. s = Succeeding(p, "SIMULATED_FILL", id, quote, y, 0, realized, p.fees + Fees(f), {})
    BY <1>1, <1>2, <1>3, <1>4, <1>9, <2>4, <2>6, <2>8, <2>10 DEF Settled
  <2>12. p.fees + Fees(f) \in Nat
    BY <1>4, <1>7
  <2>13. quote.total + y.cost_basis = Capital + realized /\ (y.quantity = 0 => y.cost_basis = 0)
    <3>1. /\ quote.total = q.total + gross - fee /\ y.cost_basis = x.cost_basis - cost
          /\ realized = p.realized + gross - fee - cost
          /\ q.total \in Int /\ x.cost_basis \in Int /\ p.realized \in Int /\ Capital \in Int
          /\ q.total + x.cost_basis = Capital + p.realized
      BY ONLY <1>4, <1>6, <2>5, <2>7, <2>9
    <3>2. quote.total + y.cost_basis = Capital + realized
      BY ONLY <3>1, gross \in Nat, fee \in Nat, cost \in Nat
    <3>3. y.quantity = 0 => filled = x.quantity
      BY ONLY <1>6, <2>5, filled \in Nat
    <3>4. filled = x.quantity => y.cost_basis = 0
      BY ONLY <1>6, <2>3, <2>5
    <3> QED BY ONLY <3>2, <3>3, <3>4
  <2>14. 0 <= y.quantity /\ 0 \in Nat
    BY <2>5 DEF Row
  <2> QED BY <1>2, <2>5, <2>7, <2>9, <2>11, <2>12, <2>13, <2>14, Succeeds
<1> QED BY <1>1, <1>8, <1>9 DEF IntentSound

Outcome(status, reasons, filled) ==
    \/ status = "FILLED" /\ reasons = <<>> /\ filled = intent.quantity
    \/ status = "PARTIAL" /\ reasons = <<"PARTIAL">> /\ filled \in 1 .. (intent.quantity - 1)
    \/ /\ status = "REJECTED" /\ filled = 0
       /\ reasons \in {<<"ZERO_CAPACITY">>, <<"INSUFFICIENT_RESERVATION">>}
    \/ /\ status = "EXPIRED" /\ filled = 0
       /\ reasons \in {<<"KILL_LATCHED">>, <<"SESSION_END">>, <<"NO_NEXT_EVENT">>}

\* A fill receipt is what its intent and its outcome make it.
LEMMA FillFits ==
    ASSUME BooksInv, intent # Null, NEW status, NEW reasons, NEW filled, Outcome(status, reasons, filled),
           NEW f, f = FillReceipt(status, reasons, filled),
           status # "EXPIRED" => intent.group < group /\ Affordable(f)
    PROVE  FillSound(f, intent) /\ (FillInWidth(f) => FillValid(f))
<1>1. PICK i \in IntentSchema : i = intent /\ IntentSound(i, portfolio)
  BY DEF BooksInv, IntentSound
<1>2. /\ i.quantity \in Nat /\ i.quantity > 0 /\ i.reserved_quote \in Nat /\ i.sequence > 0
      /\ i.group \in Nat /\ i.ingest = i.group /\ i.sequence \in Nat /\ i.action \in {"OPEN_LONG", "CLOSE_LONG"}
      /\ i.action = "OPEN_LONG" => i.reserved_quote > 0 /\ i.reserved_base = 0
      /\ i.action = "CLOSE_LONG" => i.reserved_quote = 0 /\ i.reserved_base = i.quantity
  BY <1>1 DEF IntentSchema, IntentSound
<1>3. filled \in Nat /\ filled <= i.quantity
  BY <1>1, <1>2 DEF Outcome
<1>4. price \in Nat /\ price > 0 /\ group \in Nat /\ Fee \in Nat
  BY ReplayAssumption DEF BooksInv, ReplayAssumption
<1> DEFINE done == status \in {"FILLED", "PARTIAL"}
           buy == i.action = "OPEN_LONG"
           expired == status = "EXPIRED"
<1>5. PICK gross \in Nat, fee \in Nat :
         /\ gross = IF done THEN filled * price ELSE 0
         /\ fee = IF done THEN Fee ELSE 0
         /\ done => gross > 0 /\ filled > 0
         /\ ~done => filled = 0
  <2>1. filled * price \in Nat
    BY <1>3, <1>4
  <2>2. done => filled > 0
    BY <1>1, <1>2 DEF Outcome
  <2>3. filled > 0 => filled * price > 0
    BY <1>3, <1>4
  <2>4. ~done => filled = 0
    BY DEF Outcome
  <2> QED BY <1>4, <2>1, <2>2, <2>3, <2>4
<1>6. f = [sequence |-> i.sequence, decision |-> i.decision, status |-> status, reasons |-> reasons,
         fill_event |-> IF expired THEN Null ELSE group,
         decision_ingest |-> i.ingest, decision_group |-> i.group,
         fill_ingest |-> IF expired THEN Null ELSE group, fill_group |-> IF expired THEN Null ELSE group,
         fill_clock |-> IF expired THEN Null ELSE group,
         requested |-> i.quantity, filled |-> filled, unfilled |-> i.quantity - filled,
         gross |-> gross, venue_fee |-> fee, priority_fee |-> 0, simulation_fee |-> 0,
         cash_delta |-> IF buy THEN -(gross + fee) ELSE gross - fee,
         execution_price |-> IF done THEN price ELSE Null,
         diagnostics |-> [d \in Diagnostics |-> 0],
         released_quote |-> IF buy THEN i.reserved_quote - gross - fee ELSE 0,
         released_base |-> IF buy THEN 0 ELSE i.quantity - filled]
  BY <1>1, <1>5 DEF FillReceipt
<1>7. /\ f.sequence = i.sequence /\ f.status = status /\ f.reasons = reasons
      /\ f.fill_event = (IF expired THEN Null ELSE group)
      /\ f.decision_ingest = i.ingest /\ f.decision_group = i.group
      /\ f.fill_ingest = (IF expired THEN Null ELSE group) /\ f.fill_group = (IF expired THEN Null ELSE group)
      /\ f.fill_clock = (IF expired THEN Null ELSE group)
      /\ f.requested = i.quantity /\ f.filled = filled /\ f.unfilled = i.quantity - filled
      /\ f.gross = gross /\ f.venue_fee = fee /\ f.priority_fee = 0 /\ f.simulation_fee = 0
      /\ f.cash_delta = (IF buy THEN -(gross + fee) ELSE gross - fee)
      /\ f.execution_price = (IF done THEN price ELSE Null)
      /\ \A d \in Diagnostics : f.diagnostics[d] = 0
      /\ f.released_quote = (IF buy THEN i.reserved_quote - gross - fee ELSE 0)
      /\ f.released_base = (IF buy THEN 0 ELSE i.quantity - filled)
  BY ONLY <1>6
<1>8. Fees(f) = fee
  BY <1>5, <1>7 DEF Fees
<1>9. f.released_quote >= 0 /\ (i.action = "CLOSE_LONG" => gross >= fee)
  <2>1. CASE expired
    <3>1. gross = 0 /\ fee = 0
      BY <1>5, <2>1
    <3> QED BY <1>2, <1>7, <3>1
  <2>2. CASE ~expired
    BY <1>1, <1>7, <1>8, <2>2 DEF Affordable
  <2> QED BY <2>1, <2>2
<1>10. filled = 0 => gross = 0 /\ fee = 0
  BY <1>3, <1>5
<1>11. FillSound(f, i)
  BY <1>2, <1>3, <1>5, <1>7, <1>8, <1>9, <1>10 DEF FillSound
<1>12. ASSUME FillInWidth(f) PROVE FillValid(f)
  <2>1. f.released_quote = 0 \/ f.released_base = 0
    BY <1>7
  <2>2. StatusReasons(f)
    BY <1>7 DEF StatusReasons, Outcome, ExpiryReasons
  <2>3. FillTrigger(f)
    <3>1. Null \notin Int
      BY AbsenceAssumption DEF AbsenceAssumption
    <3>2. CASE expired
      BY <1>7, <3>2 DEF FillTrigger
    <3>3. CASE ~expired
      <4>1. group # Null
        BY <1>4, <3>1
      <4>2. /\ f.fill_event = group /\ f.fill_ingest = group /\ f.fill_group = group /\ f.fill_clock = group
            /\ f.status # "EXPIRED"
        BY <1>7, <3>3
      <4>3. group \in U64
        BY <1>12, <4>1, <4>2 DEF FillInWidth
      <4>4. f.reasons # <<"SAME_OR_EARLIER_EVENT">>
        <5>1. /\ <<>> # <<"SAME_OR_EARLIER_EVENT">>
              /\ \A r : <<r>> = <<"SAME_OR_EARLIER_EVENT">> => r = "SAME_OR_EARLIER_EVENT"
          OBVIOUS
        <5>2. \/ reasons = <<>> \/ reasons = <<"PARTIAL">> \/ reasons = <<"ZERO_CAPACITY">>
              \/ reasons = <<"INSUFFICIENT_RESERVATION">>
          BY <3>3 DEF Outcome
        <5> QED BY <1>7, <5>1, <5>2
      <4>5. f.fill_group > f.decision_group /\ f.fill_ingest > f.decision_ingest
        BY <1>1, <1>2, <1>4, <1>7, <3>3, <4>2
      <4> QED BY <4>1, <4>2, <4>3, <4>4, <4>5 DEF FillTrigger
    <3> QED BY <3>2, <3>3
  <2>4. FillQuantity(f)
    <3>1. f.requested = i.quantity /\ f.filled = filled /\ f.unfilled = i.quantity - filled /\ f.status = status
      BY <1>7
    <3>2. filled + (i.quantity - filled) = i.quantity /\ i.quantity > 0
      BY ONLY <1>2, <1>3
    <3>3. status = "FILLED" => i.quantity - filled = 0
      BY ONLY <1>1, <1>2, Outcome(status, reasons, filled) DEF Outcome
    <3>4. status = "PARTIAL" => filled > 0 /\ i.quantity - filled > 0
      BY ONLY <1>1, <1>2, Outcome(status, reasons, filled) DEF Outcome
    <3> QED BY ONLY <3>1, <3>2, <3>3, <3>4 DEF FillQuantity
  <2>5. FillMoney(f)
    <3>1. CASE done
      <4>1. Positive(f.execution_price)
        <5>1. Null \notin Int
          BY AbsenceAssumption DEF AbsenceAssumption
        <5> QED BY <1>4, <1>7, <3>1, <5>1 DEF Positive
      <4>2. \/ f.cash_delta = -(f.gross + (f.venue_fee + f.priority_fee + f.simulation_fee))
            \/ /\ f.gross >= f.venue_fee + f.priority_fee + f.simulation_fee
               /\ f.cash_delta = f.gross - (f.venue_fee + f.priority_fee + f.simulation_fee)
        BY <1>2, <1>5, <1>7, <1>9
      <4>3. f.status \notin {"REJECTED", "EXPIRED"} /\ f.filled > 0 /\ f.gross > 0
        BY <1>5, <1>7, <3>1
      <4> QED BY <4>1, <4>2, <4>3 DEF FillMoney
    <3>2. CASE ~done
      <4>1. gross = 0 /\ fee = 0 /\ filled = 0
        BY <1>5, <3>2
      <4>2. f.filled = 0 /\ f.gross = 0 /\ f.cash_delta = 0 /\ f.execution_price = Null
            /\ f.venue_fee + f.priority_fee + f.simulation_fee = 0
        <5>1. 0 - 0 = 0 /\ 0 + 0 + 0 = 0
          OBVIOUS
        <5>2. f.filled = 0 /\ f.gross = 0 /\ f.execution_price = Null
          BY <1>7, <3>2, <4>1
        <5>3. f.venue_fee = 0 /\ f.priority_fee = 0 /\ f.simulation_fee = 0
          BY <1>7, <4>1
        <5>4. f.cash_delta = 0
          <6>1. CASE buy
            <7>1. f.cash_delta = -(gross + fee)
              BY <1>7, <6>1
            <7>2. PICK x \in Int : x = gross + fee /\ x = 0
              BY <4>1
            <7>3. f.cash_delta = -x
              BY <7>1, <7>2
            <7>4. f.cash_delta \in Int /\ f.cash_delta + x = 0
              BY ONLY <7>2, <7>3
            <7> QED BY ONLY <7>2, <7>4
          <6>2. CASE ~buy
            <7>1. f.cash_delta = gross - fee
              BY <1>7, <6>2
            <7> QED BY <4>1, <5>1, <7>1
          <6> QED BY <6>1, <6>2
        <5>5. f.venue_fee + f.priority_fee + f.simulation_fee = 0
          BY <5>1, <5>3
        <5> QED BY <5>2, <5>4, <5>5
      <4>3. (f.released_quote > 0) # (f.released_base > 0)
        BY <1>2, <1>7, <4>1
      <4>4. f.status \in {"REJECTED", "EXPIRED"}
        BY <1>7, <3>2 DEF Outcome
      <4> QED BY <1>7, <4>2, <4>3, <4>4 DEF FillMoney
    <3> QED BY <3>1, <3>2
  <2>6. f.sequence > 0
    BY <1>2, <1>7
  <2> QED BY <1>12, <2>1, <2>2, <2>3, <2>4, <2>5, <2>6 DEF FillValid, FillInWidth
<1> QED BY <1>1, <1>11, <1>12

-----------------------------------------------------------------------------
(* The other states *)

\* A mark at a price changes the worth of a position, not the reservations.
LEMMA Marks ==
    ASSUME NEW p, Sound(p), named.state # Null, NEW at \in Count, NEW cause,
           NEW quote, NEW base, NEW open, Reservations(p, quote, base, open),
           NEW s, s = Marked(p, at, cause)
    PROVE  Sound(s) /\ Reservations(s, quote, base, open) /\ s.sequence > 0
           /\ Held(s).quantity = Held(p).quantity
<1>1. PICK q \in Purse : /\ q = p.balances[Quote] /\ q.total = q.available + q.reserved
                         /\ q.reserved = quote
  BY DEF Reservations, Sound, StateShaped, SummarySound
<1>2. PICK x \in Row : /\ x = Held(p) /\ q.total + x.cost_basis = Capital + p.realized
                       /\ (~Holding(p) => x.quantity = 0 /\ x.cost_basis = 0 /\ x.reserved = 0)
                       /\ (Holding(p) => x.quantity > 0 /\ x.reserved <= x.quantity)
                       /\ x.reserved = base
                       /\ p.realized \in Int /\ p.fees \in Nat
  BY <1>1, HeldFields DEF Sound, SummarySound, PositionSound, Reservations
<1>3. p.open_intents = open
  BY DEF Reservations
<1>4. PICK y : y = [x EXCEPT !.mark = at]
  OBVIOUS
<1>5. y \in Row /\ y.quantity = x.quantity /\ y.cost_basis = x.cost_basis
  BY <1>4 DEF Row
<1>6. base \in Nat /\ base <= y.quantity /\ (y.quantity = 0 => y.cost_basis = 0)
  BY <1>2, <1>5 DEF Row
<1>7. s = Succeeding(p, "GROUP_MARK_TO_MARKET", cause, q, y, base, p.realized, p.fees, open)
  BY <1>1, <1>2, <1>3, <1>4 DEF Marked
<1> QED BY <1>1, <1>2, <1>5, <1>6, <1>7, Succeeds

\* An intent reserves no more than there is.
LEMMA Reserves ==
    ASSUME NEW p, Sound(p), named.state # Null, Reservations(p, 0, 0, {}),
           NEW i \in IntentSchema, i.reserved_quote <= p.balances[Quote].available,
           i.reserved_base <= Held(p).quantity,
           NEW id, NEW s, s = Reserved(p, i, id)
    PROVE  Sound(s) /\ Reservations(s, i.reserved_quote, i.reserved_base, {id})
           /\ Held(s).quantity = Held(p).quantity
<1>1. PICK q \in Purse : /\ q = p.balances[Quote] /\ q.total = q.available + q.reserved
                         /\ q.reserved = 0
  BY DEF Reservations, Sound, StateShaped, SummarySound
<1>2. PICK x \in Row : /\ x = Held(p) /\ q.total + x.cost_basis = Capital + p.realized
                       /\ (x.quantity = 0 => x.cost_basis = 0)
                       /\ p.realized \in Int /\ p.fees \in Nat
  BY <1>1, HeldFields DEF Sound, SummarySound
<1>3. PICK rq \in Nat, rb \in Nat : rq = i.reserved_quote /\ rb = i.reserved_base
  BY DEF IntentSchema
<1>4. PICK quote : quote = Balance(q.available - rq, q.reserved + rq)
  OBVIOUS
<1>5. /\ quote \in Purse /\ quote.total = quote.available + quote.reserved /\ quote.reserved = rq
      /\ quote.total = q.total
  BY <1>1, <1>3, <1>4 DEF Purse, Balance
<1>6. s = Succeeding(p, "SIMULATED_INTENT", id, quote, x, rb, p.realized, p.fees, {id})
  BY <1>1, <1>2, <1>3, <1>4 DEF Reserved
<1>7. rb <= x.quantity /\ quote.total + x.cost_basis = Capital + p.realized
  BY <1>2, <1>3, <1>5
<1>8. Sound(s) /\ Reservations(s, quote.reserved, rb, {id}) /\ Held(s).quantity = x.quantity
  BY <1>2, <1>5, <1>6, <1>7, Succeeds
<1> QED BY <1>2, <1>3, <1>5, <1>8

\* A kill leaves the figures of a state as a mark makes them.
KilledAfter(p, reasons, cause, last) == [Killed(p, reasons, cause) EXCEPT !.previous = last]

LEMMA Kills ==
    ASSUME NEW p, Sound(p), named.state # Null, Reservations(p, 0, 0, {}),
           NEW reasons, NEW cause, NEW last, last # Null
    PROVE  /\ Sound(KilledAfter(p, reasons, cause, last))
           /\ Reservations(KilledAfter(p, reasons, cause, last), 0, 0, {})
<1> DEFINE s == KilledAfter(p, reasons, cause, last)
<1>1. Held(p).mark \in Count
  BY HeldFields DEF Sound, Row
<1>2. PICK m : m = Marked(p, Held(p).mark, cause)
  OBVIOUS
<1>3. Sound(m) /\ Reservations(m, 0, 0, {}) /\ m.sequence > 0
  BY <1>1, <1>2, Marks
<1>4. s = [[m EXCEPT !.causation_schema = "RISK_KILL", !.kill_latched = TRUE, !.kill_reasons = reasons]
           EXCEPT !.previous = last]
  BY <1>2 DEF Killed, KilledAfter
<1> HIDE DEF s
<1>5. DOMAIN m = StateFields
  BY <1>3 DEF Sound, StateShaped
<1>6. /\ DOMAIN s = StateFields /\ s.previous = last /\ s.causation_schema = "RISK_KILL"
      /\ s.sequence = m.sequence /\ s.balances = m.balances /\ s.positions = m.positions
      /\ s.realized = m.realized /\ s.unrealized = m.unrealized /\ s.session = m.session
      /\ s.fees = m.fees /\ s.equity = m.equity /\ s.peak = m.peak
      /\ s.drawdown_bps = m.drawdown_bps /\ s.open_intents = m.open_intents
  BY <1>4, <1>5 DEF StateFields
<1>7. Holding(s) = Holding(m) /\ Held(s) = Held(m)
  BY <1>6 DEF Holding, Held
<1>8. StateShaped(s)
  BY <1>3, <1>6 DEF Sound, StateShaped
<1>9. PositionSound(s)
  BY <1>3, <1>6, <1>7 DEF Sound, PositionSound
<1>10. SummarySound(s)
  BY <1>3, <1>6, <1>7 DEF Sound, SummarySound
<1>11. s.sequence \in Nat /\ Lineage(s)
  BY <1>3, <1>6 DEF Sound, Lineage
<1>12. Sound(s) /\ Reservations(s, 0, 0, {})
  BY <1>3, <1>6, <1>7, <1>8, <1>9, <1>10, <1>11 DEF Sound, Reservations
<1> QED BY <1>12 DEF s

-----------------------------------------------------------------------------
(* Postings *)

LEMMA SumsAreIntegers ==
    ASSUME NEW D, IsFiniteSet(D), NEW f \in [D -> Int], NEW h, SumEquation(h, f, D)
    PROVE  \A T \in SUBSET D : h[T] \in Int
<1> DEFINE Q == {T \in SUBSET D : h[T] \in Int}
<1>1. {} \in Q
  BY DEF SumEquation
<1>2. ASSUME NEW T \in SUBSET D, \A x \in T : T \ {x} \in Q PROVE T \in Q
  <2>1. CASE T = {}
    BY <1>1, <2>1
  <2>2. CASE T # {}
    <3>1. One(T) \in T
      BY <2>2 DEF One
    <3>2. h[T] = f[One(T)] + h[T \ {One(T)}]
      BY <2>2 DEF SumEquation
    <3> QED BY <1>2, <3>1, <3>2
  <2> QED BY <2>1, <2>2
<1>3. SUBSET D \subseteq Q
  <2> HIDE DEF Q
  <2> QED BY <1>1, <1>2, SubsetInduction
<1> QED BY <1>3

\* A sum over a finite set may take any element first.
LEMMA AnyFirst ==
    ASSUME NEW D, IsFiniteSet(D), NEW f \in [D -> Int], NEW h, SumEquation(h, f, D)
    PROVE  \A T \in SUBSET D : \A x \in T : h[T] = f[x] + h[T \ {x}]
<1> DEFINE Q == {T \in SUBSET D : \A x \in T : h[T] = f[x] + h[T \ {x}]}
<1>1. {} \in Q
  OBVIOUS
<1>2. ASSUME NEW T \in SUBSET D, \A x \in T : T \ {x} \in Q PROVE T \in Q
  <2>1. CASE T = {}
    BY <1>1, <2>1
  <2>2. CASE T # {}
    <3>1. PICK y \in T : y = One(T)
      BY <2>2 DEF One
    <3>2. h[T] = f[y] + h[T \ {y}]
      BY <2>2, <3>1 DEF SumEquation
    <3>3. ASSUME NEW x \in T, x # y PROVE h[T] = f[x] + h[T \ {x}]
      <4>1. x \in T \ {y} /\ y \in T \ {x} /\ (T \ {y}) \ {x} = (T \ {x}) \ {y}
        BY <3>1, <3>3
      <4>2. h[T \ {y}] = f[x] + h[(T \ {y}) \ {x}]
        BY <1>2, <3>1, <4>1
      <4>3. h[T \ {x}] = f[y] + h[(T \ {x}) \ {y}]
        BY <1>2, <4>1
      <4>4. h[(T \ {x}) \ {y}] \in Int
        BY SumsAreIntegers
      <4>5. PICK v \in Int : v = h[(T \ {x}) \ {y}]
        BY <4>4
      <4>6. f[x] \in Int /\ f[y] \in Int
        OBVIOUS
      <4>7. h[T] = f[y] + (f[x] + v) /\ h[T \ {x}] = f[y] + v
        BY <3>2, <4>1, <4>2, <4>3, <4>5
      <4> QED BY ONLY <4>5, <4>6, <4>7
    <3> QED BY <3>1, <3>2, <3>3
  <2> QED BY <2>1, <2>2
<1>3. SUBSET D \subseteq Q
  <2> HIDE DEF Q
  <2> QED BY <1>1, <1>2, SubsetInduction
<1> QED BY <1>3

Rows(mint) == {mint} \X Accounts

\* The entries of one asset, account by account.
BalanceOf(entries, m) ==
    entries[<<m, "CASH_AVAILABLE">>] + (entries[<<m, "CASH_RESERVED">>]
    + (entries[<<m, "POSITION_AVAILABLE">>] + (entries[<<m, "POSITION_RESERVED">>]
    + (entries[<<m, "TRADE_CLEARING">>] + (entries[<<m, "FEE_EXPENSE">>]
    + (entries[<<m, "REALIZED_PNL">>] + (entries[<<m, "UNREALIZED_PNL">>]
    + entries[<<m, "EQUITY_CONTROL">>])))))))

LEMMA ThreeFinite == \A a, b, c : IsFiniteSet({a, b, c})
<1> TAKE a, b, c
<1>1. IsFiniteSet({} \cup {a})
  BY FS_EmptySet, FS_AddElement
<1>2. IsFiniteSet(({} \cup {a}) \cup {b})
  BY <1>1, FS_AddElement
<1>3. IsFiniteSet((({} \cup {a}) \cup {b}) \cup {c})
  BY <1>2, FS_AddElement
<1>4. (({} \cup {a}) \cup {b}) \cup {c} = {a, b, c}
  OBVIOUS
<1> QED BY <1>3, <1>4

LEMMA RowsFinite == \A m : IsFiniteSet(Rows(m))
<1> TAKE m
<1> DEFINE A == {<<m, "CASH_AVAILABLE">>, <<m, "CASH_RESERVED">>, <<m, "POSITION_AVAILABLE">>}
           B == {<<m, "POSITION_RESERVED">>, <<m, "TRADE_CLEARING">>, <<m, "FEE_EXPENSE">>}
           C == {<<m, "REALIZED_PNL">>, <<m, "UNREALIZED_PNL">>, <<m, "EQUITY_CONTROL">>}
<1>1. Rows(m) = (A \cup B) \cup C
  BY DEF Rows, Accounts, StateAccounts
<1>2. IsFiniteSet(A) /\ IsFiniteSet(B) /\ IsFiniteSet(C)
  BY ThreeFinite
<1> HIDE DEF A, B, C
<1>3. IsFiniteSet(A \cup B)
  BY <1>2, FS_Union
<1> QED BY <1>1, <1>2, <1>3, FS_Union

\* Recursive sums over the accounts, written out: one term for each.
LEMMA SumOfRows ==
    ASSUME NEW m, NEW f \in [Rows(m) -> Int], NEW h, SumEquation(h, f, Rows(m))
    PROVE  h[Rows(m)] = BalanceOf(f, m)
<1> DEFINE T1 == Rows(m) \ {<<m, "CASH_AVAILABLE">>}
           T2 == T1 \ {<<m, "CASH_RESERVED">>}
           T3 == T2 \ {<<m, "POSITION_AVAILABLE">>}
           T4 == T3 \ {<<m, "POSITION_RESERVED">>}
           T5 == T4 \ {<<m, "TRADE_CLEARING">>}
           T6 == T5 \ {<<m, "FEE_EXPENSE">>}
           T7 == T6 \ {<<m, "REALIZED_PNL">>}
           T8 == T7 \ {<<m, "UNREALIZED_PNL">>}
           T9 == T8 \ {<<m, "EQUITY_CONTROL">>}
<1>1. \A T \in SUBSET Rows(m) : \A x \in T : h[T] = f[x] + h[T \ {x}]
  <2>1. PICK D : D = Rows(m)
    OBVIOUS
  <2>2. IsFiniteSet(D) /\ f \in [D -> Int] /\ SumEquation(h, f, D)
    BY <2>1, RowsFinite
  <2>3. ASSUME NEW T \in SUBSET D, NEW x \in T PROVE h[T] = f[x] + h[T \ {x}]
    BY <2>2, AnyFirst
  <2> QED BY <2>1, <2>3
<1>2. h[{}] = 0
  BY DEF SumEquation
<1>3. \A a, b : <<m, a>> = <<m, b>> => a = b
  OBVIOUS
<1>4. \A a : a \in Accounts => <<m, a>> \in Rows(m)
  BY DEF Rows
<1>5. \A x \in Rows(m) : \E a \in Accounts : x = <<m, a>>
  BY DEF Rows
<1>6. T9 = {}
  BY <1>5 DEF Accounts, StateAccounts
<1>7. /\ h[Rows(m)] = f[<<m, "CASH_AVAILABLE">>] + h[T1]
      /\ h[T1] = f[<<m, "CASH_RESERVED">>] + h[T2]
      /\ h[T2] = f[<<m, "POSITION_AVAILABLE">>] + h[T3]
  BY <1>1, <1>3, <1>4 DEF Accounts, StateAccounts
<1>8. /\ h[T3] = f[<<m, "POSITION_RESERVED">>] + h[T4]
      /\ h[T4] = f[<<m, "TRADE_CLEARING">>] + h[T5]
      /\ h[T5] = f[<<m, "FEE_EXPENSE">>] + h[T6]
  BY <1>1, <1>3, <1>4 DEF Accounts, StateAccounts
<1>9. /\ h[T6] = f[<<m, "REALIZED_PNL">>] + h[T7]
      /\ h[T7] = f[<<m, "UNREALIZED_PNL">>] + h[T8]
      /\ h[T8] = f[<<m, "EQUITY_CONTROL">>] + h[T9]
  BY <1>1, <1>3, <1>4 DEF Accounts, StateAccounts
<1>10. PICK x \in Int : x = f[<<m, "EQUITY_CONTROL">>] /\ x + 0 = x
  BY <1>4 DEF Accounts, StateAccounts
<1> HIDE DEF T1, T2, T3, T4, T5, T6, T7, T8, T9
<1>11. h[T8] = f[<<m, "EQUITY_CONTROL">>]
  BY <1>2, <1>6, <1>9, <1>10
<1> QED BY <1>7, <1>8, <1>9, <1>11, Zenon DEF BalanceOf

EntrySum(e, S) == MapThenSumSet(LAMBDA key : e[key], S)

\* A sum is what the equation of its function says of the whole set.
LEMMA EntrySumOf ==
    ASSUME NEW D, IsFiniteSet(D), NEW e, \A x \in D : e[x] \in Int
    PROVE  \E f, h :
              f \in [D -> Int] /\ f = [x \in D |-> e[x]] /\ SumEquation(h, f, D) /\ EntrySum(e, D) = h[D]
<1> DEFINE f == [x \in D |-> e[x]]
           Eq(h) == h = [T \in SUBSET D |-> IF T = {} THEN 0 ELSE e[One(T)] + h[T \ {One(T)}]]
<1>1. f \in [D -> Int]
  OBVIOUS
<1>2. \A T \in SUBSET D : T # {} => e[One(T)] = f[One(T)]
  <2>1. \A T \in SUBSET D : T # {} => One(T) \in D
    BY DEF One
  <2> QED BY <2>1
<1>3. \A h : Eq(h) <=> SumEquation(h, f, D)
  <2> SUFFICES ASSUME NEW h PROVE Eq(h) <=> SumEquation(h, f, D)
    OBVIOUS
  <2>1. [T \in SUBSET D |-> IF T = {} THEN 0 ELSE e[One(T)] + h[T \ {One(T)}]]
          = [T \in SUBSET D |-> IF T = {} THEN 0 ELSE f[One(T)] + h[T \ {One(T)}]]
    <3> HIDE DEF f
    <3> QED BY <1>2
  <2> HIDE DEF f
  <2> QED BY <2>1 DEF SumEquation
<1>4. \E h : Eq(h)
  <2> HIDE DEF f, Eq
  <2> QED BY <1>1, <1>3, SumExists
<1>5. Eq(CHOOSE h : Eq(h))
  <2> HIDE DEF Eq
  <2> QED BY <1>4
<1>6. EntrySum(e, D) = (CHOOSE h : Eq(h))[D]
  BY DEF EntrySum, MapThenSumSet, MapThenFoldSet, One
<1> HIDE DEF Eq
<1>7. PICK h : Eq(h) /\ EntrySum(e, D) = h[D]
  BY <1>5, <1>6
<1> QED BY <1>1, <1>3, <1>7

\* Entries whose accounts cancel, for each mint, are balanced.
LEMMA BalancedMeans ==
    ASSUME NEW e \in [Mints \X Accounts -> Int], \A m \in Mints : BalanceOf(e, m) = 0
    PROVE  Balanced(e)
<1>1. ASSUME NEW m \in Mints PROVE EntrySum(e, {key \in DOMAIN e : key[1] = m}) = 0
  <2>1. PICK D : D = Rows(m)
    OBVIOUS
  <2>2. {key \in DOMAIN e : key[1] = m} = D
    BY <2>1 DEF Rows
  <2>3. IsFiniteSet(D) /\ \A x \in D : e[x] \in Int
    BY <2>1, <2>2, RowsFinite
  <2>4. PICK f, h :
           f \in [D -> Int] /\ f = [x \in D |-> e[x]] /\ SumEquation(h, f, D) /\ EntrySum(e, D) = h[D]
    BY <2>3, EntrySumOf
  <2>5. h[D] = BalanceOf(f, m)
    BY <2>1, <2>4, SumOfRows
  <2>6. \A a \in Accounts : f[<<m, a>>] = e[<<m, a>>]
    BY <2>1, <2>4 DEF Rows
  <2>7. BalanceOf(f, m) = BalanceOf(e, m)
    BY <2>6 DEF BalanceOf, Accounts, StateAccounts
  <2> QED BY <2>2, <2>4, <2>5, <2>7
<1> QED BY <1>1 DEF Balanced, EntrySum

LEMMA NothingPosted == Balanced(NoEntries)
<1>1. NoEntries \in [Mints \X Accounts -> Int]
  BY DEF NoEntries
<1>2. \A m \in Mints : BalanceOf(NoEntries, m) = 0
  <2>1. \A m \in Mints, a \in Accounts : NoEntries[<<m, a>>] = 0
    BY DEF NoEntries
  <2>2. 0 + 0 = 0
    OBVIOUS
  <2> QED BY <2>1, <2>2 DEF BalanceOf, Accounts, StateAccounts
<1> QED BY <1>1, <1>2, BalancedMeans

-----------------------------------------------------------------------------
(* Rows that are posted *)

AmountSum(rows, S) == MapThenSumSet(LAMBDA i : rows[i][3], S)

\* A posting gives each account the sum of its rows.
LEMMA PostingIs ==
    ASSUME NEW rows
    PROVE  Posting(rows) = [key \in Mints \X Accounts |->
              AmountSum(rows, {i \in DOMAIN rows : <<rows[i][1], rows[i][2]>> = key})]
BY DEF Posting, AmountSum

LEMMA AmountSumOf ==
    ASSUME NEW D, IsFiniteSet(D), NEW rows, \A x \in D : rows[x][3] \in Int
    PROVE  \E f, h :
              f \in [D -> Int] /\ (\A x \in D : f[x] = rows[x][3]) /\ SumEquation(h, f, D) /\ AmountSum(rows, D) = h[D]
<1> DEFINE f == [x \in D |-> rows[x][3]]
           Eq(h) == h = [T \in SUBSET D |-> IF T = {} THEN 0 ELSE rows[One(T)][3] + h[T \ {One(T)}]]
<1>1. f \in [D -> Int]
  OBVIOUS
<1>2. \A T \in SUBSET D : T # {} => rows[One(T)][3] = f[One(T)]
  <2>1. \A T \in SUBSET D : T # {} => One(T) \in D
    BY DEF One
  <2> QED BY <2>1
<1>3. \A h : Eq(h) <=> SumEquation(h, f, D)
  <2> SUFFICES ASSUME NEW h PROVE Eq(h) <=> SumEquation(h, f, D)
    OBVIOUS
  <2>1. [T \in SUBSET D |-> IF T = {} THEN 0 ELSE rows[One(T)][3] + h[T \ {One(T)}]]
          = [T \in SUBSET D |-> IF T = {} THEN 0 ELSE f[One(T)] + h[T \ {One(T)}]]
    <3> HIDE DEF f
    <3> QED BY <1>2
  <2> HIDE DEF f
  <2> QED BY <2>1 DEF SumEquation
<1>4. \E h : Eq(h)
  <2> HIDE DEF f, Eq
  <2> QED BY <1>1, <1>3, SumExists
<1>5. Eq(CHOOSE h : Eq(h))
  <2> HIDE DEF Eq
  <2> QED BY <1>4
<1>6. AmountSum(rows, D) = (CHOOSE h : Eq(h))[D]
  BY DEF AmountSum, MapThenSumSet, MapThenFoldSet, One
<1> HIDE DEF Eq
<1>7. PICK h : Eq(h) /\ AmountSum(rows, D) = h[D]
  BY <1>5, <1>6
<1>8. f \in [D -> Int] /\ (\A x \in D : f[x] = rows[x][3]) /\ SumEquation(h, f, D)
  BY <1>1, <1>3, <1>7
<1> HIDE DEF f
<1> QED BY <1>7, <1>8

LEMMA AmountOfOne == ASSUME NEW rows, NEW i, rows[i][3] \in Int PROVE AmountSum(rows, {i}) = rows[i][3]
<1>1. PICK D : D = {i}
  OBVIOUS
<1>2. IsFiniteSet(D) /\ \A x \in D : rows[x][3] \in Int
  BY <1>1, FS_Singleton
<1>3. PICK f, h :
         f \in [D -> Int] /\ (\A x \in D : f[x] = rows[x][3]) /\ SumEquation(h, f, D) /\ AmountSum(rows, D) = h[D]
  BY ONLY <1>2, AmountSumOf
<1>4. One(D) = i /\ D # {} /\ D \ {One(D)} = {}
  BY <1>1 DEF One
<1>5. h[D] = f[i] + h[{}] /\ h[{}] = 0 /\ f[i] = rows[i][3]
  BY <1>1, <1>3, <1>4 DEF SumEquation
<1> QED BY <1>1, <1>3, <1>5

LEMMA AmountOfNone == ASSUME NEW rows PROVE AmountSum(rows, {}) = 0
<1>1. IsFiniteSet({}) /\ \A x \in {} : rows[x][3] \in Int
  BY FS_EmptySet
<1>2. PICK f, h : SumEquation(h, f, {}) /\ AmountSum(rows, {}) = h[{}]
  BY <1>1, AmountSumOf
<1> QED BY <1>2 DEF SumEquation

\* n rows of which no two post to the same account.
Spread(rows, n) ==
    /\ n \in Nat /\ DOMAIN rows = 1 .. n /\ \A i \in 1 .. n : rows[i][3] \in Int
    /\ \A i, j \in 1 .. n : rows[i][1] = rows[j][1] /\ rows[i][2] = rows[j][2] => i = j

\* Each row is an entry, and there is no other.
Holds(p, rows, n) ==
    /\ p \in [Mints \X Accounts -> Int]
    /\ \A i \in 1 .. n : \A m \in Mints, a \in Accounts :
          m = rows[i][1] /\ a = rows[i][2] => p[<<m, a>>] = rows[i][3]
    /\ \A m \in Mints, a \in Accounts :
          (\A i \in 1 .. n : ~(m = rows[i][1] /\ a = rows[i][2])) => p[<<m, a>>] = 0

\* Rows of different accounts stand in the posting as they are.
LEMMA PostedRows ==
    ASSUME NEW n, NEW rows, Spread(rows, n), NEW p, p = Posting(rows)
    PROVE  Holds(p, rows, n)
<1> USE DEF Spread
<1> DEFINE At(key) == {i \in DOMAIN rows : <<rows[i][1], rows[i][2]>> = key}
<1>1. p = [key \in Mints \X Accounts |-> AmountSum(rows, At(key))]
  BY PostingIs
<1>2. ASSUME NEW i \in 1 .. n, NEW m \in Mints, NEW a \in Accounts, m = rows[i][1], a = rows[i][2]
      PROVE  At(<<m, a>>) = {i} /\ p[<<m, a>>] = rows[i][3]
  <2>1. At(<<m, a>>) = {i}
    BY <1>2
  <2>2. p[<<m, a>>] = AmountSum(rows, At(<<m, a>>))
    <3> HIDE DEF At
    <3> QED BY <1>1
  <2>3. AmountSum(rows, {i}) = rows[i][3]
    BY AmountOfOne
  <2> HIDE DEF At
  <2> QED BY <2>1, <2>2, <2>3
<1>3. ASSUME NEW m \in Mints, NEW a \in Accounts, \A i \in 1 .. n : ~(m = rows[i][1] /\ a = rows[i][2])
      PROVE  p[<<m, a>>] = 0
  <2>1. At(<<m, a>>) = {}
    BY <1>3
  <2>2. p[<<m, a>>] = AmountSum(rows, At(<<m, a>>))
    <3> HIDE DEF At
    <3> QED BY <1>1
  <2> HIDE DEF At
  <2> QED BY <2>1, <2>2, AmountOfNone
<1>4. \A m \in Mints, a \in Accounts : p[<<m, a>>] \in Int
  <2> SUFFICES ASSUME NEW m \in Mints, NEW a \in Accounts PROVE p[<<m, a>>] \in Int
    OBVIOUS
  <2>1. CASE \E i \in 1 .. n : m = rows[i][1] /\ a = rows[i][2]
    BY <1>2, <2>1
  <2>2. CASE \A i \in 1 .. n : ~(m = rows[i][1] /\ a = rows[i][2])
    BY <1>3, <2>2
  <2> QED BY <2>1, <2>2
<1>5. p \in [Mints \X Accounts -> Int]
  <2>1. \A key \in Mints \X Accounts : \E m \in Mints, a \in Accounts : key = <<m, a>>
    OBVIOUS
  <2>2. \A key \in Mints \X Accounts : p[key] \in Int
    BY <1>4, <2>1
  <2> HIDE DEF At
  <2> QED BY <1>1, <2>2
<1> QED BY <1>2, <1>3, <1>5 DEF Holds

\* The entries of a mark, an intent and a fill balance, by their form.
LEMMA MarkBalances ==
    ASSUME NEW x \in Int
    PROVE  Balanced(Posting(<< <<Quote, "UNREALIZED_PNL", x>>, <<Quote, "EQUITY_CONTROL", -x>> >>))
<1>1. PICK y \in Int : y = -x /\ x + y = 0
  OBVIOUS
<1>2. PICK rows : rows = << <<Quote, "UNREALIZED_PNL", x>>, <<Quote, "EQUITY_CONTROL", y>> >>
  OBVIOUS
<1>3. /\ DOMAIN rows = 1 .. 2
      /\ rows[1][1] = Quote /\ rows[1][2] = "UNREALIZED_PNL" /\ rows[1][3] = x
      /\ rows[2][1] = Quote /\ rows[2][2] = "EQUITY_CONTROL" /\ rows[2][3] = y
  BY <1>2
<1>4. PICK p : p = Posting(rows)
  OBVIOUS
<1>5. (\A i \in 1 .. 2 : i = 1 \/ i = 2) /\ 1 \in 1 .. 2 /\ 2 \in 1 .. 2 /\ 2 \in Nat
  OBVIOUS
<1>6. Spread(rows, 2)
  BY <1>3, <1>5 DEF Spread, Quote, Base
<1>7. Holds(p, rows, 2)
  BY <1>4, <1>6, PostedRows
<1>8. "UNREALIZED_PNL" \in Accounts /\ "EQUITY_CONTROL" \in Accounts /\ Quote \in Mints
  BY DEF Accounts, Mints
<1>9. p[<<Quote, "UNREALIZED_PNL">>] = x /\ p[<<Quote, "EQUITY_CONTROL">>] = y
  BY <1>3, <1>5, <1>7, <1>8 DEF Holds
<1>10. \A m \in Mints, a \in Accounts :
          ~(m = Quote /\ a \in {"UNREALIZED_PNL", "EQUITY_CONTROL"}) => p[<<m, a>>] = 0
  BY <1>3, <1>5, <1>7 DEF Holds
<1>11. 0 + 0 = 0 /\ 0 + (x + y) = 0
  BY <1>1
<1>12. Quote # Base /\ Mints = {Quote, Base}
  BY DEF Quote, Base, Mints
<1>13. BalanceOf(p, Quote) = 0
  BY <1>9, <1>10, <1>11, <1>12 DEF BalanceOf, Accounts, StateAccounts
<1>14. BalanceOf(p, Base) = 0
  BY <1>10, <1>11, <1>12 DEF BalanceOf, Accounts, StateAccounts
<1>15. Balanced(p)
  BY <1>7, <1>12, <1>13, <1>14, BalancedMeans DEF Holds
<1> QED BY <1>1, <1>2, <1>4, <1>15

LEMMA IntentBalances ==
    ASSUME NEW x \in Int, NEW z \in Int
    PROVE  Balanced(Posting(<< <<Quote, "CASH_AVAILABLE", -x>>, <<Quote, "CASH_RESERVED", x>>,
                               <<Base, "POSITION_AVAILABLE", -z>>, <<Base, "POSITION_RESERVED", z>> >>))
<1>1. PICK y \in Int, w \in Int : y = -x /\ y + x = 0 /\ w = -z /\ w + z = 0
  OBVIOUS
<1>2. PICK rows : rows = << <<Quote, "CASH_AVAILABLE", y>>, <<Quote, "CASH_RESERVED", x>>,
                            <<Base, "POSITION_AVAILABLE", w>>, <<Base, "POSITION_RESERVED", z>> >>
  OBVIOUS
<1>3. /\ DOMAIN rows = 1 .. 4
      /\ rows[1][1] = Quote /\ rows[1][2] = "CASH_AVAILABLE" /\ rows[1][3] = y
      /\ rows[2][1] = Quote /\ rows[2][2] = "CASH_RESERVED" /\ rows[2][3] = x
      /\ rows[3][1] = Base /\ rows[3][2] = "POSITION_AVAILABLE" /\ rows[3][3] = w
      /\ rows[4][1] = Base /\ rows[4][2] = "POSITION_RESERVED" /\ rows[4][3] = z
  BY <1>2
<1>4. PICK p : p = Posting(rows)
  OBVIOUS
<1>5. (\A i \in 1 .. 4 : i = 1 \/ i = 2 \/ i = 3 \/ i = 4)
      /\ 1 \in 1 .. 4 /\ 2 \in 1 .. 4 /\ 3 \in 1 .. 4 /\ 4 \in 1 .. 4 /\ 4 \in Nat
  OBVIOUS
<1>6. Spread(rows, 4)
  BY <1>3, <1>5 DEF Spread, Quote, Base
<1>7. Holds(p, rows, 4)
  BY <1>4, <1>6, PostedRows
<1>8. /\ StateAccounts \subseteq Accounts /\ Quote \in Mints /\ Base \in Mints
      /\ StateAccounts = {"CASH_AVAILABLE", "CASH_RESERVED", "POSITION_AVAILABLE", "POSITION_RESERVED"}
  BY DEF Accounts, StateAccounts, Mints
<1>9. /\ p[<<Quote, "CASH_AVAILABLE">>] = y /\ p[<<Quote, "CASH_RESERVED">>] = x
      /\ p[<<Base, "POSITION_AVAILABLE">>] = w /\ p[<<Base, "POSITION_RESERVED">>] = z
  BY <1>3, <1>5, <1>7, <1>8 DEF Holds
<1>10. \A m \in Mints, a \in Accounts :
          ~(m = Quote /\ a \in {"CASH_AVAILABLE", "CASH_RESERVED"})
          /\ ~(m = Base /\ a \in {"POSITION_AVAILABLE", "POSITION_RESERVED"}) => p[<<m, a>>] = 0
  BY <1>3, <1>5, <1>7 DEF Holds
<1>11. 0 + 0 = 0 /\ y + (x + 0) = 0 /\ w + (z + 0) = 0 /\ 0 + (0 + (w + (z + 0))) = 0
  BY <1>1
<1>12. Quote # Base /\ Mints = {Quote, Base}
  BY DEF Quote, Base, Mints
<1>13. BalanceOf(p, Quote) = 0
  BY <1>9, <1>10, <1>11, <1>12 DEF BalanceOf, Accounts, StateAccounts
<1>14. BalanceOf(p, Base) = 0
  BY <1>9, <1>10, <1>11, <1>12 DEF BalanceOf, Accounts, StateAccounts
<1>15. Balanced(p)
  BY <1>7, <1>12, <1>13, <1>14, BalancedMeans DEF Holds
<1> QED BY <1>1, <1>2, <1>4, <1>15

LEMMA TenFields ==
    ASSUME NEW b, NEW c, NEW d, NEW q, NEW r, NEW s, NEW t, NEW u, NEW v, NEW w, NEW rows,
           rows = <<b, c, d, q, r, s, t, u, v, w>>
    PROVE  /\ DOMAIN rows = 1 .. 10 /\ \A i \in 1 .. 10 : i \in {1, 2, 3, 4, 5, 6, 7, 8, 9, 10}
           /\ rows[1] = b /\ rows[2] = c /\ rows[3] = d /\ rows[4] = q /\ rows[5] = r
           /\ rows[6] = s /\ rows[7] = t /\ rows[8] = u /\ rows[9] = v /\ rows[10] = w
OBVIOUS

FillPosting(b, c, d, q, r, s, t, u, v, w) ==
    Posting(<< <<Base, "POSITION_AVAILABLE", b>>, <<Base, "POSITION_RESERVED", c>>,
               <<Base, "TRADE_CLEARING", d>>, <<Quote, "CASH_AVAILABLE", q>>,
               <<Quote, "CASH_RESERVED", r>>, <<Quote, "FEE_EXPENSE", s>>,
               <<Quote, "TRADE_CLEARING", t>>, <<Quote, "REALIZED_PNL", u>>,
               <<Quote, "UNREALIZED_PNL", v>>, <<Quote, "EQUITY_CONTROL", w>> >>)

LEMMA FillBalances ==
    ASSUME NEW b \in Int, NEW c \in Int, NEW d \in Int, b + (c + d) = 0,
           NEW q \in Int, NEW r \in Int, NEW s \in Int, NEW t \in Int, q + (r + (t + s)) = 0,
           NEW u \in Int, NEW v \in Int, NEW w \in Int, u + (v + w) = 0
    PROVE  Balanced(FillPosting(b, c, d, q, r, s, t, u, v, w))
<1>1. PICK rows : rows = << <<Base, "POSITION_AVAILABLE", b>>, <<Base, "POSITION_RESERVED", c>>,
                               <<Base, "TRADE_CLEARING", d>>, <<Quote, "CASH_AVAILABLE", q>>,
                               <<Quote, "CASH_RESERVED", r>>, <<Quote, "FEE_EXPENSE", s>>,
                               <<Quote, "TRADE_CLEARING", t>>, <<Quote, "REALIZED_PNL", u>>,
                               <<Quote, "UNREALIZED_PNL", v>>, <<Quote, "EQUITY_CONTROL", w>> >>
  OBVIOUS
<1>2. /\ DOMAIN rows = 1 .. 10
      /\ rows[1] = <<Base, "POSITION_AVAILABLE", b>> /\ rows[2] = <<Base, "POSITION_RESERVED", c>>
      /\ rows[3] = <<Base, "TRADE_CLEARING", d>> /\ rows[4] = <<Quote, "CASH_AVAILABLE", q>>
      /\ rows[5] = <<Quote, "CASH_RESERVED", r>> /\ rows[6] = <<Quote, "FEE_EXPENSE", s>>
      /\ rows[7] = <<Quote, "TRADE_CLEARING", t>> /\ rows[8] = <<Quote, "REALIZED_PNL", u>>
      /\ rows[9] = <<Quote, "UNREALIZED_PNL", v>> /\ rows[10] = <<Quote, "EQUITY_CONTROL", w>>
  BY <1>1, TenFields
<1>3. /\ rows[1][1] = Base /\ rows[1][2] = "POSITION_AVAILABLE" /\ rows[1][3] = b
      /\ rows[2][1] = Base /\ rows[2][2] = "POSITION_RESERVED" /\ rows[2][3] = c
      /\ rows[3][1] = Base /\ rows[3][2] = "TRADE_CLEARING" /\ rows[3][3] = d
      /\ rows[4][1] = Quote /\ rows[4][2] = "CASH_AVAILABLE" /\ rows[4][3] = q
      /\ rows[5][1] = Quote /\ rows[5][2] = "CASH_RESERVED" /\ rows[5][3] = r
      /\ rows[6][1] = Quote /\ rows[6][2] = "FEE_EXPENSE" /\ rows[6][3] = s
      /\ rows[7][1] = Quote /\ rows[7][2] = "TRADE_CLEARING" /\ rows[7][3] = t
      /\ rows[8][1] = Quote /\ rows[8][2] = "REALIZED_PNL" /\ rows[8][3] = u
      /\ rows[9][1] = Quote /\ rows[9][2] = "UNREALIZED_PNL" /\ rows[9][3] = v
      /\ rows[10][1] = Quote /\ rows[10][2] = "EQUITY_CONTROL" /\ rows[10][3] = w
  BY <1>2
<1>4. PICK p : p = Posting(rows)
  OBVIOUS
<1>5. \A i \in 1 .. 10 : i \in {1, 2, 3, 4, 5, 6, 7, 8, 9, 10}
  OBVIOUS
<1>6. Spread(rows, 10)
  <2>1. \A i \in 1 .. 10 : rows[i][3] \in Int
    BY <1>3, <1>5
  <2>2. ASSUME NEW i \in 1 .. 10, NEW j \in 1 .. 10, rows[i][1] = rows[j][1], rows[i][2] = rows[j][2]
        PROVE  i = j
    <3>1. i \in {1, 2, 3, 4, 5, 6, 7, 8, 9, 10} /\ j \in {1, 2, 3, 4, 5, 6, 7, 8, 9, 10}
      BY <1>5
    <3> QED BY ONLY <1>3, <2>2, <3>1 DEF Quote, Base
  <2> QED BY <1>2, <2>1, <2>2 DEF Spread
<1>7. Holds(p, rows, 10)
  BY <1>4, <1>6, PostedRows
<1>8. /\ Quote \in Mints /\ Base \in Mints /\ Mints = {Quote, Base} /\ Quote # Base
      /\ Accounts = {"CASH_AVAILABLE", "CASH_RESERVED", "POSITION_AVAILABLE", "POSITION_RESERVED",
                     "TRADE_CLEARING", "FEE_EXPENSE", "REALIZED_PNL", "UNREALIZED_PNL", "EQUITY_CONTROL"}
  BY DEF Accounts, StateAccounts, Mints, Quote, Base
<1>9. \A i \in 1 .. 10 : rows[i][1] \in Mints /\ rows[i][2] \in Accounts => p[<<rows[i][1], rows[i][2]>>] = rows[i][3]
  BY <1>7 DEF Holds
<1>10. /\ p[<<Base, "POSITION_AVAILABLE">>] = b /\ p[<<Base, "POSITION_RESERVED">>] = c
       /\ p[<<Base, "TRADE_CLEARING">>] = d
       /\ p[<<Quote, "CASH_AVAILABLE">>] = q /\ p[<<Quote, "CASH_RESERVED">>] = r
       /\ p[<<Quote, "FEE_EXPENSE">>] = s /\ p[<<Quote, "TRADE_CLEARING">>] = t
       /\ p[<<Quote, "REALIZED_PNL">>] = u /\ p[<<Quote, "UNREALIZED_PNL">>] = v
       /\ p[<<Quote, "EQUITY_CONTROL">>] = w
  <2>1. 1 \in 1 .. 10 /\ 2 \in 1 .. 10 /\ 3 \in 1 .. 10 /\ 4 \in 1 .. 10 /\ 5 \in 1 .. 10
        /\ 6 \in 1 .. 10 /\ 7 \in 1 .. 10 /\ 8 \in 1 .. 10 /\ 9 \in 1 .. 10 /\ 10 \in 1 .. 10
    OBVIOUS
  <2> QED BY ONLY <1>3, <1>8, <1>9, <2>1
<1>11. \A m \in Mints, a \in Accounts :
          (\A i \in 1 .. 10 : ~(m = rows[i][1] /\ a = rows[i][2])) => p[<<m, a>>] = 0
  BY <1>7 DEF Holds
<1>12. /\ p[<<Base, "CASH_AVAILABLE">>] = 0 /\ p[<<Base, "CASH_RESERVED">>] = 0
       /\ p[<<Base, "FEE_EXPENSE">>] = 0 /\ p[<<Base, "REALIZED_PNL">>] = 0
       /\ p[<<Base, "UNREALIZED_PNL">>] = 0 /\ p[<<Base, "EQUITY_CONTROL">>] = 0
       /\ p[<<Quote, "POSITION_AVAILABLE">>] = 0 /\ p[<<Quote, "POSITION_RESERVED">>] = 0
  <2>1. ASSUME NEW m, NEW a, NEW i \in 1 .. 10, m = rows[i][1], a = rows[i][2]
        PROVE  /\ m = Base => a \in {"POSITION_AVAILABLE", "POSITION_RESERVED", "TRADE_CLEARING"}
               /\ m = Quote => a \notin {"POSITION_AVAILABLE", "POSITION_RESERVED"}
    <3>1. i \in {1, 2, 3, 4, 5, 6, 7, 8, 9, 10}
      BY <1>5
    <3> QED BY ONLY <1>3, <2>1, <3>1 DEF Quote, Base
  <2> QED BY <1>8, <1>11, <2>1
<1>13. /\ 0 + 0 = 0 /\ 0 + (0 + (0 + (u + (v + w)))) = 0 /\ \A x \in Int : 0 + x = x
       /\ q + (r + (0 + (0 + (t + (s + (u + (v + w))))))) = 0
       /\ 0 + (0 + (b + (c + (d + (0 + (0 + (0 + 0))))))) = 0
  OBVIOUS
<1>14. BalanceOf(p, Quote) = 0
  BY ONLY <1>10, <1>12, <1>13 DEF BalanceOf
<1>15. BalanceOf(p, Base) = 0
  BY ONLY <1>10, <1>12, <1>13 DEF BalanceOf
<1>16. Balanced(p)
  BY <1>7, <1>8, <1>14, <1>15, BalancedMeans DEF Holds
<1> QED BY <1>1, <1>4, <1>16 DEF FillPosting

-----------------------------------------------------------------------------
(* The documents of a step *)

DocumentFits(e) == DocumentAddsUp(e) /\ Balanced(e.entries)

\* The ten figures of a fill's entries cancel in quantity, cash and result.
LEMMA FillPosted ==
    ASSUME BooksInv, intent # Null, NEW f, FillSound(f, intent),
           NEW after, after.realized \in Int, after.unrealized \in Int
    PROVE  Balanced(FillEntries(f, after))
<1> DEFINE buy == intent.action = "OPEN_LONG"
           fee == Fees(f)
           x == after.realized - portfolio.realized
           y == after.unrealized - portfolio.unrealized
           w == -(x + y)
           b == IF buy THEN f.filled ELSE f.released_base
           c == -intent.reserved_base
           d == IF buy THEN -f.filled ELSE f.filled
           q == IF buy THEN f.released_quote ELSE f.cash_delta
           r == -intent.reserved_quote
           t == IF buy THEN f.gross ELSE -f.gross
<1>1. FillEntries(f, after) =
        FillPosting(b, c, d, q, r, fee, t, x, y, w)
  BY DEF FillEntries, FillPosting
<1>2. PICK i \in IntentSchema : i = intent /\ IntentSound(i, portfolio)
  BY DEF BooksInv, IntentSound
<1>3. /\ i.quantity \in Nat /\ i.reserved_quote \in Nat /\ i.reserved_base \in Nat
      /\ i.action \in {"OPEN_LONG", "CLOSE_LONG"}
      /\ i.action = "OPEN_LONG" => i.reserved_base = 0
      /\ i.action = "CLOSE_LONG" => i.reserved_quote = 0 /\ i.reserved_base = i.quantity
  BY <1>2 DEF IntentSchema, IntentSound
<1>4. fee \in Nat /\ f.gross \in Nat /\ f.filled \in Nat
  BY <1>2 DEF FillSound
<1>5. x \in Int /\ y \in Int /\ w \in Int /\ x + (y + w) = 0
  <2>1. portfolio.realized \in Int /\ portfolio.unrealized \in Int
    BY HeldFields DEF BooksInv, Sound, SummarySound, Row
  <2> QED BY <2>1
<1>6. b \in Int /\ c \in Int /\ d \in Int /\ b + (c + d) = 0
  <2>1. c \in Int /\ c + i.reserved_base = 0
    BY <1>2, <1>3
  <2>2. CASE buy
    <3>1. c = 0 /\ b = f.filled /\ d = -f.filled
      BY <1>2, <1>3, <2>1, <2>2
    <3>2. d \in Int /\ f.filled + d = 0
      BY <1>4, <3>1
    <3> HIDE DEF b, c, d
    <3> QED BY <1>4, <3>1, <3>2
  <2>3. CASE ~buy
    <3>1. b = i.quantity - f.filled /\ d = f.filled /\ c + i.quantity = 0
      BY <1>2, <1>3, <2>1, <2>3 DEF FillSound
    <3> HIDE DEF b, c, d
    <3> QED BY <1>3, <1>4, <2>1, <3>1
  <2> QED BY <2>2, <2>3
<1>7. q \in Int /\ r \in Int /\ t \in Int /\ q + (r + (t + fee)) = 0
  <2>1. r \in Int /\ r + i.reserved_quote = 0
    BY <1>2, <1>3
  <2>2. CASE buy
    <3>1. q = i.reserved_quote - f.gross - fee /\ t = f.gross
      BY <1>2, <1>3, <2>2 DEF FillSound
    <3> HIDE DEF q, r, t, fee
    <3> QED BY <1>3, <1>4, <2>1, <3>1
  <2>3. CASE ~buy
    <3>1. q = f.gross - fee /\ t = -f.gross /\ r = 0
      BY <1>2, <1>3, <2>1, <2>3 DEF FillSound
    <3>2. t \in Int /\ t + f.gross = 0
      BY <1>4, <3>1
    <3> HIDE DEF q, r, t, fee
    <3> QED BY <1>4, <3>1, <3>2
  <2> QED BY <2>2, <2>3
<1> HIDE DEF b, c, d, q, r, t, fee, x, y, w
<1>8. fee \in Int
  BY <1>4
<1>9. Balanced(FillPosting(b, c, d, q, r, fee, t, x, y, w))
  BY ONLY <1>5, <1>6, <1>7, <1>8, FillBalances, Zenon
<1> QED BY <1>1, <1>9

\* The two records of a fill: the receipt and the state it settles in.
LEMMA FillBatch ==
    ASSUME BooksInv, intent # Null, named.state # Null,
           NEW status, NEW reasons, NEW filled, Outcome(status, reasons, filled),
           NEW f, f = FillReceipt(status, reasons, filled),
           status # "EXPIRED" => intent.group < group /\ Affordable(f),
           NEW n, NEW latching
    PROVE  \E a, b : /\ FillRecords(f, n, latching) = <<a, b>>
                     /\ DocumentFits(a) /\ DocumentFits(b)
                     /\ Sound(b.doc) /\ Reservations(b.doc, 0, 0, {})
<1>1. FillSound(f, intent) /\ (FillInWidth(f) => FillValid(f))
  BY FillFits
<1>2. PICK after : after = Settled(portfolio, intent, f, Object(n))
  OBVIOUS
<1>3. Sound(after) /\ Reservations(after, 0, 0, {})
  BY <1>1, <1>2, Settles
<1>4. after.realized \in Int /\ after.unrealized \in Int
  BY <1>3, HeldFields DEF Sound, SummarySound, Row
<1>5. Balanced(FillEntries(f, after))
  BY <1>1, <1>4, FillPosted
<1>6. PICK c, d :
         /\ c = [intent |-> named.intent, state_before |-> named.state,
                 fill_event |-> IF f.fill_event = Null THEN Null ELSE named.event,
                 reasons |-> f.reasons, latching_risk_decision |-> latching]
         /\ d = [causation |-> Object(n), previous_state |-> named.state]
  OBVIOUS
<1>7. PICK a, b : /\ a = Doc("SIMULATED_FILL", f, c, FillEntries(f, after))
                  /\ b = Doc("PORTFOLIO_STATE", after, d, NoEntries)
  OBVIOUS
<1>8. FillRecords(f, n, latching) = <<a, b>>
  BY <1>2, <1>6, <1>7, Zenon DEF FillRecords
<1>9. /\ a.type = "SIMULATED_FILL" /\ a.doc = f /\ a.entries = FillEntries(f, after)
      /\ b.type = "PORTFOLIO_STATE" /\ b.doc = after /\ b.entries = NoEntries
  BY <1>7 DEF Doc
<1>10. StateAddsUp(after)
  BY <1>3, SoundAddsUp
<1>11. DocumentFits(a)
  BY <1>1, <1>5, <1>9 DEF DocumentFits, DocumentAddsUp
<1>12. DocumentFits(b)
  BY <1>9, <1>10, NothingPosted DEF DocumentFits, DocumentAddsUp
<1> QED BY <1>3, <1>8, <1>9, <1>11, <1>12, Zenon

\* It is enough to look at the records an action writes, one by one.
LEMMA BatchFits ==
    /\ emitted' = <<>> => BooksAddUp'
    /\ \A a : emitted' = <<a>> /\ DocumentFits(a) => BooksAddUp'
    /\ \A a, b : emitted' = <<a, b>> /\ DocumentFits(a) /\ DocumentFits(b) => BooksAddUp'
    /\ \A a, b, c : emitted' = <<a, b, c>> /\ DocumentFits(a) /\ DocumentFits(b) /\ DocumentFits(c)
                       => BooksAddUp'
    /\ \A a, b, c, d : emitted' = <<a, b, c, d>> /\ DocumentFits(a) /\ DocumentFits(b)
                          /\ DocumentFits(c) /\ DocumentFits(d) => BooksAddUp'
<1>1. (\A i \in DOMAIN emitted' : DocumentFits(emitted'[i])) => BooksAddUp'
  BY DEF BooksAddUp, DocumentFits
<1>2. emitted' = <<>> => DOMAIN emitted' = {}
  OBVIOUS
<1>3. \A a : DOMAIN <<a>> = {1} /\ <<a>>[1] = a
  OBVIOUS
<1>4. \A a, b : DOMAIN <<a, b>> = {1, 2} /\ <<a, b>>[1] = a /\ <<a, b>>[2] = b
  OBVIOUS
<1>5. \A a, b, c : DOMAIN <<a, b, c>> = {1, 2, 3}
                   /\ <<a, b, c>>[1] = a /\ <<a, b, c>>[2] = b /\ <<a, b, c>>[3] = c
  OBVIOUS
<1>6. \A a, b, c, d : DOMAIN <<a, b, c, d>> = {1, 2, 3, 4}
                   /\ <<a, b, c, d>>[1] = a /\ <<a, b, c, d>>[2] = b /\ <<a, b, c, d>>[3] = c
                   /\ <<a, b, c, d>>[4] = d
  OBVIOUS
<1>7. emitted' = <<>> => BooksAddUp'
  BY <1>1, <1>2
<1>8. ASSUME NEW a, emitted' = <<a>>, DocumentFits(a) PROVE BooksAddUp'
  BY <1>1, <1>3, <1>8
<1>9. ASSUME NEW a, NEW b, emitted' = <<a, b>>, DocumentFits(a), DocumentFits(b) PROVE BooksAddUp'
  BY <1>1, <1>4, <1>9
<1>10. ASSUME NEW a, NEW b, NEW c, emitted' = <<a, b, c>>, DocumentFits(a), DocumentFits(b), DocumentFits(c)
       PROVE BooksAddUp'
  BY <1>1, <1>5, <1>10
<1>11. ASSUME NEW a, NEW b, NEW c, NEW d, emitted' = <<a, b, c, d>>, DocumentFits(a), DocumentFits(b),
              DocumentFits(c), DocumentFits(d)
       PROVE BooksAddUp'
  BY <1>1, <1>6, <1>11
<1> QED BY <1>7, <1>8, <1>9, <1>10, <1>11, Zenon

\* A document without figures of its own, and no entries.
LEMMA PlainFits ==
    ASSUME NEW type, type \notin {"SIMULATED_INTENT", "SIMULATED_FILL", "PORTFOLIO_STATE", "KILL_STATE", "RUN_END"},
           NEW doc, NEW context
    PROVE  DocumentFits(Doc(type, doc, context, NoEntries))
<1>1. PICK e : e = Doc(type, doc, context, NoEntries)
  OBVIOUS
<1>2. e.type = type /\ e.entries = NoEntries
  BY <1>1 DEF Doc
<1> QED BY <1>1, <1>2, NothingPosted DEF DocumentFits, DocumentAddsUp

LEMMA StateFits ==
    ASSUME NEW type, type \in {"PORTFOLIO_STATE", "KILL_STATE", "RUN_END"},
           NEW p, StateAddsUp(p), NEW context, NEW entries, Balanced(entries)
    PROVE  DocumentFits(Doc(type, p, context, entries))
<1>1. PICK e : e = Doc(type, p, context, entries)
  OBVIOUS
<1>2. e.type = type /\ e.entries = entries /\ e.doc = p
  BY <1>1 DEF Doc
<1> QED BY <1>1, <1>2 DEF DocumentFits, DocumentAddsUp

LEMMA IntentFits ==
    ASSUME NEW i, IntentInWidth(i) => IntentValid(i), NEW context, NEW entries, Balanced(entries)
    PROVE  DocumentFits(Doc("SIMULATED_INTENT", i, context, entries))
<1>1. PICK e : e = Doc("SIMULATED_INTENT", i, context, entries)
  OBVIOUS
<1>2. e.type = "SIMULATED_INTENT" /\ e.entries = entries /\ e.doc = i
  BY <1>1 DEF Doc
<1> QED BY <1>1, <1>2 DEF DocumentFits, DocumentAddsUp

\* A state without an open intent reserves nothing.
LEMMA RestingState ==
    ASSUME NEW p, Sound(p), Reservations(p, 0, 0, {})
    PROVE  StateAddsUp(p)
BY SoundAddsUp

-----------------------------------------------------------------------------
(* The steps *)

\* One lemma for each action.
LEMMA RawBooks == ASSUME BooksInv, RawGroupCommit PROVE BooksInv' /\ BooksAddUp'
<1>1. PICK kind \in {"ORIGINAL", "CORRECTION", "RETRACTION"} :
         /\ kind # "ORIGINAL" => group > 0
         /\ Write(<<Doc("RAW_ADMISSION", RawEvent(kind, Prices[group + 1]),
                        [source_admission |-> named.source], NoEntries)>>)
         /\ price' = IF kind = "RETRACTION" THEN price ELSE Prices[group + 1]
  BY DEF RawGroupCommit
<1>2. BooksAddUp'
  <2>1. PICK a : a = Doc("RAW_ADMISSION", RawEvent(kind, Prices[group + 1]),
                         [source_admission |-> named.source], NoEntries)
    OBVIOUS
  <2>2. DocumentFits(a)
    BY <2>1, PlainFits
  <2>3. emitted' = <<a>>
    BY <1>1, <2>1 DEF Write
  <2> QED BY <2>2, <2>3, BatchFits
<1>3. group \in 0 .. MaxGroup /\ group < MaxGroup /\ MaxGroup \in Nat /\ group' = group + 1
  BY ReplayAssumption DEF BooksInv, RawGroupCommit, ReplayAssumption
<1>4. group' \in 0 .. MaxGroup /\ group' > 0
  BY <1>3
<1>5. price' \in Nat /\ price' > 0
  <2>1. Prices[group + 1] \in Nat /\ Prices[group + 1] > 0
    BY <1>3, ReplayAssumption DEF ReplayAssumption
  <2> QED BY <1>1, <2>1 DEF BooksInv
<1>6. /\ phase' = IF intent # Null THEN "FILL_OR_EXPIRY" ELSE "GROUP_MARK"
      /\ portfolio' = portfolio /\ intent' = intent
  BY DEF RawGroupCommit
<1>7. intent # Null => intent.group < group' /\ IntentSound(intent, portfolio)'
  <2> SUFFICES ASSUME intent # Null PROVE intent.group < group' /\ IntentSound(intent, portfolio)'
    OBVIOUS
  <2>1. IntentSound(intent, portfolio) /\ intent.group \in Nat /\ intent.group <= group
    BY DEF BooksInv, IntentSound, IntentSchema
  <2>2. intent.group < group'
    BY <1>3, <2>1
  <2> QED BY <1>3, <1>6, <2>1, <2>2 DEF IntentSound
<1> QED BY <1>2, <1>4, <1>5, <1>6, <1>7 DEF BooksInv, Stages

LEMMA FillBooks == ASSUME BooksInv, named.state # Null, Fill PROVE BooksInv' /\ BooksAddUp'
<1>1. PICK f \in FillOutcomes : /\ Affordable(f) /\ Write(FillRecords(f, 1, Null))
                                /\ portfolio' = FillRecords(f, 1, Null)[2].doc
  BY DEF Fill
<1>2. intent # Null /\ intent.group < group
  BY DEF BooksInv, Fill
<1>3. \E status, reasons, filled : /\ status # "EXPIRED" /\ Outcome(status, reasons, filled)
                                   /\ f = FillReceipt(status, reasons, filled)
  BY <1>1 DEF FillOutcomes, Outcome
<1>4. PICK status, reasons, filled :
         status # "EXPIRED" /\ Outcome(status, reasons, filled) /\ f = FillReceipt(status, reasons, filled)
  BY <1>3
<1>5. PICK a, b : /\ FillRecords(f, 1, Null) = <<a, b>>
                  /\ DocumentFits(a) /\ DocumentFits(b)
                  /\ Sound(b.doc) /\ Reservations(b.doc, 0, 0, {})
  BY <1>1, <1>2, <1>4, FillBatch
<1>6. emitted' = <<a, b>> /\ portfolio' = b.doc
  BY <1>1, <1>5 DEF Write
<1>7. BooksAddUp'
  BY <1>5, <1>6, BatchFits
<1>8. phase' = "GROUP_MARK" /\ intent' = Null /\ group' = group /\ price' = price /\ group > 0
  BY DEF Fill, BooksInv
<1> QED BY <1>5, <1>6, <1>7, <1>8 DEF BooksInv, Stages

LEMMA FinalBooks == ASSUME BooksInv, named.state # Null, FinalGate PROVE BooksInv' /\ BooksAddUp'
<1>1. PICK reason, f :
         /\ reason \in {"SESSION_END", "NO_NEXT_EVENT"}
         /\ f = FillReceipt("EXPIRED", <<reason>>, 0) /\ Write(FillRecords(f, 1, Null))
         /\ portfolio' = FillRecords(f, 1, Null)[2].doc
  BY DEF FinalGate
<1>2. intent # Null /\ Outcome("EXPIRED", <<reason>>, 0)
  BY <1>1 DEF FinalGate, Outcome
<1>3. PICK a, b : /\ FillRecords(f, 1, Null) = <<a, b>>
                  /\ DocumentFits(a) /\ DocumentFits(b)
                  /\ Sound(b.doc) /\ Reservations(b.doc, 0, 0, {})
  BY <1>1, <1>2, FillBatch
<1>4. emitted' = <<a, b>> /\ portfolio' = b.doc
  BY <1>1, <1>3 DEF Write
<1>5. BooksAddUp'
  BY <1>3, <1>4, BatchFits
<1>6. phase' = "GROUP_GATE" /\ intent' = Null /\ group' = group /\ price' = price
  BY DEF FinalGate
<1> QED BY <1>3, <1>4, <1>5, <1>6 DEF BooksInv, Stages

LEMMA MarkBooks == ASSUME BooksInv, named.state # Null, GroupMark PROVE BooksInv' /\ BooksAddUp'
<1>1. /\ intent = Null /\ price \in Count /\ Sound(portfolio) /\ Reservations(portfolio, 0, 0, {})
      /\ phase' = "SNAPSHOT" /\ intent' = Null /\ group' = group /\ price' = price /\ group > 0
  BY DEF BooksInv, GroupMark, Count
<1>2. CASE ~Holding(portfolio)
  <2>1. portfolio' = portfolio /\ emitted' = <<>>
    BY <1>2 DEF GroupMark, Write
  <2>2. BooksAddUp'
    BY <2>1, BatchFits
  <2> QED BY <1>1, <2>1, <2>2 DEF BooksInv, Stages
<1>3. CASE Holding(portfolio)
  <2>1. PICK after, moved :
           /\ after = Marked(portfolio, price, MarkKey(group))
           /\ moved = after.unrealized - portfolio.unrealized
           /\ Write(<<Doc("PORTFOLIO_STATE", after,
                          [causation |-> MarkKey(group), previous_state |-> named.state],
                          Posting(<< <<Quote, "UNREALIZED_PNL", moved>>,
                                     <<Quote, "EQUITY_CONTROL", -moved>> >>))>>)
           /\ portfolio' = after
    BY <1>3 DEF GroupMark
  <2>2. Sound(after) /\ Reservations(after, 0, 0, {})
    BY <1>1, <2>1, Marks
  <2>3. moved \in Int
    BY <1>1, <2>1, <2>2, HeldFields DEF Sound, SummarySound, Row
  <2>4. PICK entries, context :
           /\ entries = Posting(<< <<Quote, "UNREALIZED_PNL", moved>>, <<Quote, "EQUITY_CONTROL", -moved>> >>)
           /\ context = [causation |-> MarkKey(group), previous_state |-> named.state]
    OBVIOUS
  <2>5. PICK a : a = Doc("PORTFOLIO_STATE", after, context, entries)
    OBVIOUS
  <2>6. emitted' = <<a>>
    BY <2>1, <2>4, <2>5 DEF Write
  <2>7. Balanced(entries)
    BY <2>3, <2>4, MarkBalances
  <2>8. DocumentFits(a)
    BY <2>2, <2>5, <2>7, RestingState, StateFits
  <2>9. BooksAddUp'
    BY <2>6, <2>8, BatchFits
  <2> QED BY <1>1, <2>1, <2>2, <2>9 DEF BooksInv, Stages
<1> QED BY <1>2, <1>3

LEMMA SnapshotBooks == ASSUME BooksInv, Snapshot PROVE BooksInv' /\ BooksAddUp'
<1>1. PICK a : a = Doc("FEATURE_SNAPSHOT", FeatureSnapshot, [raw_events |-> <<named.event>>], NoEntries)
  OBVIOUS
<1>2. PICK b : b = Doc("MODEL_VALIDATION", Null,
                       [feature_snapshot |-> Object(1), model_registry |-> Registry,
                        model_manifest |-> Manifest], NoEntries)
  OBVIOUS
<1>3. DocumentFits(a) /\ DocumentFits(b)
  BY <1>1, <1>2, PlainFits
<1>4. emitted' = <<a>> \/ emitted' = <<a, b>>
      \/ \E bias : emitted' = <<a, b, Doc("MODEL_SIGNAL_ACCEPTED", ModelSignal(bias, 2),
                                          [model_validation |-> Object(2)], NoEntries)>>
  BY <1>1, <1>2 DEF Snapshot, Write
<1>5. BooksAddUp'
  <2>1. CASE emitted' = <<a>>
    BY <1>3, <2>1, BatchFits
  <2>2. CASE emitted' = <<a, b>>
    BY <1>3, <2>2, BatchFits
  <2>3. ASSUME NEW bias, emitted' = <<a, b, Doc("MODEL_SIGNAL_ACCEPTED", ModelSignal(bias, 2),
                                              [model_validation |-> Object(2)], NoEntries)>>
        PROVE  BooksAddUp'
    <3>1. PICK c : c = Doc("MODEL_SIGNAL_ACCEPTED", ModelSignal(bias, 2),
                           [model_validation |-> Object(2)], NoEntries)
      OBVIOUS
    <3>2. DocumentFits(c)
      BY <3>1, PlainFits
    <3> QED BY <1>3, <2>3, <3>1, <3>2, BatchFits
  <2> QED BY <1>4, <2>1, <2>2, <2>3
<1>6. /\ phase' = "RISK_AND_STATE_EFFECT" /\ phase = "SNAPSHOT"
      /\ group' = group /\ price' = price /\ portfolio' = portfolio /\ intent' = intent
  BY DEF Snapshot
<1> QED BY <1>5, <1>6 DEF BooksInv, Stages

LEMMA DenyBooks == ASSUME BooksInv, Deny PROVE BooksInv' /\ BooksAddUp'
<1>1. PICK d : Write(<<Doc("RISK_DECISION", d, DecisionContext(d), NoEntries)>>)
  BY Zenon DEF Deny
<1>2. PICK a : a = Doc("RISK_DECISION", d, DecisionContext(d), NoEntries)
  OBVIOUS
<1>3. DocumentFits(a)
  BY <1>2, PlainFits
<1>4. emitted' = <<a>>
  BY <1>1, <1>2 DEF Write
<1>5. BooksAddUp'
  BY <1>3, <1>4, BatchFits
<1>6. /\ phase' = "GROUP_GATE" /\ phase = "RISK_AND_STATE_EFFECT"
      /\ group' = group /\ price' = price /\ portfolio' = portfolio /\ intent' = intent
  BY DEF Deny
<1> QED BY <1>5, <1>6 DEF BooksInv, Stages

LEMMA EndBooks == ASSUME BooksInv, RunEnd PROVE BooksInv' /\ BooksAddUp'
<1>1. /\ phase' = "RUN_END" /\ group = MaxGroup /\ intent = Null
      /\ group' = group /\ price' = price /\ portfolio' = portfolio /\ intent' = intent
  BY DEF RunEnd
<1>2. PICK a, b :
         /\ a = Doc("RECONCILIATION", Null,
                    [state_before |-> named.state, state_after |-> named.state,
                     reconciled |-> <<named.decision>>], NoEntries)
         /\ b = Doc("RUN_END", portfolio, [final_reconciliation |-> Object(1)], NoEntries)
  OBVIOUS
<1>3. emitted' = <<a, b>>
  BY <1>2 DEF RunEnd, Write
<1>4. StateAddsUp(portfolio)
  BY <1>1, RestingState DEF BooksInv
<1>5. DocumentFits(a) /\ DocumentFits(b)
  BY <1>2, <1>4, PlainFits, StateFits, NothingPosted
<1>6. BooksAddUp'
  BY <1>3, <1>5, BatchFits
<1>7. group > 0
  BY <1>1, ReplayAssumption DEF ReplayAssumption
<1> QED BY <1>1, <1>6, <1>7 DEF BooksInv, Stages

\* What an approval that the validator accepts grants.
GrantSound(d) ==
    /\ d.sequence = group
    /\ d.amounts["approved_base"] \in Count /\ d.amounts["reserved_quote"] \in Nat
    /\ d.amounts["reserved_base"] \in Nat
    /\ d.reference = price /\ d.stop \in Count /\ d.take \in Count
    /\ \/ /\ d.action = "ENTER_LONG" /\ d.amounts["reserved_quote"] > 0
          /\ d.amounts["reserved_base"] = 0 /\ d.stop < price /\ price < d.take
       \/ /\ d.action = "EXIT_LONG" /\ d.amounts["reserved_quote"] = 0
          /\ d.amounts["reserved_base"] = d.amounts["approved_base"]

\* An approved decision comes with an intent that the state can cover.
LEMMA Grants == ASSUME BooksInv, group > 0, NEW d \in Approvals PROVE GrantSound(d)
<1> DEFINE Grant(action, reasons, quantity, margin, stop, suppressed) ==
               Decision("APPROVE", action, reasons, quantity, margin, <<stop, price + 1>>, FALSE, suppressed)
           Held0 == Quantities \cup {Held(portfolio).quantity}
<1>0. Approvals = {e \in {Grant(action, reasons, quantity, margin, stop, suppressed) :
                action \in {"ENTER_LONG", "EXIT_LONG"}, reasons \in ReasonLists,
                quantity \in Held0, margin \in Margins,
                stop \in {price - 1, price}, suppressed \in BOOLEAN} : RiskDecisionValid(e)}
  BY DEF Approvals
<1> HIDE DEF Grant, Held0
<1>1. /\ RiskDecisionValid(d)
      /\ \E action \in {"ENTER_LONG", "EXIT_LONG"}, reasons \in ReasonLists,
           quantity \in Held0, margin \in Margins,
           stop \in {price - 1, price}, suppressed \in BOOLEAN :
           d = Grant(action, reasons, quantity, margin, stop, suppressed)
  BY <1>0
<1> USE DEF Grant, Held0
<1>2. PICK action \in {"ENTER_LONG", "EXIT_LONG"}, reasons \in ReasonLists,
           quantity \in Quantities \cup {Held(portfolio).quantity}, margin \in Margins,
           stop \in {price - 1, price}, suppressed \in BOOLEAN :
         d = Decision("APPROVE", action, reasons, quantity, margin, <<stop, price + 1>>, FALSE,
                      suppressed)
  BY <1>1
<1>3. Authority(d)
  BY <1>1 DEF RiskDecisionValid
<1>4. /\ d.sequence = group /\ d.verdict = "APPROVE" /\ d.action = action
      /\ d.reference = price /\ d.stop = stop /\ d.take = price + 1
      /\ d.amounts = [a \in Amounts |->
            CASE a \in {"requested_base", "approved_base"} -> quantity
              [] a = "reserved_quote" -> IF action = "ENTER_LONG" THEN quantity * price + margin ELSE 0
              [] a = "reserved_base" -> IF action = "EXIT_LONG" THEN quantity ELSE 0
              [] OTHER -> quantity * price]
  BY <1>2 DEF Decision
<1>5. quantity \in Nat /\ margin \in Nat /\ price \in Nat /\ price > 0
  <2>1. Held(portfolio).quantity \in Nat
    BY HeldFields DEF BooksInv, Sound, Row
  <2> QED BY <2>1, ReplayAssumption DEF BooksInv, ReplayAssumption
<1>6. /\ d.amounts["approved_base"] = quantity
      /\ d.amounts["reserved_quote"] = IF action = "ENTER_LONG" THEN quantity * price + margin ELSE 0
      /\ d.amounts["reserved_base"] = IF action = "EXIT_LONG" THEN quantity ELSE 0
  BY ONLY <1>4 DEF Amounts
<1>7. /\ d.amounts["approved_base"] > 0 /\ d.stop > 0 /\ d.take > 0
      /\ \/ /\ d.action = "ENTER_LONG" /\ d.amounts["reserved_quote"] > 0
            /\ d.amounts["reserved_base"] = 0 /\ d.stop < d.reference /\ d.reference < d.take
         \/ /\ d.action = "EXIT_LONG" /\ d.amounts["reserved_quote"] = 0
            /\ d.amounts["reserved_base"] = d.amounts["approved_base"]
  BY <1>3, <1>4 DEF Authority, Positive
<1>8. stop \in Int /\ price + 1 \in Int
  BY <1>5
<1> QED BY <1>4, <1>5, <1>6, <1>7, <1>8 DEF GrantSound, Count

LEMMA ApproveBooks == ASSUME BooksInv, named.state # Null, Approve PROVE BooksInv' /\ BooksAddUp'
<1>1. PICK d \in Approvals : LET i == IntentFor(d)
                                 after == Reserved(portfolio, i, Object(2))
         IN  /\ d.action = "ENTER_LONG" =>
                    ~Holding(portfolio) /\ i.reserved_quote <= portfolio.balances[Quote].available
             /\ d.action = "EXIT_LONG" => i.quantity = Held(portfolio).quantity
             /\ Write(<< Doc("RISK_DECISION", d, DecisionContext(d), NoEntries),
                         Doc("SIMULATED_INTENT", i,
                             [risk_decision |-> Object(1), state_before |-> named.state],
                             Posting(<< <<Quote, "CASH_AVAILABLE", -i.reserved_quote>>,
                                        <<Quote, "CASH_RESERVED", i.reserved_quote>>,
                                        <<Base, "POSITION_AVAILABLE", -i.reserved_base>>,
                                        <<Base, "POSITION_RESERVED", i.reserved_base>> >>)),
                         Doc("PORTFOLIO_STATE", after,
                             [causation |-> Object(2), previous_state |-> named.state],
                             NoEntries) >>)
             /\ portfolio' = after /\ intent' = i
  BY Zenon DEF Approve
<1>2. PICK i : i = IntentFor(d)
  OBVIOUS
<1>3. PICK after : after = Reserved(portfolio, i, Object(2))
  OBVIOUS
<1>4. PICK entries, c, e :
         /\ entries = Posting(<< <<Quote, "CASH_AVAILABLE", -i.reserved_quote>>,
                                 <<Quote, "CASH_RESERVED", i.reserved_quote>>,
                                 <<Base, "POSITION_AVAILABLE", -i.reserved_base>>,
                                 <<Base, "POSITION_RESERVED", i.reserved_base>> >>)
         /\ c = [risk_decision |-> Object(1), state_before |-> named.state]
         /\ e = [causation |-> Object(2), previous_state |-> named.state]
  OBVIOUS
<1>5. PICK x, y, z : /\ x = Doc("RISK_DECISION", d, DecisionContext(d), NoEntries)
                     /\ y = Doc("SIMULATED_INTENT", i, c, entries)
                     /\ z = Doc("PORTFOLIO_STATE", after, e, NoEntries)
  OBVIOUS
<1>6. /\ d.action = "ENTER_LONG" =>
            ~Holding(portfolio) /\ i.reserved_quote <= portfolio.balances[Quote].available
      /\ d.action = "EXIT_LONG" => i.quantity = Held(portfolio).quantity
      /\ emitted' = <<x, y, z>>
      /\ portfolio' = after /\ intent' = i
  BY <1>1, <1>2, <1>3, <1>4, <1>5, Zenon DEF Write
<1>7. /\ phase = "RISK_AND_STATE_EFFECT" /\ phase' = "GROUP_GATE" /\ group' = group /\ price' = price
  BY DEF Approve
<1>8. group \in Nat /\ group > 0 /\ price \in Count /\ intent = Null
      /\ Sound(portfolio) /\ Reservations(portfolio, 0, 0, {})
  BY <1>7, ReplayAssumption DEF BooksInv, Count, ReplayAssumption
<1>9. GrantSound(d)
  BY <1>8, Grants
<1>10. /\ i.sequence = group /\ i.decision = group
       /\ i.action = (IF d.action = "ENTER_LONG" THEN "OPEN_LONG" ELSE "CLOSE_LONG")
       /\ i.quantity = d.amounts["approved_base"] /\ i.reference = price /\ i.stop = d.stop
       /\ i.take = d.take /\ i.reserved_quote = d.amounts["reserved_quote"]
       /\ i.reserved_base = d.amounts["reserved_base"]
       /\ i.ingest = group /\ i.group = group /\ i.clock = group
       /\ i = [sequence |-> i.sequence, decision |-> i.decision, action |-> i.action,
               quantity |-> i.quantity, reference |-> i.reference, stop |-> i.stop, take |-> i.take,
               reserved_quote |-> i.reserved_quote, reserved_base |-> i.reserved_base,
               ingest |-> i.ingest, group |-> i.group, clock |-> i.clock]
  BY <1>2, <1>9 DEF IntentFor, GrantSound
<1>11. /\ i.quantity \in Count /\ i.reserved_quote \in Nat /\ i.reserved_base \in Nat
       /\ i.stop \in Count /\ i.take \in Count
       /\ \/ /\ i.action = "OPEN_LONG" /\ i.reserved_quote > 0 /\ i.reserved_base = 0
             /\ i.stop < i.reference /\ i.reference < i.take /\ ~Holding(portfolio)
          \/ /\ i.action = "CLOSE_LONG" /\ i.reserved_quote = 0 /\ i.reserved_base = i.quantity
             /\ i.quantity = Held(portfolio).quantity
       /\ i.reserved_quote <= portfolio.balances[Quote].available
  <2>1. portfolio.balances[Quote].available \in Nat
    BY <1>8 DEF Sound, StateShaped, Purse
  <2> QED BY <1>6, <1>9, <1>10, <2>1 DEF GrantSound
<1>12. i \in IntentSchema
  BY <1>8, <1>10, <1>11 DEF IntentSchema, Optional, Count
<1>13. Held(portfolio).quantity \in Nat /\ i.reserved_base <= Held(portfolio).quantity
  <2>1. Held(portfolio).quantity \in Nat
    BY <1>8, HeldFields DEF Sound, Row
  <2> QED BY <1>11, <2>1 DEF Count
<1>14. /\ Sound(after) /\ Reservations(after, i.reserved_quote, i.reserved_base, {Object(2)})
       /\ Held(after).quantity = Held(portfolio).quantity
  BY <1>3, <1>8, <1>11, <1>12, <1>13, Reserves
<1>15. ~Holding(portfolio) => ~Holding(after)
  BY <1>8, <1>14, HeldFields DEF Sound
<1>16. /\ i.sequence > 0 /\ i.quantity > 0 /\ i.ingest = i.group /\ i.group <= group
       /\ i.reference \in Count
  BY <1>8, <1>10, <1>11 DEF Count
<1>17. \/ /\ i.action = "OPEN_LONG" /\ i.reserved_quote > 0 /\ i.reserved_base = 0
          /\ i.stop < i.reference /\ i.reference < i.take /\ ~Holding(after)
       \/ /\ i.action = "CLOSE_LONG" /\ i.reserved_quote = 0 /\ i.reserved_base = i.quantity
          /\ i.quantity = Held(after).quantity
  BY <1>11, <1>14, <1>15
<1>18. /\ Reservations(after, i.reserved_quote, i.reserved_base, after.open_intents)
       /\ after.open_intents # {}
  BY <1>14 DEF Reservations
<1>19. IntentSound(intent, portfolio)'
  BY <1>6, <1>7, <1>11, <1>12, <1>16, <1>17, <1>18 DEF IntentSound
<1>20. intent' # Null
  BY <1>6, <1>12, AbsenceAssumption DEF AbsenceAssumption
<1>21. BooksInv'
  BY <1>6, <1>7, <1>8, <1>14, <1>19, <1>20 DEF BooksInv, Stages
<1>22. StateAddsUp(after)
  <2>1. i.reserved_quote > 0 \/ i.reserved_base > 0
    BY <1>11 DEF Count
  <2>2. {Object(2)} # {}
    OBVIOUS
  <2> QED BY <1>11, <1>14, <2>1, <2>2, SoundAddsUp
<1>23. IntentInWidth(i) => IntentValid(i)
  <2>1. Null \notin Int
    BY AbsenceAssumption DEF AbsenceAssumption
  <2>2. \A x1 \in Count : Positive(x1)
    BY <2>1 DEF Count, Positive
  <2> QED BY <1>11, <1>16, <2>2 DEF IntentInWidth, IntentValid
<1>24. Balanced(entries)
  BY <1>4, <1>11, IntentBalances
<1>25. DocumentFits(x) /\ DocumentFits(y) /\ DocumentFits(z)
  BY <1>5, <1>22, <1>23, <1>24, PlainFits, IntentFits, StateFits, NothingPosted
<1>26. BooksAddUp'
  BY <1>6, <1>25, BatchFits
<1> QED BY <1>21, <1>26

\* A kill closes what an intent has open before it latches.
LEMMA KillBooks == ASSUME BooksInv, named.state # Null, Object(3) # Null, Kill PROVE BooksInv' /\ BooksAddUp'
<1>1. /\ phase' = "GROUP_GATE" /\ intent' = Null /\ group' = group /\ price' = price
      /\ group \in 0 .. MaxGroup /\ price \in Nat /\ (group > 0 => price > 0) /\ Sound(portfolio)
  BY DEF Kill, BooksInv
<1>2. CASE intent = Null
  <2>1. PICK d, reasons, after :
           /\ after = [Killed(portfolio, reasons, RiskKey(group)) EXCEPT !.previous = named.state]
           /\ Write(<<Doc("RISK_DECISION", d, DecisionContext(d), NoEntries)>> \o << >>
                    \o <<Doc("KILL_STATE", after, [causation |-> RiskKey(group),
                                                   previous_state |-> named.state], NoEntries)>>)
           /\ portfolio' = after
    BY <1>2, Zenon DEF Kill
  <2>2. PICK a, b, c :
           /\ a = Doc("RISK_DECISION", d, DecisionContext(d), NoEntries)
           /\ c = [causation |-> RiskKey(group), previous_state |-> named.state]
           /\ b = Doc("KILL_STATE", after, c, NoEntries)
    OBVIOUS
  <2>3. emitted' = <<a, b>>
    <3>1. Write(<<a>> \o << >> \o <<b>>)
      BY <2>1, <2>2, Zenon
    <3> QED BY <3>1, JoinedTwo, Zenon DEF Write
  <2>4. Sound(after) /\ Reservations(after, 0, 0, {})
    <3>1. Sound(portfolio) /\ Reservations(portfolio, 0, 0, {})
      BY <1>1, <1>2 DEF BooksInv
    <3>2. after = KilledAfter(portfolio, reasons, RiskKey(group), named.state)
      BY ONLY <2>1, Zenon DEF KilledAfter
    <3> QED BY ONLY <3>1, <3>2, named.state # Null, Kills
  <2>5. StateAddsUp(after)
    BY <2>4, RestingState
  <2>6. DocumentFits(a) /\ DocumentFits(b)
    BY <2>2, <2>5, PlainFits, StateFits, NothingPosted
  <2>7. BooksAddUp'
    BY <2>3, <2>6, BatchFits
  <2> QED BY <1>1, <2>1, <2>4, <2>7 DEF BooksInv, Stages
<1>3. CASE intent # Null
  <2>1. PICK f : f = FillReceipt("EXPIRED", <<"KILL_LATCHED">>, 0)
    OBVIOUS
  <2>2. PICK rows : rows = FillRecords(f, 2, Object(1))
    OBVIOUS
  <2>3. PICK d, reasons, after :
           /\ after = [Killed(rows[2].doc, reasons, RiskKey(group)) EXCEPT !.previous = Object(3)]
           /\ Write(<<Doc("RISK_DECISION", d, DecisionContext(d), NoEntries)>> \o rows
                    \o <<Doc("KILL_STATE", after, [causation |-> RiskKey(group),
                                                   previous_state |-> Object(3)], NoEntries)>>)
           /\ portfolio' = after
    BY <1>3, <2>1, <2>2, Zenon DEF Kill
  <2>4. Outcome("EXPIRED", <<"KILL_LATCHED">>, 0)
    BY DEF Outcome
  <2>5. PICK x, y : /\ rows = <<x, y>>
                    /\ DocumentFits(x) /\ DocumentFits(y)
                    /\ Sound(y.doc) /\ Reservations(y.doc, 0, 0, {})
    BY <1>3, <2>1, <2>2, <2>4, FillBatch
  <2>6. PICK a, b, c :
           /\ a = Doc("RISK_DECISION", d, DecisionContext(d), NoEntries)
           /\ c = [causation |-> RiskKey(group), previous_state |-> Object(3)]
           /\ b = Doc("KILL_STATE", after, c, NoEntries)
    OBVIOUS
  <2>7. emitted' = <<a, x, y, b>>
    <3>1. Write(<<a>> \o <<x, y>> \o <<b>>)
      BY <2>3, <2>5, <2>6, Zenon
    <3> QED BY <3>1, JoinedFour, Zenon DEF Write
  <2>8. rows[2].doc = y.doc
    BY <2>5
  <2>9. Sound(after) /\ Reservations(after, 0, 0, {})
    <3>1. PICK p : p = y.doc /\ Sound(p) /\ Reservations(p, 0, 0, {})
      BY <2>5
    <3>2. after = [Killed(p, reasons, RiskKey(group)) EXCEPT !.previous = Object(3)]
      BY <2>3, <2>8, <3>1, Zenon
    <3>3. after = KilledAfter(p, reasons, RiskKey(group), Object(3))
      BY ONLY <3>2, Zenon DEF KilledAfter
    <3> QED BY ONLY <3>1, <3>3, named.state # Null, Object(3) # Null, Kills
  <2>10. StateAddsUp(after)
    BY <2>9, RestingState
  <2>11. DocumentFits(a) /\ DocumentFits(b)
    BY <2>6, <2>10, PlainFits, StateFits, NothingPosted
  <2>12. BooksAddUp'
    BY <2>5, <2>7, <2>11, BatchFits
  <2> QED BY <1>1, <2>3, <2>9, <2>12 DEF BooksInv, Stages
<1> QED BY <1>2, <1>3

\* The prefix of a run holds one state, that of the capital alone.
LEMMA InitBooks == Init => BooksInv /\ BooksAddUp
<1> SUFFICES ASSUME Init PROVE BooksInv /\ BooksAddUp
  OBVIOUS
<1>1. PICK place \in 1 .. (Sources + 1) : emitted = Prefix(place, configured)
  BY DEF Init
<1>2. PICK config, ids, run : /\ config = IF configured THEN Config ELSE Null
                              /\ ids = [i \in 1 .. (Sources + 1) |-> ObjectAt(i)]
                              /\ run = ObjectAt(Sources + 2)
  OBVIOUS
<1>3. InPlaces(emitted, place, config, ids)
  BY <1>1, <1>2, PrefixParts
<1>4. Sources \in Nat /\ MaxGroup \in Nat
  BY ReplayAssumption DEF ReplayAssumption
<1>5. \A i \in 1 .. (Sources + 4) : i \in 1 .. (Sources + 1) \/ i = Sources + 2 \/ i = Sources + 3
                                    \/ i = Sources + 4
  BY <1>4
<1>6. DOMAIN emitted = 1 .. (Sources + 4)
  BY <1>3, Zenon DEF InPlaces
<1>7. Sound(Genesis(run)) /\ Reservations(Genesis(run), 0, 0, {}) /\ StateAddsUp(Genesis(run))
  BY GenesisSound, RestingState
<1>8. ASSUME NEW i \in 1 .. (Sources + 1) PROVE DocumentFits(emitted[i])
  <2>1. emitted[i] = Admitted(i, place, config)
    BY <1>3, <1>8, Zenon DEF InPlaces
  <2>2. CASE i = place
    <3>1. emitted[i] = Doc("CONFIG_ADMISSION", Null, [validated_config |-> config], NoEntries)
      BY <2>1, <2>2, Zenon DEF Admitted
    <3> QED BY <3>1, PlainFits
  <2>3. CASE i # place
    <3>1. emitted[i] = Doc("SOURCE_ADMISSION", Null, [fixture_manifest |-> Fixture], NoEntries)
      BY <2>1, <2>3, Zenon DEF Admitted
    <3> QED BY <3>1, PlainFits
  <2> QED BY <2>2, <2>3
<1>9. DocumentFits(emitted[Sources + 2]) /\ DocumentFits(emitted[Sources + 4])
  <2>1. \E context : emitted[Sources + 2] = Doc("RUN_RECEIPT", Null, context, NoEntries)
    BY <1>3, Zenon DEF InPlaces
  <2>2. \E context : emitted[Sources + 4] = Doc("RECONCILIATION", Null, context, NoEntries)
    BY <1>3, Zenon DEF InPlaces
  <2> QED BY <2>1, <2>2, PlainFits
<1>10. DocumentFits(emitted[Sources + 3])
  <2>1. \E context : emitted[Sources + 3] = Doc("PORTFOLIO_STATE", Genesis(run), context, NoEntries)
    BY <1>2, <1>3, Zenon DEF InPlaces
  <2> QED BY <1>7, <2>1, NothingPosted, StateFits
<1>11. BooksAddUp
  BY <1>5, <1>6, <1>8, <1>9, <1>10 DEF BooksAddUp, DocumentFits
<1>12. /\ phase = "GROUP_GATE" /\ group = 0 /\ price = 0 /\ intent = Null
       /\ portfolio = Genesis(run)
  BY <1>2 DEF Init
<1> QED BY <1>4, <1>7, <1>11, <1>12 DEF BooksInv, Stages

-----------------------------------------------------------------------------
(* The theorem *)

\* The documents and postings of a run agree with each other (contract_semantics.py:
\* 1091-1366, 1402-1583, 1670-1694), for any number of admissions and groups, any
\* capital, fee, prices and quantities, and whatever is decided: unless a figure does
\* not fit its format, the validators accept every intent and fill and derive every
\* state as it is; postings balance, and equity is capital plus the session's result.
THEOREM BooksAddUpAlways == Spec => []BooksAddUp
<1>1. Init => BooksInv /\ BooksAddUp
  BY InitBooks
<1>2. TraceInv => named.state # Null /\ Object(3) # Null
  <2> SUFFICES ASSUME TraceInv PROVE named.state # Null /\ Object(3) # Null
    OBVIOUS
  <2>1. PICK l \in Nat, s \in Nat : Standing(l, s)
    BY Before
  <2>2. Object(3) # Null
    BY <2>1, ObjectPlace
  <2>3. named.state = ObjectAt(s) /\ s \in Nat
    BY <2>1 DEF Standing
  <2> QED BY <2>2, <2>3, ObjectDigests
<1>3. TraceInv /\ BooksInv /\ BooksAddUp /\ [Next]_vars => BooksInv' /\ BooksAddUp'
  <2> SUFFICES ASSUME TraceInv, BooksInv, BooksAddUp, [Next]_vars PROVE BooksInv' /\ BooksAddUp'
    OBVIOUS
  <2>1. named.state # Null /\ Object(3) # Null
    BY <1>2
  <2>2. CASE UNCHANGED vars
    <3>1. /\ phase' = phase /\ group' = group /\ price' = price /\ portfolio' = portfolio
          /\ intent' = intent /\ emitted' = emitted
      BY <2>2 DEF vars
    <3>2. BooksInv'
      BY <3>1 DEF BooksInv, IntentSound
    <3>3. BooksAddUp'
      BY <3>1 DEF BooksAddUp
    <3> QED BY <3>2, <3>3
  <2>3. CASE Next
    BY <2>1, <2>3, RawBooks, FillBooks, MarkBooks, SnapshotBooks, ApproveBooks, DenyBooks, KillBooks,
       FinalBooks, EndBooks DEF Next
  <2> QED BY <2>2, <2>3
<1>4. Spec => []TraceInv
  BY TraceInvariant
<1> QED BY <1>1, <1>3, <1>4, PTL DEF Spec
=============================================================================
