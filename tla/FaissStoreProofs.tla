--------------------------- MODULE FaissStoreProofs ---------------------------
(***************************************************************************)
(* What the FAISS adapter guarantees for any keys, versions and ids, whatever *)
(* the order of its operations and wherever its process is killed, proved     *)
(* with TLAPS for an adapter that is the only one on its files.              *)
(***************************************************************************)
EXTENDS FaissStore, FiniteSetTheorems, TLAPS

\* Each adapter works on its own copy of the files: with two of them the last one to
\* persist undoes what the other did.
OneAdapter == \A i, j \in Insts : i = j

-----------------------------------------------------------------------------
(* The inductive invariant: types.                                            *)

Ids == 1..MaxIds
Entries == [id : Ids, key : Keys, version : Versions]
RecordMaps == UNION {[S -> [id : Ids, version : Versions, flagged : BOOLEAN]] : S \in SUBSET Keys}
Disks == [index : Seq(Entries), records : RecordMaps, next : 1..MaxIds + 1, excluded : SUBSET Ids]
Mems == [index : Seq(Entries), records : RecordMaps, next : 1..MaxIds + 1, excluded : SUBSET Ids,
         hidden : SUBSET Keys]
Acts == [step : {"closed", "reading records", "reading excluded", "ready", "persisting",
                 "persisting records", "persisting excluded"},
         op : {"none", "close", "add", "suppress", "delete", "reclaim", "reclaimed"},
         key : Keys \union {Closed.key}]

FilesTyped ==
    /\ disk \in Disks /\ IsFiniteSet(DOMAIN disk.records)
    /\ mem \in [Insts -> Mems] /\ \A i \in Insts : IsFiniteSet(DOMAIN mem[i].records)
    /\ at \in [Insts -> Acts]
    /\ \A i \in Insts : at[i].op \in {"add", "suppress", "delete", "reclaim"} => at[i].key \in Keys

GhostsTyped ==
    /\ born \in UNION {[S -> Versions] : S \in SUBSET Keys}
    /\ asked \subseteq Keys /\ verified \subseteq asked /\ recycled \subseteq Keys
    /\ cut \in BOOLEAN /\ kills \in 0..MaxKills

Typed == FilesTyped /\ GhostsTyped

-----------------------------------------------------------------------------
(* The inductive invariant: an index and the records beside it.               *)

\* The last vector with the record's id is the record's.
Own(index, records, k) ==
    \E p \in DOMAIN index :
       /\ index[p] = [id |-> records[k].id, key |-> k, version |-> records[k].version]
       /\ \A q \in DOMAIN index : index[q].id = records[k].id => q <= p

\* Only a record that was asked for may be without a vector.
Sound(index, records, wanted) ==
    \A k \in DOMAIN records :
       Own(index, records, k) \/ (k \in wanted /\ ~HasVector(index, records[k].id))

\* Every record has an id of its own, below the next one.
Numbered(records, next) ==
    \A k \in DOMAIN records : /\ records[k].id < next
                              /\ \A j \in DOMAIN records : records[j].id = records[k].id => j = k

\* A vector is of a version that the lineage knows, unless its key was recycled.
Known(index, first, again) ==
    \A r \in Range(index) : /\ r.key \in DOMAIN first
                            /\ r.key \notin again => r.version = first[r.key]

\* What is verified is neither in the one nor in the other.
Free(index, records, gone) ==
    \A k \in gone : /\ k \notin DOMAIN records
                    /\ \A r \in Range(index) : r.key # k

Answering(index, records) ==
    \A r \in Range(index) : \A k \in DOMAIN records : records[k].id = r.id => r.key = k
Below(index, next) == \A r \in Range(index) : r.id < next

Together(index, records, next) ==
    /\ Sound(index, records, asked)
    /\ Numbered(records, next)
    /\ Known(index, born, recycled)
    /\ Free(index, records, verified \ recycled)
    /\ cut \/ Answering(index, records)

-----------------------------------------------------------------------------
(* The inductive invariant: an adapter's copy and the files.                  *)

\* An index that was replaced already by an add, whose record was not.
AddCutIn(i) == at[i].step = "persisting records" /\ at[i].op = "add"

Files3 ==
    /\ Together(disk.index, disk.records, disk.next)
    /\ cut \/ (\E i \in Insts : AddCutIn(i)) \/ Below(disk.index, disk.next)

\* The record of a key is the same in the copy, or was taken out of it on demand.
Left(i, j) ==
    /\ j \in DOMAIN mem[i].records =>
         j \in DOMAIN disk.records /\ mem[i].records[j] = disk.records[j]
    /\ j \in DOMAIN disk.records /\ j \notin DOMAIN mem[i].records => j \in asked
\* It was written, or suppressed, in the copy.
Wrote(i, k) ==
    /\ k \in DOMAIN mem[i].records /\ ~mem[i].records[k].flagged
    /\ Own(mem[i].index, mem[i].records, k)
    /\ k \notin verified
Hid(i, k) ==
    /\ k \in DOMAIN mem[i].records =>
         /\ k \in DOMAIN disk.records
         /\ mem[i].records[k] = [disk.records[k] EXCEPT !.flagged = TRUE]
    /\ k \in DOMAIN disk.records /\ k \notin DOMAIN mem[i].records => k \in asked

\* The copy's records are those of the files but for the operation under way.
Follows(i) ==
    /\ \A j \in Keys : j # at[i].key \/ at[i].op \notin {"add", "suppress"} => Left(i, j)
    /\ at[i].op = "add" => Wrote(i, at[i].key)
    /\ at[i].op = "suppress" => Hid(i, at[i].key)
    /\ at[i].op # "add" => mem[i].next = disk.next

\* Its index is that of the files, with one vector more, or with fewer of them.
Grew(i) ==
    at[i].op = "add" =>
       \E r \in Entries : /\ r.key = at[i].key
                          /\ Range(mem[i].index) = Range(disk.index) \union {r}
Shrank(i) == at[i].op # "add" => Range(mem[i].index) \subseteq Range(disk.index)

Copy(i) ==
    /\ Together(mem[i].index, mem[i].records, mem[i].next)
    /\ at[i].step = "closed" => mem[i] = Blank
    /\ at[i].step = "reading records" => mem[i] = [Blank EXCEPT !.index = disk.index]
    /\ at[i].step \notin {"closed", "reading records"} => cut \/ Below(mem[i].index, mem[i].next)
    /\ at[i].step = "reading excluded" =>
         /\ mem[i].index = disk.index /\ mem[i].records = disk.records /\ mem[i].next = disk.next
    /\ at[i].step = "ready" =>
         /\ mem[i].index = disk.index /\ mem[i].next = disk.next
         /\ \A j \in Keys : Left(i, j)
    /\ at[i].step = "persisting" =>
         /\ Grew(i) /\ Shrank(i) /\ Follows(i)
         /\ Sound(mem[i].index, disk.records, asked)
         /\ cut \/ Answering(mem[i].index, disk.records)
    /\ at[i].step = "persisting records" => mem[i].index = disk.index /\ Follows(i)
    /\ at[i].step = "persisting excluded" =>
         /\ mem[i].index = disk.index /\ mem[i].records = disk.records /\ mem[i].next = disk.next

IndInv == Typed /\ Files3 /\ \A i \in Insts : Copy(i)

-----------------------------------------------------------------------------
(* What the operators on indexes and records do.                              *)

LEMMA RangeFacts ==
    ASSUME NEW index \in Seq(Entries)
    PROVE  /\ Range(index) \subseteq Entries
           /\ \A p \in DOMAIN index : index[p] \in Range(index) /\ index[p] \in Entries
           /\ \A r \in Range(index) : \E p \in DOMAIN index : r = index[p]
BY DEF Range

LEMMA RecordFacts ==
    /\ << >> \in RecordMaps /\ DOMAIN << >> = {} /\ << >> \in Seq(Entries) /\ Range(<< >>) = {}
    /\ \A R \in RecordMaps :
         /\ DOMAIN R \subseteq Keys
         /\ R \in [DOMAIN R -> [id : Ids, version : Versions, flagged : BOOLEAN]]
         /\ \A k \in DOMAIN R : /\ R[k] \in [id : Ids, version : Versions, flagged : BOOLEAN]
                                /\ R[k].id \in Ids /\ R[k].version \in Versions
    /\ \A S \in SUBSET Keys :
         \A R \in [S -> [id : Ids, version : Versions, flagged : BOOLEAN]] : R \in RecordMaps
BY DEF RecordMaps, Range

LEMMA WithFacts ==
    ASSUME NEW R \in RecordMaps, NEW k \in Keys, IsFiniteSet(DOMAIN R),
           NEW x \in [id : Ids, version : Versions, flagged : BOOLEAN]
    PROVE  /\ With(R, k, x) \in RecordMaps
           /\ DOMAIN With(R, k, x) = DOMAIN R \union {k} /\ IsFiniteSet(DOMAIN With(R, k, x))
           /\ With(R, k, x)[k] = x
           /\ \A j \in DOMAIN R : j # k => With(R, k, x)[j] = R[j]
<1>1. With(R, k, x) \in [DOMAIN R \union {k} -> [id : Ids, version : Versions, flagged : BOOLEAN]]
  BY RecordFacts DEF With
<1>2. IsFiniteSet(DOMAIN R \union {k})
  BY FS_AddElement
<1>3. DOMAIN R \union {k} \in SUBSET Keys
  BY RecordFacts
<1>4. DOMAIN With(R, k, x) = DOMAIN R \union {k}
  BY DEF With
<1>5. With(R, k, x)[k] = x /\ \A j \in DOMAIN R : j # k => With(R, k, x)[j] = R[j]
  BY DEF With
<1> HIDE DEF With
<1> QED
  BY <1>1, <1>2, <1>3, <1>4, <1>5, RecordFacts

LEMMA AppendFacts ==
    ASSUME NEW index \in Seq(Entries), NEW r \in Entries
    PROVE  /\ Append(index, r) \in Seq(Entries)
           /\ Range(Append(index, r)) = Range(index) \union {r}
           /\ \A id \in Ids : id # r.id => (HasVector(Append(index, r), id) <=> HasVector(index, id))
<1>1. /\ Append(index, r) \in Seq(Entries) /\ Len(Append(index, r)) = Len(index) + 1
      /\ Append(index, r)[Len(index) + 1] = r
      /\ \A p \in 1..Len(index) : Append(index, r)[p] = index[p]
  OBVIOUS
<1>2. DOMAIN index = 1..Len(index) /\ DOMAIN Append(index, r) = 1..Len(index) + 1 /\ Len(index) \in Nat
  OBVIOUS
<1>3. Range(Append(index, r)) = Range(index) \union {r}
  BY <1>1, <1>2 DEF Range
<1>4. ASSUME NEW id \in Ids, id # r.id
      PROVE  HasVector(Append(index, r), id) <=> HasVector(index, id)
  BY <1>1, <1>2, <1>4 DEF HasVector
<1> QED
  BY <1>1, <1>3, <1>4

\* A new vector under another id leaves every record its own, and its own record too.
LEMMA AppendOwn ==
    ASSUME NEW index \in Seq(Entries), NEW r \in Entries, NEW R, NEW k,
           R[k].id # r.id => Own(index, R, k),
           R[k].id = r.id => r.key = k /\ r.version = R[k].version
    PROVE  Own(Append(index, r), R, k)
<1>1. /\ Len(index) \in Nat
      /\ Append(index, r)[Len(index) + 1] = r
      /\ \A p \in 1..Len(index) : Append(index, r)[p] = index[p]
      /\ DOMAIN index = 1..Len(index) /\ DOMAIN Append(index, r) = 1..Len(index) + 1
  OBVIOUS
<1>2. CASE R[k].id = r.id
  <2>1. r = [id |-> R[k].id, key |-> k, version |-> R[k].version]
    BY <1>2 DEF Entries
  <2> QED
    BY <1>1, <2>1 DEF Own
<1>3. CASE R[k].id # r.id
  BY <1>1, <1>3 DEF Own
<1> QED
  BY <1>2, <1>3

\* What holds of every vector holds of some of them.
LEMMA FewerVectors ==
    ASSUME NEW few, NEW many, Range(few) \subseteq Range(many)
    PROVE  /\ \A n : Below(many, n) => Below(few, n)
           /\ \A R : Answering(many, R) => Answering(few, R)
           /\ \A first, again : Known(many, first, again) => Known(few, first, again)
BY DEF Below, Answering, Known

LEMMA SoundMore ==
    ASSUME NEW index, NEW R, NEW some, NEW more, Sound(index, R, some), some \subseteq more
    PROVE  Sound(index, R, more)
BY DEF Sound

LEMMA SetToSeqFacts ==
    ASSUME NEW S, IsFiniteSet(S)
    PROVE  /\ Cardinality(S) \in Nat
           /\ SetToSeq(S) \in [1..Cardinality(S) -> S]
           /\ \A k \in S : \E j \in 1..Cardinality(S) : SetToSeq(S)[j] = k
           /\ \A a, b \in 1..Cardinality(S) : SetToSeq(S)[a] = SetToSeq(S)[b] => a = b
<1>1. Cardinality(S) \in Nat /\ ExistsBijection(1..Cardinality(S), S)
  BY FS_CardinalityType
<1>2. \E f \in [1..Cardinality(S) -> S] : IsInjective(f)
  BY <1>1 DEF ExistsBijection, Bijection, Injection, IsInjective
<1>3. SetToSeq(S) \in [1..Cardinality(S) -> S] /\ IsInjective(SetToSeq(S))
  BY <1>2 DEF SetToSeq
<1>4. SetToSeq(S) \in Injection(1..Cardinality(S), S)
  BY <1>3 DEF Injection
<1>5. IsFiniteSet(1..Cardinality(S)) /\ Cardinality(1..Cardinality(S)) = Cardinality(S)
  BY <1>1, FS_Interval
<1>6. SetToSeq(S) \in Surjection(1..Cardinality(S), S)
  BY <1>4, <1>5, FS_Injection
<1> QED
  BY <1>1, <1>3, <1>6 DEF Surjection, IsInjective

\* The rebuilt index has one vector of every record, its own, and no other.
LEMMA RebuiltFacts ==
    ASSUME NEW m \in Mems, IsFiniteSet(DOMAIN m.records), NEW next,
           Numbered(m.records, next),
           \A k \in DOMAIN m.records : Own(m.index, m.records, k)
    PROVE  /\ Rebuilt(m) \in Seq(Entries)
           /\ Range(Rebuilt(m)) \subseteq Range(m.index)
           /\ \A k \in DOMAIN m.records : Own(Rebuilt(m), m.records, k)
           /\ \A r \in Range(Rebuilt(m)) : \E k \in DOMAIN m.records : r.id = m.records[k].id
<1> DEFINE R == m.records
           N == Cardinality(DOMAIN R)
           key == SetToSeq(DOMAIN R)
           new == Rebuilt(m)
<1>1. /\ N \in Nat /\ key \in [1..N -> DOMAIN R]
      /\ \A k \in DOMAIN R : \E j \in 1..N : key[j] = k
      /\ \A a, b \in 1..N : key[a] = key[b] => a = b
  BY SetToSeqFacts
<1>2. m.index \in Seq(Entries) /\ R \in RecordMaps
  BY DEF Mems
<1>3. ASSUME NEW k \in DOMAIN R
      PROVE  /\ PlaceOf(m.index, R[k].id) \in DOMAIN m.index
             /\ m.index[PlaceOf(m.index, R[k].id)] =
                  [id |-> R[k].id, key |-> k, version |-> R[k].version]
  <2> DEFINE p == PlaceOf(m.index, R[k].id)
  <2>1. PICK o \in DOMAIN m.index :
               /\ m.index[o] = [id |-> R[k].id, key |-> k, version |-> R[k].version]
               /\ \A q \in DOMAIN m.index : m.index[q].id = R[k].id => q <= o
    BY DEF Own
  <2>2. /\ p \in DOMAIN m.index /\ m.index[p].id = R[k].id
        /\ \A q \in DOMAIN m.index : m.index[q].id = R[k].id => q <= p
    <3>1. m.index[o].id = R[k].id
      BY <2>1
    <3>2. \E x \in DOMAIN m.index : /\ m.index[x].id = R[k].id
                                    /\ \A q \in DOMAIN m.index : m.index[q].id = R[k].id => q <= x
      BY <2>1, <3>1
    <3> HIDE DEF R
    <3> QED
      BY <3>2 DEF PlaceOf
  <2>3. p = o
    BY <1>2, <2>1, <2>2
  <2> QED
    BY <2>1, <2>2, <2>3
<1>4. /\ new = [j \in 1..N |-> m.index[PlaceOf(m.index, R[key[j]].id)]]
      /\ DOMAIN new = 1..N
  BY DEF Rebuilt
<1>5. \A j \in 1..N : /\ new[j] = [id |-> R[key[j]].id, key |-> key[j], version |-> R[key[j]].version]
                      /\ new[j] \in Range(m.index) /\ new[j] \in Entries
  <2> SUFFICES ASSUME NEW j \in 1..N
               PROVE  /\ new[j] = [id |-> R[key[j]].id, key |-> key[j], version |-> R[key[j]].version]
                      /\ new[j] \in Range(m.index) /\ new[j] \in Entries
    OBVIOUS
  <2>1. key[j] \in DOMAIN R
    BY <1>1
  <2> HIDE DEF R, N, key, new
  <2>2. new[j] = m.index[PlaceOf(m.index, R[key[j]].id)]
    BY <1>4
  <2> QED
    BY <1>2, <1>3, <2>1, <2>2, RangeFacts
<1> HIDE DEF new, key, N, R
<1>6. \A j \in 1..N : key[j] \in DOMAIN R /\ new[j].id = R[key[j]].id
  <2> TAKE j \in 1..N
  <2>1. key[j] \in DOMAIN R
    BY <1>1
  <2>2. new[j] = [id |-> R[key[j]].id, key |-> key[j], version |-> R[key[j]].version]
    BY <1>5
  <2> QED
    BY <2>1, <2>2
<1>7. new \in Seq(Entries)
  <2>1. new \in [1..N -> Entries]
    BY <1>4, <1>5
  <2> QED
    BY <1>1, <2>1
<1>8. Range(new) \subseteq Range(m.index)
  BY <1>4, <1>5 DEF Range
<1>9. \A r \in Range(new) : \E k \in DOMAIN R : r.id = R[k].id
  BY <1>4, <1>6 DEF Range
<1>10. ASSUME NEW k \in DOMAIN R PROVE Own(new, R, k)
  <2>1. PICK j \in 1..N : key[j] = k
    BY <1>1
  <2>2. ASSUME NEW q \in 1..N, new[q].id = R[k].id PROVE q = j
    <3>1. R[key[q]].id = R[k].id /\ key[q] \in DOMAIN R
      BY <1>6, <2>2
    <3>2. key[q] = k
      BY <3>1 DEF Numbered, R
    <3> QED
      BY <1>1, <2>1, <3>2
  <2>3. j <= j
    BY <1>1
  <2> QED
    BY <1>4, <1>5, <2>1, <2>2, <2>3 DEF Own
<1> QED
  BY <1>7, <1>8, <1>9, <1>10 DEF new, R

-----------------------------------------------------------------------------
(* What the invariant says of the files, of a copy and of a step.             *)

LEMMA DiskFacts ==
    ASSUME Typed
    PROVE  /\ disk \in Disks /\ IsFiniteSet(DOMAIN disk.records)
           /\ disk.index \in Seq(Entries) /\ disk.records \in RecordMaps
           /\ disk.next \in 1..MaxIds + 1 /\ disk.excluded \subseteq Ids
BY DEF Typed, FilesTyped, Disks

LEMMA MemFacts ==
    ASSUME Typed, NEW i \in Insts
    PROVE  /\ mem[i] \in Mems /\ mem \in [Insts -> Mems] /\ IsFiniteSet(DOMAIN mem[i].records)
           /\ mem[i].index \in Seq(Entries) /\ mem[i].records \in RecordMaps
           /\ mem[i].next \in 1..MaxIds + 1 /\ mem[i].excluded \subseteq Ids
           /\ mem[i].hidden \subseteq Keys
BY DEF Typed, FilesTyped, Mems

LEMMA ActFacts ==
    ASSUME Typed, NEW i \in Insts
    PROVE  /\ at[i] \in Acts /\ at \in [Insts -> Acts]
           /\ at[i].op \in {"add", "suppress", "delete", "reclaim"} => at[i].key \in Keys
           /\ at[i].key \in Keys \union {Closed.key}
BY DEF Typed, FilesTyped, Acts

LEMMA ConstantFacts ==
    /\ Blank \in Mems /\ DOMAIN Blank.records = {} /\ Range(Blank.index) = {}
    /\ Blank.records = << >> /\ Blank.index = << >> /\ Blank.hidden = {} /\ IsFiniteSet({})
    /\ Closed \in Acts /\ Closed.step = "closed" /\ Closed.op = "none"
    /\ Rest \in Acts /\ Rest.step = "ready" /\ Rest.op = "none"
    /\ Empty \in Disks /\ DOMAIN Empty.records = {} /\ Range(Empty.index) = {}
<1>1. 1 \in 1..MaxIds + 1
  BY BoundsAssumption
<1>2. Blank \in Mems /\ Empty \in Disks
  BY <1>1, RecordFacts DEF Blank, Mems, Empty, Disks
<1>3. Closed \in Acts /\ Rest \in Acts
  BY DEF Closed, Rest, Doing, Acts
<1> QED
  BY <1>2, <1>3, RecordFacts, FS_EmptySet DEF Blank, Empty, Closed, Rest, Doing

\* What an adapter turns its copy into, and what it does next.
StepTyped(i, d, m, a) ==
    /\ d \in Disks /\ IsFiniteSet(DOMAIN d.records) /\ disk' = d
    /\ m \in Mems /\ IsFiniteSet(DOMAIN m.records) /\ mem' = [mem EXCEPT ![i] = m]
    /\ a \in Acts /\ at' = [at EXCEPT ![i] = a]
    /\ a.op \in {"add", "suppress", "delete", "reclaim"} => a.key \in Keys

LEMMA StepFacts ==
    ASSUME OneAdapter, IndInv, NEW i \in Insts, NEW d, NEW m, NEW a, StepTyped(i, d, m, a)
    PROVE  /\ FilesTyped'
           /\ disk' = d /\ mem'[i] = m /\ at'[i] = a
           /\ GhostsTyped' /\ Files3' /\ Copy(i)' => IndInv'
<1>1. mem \in [Insts -> Mems] /\ at \in [Insts -> Acts] /\ \A j \in Insts : j = i
  BY DEF IndInv, Typed, FilesTyped, OneAdapter
<1>2. mem'[i] = m /\ at'[i] = a /\ mem' \in [Insts -> Mems] /\ at' \in [Insts -> Acts]
  BY <1>1 DEF StepTyped
<1>3. FilesTyped'
  <2>1. \A j \in Insts : IsFiniteSet(DOMAIN mem'[j].records)
    BY <1>1, <1>2 DEF StepTyped
  <2>2. \A j \in Insts : at'[j].op \in {"add", "suppress", "delete", "reclaim"} => at'[j].key \in Keys
    BY <1>1, <1>2 DEF StepTyped
  <2> QED
    BY <1>2, <2>1, <2>2 DEF FilesTyped, StepTyped
<1>4. GhostsTyped' /\ Files3' /\ Copy(i)' => IndInv'
  <2> SUFFICES ASSUME GhostsTyped', Files3', Copy(i)' PROVE IndInv'
    OBVIOUS
  <2>1. \A j \in Insts : Copy(j)'
    BY <1>1
  <2> QED
    BY <1>3, <2>1 DEF IndInv, Typed
<1> QED
  BY <1>2, <1>3, <1>4 DEF StepTyped

LEMMA BlankTogether ==
    ASSUME NEW R, NEW next, DOMAIN R = {}, NEW index, Range(index) = {}
    PROVE  Together(index, R, next)
BY DEF Together, Sound, Numbered, Known, Free, Answering

LEMMA InitInv == Init => IndInv
<1> SUFFICES ASSUME Init PROVE IndInv
  OBVIOUS
<1>1. FilesTyped
  BY ConstantFacts DEF Init, FilesTyped
<1>2. GhostsTyped
  <2>1. cut \in BOOLEAN
    BY DEF Init
  <2>2. born \in UNION {[S -> Versions] : S \in SUBSET Keys}
    <3>1. << >> \in [{} -> Versions]
      OBVIOUS
    <3> QED
      BY <3>1 DEF Init
  <2>3. kills \in 0..MaxKills /\ verified \subseteq asked /\ asked \subseteq Keys /\ recycled \subseteq Keys
    BY BoundsAssumption DEF Init
  <2> QED
    BY <2>1, <2>2, <2>3 DEF GhostsTyped
<1>3. Files3
  BY ConstantFacts, BlankTogether DEF Init, Files3, Below
<1>4. ASSUME NEW i \in Insts PROVE Copy(i)
  BY ConstantFacts, BlankTogether DEF Init, Copy
<1> QED
  BY <1>1, <1>2, <1>3, <1>4 DEF IndInv, Typed

-----------------------------------------------------------------------------
(* Opening.                                                                   *)

LEMMA OpenIndexInv == ASSUME OneAdapter, IndInv, NEW i \in Insts, OpenIndex(i) PROVE IndInv'
<1> DEFINE m == [Blank EXCEPT !.index = disk.index]
           a == [at[i] EXCEPT !.step = "reading records"]
<1>1. /\ m \in Mems /\ m.index = disk.index /\ m.records = << >> /\ m.next = 1
      /\ IsFiniteSet(DOMAIN m.records) /\ DOMAIN m.records = {}
  <2>1. Blank \in Mems /\ Blank.records = << >> /\ Blank.next = 1 /\ DOMAIN << >> = {}
    BY ConstantFacts, RecordFacts DEF Blank
  <2>2. disk.index \in Seq(Entries)
    BY DiskFacts DEF IndInv
  <2>3. m \in Mems /\ m.index = disk.index /\ m.records = Blank.records /\ m.next = Blank.next
    BY <2>1, <2>2 DEF Mems
  <2> HIDE DEF m
  <2> QED
    BY <2>1, <2>3, ConstantFacts
<1>2. a \in Acts /\ a.step = "reading records" /\ a.op = at[i].op /\ a.key = at[i].key
  BY ActFacts DEF IndInv, Acts
<1>3. StepTyped(i, disk, m, a)
  <2>1. mem' = [mem EXCEPT ![i] = m] /\ at' = [at EXCEPT ![i] = a] /\ disk' = disk
    BY ActFacts DEF OpenIndex, IndInv, Acts
  <2> HIDE DEF m, a
  <2> QED
    BY <1>1, <1>2, <2>1, DiskFacts, ActFacts DEF StepTyped, IndInv
<1>4. m = [Blank EXCEPT !.index = disk.index]
  OBVIOUS
<1> HIDE DEF m, a
<1>5. disk' = disk /\ mem'[i] = m /\ at'[i] = a
  BY <1>3, StepFacts
<1>6. GhostsTyped'
  BY DEF OpenIndex, IndInv, Typed, GhostsTyped
<1>7. Files3'
  BY <1>2, <1>5 DEF OpenIndex, IndInv, Files3, Together, AddCutIn, OneAdapter
<1>8. Copy(i)'
  <2>1. Together(disk.index, << >>, 1)
    BY RecordFacts DEF IndInv, Files3, Together, Sound, Numbered, Known, Free, Answering
  <2>2. Together(mem[i].index, mem[i].records, mem[i].next)'
    BY <1>1, <1>5, <2>1 DEF OpenIndex, Together
  <2> QED
    BY <1>1, <1>2, <1>4, <1>5, <2>2 DEF Copy
<1> QED
  BY <1>3, <1>6, <1>7, <1>8, StepFacts

\* Whoever leaves the files and what happened alone, and is not in the middle of an
\* add's files, leaves the files sound.
LEMMA FilesAlone ==
    ASSUME OneAdapter, IndInv, NEW i \in Insts, at[i].step # "persisting records",
           UNCHANGED <<disk, born, recycled, cut>>, asked \subseteq asked',
           verified' \subseteq verified
    PROVE  Files3'
<1>1. Below(disk.index, disk.next) \/ cut
  BY DEF IndInv, Files3, AddCutIn, OneAdapter
<1>2. Together(disk.index, disk.records, disk.next)
  BY DEF IndInv, Files3
<1>3. Sound(disk.index, disk.records, asked') /\ Numbered(disk.records, disk.next)
      /\ Known(disk.index, born, recycled)
  BY <1>2, SoundMore DEF Together
<1>4. Free(disk.index, disk.records, verified' \ recycled)
  BY <1>2 DEF Together, Free
<1> QED
  BY <1>1, <1>2, <1>3, <1>4 DEF Files3, Together

LEMMA OpenRecordsInv == ASSUME OneAdapter, IndInv, NEW i \in Insts, OpenRecords(i) PROVE IndInv'
<1> DEFINE m == [mem[i] EXCEPT !.records = disk.records, !.next = disk.next]
           a == [at[i] EXCEPT !.step = "reading excluded"]
<1>1. /\ m \in Mems /\ m.index = disk.index /\ m.records = disk.records /\ m.next = disk.next
      /\ IsFiniteSet(DOMAIN m.records)
  <2>1. mem[i].index = disk.index
    BY DiskFacts, ConstantFacts DEF OpenRecords, IndInv, Copy, Mems
  <2>2. m \in Mems /\ m.index = mem[i].index /\ m.records = disk.records /\ m.next = disk.next
    BY MemFacts, DiskFacts DEF IndInv, Mems
  <2> QED
    BY <2>1, <2>2, DiskFacts DEF IndInv
<1>2. a \in Acts /\ a.step = "reading excluded" /\ a.op = at[i].op /\ a.key = at[i].key
  BY ActFacts DEF IndInv, Acts
<1>3. StepTyped(i, disk, m, a)
  <2>1. mem' = [mem EXCEPT ![i] = m] /\ at' = [at EXCEPT ![i] = a] /\ disk' = disk
    BY ActFacts, MemFacts DEF OpenRecords, IndInv, Acts, Mems
  <2> HIDE DEF m, a
  <2> QED
    BY <1>1, <1>2, <2>1, DiskFacts, ActFacts DEF StepTyped, IndInv
<1> HIDE DEF m, a
<1>4. disk' = disk /\ mem'[i] = m /\ at'[i] = a
  BY <1>3, StepFacts
<1>5. GhostsTyped' /\ Files3'
  BY FilesAlone DEF OpenRecords, IndInv, Typed, GhostsTyped
<1>6. Copy(i)'
  <2>1. Together(mem[i].index, mem[i].records, mem[i].next)'
    BY <1>1, <1>4, <1>5 DEF Files3
  <2>2. cut \/ Below(disk.index, disk.next)
    BY DEF OpenRecords, IndInv, Files3, AddCutIn, OneAdapter
  <2> QED
    BY <1>1, <1>2, <1>4, <2>1, <2>2 DEF OpenRecords, Copy
<1> QED
  BY <1>3, <1>5, <1>6, StepFacts

LEMMA OpenExcludedInv == ASSUME OneAdapter, IndInv, NEW i \in Insts, OpenExcluded(i) PROVE IndInv'
<1> DEFINE m == [mem[i] EXCEPT !.excluded = disk.excluded]
<1>1. /\ m \in Mems /\ m.index = mem[i].index /\ m.records = mem[i].records /\ m.next = mem[i].next
      /\ IsFiniteSet(DOMAIN m.records)
  BY MemFacts, DiskFacts DEF IndInv, Mems
<1>2. mem[i].index = disk.index /\ mem[i].records = disk.records /\ mem[i].next = disk.next
  BY DEF OpenExcluded, IndInv, Copy
<1>3. StepTyped(i, disk, m, Rest)
  <2>1. mem' = [mem EXCEPT ![i] = m] /\ at' = [at EXCEPT ![i] = Rest] /\ disk' = disk
    BY MemFacts DEF OpenExcluded, IndInv, Mems
  <2> HIDE DEF m
  <2> QED
    BY <1>1, <2>1, DiskFacts, ConstantFacts DEF StepTyped, IndInv
<1> HIDE DEF m
<1>4. disk' = disk /\ mem'[i] = m /\ at'[i] = Rest
  BY <1>3, StepFacts
<1>5. GhostsTyped' /\ Files3'
  BY FilesAlone DEF OpenExcluded, IndInv, Typed, GhostsTyped
<1>6. Copy(i)'
  <2>1. Together(mem[i].index, mem[i].records, mem[i].next)'
    BY <1>1, <1>2, <1>4, <1>5 DEF Files3
  <2>2. cut \/ Below(disk.index, disk.next)
    BY DEF OpenExcluded, IndInv, Files3, AddCutIn, OneAdapter
  <2>3. \A j \in Keys : Left(i, j)'
    BY <1>1, <1>2, <1>4 DEF Left
  <2> QED
    BY <1>1, <1>2, <1>4, <2>1, <2>2, <2>3, ConstantFacts DEF OpenExcluded, Copy
<1> QED
  BY <1>3, <1>5, <1>6, StepFacts

-----------------------------------------------------------------------------
(* Persisting.                                                                *)

LEMMA PersistIndexInv == ASSUME OneAdapter, IndInv, NEW i \in Insts, PersistIndex(i) PROVE IndInv'
<1> DEFINE d == [disk EXCEPT !.index = mem[i].index]
           a == [at[i] EXCEPT !.step = "persisting records"]
<1>1. /\ d \in Disks /\ d.index = mem[i].index /\ d.records = disk.records /\ d.next = disk.next
      /\ IsFiniteSet(DOMAIN d.records)
  BY MemFacts, DiskFacts DEF IndInv, Disks
<1>2. a \in Acts /\ a.step = "persisting records" /\ a.op = at[i].op /\ a.key = at[i].key
  BY ActFacts DEF IndInv, Acts
<1>3. StepTyped(i, d, mem[i], a)
  <2>1. mem' = [mem EXCEPT ![i] = mem[i]] /\ at' = [at EXCEPT ![i] = a] /\ disk' = d
    BY MemFacts, ActFacts DEF PersistIndex, IndInv, Acts
  <2> HIDE DEF d, a
  <2> QED
    BY <1>1, <1>2, <2>1, MemFacts, ActFacts DEF StepTyped, IndInv
<1> HIDE DEF d, a
<1>4. disk' = d /\ mem'[i] = mem[i] /\ at'[i] = a
  BY <1>3, StepFacts
<1>5. GhostsTyped'
  BY DEF PersistIndex, IndInv, Typed, GhostsTyped
<1>6. /\ Together(mem[i].index, mem[i].records, mem[i].next)
      /\ Grew(i) /\ Shrank(i) /\ Follows(i) /\ Sound(mem[i].index, disk.records, asked)
      /\ cut \/ Answering(mem[i].index, disk.records)
      /\ cut \/ Below(mem[i].index, mem[i].next)
      /\ Together(disk.index, disk.records, disk.next)
  BY DEF PersistIndex, IndInv, Copy, Files3
<1>7. Together(disk.index, disk.records, disk.next)'
  <2>1. ASSUME NEW k \in verified \ recycled
        PROVE  k \notin DOMAIN disk.records /\ \A r \in Range(mem[i].index) : r.key # k
    BY <1>6 DEF Together, Free
  <2>2. Free(mem[i].index, disk.records, verified \ recycled)
    BY <2>1 DEF Free
  <2> QED
    BY <1>1, <1>4, <1>6, <2>2 DEF PersistIndex, Together
<1>8. Files3'
  <2>1. CASE at[i].op = "add"
    BY <1>2, <1>4, <1>7, <2>1 DEF Files3, AddCutIn
  <2>2. CASE at[i].op # "add"
    <3>1. cut \/ Below(mem[i].index, disk.next)
      BY <1>6, <2>2 DEF Follows
    <3> QED
      BY <1>1, <1>4, <1>7, <3>1 DEF PersistIndex, Files3
  <2> QED
    BY <2>1, <2>2
<1>9. Copy(i)'
  <2>1. Together(mem[i].index, mem[i].records, mem[i].next)'
    BY <1>4, <1>6 DEF PersistIndex, Together
  <2>2. Follows(i)'
    <3>1. /\ disk.records' = disk.records /\ disk.next' = disk.next /\ mem'[i] = mem[i]
          /\ at'[i].op = at[i].op /\ at'[i].key = at[i].key
          /\ asked' = asked /\ verified' = verified
      BY <1>1, <1>2, <1>4 DEF PersistIndex
    <3>2. \A j \in Keys : Left(i, j) <=> Left(i, j)'
      BY <3>1 DEF Left
    <3>3. Wrote(i, at[i].key) => Wrote(i, at[i].key)'
      BY <3>1 DEF Wrote
    <3>4. Hid(i, at[i].key) => Hid(i, at[i].key)'
      BY <3>1 DEF Hid
    <3> QED
      BY <1>6, <3>1, <3>2, <3>3, <3>4 DEF Follows
  <2> QED
    BY <1>1, <1>2, <1>4, <1>6, <2>1, <2>2 DEF PersistIndex, Copy
<1> QED
  BY <1>3, <1>5, <1>8, <1>9, StepFacts

LEMMA PersistRecordsInv ==
    ASSUME OneAdapter, IndInv, NEW i \in Insts, PersistRecords(i) PROVE IndInv'
<1> DEFINE d == [disk EXCEPT !.records = mem[i].records, !.next = mem[i].next]
           a == [at[i] EXCEPT !.step = "persisting excluded"]
<1>1. /\ d \in Disks /\ d.index = disk.index /\ d.records = mem[i].records /\ d.next = mem[i].next
      /\ IsFiniteSet(DOMAIN d.records)
  BY MemFacts, DiskFacts DEF IndInv, Disks
<1>2. a \in Acts /\ a.step = "persisting excluded" /\ a.op = at[i].op /\ a.key = at[i].key
  BY ActFacts DEF IndInv, Acts
<1>3. StepTyped(i, d, mem[i], a)
  <2>1. mem' = [mem EXCEPT ![i] = mem[i]] /\ at' = [at EXCEPT ![i] = a] /\ disk' = d
    BY MemFacts, ActFacts DEF PersistRecords, IndInv, Acts
  <2> HIDE DEF d, a
  <2> QED
    BY <1>1, <1>2, <2>1, MemFacts, ActFacts DEF StepTyped, IndInv
<1> HIDE DEF d, a
<1>4. disk' = d /\ mem'[i] = mem[i] /\ at'[i] = a
  BY <1>3, StepFacts
<1>5. /\ Together(mem[i].index, mem[i].records, mem[i].next)
      /\ Follows(i) /\ mem[i].index = disk.index
      /\ cut \/ Below(mem[i].index, mem[i].next)
  BY DEF PersistRecords, IndInv, Copy
<1>6. asked' \subseteq asked /\ verified \subseteq asked'
      /\ Sound(mem[i].index, mem[i].records, asked')
  <2>1. CASE at[i].op = "add"
    <3>1. Wrote(i, at[i].key) /\ asked' = asked \ {at[i].key}
      BY <1>5, <2>1 DEF PersistRecords, Follows
    <3>2. Sound(mem[i].index, mem[i].records, asked')
      BY <1>5, <3>1 DEF Together, Sound, Wrote
    <3> QED
      BY <3>1, <3>2 DEF Wrote, IndInv, Typed, GhostsTyped
  <2>2. CASE at[i].op # "add"
    BY <1>5, <2>2 DEF PersistRecords, Together, IndInv, Typed, GhostsTyped
  <2> QED
    BY <2>1, <2>2
<1>7. GhostsTyped'
  BY <1>6 DEF PersistRecords, IndInv, Typed, GhostsTyped
<1>8. Together(mem[i].index, mem[i].records, mem[i].next)'
  BY <1>4, <1>5, <1>6 DEF PersistRecords, Together
<1>9. (mem[i].index = disk.index /\ mem[i].records = disk.records /\ mem[i].next = disk.next)'
  BY <1>1, <1>4, <1>5
<1>10. (cut \/ Below(mem[i].index, mem[i].next))'
  BY <1>4, <1>5 DEF PersistRecords
<1>11. Files3'
  BY <1>8, <1>9, <1>10 DEF Files3
<1>12. Copy(i)'
  BY <1>2, <1>4, <1>8, <1>9, <1>10 DEF Copy
<1> QED
  BY <1>3, <1>7, <1>11, <1>12, StepFacts

LEMMA PersistExcludedInv ==
    ASSUME OneAdapter, IndInv, NEW i \in Insts, PersistExcluded(i) PROVE IndInv'
<1> DEFINE d == [disk EXCEPT !.excluded = mem[i].excluded]
           m == IF at[i].op = "close" THEN Blank ELSE mem[i]
           a == IF at[i].op = "close" THEN Closed ELSE Rest
<1>1. /\ d \in Disks /\ d.index = disk.index /\ d.records = disk.records /\ d.next = disk.next
      /\ IsFiniteSet(DOMAIN d.records)
  BY MemFacts, DiskFacts DEF IndInv, Disks
<1>2. StepTyped(i, d, m, a)
  <2>1. mem' = [mem EXCEPT ![i] = m] /\ at' = [at EXCEPT ![i] = a] /\ disk' = d
    BY MemFacts DEF PersistExcluded, IndInv
  <2>2. m \in Mems /\ IsFiniteSet(DOMAIN m.records) /\ a \in Acts
        /\ a.op = "none"
    BY MemFacts, ConstantFacts DEF IndInv
  <2> HIDE DEF d, m, a
  <2> QED
    BY <1>1, <2>1, <2>2 DEF StepTyped
<1> HIDE DEF d
<1>3. disk' = d /\ mem'[i] = m /\ at'[i] = a
  BY <1>2, StepFacts
<1>4. GhostsTyped' /\ Files3'
  <2>1. GhostsTyped'
    BY DEF PersistExcluded, IndInv, Typed, GhostsTyped
  <2>2. Together(disk.index, disk.records, disk.next)'
    BY <1>1, <1>3 DEF PersistExcluded, IndInv, Files3, Together
  <2>3. (cut \/ Below(disk.index, disk.next))'
    BY <1>1, <1>3 DEF PersistExcluded, IndInv, Files3, AddCutIn, OneAdapter
  <2> QED
    BY <2>1, <2>2, <2>3 DEF Files3
<1>5. Copy(i)'
  <2>1. CASE at[i].op = "close"
    BY <1>3, <2>1, ConstantFacts, BlankTogether DEF PersistExcluded, Copy, Together, Sound, Numbered,
       Known, Free, Answering
  <2>2. CASE at[i].op # "close"
    <3>1. /\ mem'[i] = mem[i] /\ at'[i] = Rest
          /\ disk.index' = disk.index /\ disk.records' = disk.records /\ disk.next' = disk.next
          /\ Together(mem[i].index, mem[i].records, mem[i].next)
          /\ mem[i].index = disk.index /\ mem[i].records = disk.records /\ mem[i].next = disk.next
          /\ cut \/ Below(mem[i].index, mem[i].next)
      BY <1>1, <1>3, <2>2 DEF PersistExcluded, IndInv, Copy
    <3>2. Together(mem[i].index, mem[i].records, mem[i].next)'
      BY <3>1 DEF PersistExcluded, Together
    <3>3. \A j \in Keys : Left(i, j)'
      BY <3>1 DEF Left
    <3> QED
      BY <3>1, <3>2, <3>3, ConstantFacts DEF PersistExcluded, Copy
  <2> QED
    BY <2>1, <2>2
<1> QED
  BY <1>2, <1>4, <1>5, StepFacts

\* What an adapter at rest holds, beside the files.
LEMMA ReadyFacts ==
    ASSUME OneAdapter, IndInv, NEW i \in Insts, Ready(i)
    PROVE  /\ mem[i].index = disk.index /\ mem[i].next = disk.next
           /\ \A j \in Keys : Left(i, j)
           /\ Together(mem[i].index, mem[i].records, mem[i].next)
           /\ Together(disk.index, disk.records, disk.next)
           /\ cut \/ Below(disk.index, disk.next)
           /\ at[i].step = "ready"
BY DEF Ready, IndInv, Copy, Files3, AddCutIn, OneAdapter

LEMMA CloseInv == ASSUME OneAdapter, IndInv, NEW i \in Insts, Close(i) PROVE IndInv'
<1> DEFINE a == Doing("persisting", "close", at[i].key)
<1>1. a \in Acts /\ a.step = "persisting" /\ a.op = "close"
  BY ActFacts DEF IndInv, Acts, Doing
<1>2. StepTyped(i, disk, mem[i], a)
  <2>1. mem' = [mem EXCEPT ![i] = mem[i]] /\ at' = [at EXCEPT ![i] = a] /\ disk' = disk
    BY MemFacts DEF Close, Persist, IndInv
  <2> HIDE DEF a
  <2> QED
    BY <1>1, <2>1, MemFacts, DiskFacts DEF StepTyped, IndInv
<1> HIDE DEF a
<1>3. disk' = disk /\ mem'[i] = mem[i] /\ at'[i] = a
  BY <1>2, StepFacts
<1>4. GhostsTyped' /\ Files3'
  BY FilesAlone DEF Close, Ready, IndInv, Typed, GhostsTyped
<1>5. Copy(i)'
  <2>1. Together(mem[i].index, mem[i].records, mem[i].next)'
    BY <1>3, ReadyFacts DEF Close, Together
  <2>2. Follows(i)' /\ Grew(i)' /\ Shrank(i)'
    BY <1>1, <1>3, ReadyFacts DEF Close, Follows, Left, Grew, Shrank
  <2>3. (Sound(mem[i].index, disk.records, asked) /\ (cut \/ Answering(mem[i].index, disk.records))
         /\ (cut \/ Below(mem[i].index, mem[i].next)))'
    BY <1>3, ReadyFacts DEF Close, Together
  <2> QED
    BY <1>1, <1>3, <2>1, <2>2, <2>3 DEF Copy
<1> QED
  BY <1>2, <1>4, <1>5, StepFacts

-----------------------------------------------------------------------------
(* The operations.                                                            *)

LEMMA BornFacts ==
    ASSUME Typed, NEW k \in Keys, NEW v \in Versions,
           born' = IF k \in DOMAIN born THEN born ELSE With(born, k, v)
    PROVE  /\ born' \in UNION {[S -> Versions] : S \in SUBSET Keys}
           /\ k \in DOMAIN born' /\ DOMAIN born \subseteq DOMAIN born'
           /\ \A j \in DOMAIN born : born'[j] = born[j]
           /\ k \notin DOMAIN born => born'[k] = v
<1>1. DOMAIN born \subseteq Keys /\ born \in [DOMAIN born -> Versions]
  BY DEF Typed, GhostsTyped
<1>2. CASE k \in DOMAIN born
  BY <1>1, <1>2
<1>3. CASE k \notin DOMAIN born
  <2>1. born' = [j \in DOMAIN born \union {k} |-> IF j = k THEN v ELSE born[j]]
    BY <1>3 DEF With
  <2>2. born' \in [DOMAIN born \union {k} -> Versions] /\ DOMAIN born \union {k} \in SUBSET Keys
    BY <1>1, <2>1
  <2> QED
    BY <1>1, <1>3, <2>1, <2>2
<1> QED
  BY <1>2, <1>3

\* Own only looks at the record itself.
LEMMA OwnSame ==
    ASSUME NEW index, NEW R, NEW Q, NEW k, R[k].id = Q[k].id, R[k].version = Q[k].version
    PROVE  Own(index, R, k) <=> Own(index, Q, k)
BY DEF Own

\* An index with a vector more, under an id above those of the records.
LEMMA SoundAppend ==
    ASSUME NEW index \in Seq(Entries), NEW R \in RecordMaps, NEW next, NEW wanted,
           Sound(index, R, wanted), Numbered(R, next), next \in Ids,
           NEW r \in Entries, r.id = next
    PROVE  Sound(Append(index, r), R, wanted)
<1> SUFFICES ASSUME NEW k \in DOMAIN R
             PROVE  \/ Own(Append(index, r), R, k)
                    \/ k \in wanted /\ ~HasVector(Append(index, r), R[k].id)
  BY DEF Sound
<1>1. R[k].id \in Ids /\ R[k].id # r.id
  BY RecordFacts DEF Numbered, Ids
<1>2. CASE Own(index, R, k)
  BY <1>1, <1>2, AppendOwn
<1>3. CASE k \in wanted /\ ~HasVector(index, R[k].id)
  BY <1>1, <1>3, AppendFacts
<1> QED
  BY <1>2, <1>3 DEF Sound

LEMMA AddInv ==
    ASSUME OneAdapter, IndInv, NEW i \in Insts, NEW k \in Keys, NEW v \in Versions, Add(i, k, v)
    PROVE  IndInv'
<1> DEFINE n == mem[i].next
           new == [id |-> n, key |-> k, version |-> v]
           rec == [id |-> n, version |-> v, flagged |-> FALSE]
           old == IF Holds(i, k) THEN {IdOf(i, k)} ELSE {}
           m == [mem[i] EXCEPT !.index = Append(mem[i].index, new),
                               !.records = With(mem[i].records, k, rec),
                               !.next = n + 1,
                               !.excluded = mem[i].excluded \union old]
           a == Doing("persisting", "add", k)
           R == With(mem[i].records, k, rec)
           X == Append(mem[i].index, new)
<1>1. /\ n \in Ids /\ new \in Entries /\ new.id = n /\ new.key = k /\ new.version = v
      /\ rec \in [id : Ids, version : Versions, flagged : BOOLEAN]
      /\ rec.id = n /\ rec.version = v /\ ~rec.flagged
  BY MemFacts, BoundsAssumption DEF Add, NextId, IndInv, Ids, Entries
<1>2. /\ mem[i].index \in Seq(Entries) /\ mem[i].records \in RecordMaps
      /\ IsFiniteSet(DOMAIN mem[i].records) /\ disk.records \in RecordMaps
  BY MemFacts, DiskFacts DEF IndInv
<1>3. /\ R \in RecordMaps /\ DOMAIN R = DOMAIN mem[i].records \union {k} /\ IsFiniteSet(DOMAIN R)
      /\ R[k] = rec /\ \A j \in DOMAIN mem[i].records : j # k => R[j] = mem[i].records[j]
  <2>1. rec \in [id : Ids, version : Versions, flagged : BOOLEAN]
    BY <1>1
  <2> HIDE DEF rec
  <2>2. PICK Q \in RecordMaps : Q = mem[i].records /\ IsFiniteSet(DOMAIN Q)
    BY <1>2
  <2>3. /\ With(Q, k, rec) \in RecordMaps
        /\ DOMAIN With(Q, k, rec) = DOMAIN Q \union {k} /\ IsFiniteSet(DOMAIN With(Q, k, rec))
        /\ With(Q, k, rec)[k] = rec
        /\ \A j \in DOMAIN Q : j # k => With(Q, k, rec)[j] = Q[j]
    BY ZenonT(30), <2>1, <2>2, WithFacts
  <2> QED
    BY <2>2, <2>3
<1>4. X \in Seq(Entries) /\ Range(X) = Range(mem[i].index) \union {new}
  BY <1>1, <1>2, AppendFacts
<1>5. old \subseteq Ids
  BY <1>2, RecordFacts DEF Holds, IdOf
<1>6. n + 1 \in 1..MaxIds + 1
  BY <1>1, BoundsAssumption DEF Ids
<1> HIDE DEF new, rec, old, n, R, X
<1>7. m = [mem[i] EXCEPT !.index = X, !.records = R, !.next = n + 1,
                         !.excluded = mem[i].excluded \union old]
  BY DEF R, X
<1>8. m \in Mems /\ m.index = X /\ m.records = R /\ m.next = n + 1
  BY ZenonT(30), <1>3, <1>4, <1>5, <1>6, <1>7, MemFacts DEF IndInv, Mems
<1>9. a \in Acts /\ a.step = "persisting" /\ a.op = "add" /\ a.key = k
  BY DEF Acts, Doing
<1>10. StepTyped(i, disk, m, a)
  <2>1. mem' = [mem EXCEPT ![i] = m]
    <3>1. mem[i] \in Mems /\ mem \in [Insts -> Mems]
      BY MemFacts DEF IndInv
    <3> QED
      BY <3>1 DEF Add, NextId, Mems, n, new, rec, old
  <2>2. at' = [at EXCEPT ![i] = a] /\ disk' = disk
    BY DEF Add, Persist
  <2> HIDE DEF m, a
  <2> QED
    BY <1>3, <1>8, <1>9, <2>1, <2>2, DiskFacts DEF StepTyped, IndInv
<1> HIDE DEF m, a
<1>11. disk' = disk /\ mem'[i] = m /\ at'[i] = a
  BY <1>10, StepFacts
<1>12. /\ mem[i].index = disk.index /\ n = disk.next /\ \A j \in Keys : Left(i, j)
       /\ Together(mem[i].index, mem[i].records, n)
       /\ Together(disk.index, disk.records, n)
       /\ cut \/ Below(disk.index, n)
  BY ReadyFacts DEF Add, n
<1>13. /\ born' \in UNION {[S -> Versions] : S \in SUBSET Keys}
       /\ k \in DOMAIN born' /\ DOMAIN born \subseteq DOMAIN born'
       /\ \A j \in DOMAIN born : born'[j] = born[j]
       /\ k \notin DOMAIN born => born'[k] = v
  BY BornFacts DEF Add, IndInv
<1>14. /\ asked' = asked /\ cut' = cut /\ kills' = kills /\ verified' = verified \ {k}
       /\ recycled' = IF k \in DOMAIN born /\ born[k] # v THEN recycled \union {k} ELSE recycled
       /\ recycled \subseteq recycled'
  BY DEF Add
<1>15. GhostsTyped'
  <2>1. cut' \in BOOLEAN
    BY <1>14 DEF IndInv, Typed, GhostsTyped
  <2> QED
    BY <1>13, <1>14, <2>1 DEF IndInv, Typed, GhostsTyped
<1>16. Known(disk.index, born', recycled') /\ Known(X, born', recycled')
  <2>1. Known(disk.index, born', recycled')
    BY <1>12, <1>13, <1>14 DEF Together, Known
  <2>2. k \notin recycled' => v = born'[k]
    BY <1>13, <1>14
  <2> QED
    BY <1>1, <1>4, <1>12, <1>13, <2>1, <2>2 DEF Known
<1>17. /\ Free(disk.index, disk.records, verified' \ recycled')
       /\ Free(X, R, verified' \ recycled')
  <2>1. verified' \ recycled' \subseteq (verified \ recycled) \ {k}
    BY <1>14
  <2> QED
    BY <1>1, <1>3, <1>4, <1>12, <2>1 DEF Together, Free
<1>18. Files3'
  <2>1. Together(disk.index, disk.records, disk.next)'
    BY <1>11, <1>12, <1>14, <1>16, <1>17 DEF Together
  <2> QED
    BY <1>11, <1>12, <1>14, <2>1 DEF Files3
<1>19. Own(X, R, k)
  BY <1>1, <1>2, <1>3, AppendOwn DEF X
<1>20. Sound(X, R, asked)
  <2> SUFFICES ASSUME NEW j \in DOMAIN R, j # k
               PROVE  Own(X, R, j) \/ (j \in asked /\ ~HasVector(X, R[j].id))
    BY <1>19 DEF Sound
  <2>1. j \in DOMAIN mem[i].records /\ R[j] = mem[i].records[j]
    BY <1>3
  <2>2. R[j].id \in Ids /\ R[j].id # n
    BY <1>1, <1>2, <1>12, <2>1, RecordFacts DEF Together, Numbered, Ids
  <2>3. CASE Own(mem[i].index, mem[i].records, j)
    <3>1. Own(mem[i].index, R, j)
      BY <2>1, <2>3, OwnSame
    <3> QED
      BY <1>1, <1>2, <2>2, <3>1, AppendOwn DEF X
  <2>4. CASE j \in asked /\ ~HasVector(mem[i].index, R[j].id)
    BY <1>1, <1>2, <2>2, <2>4, AppendFacts DEF X
  <2> QED
    BY <1>12, <2>1, <2>3, <2>4 DEF Together, Sound
<1>21. Numbered(R, n + 1)
  BY <1>1, <1>2, <1>3, <1>12, RecordFacts DEF Together, Numbered, Ids
<1>22. cut \/ (Answering(X, R) /\ Below(X, n + 1))
  <2> SUFFICES ASSUME ~cut PROVE Answering(X, R) /\ Below(X, n + 1)
    OBVIOUS
  <2>1. Below(mem[i].index, n) /\ Answering(mem[i].index, mem[i].records)
    BY <1>12 DEF Together
  <2>2. \A r \in Range(mem[i].index) : r.id \in Ids /\ r.id < n
    BY <1>2, <2>1, RangeFacts DEF Below, Entries
  <2>3. \A j \in DOMAIN mem[i].records : mem[i].records[j].id < n
    BY <1>12 DEF Together, Numbered
  <2> QED
    BY <1>1, <1>3, <1>4, <2>1, <2>2, <2>3 DEF Answering, Below, Ids
<1>23. Sound(X, disk.records, asked)
  BY <1>1, <1>2, <1>12, SoundAppend DEF Together, X
<1>24. cut \/ Answering(X, disk.records)
  <2> SUFFICES ASSUME ~cut PROVE Answering(X, disk.records)
    OBVIOUS
  <2>1. Answering(mem[i].index, disk.records) /\ \A j \in DOMAIN disk.records : disk.records[j].id < n
    BY <1>12 DEF Together, Numbered
  <2> QED
    BY <1>1, <1>4, <2>1 DEF Answering, Ids
<1>25. Copy(i)'
  <2>1. Together(mem[i].index, mem[i].records, mem[i].next)'
    BY <1>8, <1>11, <1>14, <1>16, <1>17, <1>20, <1>21, <1>22 DEF Together
  <2>2. Grew(i)' /\ Shrank(i)'
    BY <1>1, <1>4, <1>8, <1>9, <1>11, <1>12 DEF Grew, Shrank
  <2>3. Follows(i)'
    <3>1. \A j \in Keys : j # k => Left(i, j)'
      BY <1>3, <1>8, <1>11, <1>12, <1>14 DEF Left
    <3>2. Wrote(i, k)'
      BY <1>1, <1>3, <1>8, <1>11, <1>14, <1>19 DEF Wrote
    <3> QED
      BY <1>9, <1>11, <3>1, <3>2 DEF Follows
  <2>4. (cut \/ Below(mem[i].index, mem[i].next))'
    BY <1>8, <1>11, <1>14, <1>22
  <2>5. (Sound(mem[i].index, disk.records, asked) /\ (cut \/ Answering(mem[i].index, disk.records)))'
    BY <1>8, <1>11, <1>14, <1>23, <1>24
  <2> QED
    BY <1>9, <1>11, <2>1, <2>2, <2>3, <2>4, <2>5 DEF Copy
<1> QED
  BY <1>10, <1>15, <1>18, <1>25, StepFacts

\* Fewer records, with the ids they had, are still sound; more may have been asked for.
LEMMA FewerRecords ==
    ASSUME NEW index, NEW Q, NEW R, NEW next, NEW more, asked \subseteq more,
           Together(index, Q, next), DOMAIN R \subseteq DOMAIN Q,
           \A j \in DOMAIN R : R[j].id = Q[j].id /\ R[j].version = Q[j].version
    PROVE  /\ Sound(index, R, more) /\ Numbered(R, next)
           /\ Free(index, R, verified \ recycled)
           /\ cut \/ Answering(index, R)
<1>1. ASSUME NEW j \in DOMAIN R
      PROVE  Own(index, R, j) \/ (j \in more /\ ~HasVector(index, R[j].id))
  <2>1. Own(index, Q, j) \/ (j \in asked /\ ~HasVector(index, Q[j].id))
    BY DEF Together, Sound
  <2>2. Own(index, Q, j) <=> Own(index, R, j)
    BY OwnSame
  <2> QED
    BY <2>1, <2>2
<1>2. Sound(index, R, more)
  BY <1>1 DEF Sound
<1>3. Numbered(R, next)
  BY DEF Together, Numbered
<1>4. Free(index, R, verified \ recycled)
  BY DEF Together, Free
<1>5. cut \/ Answering(index, R)
  BY DEF Together, Answering
<1> QED
  BY <1>2, <1>3, <1>4, <1>5

LEMMA SuppressInv ==
    ASSUME OneAdapter, IndInv, NEW i \in Insts, NEW k \in Keys, Suppress(i, k) PROVE IndInv'
<1> DEFINE old == IF Holds(i, k) THEN {IdOf(i, k)} ELSE {}
           Q == mem[i].records
           R == IF Holds(i, k) THEN [Q EXCEPT ![k].flagged = TRUE] ELSE Q
           m == [mem[i] EXCEPT !.hidden = mem[i].hidden \union {k}, !.records = R,
                               !.excluded = mem[i].excluded \union old]
           a == Doing("persisting", "suppress", k)
<1>1. Q \in RecordMaps /\ IsFiniteSet(DOMAIN Q) /\ old \subseteq Ids
  BY MemFacts, RecordFacts DEF IndInv, Holds, IdOf
<1>2. /\ R \in RecordMaps /\ DOMAIN R = DOMAIN Q
      /\ \A j \in DOMAIN R : /\ R[j].id = Q[j].id /\ R[j].version = Q[j].version
                             /\ j # k => R[j] = Q[j]
      /\ k \in DOMAIN R => R[k] = [Q[k] EXCEPT !.flagged = TRUE]
  <2>1. CASE Holds(i, k)
    <3>1. DOMAIN Q \in SUBSET Keys /\ Q \in [DOMAIN Q -> [id : Ids, version : Versions, flagged : BOOLEAN]]
      BY <1>1, RecordFacts
    <3>2. [Q[k] EXCEPT !.flagged = TRUE] \in [id : Ids, version : Versions, flagged : BOOLEAN]
      BY <2>1, <3>1 DEF Holds
    <3>3. R = [Q EXCEPT ![k] = [Q[k] EXCEPT !.flagged = TRUE]]
      BY <2>1
    <3>4. R \in [DOMAIN Q -> [id : Ids, version : Versions, flagged : BOOLEAN]]
      BY <3>1, <3>2, <3>3
    <3>5. \A j \in DOMAIN Q : j # k => R[j] = Q[j]
      BY <3>1, <3>3
    <3>6. k \in DOMAIN Q /\ R[k] = [Q[k] EXCEPT !.flagged = TRUE]
      BY <2>1, <3>1, <3>3 DEF Holds
    <3>7. R[k].id = Q[k].id /\ R[k].version = Q[k].version
      BY <3>1, <3>6
    <3> HIDE DEF R
    <3> QED
      BY <3>1, <3>4, <3>5, <3>6, <3>7, RecordFacts
  <2>2. CASE ~Holds(i, k)
    BY <1>1, <2>2 DEF Holds
  <2> QED
    BY <2>1, <2>2
<1> HIDE DEF R, old
<1>3. m \in Mems /\ m.index = mem[i].index /\ m.records = R /\ m.next = mem[i].next
  BY <1>1, <1>2, MemFacts DEF IndInv, Mems
<1>4. a \in Acts /\ a.step = "persisting" /\ a.op = "suppress" /\ a.key = k
  BY DEF Acts, Doing
<1>5. StepTyped(i, disk, m, a)
  <2>1. mem' = [mem EXCEPT ![i] = m]
    <3>1. mem[i] \in Mems /\ mem \in [Insts -> Mems]
      BY MemFacts DEF IndInv
    <3> QED
      BY <3>1 DEF Suppress, Mems, R, old
  <2>2. at' = [at EXCEPT ![i] = a] /\ disk' = disk
    BY DEF Suppress, Persist
  <2> HIDE DEF m, a
  <2> QED
    BY <1>1, <1>2, <1>3, <1>4, <2>1, <2>2, DiskFacts DEF StepTyped, IndInv
<1> HIDE DEF m, a
<1>6. disk' = disk /\ mem'[i] = m /\ at'[i] = a
  BY <1>5, StepFacts
<1>7. UNCHANGED <<born, asked, verified, recycled, cut, kills>>
  BY DEF Suppress
<1>8. GhostsTyped' /\ Files3'
  BY <1>6, <1>7, FilesAlone DEF Suppress, Ready, IndInv, Typed, GhostsTyped
<1>9. Copy(i)'
  <2>1. /\ Sound(mem[i].index, R, asked) /\ Numbered(R, mem[i].next)
        /\ Free(mem[i].index, R, verified \ recycled)
        /\ cut \/ Answering(mem[i].index, R)
        /\ Known(mem[i].index, born, recycled)
    <3>1. Together(mem[i].index, Q, mem[i].next)
      BY ReadyFacts DEF Suppress
    <3> HIDE DEF Q
    <3> QED
      BY <1>2, <3>1, FewerRecords DEF Together
  <2>2. Together(mem[i].index, mem[i].records, mem[i].next)'
    BY <1>3, <1>6, <1>7, <2>1 DEF Together
  <2>3. /\ mem[i].index = disk.index /\ mem[i].next = disk.next /\ \A j \in Keys : Left(i, j)
        /\ Sound(disk.index, disk.records, asked)
        /\ cut \/ (Answering(disk.index, disk.records) /\ Below(disk.index, disk.next))
    BY ReadyFacts DEF Suppress, Together
  <2>4. Follows(i)' /\ Grew(i)' /\ Shrank(i)'
    <3>1. \A j \in Keys : j # k => Left(i, j)'
      BY <1>2, <1>3, <1>6, <1>7, <2>3 DEF Left
    <3>2. Hid(i, k)'
      BY <1>2, <1>3, <1>6, <1>7, <2>3 DEF Hid, Left
    <3> QED
      BY <1>3, <1>4, <1>6, <2>3, <3>1, <3>2 DEF Follows, Grew, Shrank
  <2>5. (Sound(mem[i].index, disk.records, asked) /\ (cut \/ Answering(mem[i].index, disk.records))
         /\ (cut \/ Below(mem[i].index, mem[i].next)))'
    BY <1>3, <1>6, <1>7, <2>3
  <2> QED
    BY <1>4, <1>6, <2>2, <2>4, <2>5 DEF Copy
<1> QED
  BY <1>5, <1>8, <1>9, StepFacts

LEMMA DropFacts ==
    ASSUME Typed, NEW i \in Insts, NEW k \in Keys
    PROVE  /\ Drop(i, k) \in Mems /\ IsFiniteSet(DOMAIN Drop(i, k).records)
           /\ Drop(i, k).index = mem[i].index /\ Drop(i, k).next = mem[i].next
           /\ Drop(i, k).hidden = mem[i].hidden
           /\ DOMAIN Drop(i, k).records = DOMAIN mem[i].records \ {k}
           /\ \A j \in DOMAIN Drop(i, k).records : Drop(i, k).records[j] = mem[i].records[j]
<1> DEFINE Q == mem[i].records
           R == [j \in DOMAIN Q \ {k} |-> Q[j]]
           old == IF Holds(i, k) THEN {IdOf(i, k)} ELSE {}
           m == [mem[i] EXCEPT !.records = R, !.excluded = mem[i].excluded \union old]
<1>1. Q \in RecordMaps /\ IsFiniteSet(DOMAIN Q) /\ old \subseteq Ids /\ mem[i] \in Mems
  BY MemFacts, RecordFacts DEF IndInv, Holds, IdOf
<1>2. /\ R \in RecordMaps /\ DOMAIN R = DOMAIN Q \ {k}
      /\ \A j \in DOMAIN R : R[j] = Q[j]
  <2>1. DOMAIN Q \ {k} \in SUBSET Keys /\ Q \in [DOMAIN Q -> [id : Ids, version : Versions, flagged : BOOLEAN]]
    BY <1>1, RecordFacts
  <2>2. R \in [DOMAIN Q \ {k} -> [id : Ids, version : Versions, flagged : BOOLEAN]]
    BY <2>1
  <2> QED
    BY <2>1, <2>2, RecordFacts
<1>3. IsFiniteSet(DOMAIN R)
  BY <1>1, <1>2, FS_Subset
<1>4. Drop(i, k) = m
  BY <1>1 DEF Drop, Mems
<1> HIDE DEF R, old
<1>5. /\ m \in Mems /\ m.index = mem[i].index /\ m.records = R /\ m.next = mem[i].next
      /\ m.hidden = mem[i].hidden
  BY <1>1, <1>2, MemFacts DEF Mems
<1> HIDE DEF m
<1> QED
  BY <1>2, <1>3, <1>4, <1>5

\* What was taken out of the copy was asked for.
LEMMA DropLeft ==
    ASSUME OneAdapter, IndInv, NEW i \in Insts, NEW k \in Keys, Ready(i), NEW R, NEW j \in Keys,
           DOMAIN R = DOMAIN mem[i].records \ {k}, \A x \in DOMAIN R : R[x] = mem[i].records[x],
           disk' = disk, mem'[i].records = R, asked' = asked \union {k}
    PROVE  Left(i, j)'
<1>1. Left(i, j)
  BY ReadyFacts
<1> QED
  BY <1>1 DEF Left

LEMMA DropTogether ==
    ASSUME OneAdapter, IndInv, NEW i \in Insts, NEW k \in Keys, Ready(i), NEW R,
           DOMAIN R = DOMAIN mem[i].records \ {k}, \A x \in DOMAIN R : R[x] = mem[i].records[x],
           mem'[i].index = mem[i].index, mem'[i].records = R, mem'[i].next = mem[i].next,
           asked' = asked \union {k}, UNCHANGED <<born, verified, recycled, cut>>
    PROVE  Together(mem[i].index, mem[i].records, mem[i].next)'
<1>1. Together(mem[i].index, mem[i].records, mem[i].next)
  BY ReadyFacts
<1>2. /\ Sound(mem[i].index, R, asked \union {k}) /\ Numbered(R, mem[i].next)
      /\ Free(mem[i].index, R, verified \ recycled)
      /\ cut \/ Answering(mem[i].index, R)
  BY <1>1, FewerRecords
<1>3. Known(mem[i].index, born, recycled)
  BY <1>1 DEF Together
<1> QED
  BY <1>2, <1>3 DEF Together

LEMMA NativeDeleteInv ==
    ASSUME OneAdapter, IndInv, NEW i \in Insts, NEW k \in Keys, NativeDelete(i, k) PROVE IndInv'
<1> DEFINE a == Doing("persisting", "delete", k)
<1>1. PICK m : m = Drop(i, k)
  OBVIOUS
<1>2. /\ m \in Mems /\ IsFiniteSet(DOMAIN m.records) /\ m.index = mem[i].index /\ m.next = mem[i].next
      /\ DOMAIN m.records = DOMAIN mem[i].records \ {k}
      /\ \A x \in DOMAIN m.records : m.records[x] = mem[i].records[x]
  BY <1>1, DropFacts DEF IndInv
<1>3. a \in Acts /\ a.step = "persisting" /\ a.op = "delete" /\ a.key = k
  BY DEF Acts, Doing
<1>4. StepTyped(i, disk, m, a)
  <2>1. mem' = [mem EXCEPT ![i] = m] /\ at' = [at EXCEPT ![i] = a] /\ disk' = disk
    BY <1>1 DEF NativeDelete, Persist
  <2> HIDE DEF a
  <2> QED
    BY <1>2, <1>3, <2>1, DiskFacts DEF StepTyped, IndInv
<1> HIDE DEF a
<1>5. disk' = disk /\ mem'[i] = m /\ at'[i] = a
  BY <1>4, StepFacts
<1>6. UNCHANGED <<born, verified, recycled, cut, kills>> /\ asked' = asked \union {k}
  BY DEF NativeDelete
<1>7. GhostsTyped' /\ Files3'
  BY <1>5, <1>6, FilesAlone DEF NativeDelete, Ready, IndInv, Typed, GhostsTyped
<1>8. Copy(i)'
  <2>1. Together(mem[i].index, mem[i].records, mem[i].next)'
    BY <1>2, <1>5, <1>6, DropTogether DEF NativeDelete
  <2>2. \A j \in Keys : Left(i, j)'
    BY <1>2, <1>5, <1>6, DropLeft DEF NativeDelete
  <2>3. /\ mem[i].index = disk.index /\ mem[i].next = disk.next
        /\ Sound(disk.index, disk.records, asked)
        /\ cut \/ (Answering(disk.index, disk.records) /\ Below(disk.index, disk.next))
    BY ReadyFacts DEF NativeDelete, Together
  <2>4. Follows(i)' /\ Grew(i)' /\ Shrank(i)'
    BY <1>2, <1>3, <1>5, <2>2, <2>3 DEF Follows, Grew, Shrank
  <2>5. Sound(mem[i].index, disk.records, asked)'
    BY <1>2, <1>5, <1>6, <2>3, SoundMore
  <2>6. ((cut \/ Answering(mem[i].index, disk.records)) /\ (cut \/ Below(mem[i].index, mem[i].next)))'
    BY <1>2, <1>5, <1>6, <2>3
  <2> QED
    BY <1>3, <1>5, <2>1, <2>4, <2>5, <2>6 DEF Copy
<1> QED
  BY <1>4, <1>7, <1>8, StepFacts

LEMMA ReclaimNothingInv ==
    ASSUME OneAdapter, IndInv, NEW i \in Insts, NEW k \in Keys, ReclaimNothing(i, k) PROVE IndInv'
<1> DEFINE m == [mem[i] EXCEPT !.hidden = mem[i].hidden \union {k}]
           a == Doing("ready", "reclaimed", k)
<1>1. /\ m \in Mems /\ m.index = mem[i].index /\ m.next = mem[i].next /\ m.records = mem[i].records
      /\ IsFiniteSet(DOMAIN m.records)
  BY MemFacts DEF IndInv, Mems
<1>2. a \in Acts /\ a.step = "ready" /\ a.op = "reclaimed" /\ a.key = k
  BY DEF Acts, Doing
<1>3. StepTyped(i, disk, m, a)
  <2>1. mem' = [mem EXCEPT ![i] = m] /\ at' = [at EXCEPT ![i] = a] /\ disk' = disk
    BY MemFacts DEF ReclaimNothing, IndInv, Mems
  <2> HIDE DEF m, a
  <2> QED
    BY <1>1, <1>2, <2>1, DiskFacts DEF StepTyped, IndInv
<1> HIDE DEF m, a
<1>4. disk' = disk /\ mem'[i] = m /\ at'[i] = a
  BY <1>3, StepFacts
<1>5. UNCHANGED <<born, verified, recycled, cut, kills>> /\ asked' = asked \union {k}
  BY DEF ReclaimNothing
<1>6. GhostsTyped' /\ Files3'
  BY <1>4, <1>5, FilesAlone DEF ReclaimNothing, Ready, IndInv, Typed, GhostsTyped
<1>7. Copy(i)'
  <2>1. /\ Together(mem[i].index, mem[i].records, mem[i].next)
        /\ mem[i].index = disk.index /\ mem[i].next = disk.next
        /\ cut \/ Below(disk.index, disk.next)
        /\ \A j \in Keys : Left(i, j)
    BY ReadyFacts DEF ReclaimNothing
  <2>2. Sound(mem[i].index, mem[i].records, asked)'
    BY <1>1, <1>4, <1>5, <2>1, SoundMore DEF Together
  <2>3. Together(mem[i].index, mem[i].records, mem[i].next)'
    BY <1>1, <1>4, <1>5, <2>1, <2>2 DEF Together
  <2>4. \A j \in Keys : Left(i, j)'
    BY <1>1, <1>4, <1>5, <2>1 DEF Left
  <2> QED
    BY <1>1, <1>2, <1>4, <1>5, <2>1, <2>3, <2>4 DEF Copy
<1> QED
  BY <1>3, <1>6, <1>7, StepFacts

LEMMA ReclaimFailsInv ==
    ASSUME OneAdapter, IndInv, NEW i \in Insts, NEW k \in Keys, ReclaimFails(i, k) PROVE IndInv'
<1>1. PICK d : d = Drop(i, k)
  OBVIOUS
<1>2. /\ d \in Mems /\ IsFiniteSet(DOMAIN d.records) /\ d.index = mem[i].index /\ d.next = mem[i].next
      /\ DOMAIN d.records = DOMAIN mem[i].records \ {k}
      /\ \A x \in DOMAIN d.records : d.records[x] = mem[i].records[x]
  BY <1>1, DropFacts DEF IndInv
<1>3. PICK m : m = [d EXCEPT !.hidden = d.hidden \union {k}]
  OBVIOUS
<1>4. m \in Mems /\ m.index = d.index /\ m.next = d.next /\ m.records = d.records
  BY <1>2, <1>3 DEF Mems
<1>5. StepTyped(i, disk, m, Rest)
  <2>1. mem' = [mem EXCEPT ![i] = m] /\ at' = [at EXCEPT ![i] = Rest] /\ disk' = disk
    BY <1>1, <1>3 DEF ReclaimFails
  <2> QED
    BY <1>2, <1>4, <2>1, DiskFacts, ConstantFacts DEF StepTyped, IndInv
<1>6. disk' = disk /\ mem'[i] = m /\ at'[i] = Rest
  BY <1>5, StepFacts
<1>7. UNCHANGED <<born, verified, recycled, cut, kills>> /\ asked' = asked \union {k}
  BY DEF ReclaimFails
<1>8. GhostsTyped' /\ Files3'
  BY <1>6, <1>7, FilesAlone DEF ReclaimFails, Ready, IndInv, Typed, GhostsTyped
<1>9. Copy(i)'
  <2>1. Together(mem[i].index, mem[i].records, mem[i].next)'
    BY <1>2, <1>4, <1>6, <1>7, DropTogether DEF ReclaimFails
  <2>2. \A j \in Keys : Left(i, j)'
    BY ZenonT(30), <1>2, <1>4, <1>6, <1>7, DropLeft DEF ReclaimFails
  <2>3. /\ mem[i].index = disk.index /\ mem[i].next = disk.next
        /\ cut \/ Below(disk.index, disk.next)
    BY ReadyFacts DEF ReclaimFails
  <2> QED
    BY <1>2, <1>4, <1>6, <1>7, <2>1, <2>2, <2>3, ConstantFacts DEF Copy
<1> QED
  BY <1>5, <1>8, <1>9, StepFacts

LEMMA ReclaimInv ==
    ASSUME OneAdapter, IndInv, NEW i \in Insts, NEW k \in Keys, Reclaim(i, k) PROVE IndInv'
<1> DEFINE a == Doing("persisting", "reclaim", k)
<1>1. PICK d : d = Drop(i, k)
  OBVIOUS
<1>2. /\ d \in Mems /\ IsFiniteSet(DOMAIN d.records) /\ d.index = mem[i].index /\ d.next = mem[i].next
      /\ DOMAIN d.records = DOMAIN mem[i].records \ {k}
      /\ \A x \in DOMAIN d.records : d.records[x] = mem[i].records[x]
  BY <1>1, DropFacts DEF IndInv
<1>3. /\ mem[i].index = disk.index /\ mem[i].next = disk.next
      /\ \A j \in Keys : Left(i, j)
      /\ Together(disk.index, disk.records, disk.next)
      /\ Together(mem[i].index, mem[i].records, mem[i].next)
      /\ cut \/ Below(disk.index, disk.next)
  BY ReadyFacts DEF Reclaim
<1>4. /\ Numbered(d.records, d.next)
      /\ Free(d.index, d.records, verified \ recycled)
      /\ cut \/ Answering(d.index, d.records)
      /\ Sound(d.index, d.records, asked)
  BY <1>2, <1>3, FewerRecords
<1>5. \A x \in DOMAIN d.records : Own(d.index, d.records, x)
  BY <1>1, <1>4 DEF Reclaim, CanRebuild, Sound
<1>6. PICK X : X = Rebuilt(d)
  OBVIOUS
<1>7. /\ X \in Seq(Entries) /\ Range(X) \subseteq Range(disk.index)
      /\ \A x \in DOMAIN d.records : Own(X, d.records, x)
      /\ \A r \in Range(X) : \E x \in DOMAIN d.records : r.id = d.records[x].id
  BY <1>2, <1>3, <1>4, <1>5, <1>6, RebuiltFacts
<1>8. PICK m : m = [d EXCEPT !.hidden = d.hidden \union {k}, !.index = X, !.excluded = {}]
  OBVIOUS
<1>9. m \in Mems /\ m.index = X /\ m.next = d.next /\ m.records = d.records
  BY <1>2, <1>7, <1>8 DEF Mems
<1>10. a \in Acts /\ a.step = "persisting" /\ a.op = "reclaim" /\ a.key = k
  BY DEF Acts, Doing
<1>11. StepTyped(i, disk, m, a)
  <2>1. mem' = [mem EXCEPT ![i] = m] /\ at' = [at EXCEPT ![i] = a] /\ disk' = disk
    BY <1>1, <1>6, <1>8 DEF Reclaim, Persist
  <2> HIDE DEF a
  <2> QED
    BY <1>2, <1>9, <1>10, <2>1, DiskFacts DEF StepTyped, IndInv
<1> HIDE DEF a
<1>12. disk' = disk /\ mem'[i] = m /\ at'[i] = a
  BY <1>11, StepFacts
<1>13. UNCHANGED <<born, verified, recycled, cut, kills>> /\ asked' = asked \union {k}
  BY DEF Reclaim
<1>14. GhostsTyped' /\ Files3'
  BY <1>12, <1>13, FilesAlone DEF Reclaim, Ready, IndInv, Typed, GhostsTyped
<1>15. /\ \A n : Below(disk.index, n) => Below(X, n)
       /\ \A R : Answering(disk.index, R) => Answering(X, R)
       /\ \A first, again : Known(disk.index, first, again) => Known(X, first, again)
  BY <1>7, FewerVectors
<1>16. Copy(i)'
  <2>1. Together(mem[i].index, mem[i].records, mem[i].next)'
    <3>1. Sound(X, d.records, asked')
      BY <1>7 DEF Sound
    <3>2. Free(X, d.records, verified \ recycled)
      BY <1>2, <1>3, <1>4, <1>7 DEF Free
    <3>3. Known(X, born, recycled)
      BY <1>3, <1>15 DEF Together
    <3>4. cut \/ Answering(X, d.records)
      BY <1>2, <1>3, <1>4, <1>15
    <3> QED
      BY <1>4, <1>9, <1>12, <1>13, <3>1, <3>2, <3>3, <3>4 DEF Together
  <2>2. \A j \in Keys : Left(i, j)'
    BY ZenonT(30), <1>2, <1>9, <1>12, <1>13, DropLeft DEF Reclaim
  <2>3. Sound(X, disk.records, asked')
    <3> SUFFICES ASSUME NEW j \in DOMAIN disk.records
                 PROVE  Own(X, disk.records, j) \/ (j \in asked' /\ ~HasVector(X, disk.records[j].id))
      BY DEF Sound
    <3>1. j \in Keys
      BY DiskFacts, RecordFacts DEF IndInv
    <3>2. CASE j \in DOMAIN d.records
      <4>1. d.records[j] = disk.records[j]
        BY <1>2, <1>3, <3>1, <3>2 DEF Left
      <4> QED
        BY <1>7, <3>2, <4>1, OwnSame
    <3>3. CASE j \notin DOMAIN d.records
      <4>1. j \in asked'
        BY <1>2, <1>3, <1>13, <3>1, <3>3 DEF Left
      <4>2. ASSUME NEW p \in DOMAIN X, X[p].id = disk.records[j].id PROVE FALSE
        <5>1. PICK x \in DOMAIN d.records : X[p].id = d.records[x].id
          BY <1>7, RangeFacts
        <5>2. x \in Keys /\ x \in DOMAIN disk.records /\ d.records[x] = disk.records[x]
          BY <1>2, <1>3, <5>1, RecordFacts, MemFacts DEF Left, IndInv
        <5> QED
          BY <1>3, <3>3, <4>2, <5>1, <5>2 DEF Together, Numbered
      <4> QED
        BY <4>1, <4>2 DEF HasVector
    <3> QED
      BY <3>2, <3>3
  <2>4. (Sound(mem[i].index, disk.records, asked)
         /\ (cut \/ Answering(mem[i].index, disk.records))
         /\ (cut \/ Below(mem[i].index, mem[i].next)))'
    BY <1>2, <1>3, <1>9, <1>12, <1>13, <1>15, <2>3 DEF Together
  <2>5. Follows(i)' /\ Grew(i)' /\ Shrank(i)'
    BY <1>2, <1>3, <1>7, <1>9, <1>10, <1>12, <2>2 DEF Follows, Grew, Shrank
  <2> QED
    BY <1>10, <1>12, <2>1, <2>4, <2>5 DEF Copy
<1> QED
  BY <1>11, <1>14, <1>16, StepFacts

LEMMA ProbeInv ==
    ASSUME OneAdapter, IndInv, NEW i \in Insts, NEW k \in Keys, Probe(i, k) PROVE IndInv'
<1>1. UNCHANGED <<disk, mem, at, born, asked, recycled, cut, kills>> /\ verified' = verified \union {k}
      /\ k \in asked
  BY DEF Probe
<1>2. StepTyped(i, disk, mem[i], at[i])
  BY <1>1, DiskFacts, MemFacts, ActFacts DEF StepTyped, IndInv
<1>3. GhostsTyped'
  BY <1>1 DEF IndInv, Typed, GhostsTyped
<1>4. /\ mem[i].index = disk.index /\ mem[i].next = disk.next
      /\ \A j \in Keys : Left(i, j)
      /\ Together(disk.index, disk.records, disk.next)
      /\ Together(mem[i].index, mem[i].records, mem[i].next)
      /\ cut \/ (Below(disk.index, disk.next) /\ at[i].step = "ready")
  BY ReadyFacts DEF Probe
<1>5. k \notin DOMAIN disk.records /\ k \notin DOMAIN mem[i].records
  BY <1>4 DEF Probe, Residue, Left
<1>6. k \notin recycled => \A r \in Range(disk.index) : r.key # k
  BY <1>4 DEF Probe, Residue, Together, Known
<1>7. /\ Free(disk.index, disk.records, verified' \ recycled)
      /\ Free(mem[i].index, mem[i].records, verified' \ recycled)
  BY <1>1, <1>4, <1>5, <1>6 DEF Together, Free
<1>8. Together(disk.index, disk.records, disk.next)'
      /\ Together(mem[i].index, mem[i].records, mem[i].next)'
  BY <1>1, <1>4, <1>7 DEF Together
<1>9. Files3'
  BY <1>1, <1>4, <1>8 DEF Files3
<1>10. \A j \in Keys : Left(i, j)'
  BY <1>1, <1>4 DEF Left
<1>11. at[i].step = "ready"
  BY DEF Probe, Ready
<1>12. Copy(i)'
  BY <1>1, <1>4, <1>8, <1>10, <1>11 DEF Copy
<1> QED
  BY <1>2, <1>3, <1>9, <1>12, StepFacts

LEMMA KillInv == ASSUME OneAdapter, IndInv, NEW i \in Insts, Kill(i) PROVE IndInv'
<1>1. StepTyped(i, disk, Blank, Closed)
  BY DiskFacts, ConstantFacts DEF Kill, StepTyped, IndInv
<1>2. disk' = disk /\ mem'[i] = Blank /\ at'[i] = Closed
  BY <1>1, StepFacts
<1>3. UNCHANGED <<born, asked, verified, recycled>>
  BY DEF Kill
<1>4. GhostsTyped'
  <2>1. cut' \in BOOLEAN
    BY DEF Kill, IndInv, Typed, GhostsTyped
  <2>2. kills' \in 0..MaxKills
    <3>1. kills' = kills + 1 /\ kills < MaxKills
      BY DEF Kill
    <3>2. kills \in 0..MaxKills
      BY DEF IndInv, Typed, GhostsTyped
    <3> QED
      BY <3>1, <3>2, BoundsAssumption
  <2> QED
    BY <1>3, <2>1, <2>2 DEF IndInv, Typed, GhostsTyped
<1>5. Files3'
  <2>1. cut => cut'
    BY DEF Kill
  <2>2. Together(disk.index, disk.records, disk.next)'
    BY <1>2, <1>3, <2>1 DEF IndInv, Files3, Together
  <2>3. cut' \/ Below(disk.index, disk.next)
    BY DEF Kill, IndInv, Files3, AddCutIn, OneAdapter
  <2> QED
    BY <1>2, <2>2, <2>3 DEF Files3
<1>6. Copy(i)'
  <2>1. Together(mem[i].index, mem[i].records, mem[i].next)'
    BY <1>2, ConstantFacts DEF Together, Sound, Numbered, Known, Free, Answering
  <2> QED
    BY <1>2, <2>1, ConstantFacts DEF Copy
<1> QED
  BY <1>1, <1>4, <1>5, <1>6, StepFacts

-----------------------------------------------------------------------------
(* The theorems.                                                              *)

LEMMA StepInv == ASSUME OneAdapter, IndInv, [Next]_vars PROVE IndInv'
<1>1. CASE UNCHANGED vars
  <2>1. /\ disk' = disk /\ mem' = mem /\ at' = at /\ born' = born /\ asked' = asked
        /\ verified' = verified /\ recycled' = recycled /\ cut' = cut /\ kills' = kills
    BY <1>1 DEF vars
  <2>2. Typed'
    BY <2>1 DEF IndInv, Typed, FilesTyped, GhostsTyped
  <2>3. Files3'
    BY <2>1 DEF IndInv, Files3, Together, AddCutIn
  <2>4. ASSUME NEW i \in Insts PROVE Copy(i)'
    BY <2>1 DEF IndInv, Copy, Together, Grew, Shrank, Follows, Left, Wrote, Hid
  <2> QED
    BY <2>2, <2>3, <2>4 DEF IndInv
<1>2. CASE Next
  <2>1. ASSUME NEW i \in Insts, Files(i) PROVE IndInv'
    BY <2>1, OpenIndexInv, OpenRecordsInv, OpenExcludedInv, PersistIndexInv, PersistRecordsInv,
       PersistExcludedInv DEF Files
  <2>2. ASSUME NEW i \in Insts, Close(i) \/ Kill(i) PROVE IndInv'
    BY <2>2, CloseInv, KillInv
  <2>3. ASSUME NEW i \in Insts, NEW k \in Keys, NEW v \in Versions, Add(i, k, v) PROVE IndInv'
    BY <2>3, AddInv
  <2>4. ASSUME NEW i \in Insts, NEW k \in Keys,
               \/ Suppress(i, k) \/ NativeDelete(i, k) \/ ReclaimNothing(i, k)
               \/ ReclaimFails(i, k) \/ Reclaim(i, k) \/ Probe(i, k)
        PROVE  IndInv'
    BY <2>4, SuppressInv, NativeDeleteInv, ReclaimNothingInv, ReclaimFailsInv, ReclaimInv, ProbeInv
  <2> QED
    BY <1>2, <2>1, <2>2, <2>3, <2>4 DEF Next
<1> QED
  BY <1>1, <1>2

LEMMA AlwaysInv == ASSUME OneAdapter PROVE Spec => []IndInv
<1>1. Init => IndInv
  BY InitInv
<1>2. IndInv /\ [Next]_vars => IndInv'
  BY StepInv
<1> QED
  BY <1>1, <1>2, PTL DEF Spec

\* Type correctness of the files and of every copy.
THEOREM TypeCorrect == ASSUME OneAdapter PROVE Spec => []TypeOK
<1>1. IndInv => TypeOK
  <2> SUFFICES ASSUME IndInv PROVE TypeOK
    OBVIOUS
  <2>1. ASSUME NEW m \in Copies
        PROVE  /\ m.index \in Seq(Entries) /\ m.records \in RecordMaps
               /\ m.excluded \subseteq Ids /\ m.next \in 1..MaxIds + 1
    BY DiskFacts, MemFacts DEF Copies, IndInv
  <2>2. ASSUME NEW m \in Copies, NEW r \in Range(m.index)
        PROVE  r.id \in 1..MaxIds /\ [key |-> r.key, version |-> r.version] \in Contents
    <3>1. r \in Entries
      BY <2>1, RangeFacts
    <3> QED
      BY <3>1 DEF Entries, Ids, Contents
  <2>3. ASSUME NEW m \in Copies
        PROVE  /\ DOMAIN m.records \subseteq Keys
               /\ \A k \in DOMAIN m.records :
                    /\ m.records[k].id \in 1..MaxIds /\ m.records[k].id < m.next
                    /\ m.records[k].flagged \in BOOLEAN
                    /\ \A j \in DOMAIN m.records : m.records[j].id = m.records[k].id => j = k
    <3>1. /\ DOMAIN m.records \subseteq Keys
          /\ \A k \in DOMAIN m.records : m.records[k] \in [id : Ids, version : Versions, flagged : BOOLEAN]
      BY <2>1, RecordFacts
    <3>2. \A k \in DOMAIN m.records : m.records[k].id \in 1..MaxIds
      BY <3>1 DEF Ids
    <3>3. \A k \in DOMAIN m.records : m.records[k].flagged \in BOOLEAN
      BY <3>1
    <3>4. Numbered(m.records, m.next)
      BY DEF Copies, IndInv, Files3, Copy, Together
    <3> QED
      BY <3>1, <3>2, <3>3, <3>4 DEF Numbered
  <2>4. verified \subseteq asked /\ asked \subseteq Keys /\ kills \in 0..MaxKills
    BY DEF IndInv, Typed, GhostsTyped
  <2>5. cut \in BOOLEAN
    BY DEF IndInv, Typed, GhostsTyped
  <2> QED
    BY <2>1, <2>2, <2>3, <2>4, <2>5 DEF TypeOK, Ids
<1> QED
  BY <1>1, AlwaysInv, PTL

\* No vector in the files or in a copy answers with the record of another key, but for
\* the id that is used twice after an add was cut off (faiss.py:100).
THEOREM VectorsAnswerForThemselves == ASSUME OneAdapter PROVE Spec => []AnswersForItself
<1>1. IndInv => AnswersForItself
  <2> SUFFICES ASSUME IndInv, ~cut PROVE AnswersForItself
    BY DEF AnswersForItself
  <2>1. Answering(disk.index, disk.records) /\ \A i \in Insts : Answering(mem[i].index, mem[i].records)
    BY DEF IndInv, Files3, Copy, Together
  <2> QED
    BY <2>1 DEF AnswersForItself, Answering, Copies
<1> QED
  BY <1>1, AlwaysInv, PTL

\* What was verified as erased is in none of the three files until it is written again
\* (faiss.py:150, _vector.py:246).
THEOREM VerifiedStaysGone == ASSUME OneAdapter PROVE Spec => []VerifiedBytesGone
<1>1. IndInv => VerifiedBytesGone
  BY DEF IndInv, Files3, Together, Free, VerifiedBytesGone, BytesOf
<1> QED
  BY <1>1, AlwaysInv, PTL

-----------------------------------------------------------------------------
(* The files keep the promise of an adapter.                                  *)

\* A record that was not asked for has its bytes.
LEMMA SoundHasBytes ==
    ASSUME NEW index \in Seq(Entries), NEW R, NEW wanted, Sound(index, R, wanted),
           NEW k \in DOMAIN R, k \notin wanted
    PROVE  R[k].version \in {r.version : r \in {r \in Range(index) : r.key = k}}
<1>1. PICK p \in DOMAIN index :
             index[p] = [id |-> R[k].id, key |-> k, version |-> R[k].version]
  BY DEF Sound, Own
<1>2. index[p] \in Range(index) /\ index[p].key = k /\ index[p].version = R[k].version
  BY <1>1, RangeFacts
<1> QED
  BY <1>2

\* The record of a key is what it was, and its bytes are no more than they were.
SameRecord(k) == /\ k \in DOMAIN disk.records <=> k \in DOMAIN disk.records'
                 /\ k \in DOMAIN disk.records => disk.records'[k] = disk.records[k]
LEMMA SameIsKept ==
    ASSUME NEW k \in Keys, disk.index' \in Seq(Entries),
           Sound(disk.index', disk.records, asked), SameRecord(k),
           BytesOf(k)' \subseteq BytesOf(k)
    PROVE  Promise!Kept(k)
<1>1. RecordOf(k)' = RecordOf(k)
  BY DEF SameRecord, RecordOf
<1>2. ASSUME RecordOf(k) # [state |-> "none"], k \notin asked
      PROVE  RecordOf(k).version \in BytesOf(k)'
  <2>1. k \in DOMAIN disk.records /\ RecordOf(k).version = disk.records[k].version
    BY <1>2 DEF RecordOf, None, Shown
  <2> QED
    BY <1>2, <2>1, SoundHasBytes DEF BytesOf
<1> HIDE DEF RecordOf, BytesOf
<1> QED
  BY <1>1, <1>2 DEF Promise!Kept, Promise!None

\* A record that is gone, and was asked for.
LEMMA AskedIsErased ==
    ASSUME NEW k \in Keys, k \in asked', k \notin DOMAIN disk.records', BytesOf(k)' \subseteq BytesOf(k)
    PROVE  Promise!Erased(k)
<1>1. RecordOf(k)' = [state |-> "none"]
  BY DEF RecordOf, None
<1> HIDE DEF RecordOf, BytesOf
<1> QED
  BY <1>1 DEF Promise!Erased, Promise!None

LEMMA FlaggedIsHidden ==
    ASSUME NEW k \in Keys, k \in DOMAIN disk.records, k \in DOMAIN disk.records',
           ~disk.records[k].flagged, disk.records[k] \in [id : Ids, version : Versions, flagged : BOOLEAN],
           disk.records'[k] = [disk.records[k] EXCEPT !.flagged = TRUE],
           BytesOf(k)' = BytesOf(k)
    PROVE  Promise!Hidden(k)
<1>1. RecordOf(k).state = "live" /\ RecordOf(k).version = disk.records[k].version
  BY DEF RecordOf, Shown
<1>2. disk.records'[k].flagged /\ disk.records'[k].version = disk.records[k].version
  OBVIOUS
<1>3. RecordOf(k)' = [state |-> "hidden", version |-> disk.records[k].version]
  BY <1>2 DEF RecordOf, Shown
<1> HIDE DEF RecordOf, BytesOf
<1> QED
  BY <1>1, <1>3 DEF Promise!Hidden, Promise!Shown

LEMMA LiveIsPublished ==
    ASSUME NEW k \in Keys, k \in DOMAIN disk.records', ~disk.records'[k].flagged,
           disk.records'[k].version \in Versions,
           disk.records'[k].version \in BytesOf(k)', BytesOf(k)' \subseteq BytesOf(k)
    PROVE  Promise!Published(k)
<1>1. RecordOf(k)' = [state |-> "live", version |-> disk.records'[k].version]
  BY DEF RecordOf, Shown
<1> HIDE DEF RecordOf, BytesOf
<1> QED
  BY <1>1 DEF Promise!Published, Promise!Shown

\* A step that leaves the index and the records of the files.
LEMMA SameForAll ==
    ASSUME IndInv, disk'.index = disk.index, disk'.records = disk.records
    PROVE  Promise!Next
<1>1. disk.index' \in Seq(Entries) /\ Sound(disk.index', disk.records, asked)
  BY DiskFacts DEF IndInv, Files3, Together
<1>2. ASSUME NEW k \in Keys PROVE SameRecord(k) /\ BytesOf(k)' \subseteq BytesOf(k)
  BY DEF SameRecord, BytesOf
<1> QED
  BY <1>1, <1>2, SameIsKept DEF Promise!Next

LEMMA PersistIndexKeeps ==
    ASSUME OneAdapter, IndInv, NEW i \in Insts, PersistIndex(i) PROVE Promise!Next
<1>1. /\ disk.index' = mem[i].index /\ disk.records' = disk.records
      /\ Grew(i) /\ Shrank(i) /\ Sound(mem[i].index, disk.records, asked)
  BY DiskFacts DEF PersistIndex, IndInv, Copy, Disks
<1>2. disk.index' \in Seq(Entries) /\ Sound(disk.index', disk.records, asked)
  BY <1>1, MemFacts DEF IndInv
<1>3. ASSUME NEW j \in Keys PROVE SameRecord(j)
  BY <1>1 DEF SameRecord
<1>4. CASE at[i].op # "add"
  <2>1. ASSUME NEW j \in Keys PROVE BytesOf(j)' \subseteq BytesOf(j)
    BY <1>1, <1>4 DEF Shrank, BytesOf
  <2> QED
    BY <1>2, <1>3, <2>1, SameIsKept DEF Promise!Next
<1>5. CASE at[i].op = "add"
  <2>1. PICK r \in Entries : Range(mem[i].index) = Range(disk.index) \union {r}
    BY <1>1, <1>5 DEF Grew
  <2>2. r.key \in Keys /\ r.version \in Versions
    BY <2>1 DEF Entries
  <2>3. ASSUME NEW j \in Keys, j # r.key PROVE BytesOf(j)' \subseteq BytesOf(j)
    BY <1>1, <2>1, <2>3 DEF BytesOf
  <2>4. ASSUME NEW j \in Keys, j = r.key PROVE Promise!Written(j)
    <3>1. BytesOf(j)' = BytesOf(j) \union {r.version}
      BY <1>1, <2>1, <2>4 DEF BytesOf
    <3>2. RecordOf(j)' = RecordOf(j)
      BY <1>3 DEF SameRecord, RecordOf
    <3> HIDE DEF BytesOf, RecordOf
    <3> QED
      BY <2>2, <3>1, <3>2 DEF Promise!Written
  <2>5. ASSUME NEW j \in Keys, j # r.key PROVE Promise!Kept(j)
    BY <1>2, <1>3, <2>3, <2>5, SameIsKept
  <2> QED
    BY <2>4, <2>5 DEF Promise!Next
<1> QED
  BY <1>4, <1>5

LEMMA PersistRecordsKeeps ==
    ASSUME OneAdapter, IndInv, NEW i \in Insts, PersistRecords(i) PROVE Promise!Next
<1>1. /\ disk.index' = disk.index /\ disk.records' = mem[i].records
      /\ mem[i].index = disk.index /\ Follows(i)
      /\ asked' = IF at[i].op = "add" THEN asked \ {at[i].key} ELSE asked
  BY DiskFacts DEF PersistRecords, IndInv, Copy, Disks
<1>2. disk.index' \in Seq(Entries) /\ Sound(disk.index', disk.records, asked)
  BY <1>1, DiskFacts DEF IndInv, Files3, Together
<1>3. ASSUME NEW j \in Keys PROVE BytesOf(j)' = BytesOf(j)
  BY <1>1 DEF BytesOf
<1>4. ASSUME NEW j \in Keys, Left(i, j), j # at[i].key \/ at[i].op # "add"
      PROVE  Promise!Kept(j) \/ Promise!Erased(j)
  <2>1. CASE j \in DOMAIN disk.records /\ j \notin DOMAIN mem[i].records
    <3>1. j \in asked'
      BY <1>1, <1>4, <2>1 DEF Left
    <3> QED
      BY <1>1, <1>3, <2>1, <3>1, AskedIsErased
  <2>2. CASE ~(j \in DOMAIN disk.records /\ j \notin DOMAIN mem[i].records)
    <3>1. SameRecord(j)
      BY <1>1, <1>4, <2>2 DEF Left, SameRecord
    <3> QED
      BY <1>2, <1>3, <3>1, SameIsKept
  <2> QED
    BY <2>1, <2>2
<1>5. ASSUME NEW j \in Keys, j = at[i].key, at[i].op = "add" PROVE Promise!Published(j)
  <2>1. /\ j \in DOMAIN mem[i].records /\ ~mem[i].records[j].flagged
        /\ Own(mem[i].index, mem[i].records, j)
    BY <1>1, <1>5 DEF Follows, Wrote
  <2>2. mem[i].records[j].version \in Versions
    BY <2>1, MemFacts, RecordFacts DEF IndInv
  <2>3. PICK p \in DOMAIN mem[i].index :
               mem[i].index[p] =
                 [id |-> mem[i].records[j].id, key |-> j, version |-> mem[i].records[j].version]
    BY <2>1 DEF Own
  <2>4. /\ mem[i].index[p] \in Range(mem[i].index) /\ mem[i].index[p].key = j
        /\ mem[i].index[p].version = mem[i].records[j].version
    BY <2>3, RangeFacts, MemFacts DEF IndInv
  <2>5. disk.records'[j].version \in BytesOf(j)'
    BY <1>1, <2>4 DEF BytesOf
  <2> QED
    BY <1>1, <1>3, <2>1, <2>2, <2>5, LiveIsPublished
<1>6. ASSUME NEW j \in Keys, j = at[i].key, at[i].op = "suppress"
      PROVE  Promise!Kept(j) \/ Promise!Hidden(j) \/ Promise!Erased(j)
  <2>1. Hid(i, j)
    BY <1>1, <1>6 DEF Follows
  <2>2. CASE j \in DOMAIN mem[i].records
    <3>1. /\ j \in DOMAIN disk.records
          /\ disk.records'[j] = [disk.records[j] EXCEPT !.flagged = TRUE]
          /\ disk.records[j] \in [id : Ids, version : Versions, flagged : BOOLEAN]
      BY <1>1, <2>1, <2>2, DiskFacts, RecordFacts DEF Hid, IndInv
    <3>2. CASE disk.records[j].flagged
      <4>1. disk.records'[j] = disk.records[j]
        BY <3>1, <3>2
      <4>2. SameRecord(j)
        BY <1>1, <2>2, <3>1, <4>1 DEF SameRecord
      <4> QED
        BY <1>2, <1>3, <4>2, SameIsKept
    <3>3. CASE ~disk.records[j].flagged
      BY <1>1, <1>3, <2>2, <3>1, <3>3, FlaggedIsHidden
    <3> QED
      BY <3>2, <3>3
  <2>3. CASE j \in DOMAIN disk.records /\ j \notin DOMAIN mem[i].records
    <3>1. j \in asked'
      BY <1>1, <1>6, <2>1, <2>3 DEF Hid
    <3> QED
      BY <1>1, <1>3, <2>3, <3>1, AskedIsErased
  <2>4. CASE j \notin DOMAIN disk.records /\ j \notin DOMAIN mem[i].records
    <3>1. SameRecord(j)
      BY <1>1, <2>4 DEF SameRecord
    <3> QED
      BY <1>2, <1>3, <3>1, SameIsKept
  <2> QED
    BY <2>2, <2>3, <2>4
<1>7. ASSUME NEW j \in Keys
      PROVE  Promise!Kept(j) \/ Promise!Published(j) \/ Promise!Hidden(j) \/ Promise!Erased(j)
  <2>1. CASE j # at[i].key \/ at[i].op \notin {"add", "suppress"}
    BY <1>1, <1>4, <2>1 DEF Follows
  <2>2. CASE j = at[i].key /\ at[i].op \in {"add", "suppress"}
    BY <1>5, <1>6, <2>2
  <2> QED
    BY <2>1, <2>2
<1> QED
  BY <1>7 DEF Promise!Next

LEMMA NextKeeps == ASSUME OneAdapter, IndInv, [Next]_vars PROVE Promise!Next
<1>1. ASSUME NEW i \in Insts, PersistExcluded(i) PROVE Promise!Next
  <2>1. disk'.index = disk.index /\ disk'.records = disk.records
    BY <1>1, DiskFacts DEF PersistExcluded, IndInv, Disks
  <2> QED
    BY <2>1, SameForAll
<1>2. CASE disk' = disk
  BY <1>2, SameForAll
<1>3. CASE UNCHANGED vars
  BY <1>2, <1>3 DEF vars
<1>4. ASSUME NEW i \in Insts, OpenIndex(i) \/ OpenRecords(i) \/ OpenExcluded(i) \/ Close(i) \/ Kill(i)
      PROVE  Promise!Next
  BY <1>2, <1>4 DEF OpenIndex, OpenRecords, OpenExcluded, Close, Kill
<1>5. ASSUME NEW i \in Insts, NEW k \in Keys,
             \/ \E v \in Versions : Add(i, k, v)
             \/ Suppress(i, k) \/ NativeDelete(i, k) \/ ReclaimNothing(i, k)
             \/ ReclaimFails(i, k) \/ Reclaim(i, k) \/ Probe(i, k)
      PROVE  Promise!Next
  BY <1>2, <1>5 DEF Add, Suppress, NativeDelete, ReclaimNothing, ReclaimFails, Reclaim, Probe
<1>6. CASE Next
  BY <1>1, <1>4, <1>5, <1>6, PersistIndexKeeps, PersistRecordsKeeps DEF Next, Files
<1> QED
  BY <1>3, <1>6

\* However its operations are cut off, the adapter's files implement the abstract store:
\* a kill un-suppresses nothing, no survivor of a rebuild is lost, nothing erased comes
\* back (faiss.py:103, docs/adapters.md:37).
THEOREM FilesKeepThePromise == ASSUME OneAdapter PROVE Spec => ImplementsErasableStore
<1>1. Init => Promise!Init
  <2> SUFFICES ASSUME Init PROVE Promise!Init
    OBVIOUS
  <2>1. \A k : RecordOf(k) = [state |-> "none"] /\ BytesOf(k) = {}
    BY ConstantFacts DEF Init, RecordOf, None, BytesOf
  <2> QED
    BY <2>1 DEF Init, Promise!Init, Promise!None
<1>2. IndInv /\ [Next]_vars => [Promise!Next]_(Promise!store)
  BY NextKeeps
<1> QED
  BY <1>1, <1>2, AlwaysInv, PTL DEF Spec, ImplementsErasableStore, Promise!Spec
=============================================================================
