----------------------------- MODULE FaissStore -----------------------------
(***************************************************************************)
(* The FAISS adapter (stores/faiss.py on stores/_vector.py): every open       *)
(* adapter works on its own copy of the index, the records and the excluded   *)
(* ids, and writes all of it back in three files, one after the other.  The   *)
(* index cannot remove a vector: what is overwritten or deleted keeps its     *)
(* bytes until a reclaim rebuilds the index from the survivors.  A process    *)
(* may be killed between any two files.                                       *)
(***************************************************************************)
EXTENDS Integers, Sequences, FiniteSets, SequencesExt

CONSTANTS
    Insts,     \* adapters, each open in a process of its own
    Keys,      \* the keys of the records
    Versions,  \* what may be written under a key
    MaxIds,    \* bound on the ids given out
    MaxKills   \* bound on kills

ASSUME BoundsAssumption == MaxIds \in Nat /\ MaxKills \in Nat

VARIABLES
    disk,      \* the three files: the index, the records with the next id, the excluded ids
    mem,       \* each adapter's copy, and the keys it has suppressed itself
    at,        \* what each adapter is doing
    born,      \* the version whose fingerprint the lineage recorded for a key
    asked,     \* the keys to be deleted or erased since they were written
    verified,  \* the keys whose erasure was verified since
    recycled,  \* the keys written with another version than their lineage knows
    cut,       \* whether an add was cut off by a kill
    kills

vars == <<disk, mem, at, born, asked, verified, recycled, cut, kills>>

With(f, k, x) == [j \in DOMAIN f \union {k} |-> IF j = k THEN x ELSE f[j]]
Contents == [key : Keys, version : Versions]
Empty == [index |-> << >>, records |-> << >>, next |-> 1, excluded |-> {}]
Blank == [index |-> << >>, records |-> << >>, next |-> 1, excluded |-> {}, hidden |-> {}]
Doing(step, op, k) == [step |-> step, op |-> op, key |-> k]
Closed == Doing("closed", "none", CHOOSE k \in Keys : TRUE)
Ready(i) == at[i].step = "ready"
Rest == [Closed EXCEPT !.step = "ready"]

\* The first adapter has made the three files, which are empty, before anything else.
Init ==
    /\ disk = Empty
    /\ mem = [i \in Insts |-> Blank]
    /\ at = [i \in Insts |-> Closed]
    /\ born = << >> /\ asked = {} /\ verified = {} /\ recycled = {}
    /\ cut = FALSE /\ kills = 0

-----------------------------------------------------------------------------
(* Opening reads the three files, and _persist replaces them one by one.      *)

OpenIndex(i) ==
    /\ at[i].step = "closed"
    /\ mem' = [mem EXCEPT ![i] = [Blank EXCEPT !.index = disk.index]]
    /\ at' = [at EXCEPT ![i].step = "reading records"]
    /\ UNCHANGED <<disk, born, asked, verified, recycled, cut, kills>>

OpenRecords(i) ==
    /\ at[i].step = "reading records"
    /\ mem' = [mem EXCEPT ![i].records = disk.records, ![i].next = disk.next]
    /\ at' = [at EXCEPT ![i].step = "reading excluded"]
    /\ UNCHANGED <<disk, born, asked, verified, recycled, cut, kills>>

OpenExcluded(i) ==
    /\ at[i].step = "reading excluded"
    /\ mem' = [mem EXCEPT ![i].excluded = disk.excluded]
    /\ at' = [at EXCEPT ![i] = Rest]
    /\ UNCHANGED <<disk, born, asked, verified, recycled, cut, kills>>

PersistIndex(i) ==
    /\ at[i].step = "persisting"
    /\ disk' = [disk EXCEPT !.index = mem[i].index]
    /\ at' = [at EXCEPT ![i].step = "persisting records"]
    /\ UNCHANGED <<mem, born, asked, verified, recycled, cut, kills>>

PersistRecords(i) ==
    /\ at[i].step = "persisting records"
    /\ disk' = [disk EXCEPT !.records = mem[i].records, !.next = mem[i].next]
    /\ at' = [at EXCEPT ![i].step = "persisting excluded"]
    /\ asked' = IF at[i].op = "add" THEN asked \ {at[i].key} ELSE asked
    /\ UNCHANGED <<mem, born, verified, recycled, cut, kills>>

PersistExcluded(i) ==
    /\ at[i].step = "persisting excluded"
    /\ disk' = [disk EXCEPT !.excluded = mem[i].excluded]
    /\ IF at[i].op = "close"
       THEN at' = [at EXCEPT ![i] = Closed] /\ mem' = [mem EXCEPT ![i] = Blank]
       ELSE at' = [at EXCEPT ![i] = Rest] /\ UNCHANGED mem
    /\ UNCHANGED <<born, asked, verified, recycled, cut, kills>>

Persist(i, op, k) == at' = [at EXCEPT ![i] = Doing("persisting", op, k)]

\* close() persists whatever the adapter was opened for.
Close(i) ==
    /\ Ready(i)
    /\ Persist(i, "close", at[i].key)
    /\ UNCHANGED <<disk, mem, born, asked, verified, recycled, cut, kills>>

-----------------------------------------------------------------------------
(* The operations, each under the lock.                                       *)

Holds(i, k) == k \in DOMAIN mem[i].records
IdOf(i, k) == mem[i].records[k].id

\* Mutants of NextId: the index's own count from 0, and the number of records.
ZeroBasedId(i) == mem[i].next - 1
CountedId(i) == Cardinality(DOMAIN mem[i].records) + 1
NextId(i) == mem[i].next

\* _add: an upsert drops the old id and keeps its bytes.  prepare_embeds has
\* created the artifact, or found the one that exists under the key.
Add(i, k, v) ==
    LET n == NextId(i)
        new == [id |-> n, key |-> k, version |-> v]
    IN /\ Ready(i)
       /\ n <= MaxIds
       /\ mem' = [mem EXCEPT
            ![i].index = Append(@, new),
            ![i].records = With(@, k, [id |-> n, version |-> v, flagged |-> FALSE]),
            ![i].next = n + 1,
            ![i].excluded = @ \union IF Holds(i, k) THEN {IdOf(i, k)} ELSE {}]
       /\ born' = IF k \in DOMAIN born THEN born ELSE With(born, k, v)
       /\ recycled' = IF k \in DOMAIN born /\ born[k] # v THEN recycled \union {k} ELSE recycled
       /\ verified' = verified \ {k}
       /\ Persist(i, "add", k)
       /\ UNCHANGED <<disk, asked, cut, kills>>

\* suppress: the adapter's own set, and the flag on a record that is there.
Suppress(i, k) ==
    /\ Ready(i)
    /\ mem' = [mem EXCEPT
         ![i].hidden = @ \union {k},
         ![i].records = IF Holds(i, k) THEN [@ EXCEPT ![k].flagged = TRUE] ELSE @,
         ![i].excluded = @ \union IF Holds(i, k) THEN {IdOf(i, k)} ELSE {}]
    /\ Persist(i, "suppress", k)
    /\ UNCHANGED <<disk, born, asked, verified, recycled, cut, kills>>

Drop(i, k) == [mem[i] EXCEPT
                 !.records = [j \in DOMAIN @ \ {k} |-> @[j]],
                 !.excluded = @ \union IF Holds(i, k) THEN {IdOf(i, k)} ELSE {}]

\* _native_delete: remove_ids is not supported, so only the record goes.
NativeDelete(i, k) ==
    /\ Ready(i)
    /\ Holds(i, k)
    /\ mem' = [mem EXCEPT ![i] = Drop(i, k)]
    /\ asked' = asked \union {k}
    /\ Persist(i, "delete", k)
    /\ UNCHANGED <<disk, born, verified, recycled, cut, kills>>

\* Mutant of Residue: only the records are searched.
RecordedOnly(k) == k \in DOMAIN disk.records

\* probe_physical: the artifact's id, which only its record carries, and the
\* bytes of the fingerprint the lineage knows, in any of the files.  The code knows
\* bytes by their value, the model by the key they were written under too: no two
\* keys have the same vector here.
Residue(k) ==
    \/ k \in DOMAIN disk.records
    \/ k \in DOMAIN born /\ \E r \in Range(disk.index) : r.key = k /\ r.version = born[k]

\* _vector_of: where the vector of an id is; of two with one id, the last one counts.
HasVector(index, id) == \E p \in DOMAIN index : index[p].id = id
PlaceOf(index, id) == CHOOSE p \in DOMAIN index :
                         /\ index[p].id = id
                         /\ \A q \in DOMAIN index : index[q].id = id => q <= p

\* Mutant of Rebuilt: the survivors are the records that are not suppressed.
LiveOnly(m) == SelectSeq(m.index, LAMBDA r : /\ r.key \in DOMAIN m.records
                                             /\ ~m.records[r.key].flagged)
Rebuilt(m) == [j \in 1..Cardinality(DOMAIN m.records) |->
                 m.index[PlaceOf(m.index, m.records[SetToSeq(DOMAIN m.records)[j]].id)]]
CanRebuild(m) == \A k \in DOMAIN m.records : HasVector(m.index, m.records[k].id)

\* Mutant of Nothing: no record means that there is nothing to reclaim.
NoRecord(i, k) == ~Holds(i, k)
Nothing(i, k) == ~Holds(i, k) /\ ~Residue(k)

ReclaimNothing(i, k) ==
    /\ Ready(i)
    /\ k \in DOMAIN born
    /\ Nothing(i, k)
    /\ mem' = [mem EXCEPT ![i].hidden = @ \union {k}]
    /\ asked' = asked \union {k}
    /\ at' = [at EXCEPT ![i] = Doing("ready", "reclaimed", k)]
    /\ UNCHANGED <<disk, born, verified, recycled, cut, kills>>

\* A survivor without a vector makes reconstruct raise, before anything is
\* written; the records are changed in memory already.
ReclaimFails(i, k) ==
    /\ Ready(i)
    /\ k \in DOMAIN born
    /\ ~Nothing(i, k) /\ ~CanRebuild(Drop(i, k))
    /\ mem' = [mem EXCEPT ![i] = [Drop(i, k) EXCEPT !.hidden = @ \union {k}]]
    /\ asked' = asked \union {k}
    /\ at' = [at EXCEPT ![i] = Rest]
    /\ UNCHANGED <<disk, born, verified, recycled, cut, kills>>

Reclaim(i, k) ==
    /\ Ready(i)
    /\ k \in DOMAIN born
    /\ ~Nothing(i, k) /\ CanRebuild(Drop(i, k))
    /\ mem' = [mem EXCEPT ![i] = [Drop(i, k) EXCEPT !.hidden = @ \union {k},
                                                    !.index = Rebuilt(Drop(i, k)),
                                                    !.excluded = {}]]
    /\ asked' = asked \union {k}
    /\ Persist(i, "reclaim", k)
    /\ UNCHANGED <<disk, born, verified, recycled, cut, kills>>

\* What a query, a get or a filter of this adapter returns.
Served(i) == {k \in DOMAIN mem[i].records : ~mem[i].records[k].flagged} \ mem[i].hidden

\* The probes of an artifact after its reclaim: verified at the physical level.
Probe(i, k) ==
    /\ Ready(i)
    /\ k \in asked
    /\ k \notin Served(i) /\ ~Residue(k)
    /\ verified' = verified \union {k}
    /\ UNCHANGED <<disk, mem, at, born, asked, recycled, cut, kills>>

Kill(i) ==
    /\ kills < MaxKills
    /\ at[i].step # "closed"
    /\ kills' = kills + 1
    /\ cut' = (cut \/ (at[i].op = "add" /\ at[i].step = "persisting records"))
    /\ mem' = [mem EXCEPT ![i] = Blank]
    /\ at' = [at EXCEPT ![i] = Closed]
    /\ UNCHANGED <<disk, born, asked, verified, recycled>>

Files(i) == \/ OpenIndex(i) \/ OpenRecords(i) \/ OpenExcluded(i)
            \/ PersistIndex(i) \/ PersistRecords(i) \/ PersistExcluded(i)

Next ==
    \E i \in Insts :
       \/ Files(i) \/ Close(i) \/ Kill(i)
       \/ \E k \in Keys : \/ \E v \in Versions : Add(i, k, v)
                          \/ Suppress(i, k) \/ NativeDelete(i, k)
                          \/ ReclaimNothing(i, k) \/ ReclaimFails(i, k) \/ Reclaim(i, k)
                          \/ Probe(i, k)

Spec == Init /\ [][Next]_vars

\* An operator erases what was asked for until it is verified, and resumes what
\* was interrupted; a process that is persisting goes on.
Erasing(i, k) == Reclaim(i, k) \/ ReclaimNothing(i, k)
FairSpec ==
    /\ Spec
    /\ \A i \in Insts :
         /\ WF_vars(Files(i))
         /\ \A k \in Keys : SF_vars(k \in asked /\ Erasing(i, k)) /\ SF_vars(Probe(i, k))

-----------------------------------------------------------------------------
(* Properties.                                                                *)

\* The files and every adapter's copy are well-formed: no two records of one have the
\* same id, and the next id is above them all (faiss.py:118), although after a cut-off
\* add the id of a vector without a record is given out again.
Copies == {disk} \union {mem[i] : i \in Insts}
TypeOK ==
    /\ \A m \in Copies :
         /\ \A r \in Range(m.index) : /\ r.id \in 1..MaxIds
                                      /\ [key |-> r.key, version |-> r.version] \in Contents
         /\ DOMAIN m.records \subseteq Keys
         /\ \A k \in DOMAIN m.records :
              /\ m.records[k].id \in 1..MaxIds /\ m.records[k].id < m.next
              /\ m.records[k].flagged \in BOOLEAN
              /\ \A j \in DOMAIN m.records : m.records[j].id = m.records[k].id => j = k
         /\ m.excluded \subseteq 1..MaxIds
         /\ m.next \in 1..MaxIds + 1
    /\ verified \subseteq asked /\ asked \subseteq Keys
    /\ kills \in 0..MaxKills /\ cut \in BOOLEAN

\* Whatever the order of the three files, the kills between them and the order
\* of the operations, the files keep the adapter's promise: a kill un-suppresses
\* nothing, no survivor of a rebuild is lost and nothing erased comes back
\* (faiss.py:103, docs/adapters.md:37).
None == [state |-> "none"]
Shown(state, v) == [state |-> state, version |-> v]
RecordOf(k) == IF k \notin DOMAIN disk.records THEN None
               ELSE Shown(IF disk.records[k].flagged THEN "hidden" ELSE "live",
                                  disk.records[k].version)
BytesOf(k) == {r.version : r \in {r \in Range(disk.index) : r.key = k}}
Promise == INSTANCE ErasableStore WITH record <- [k \in Keys |-> RecordOf(k)],
                                       bytes <- [k \in Keys |-> BytesOf(k)]
ImplementsErasableStore == Promise!Spec

\* What is verified is gone from all three files until it is written again, but
\* for a key that was written with another text than the one its fingerprint was
\* taken of (_vector.py:246).
VerifiedBytesGone ==
    \A k \in verified \ recycled : k \notin DOMAIN disk.records /\ BytesOf(k) = {}

\* A vector answers for its own key only: an id is used twice only after an add
\* was cut off between the index and the records (faiss.py:100).
AnswersForItself ==
    cut \/ \A m \in Copies : \A r \in Range(m.index) : \A k \in DOMAIN m.records :
              m.records[k].id = r.id => r.key = k

\* A reclaim that is repeated succeeds in the end, although the interrupted
\* reclaim of one key makes those of the others fail until it is resumed.
ErasuresEnd ==
    \A k \in Keys : (k \in asked /\ k \in DOMAIN born) ~> (k \in verified \/ k \notin asked)
=============================================================================
