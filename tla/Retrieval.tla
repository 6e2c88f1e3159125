------------------------------ MODULE Retrieval ------------------------------
(***************************************************************************)
(* A vector store in use: an engine (PgvectorStore, ChromaStore, QdrantStore, *)
(* PineconeStore), the saga's steps on its records, and the wrapper through   *)
(* which an application reads it (integrations/langchain.py) with its cached   *)
(* set of tombstones.  The operator's process and the application's work at   *)
(* the same time, each with an adapter of its own; the operator's may be       *)
(* killed between two calls of the engine.  Qdrant's local mode has one         *)
(* process for both, and a lock around every call of its adapter.              *)
(***************************************************************************)
EXTENDS VectorStore

CONSTANTS
    Kinds,     \* the kinds of engine, of those below
    Threads,   \* threads of the application
    Shared,    \* whether the threads share one wrapper
    Keys,      \* the keys of the records
    MaxAdds,   \* bound on writes
    MaxKills   \* bound on kills

\* pgvector for a role that owns the table and reads its files, does one of the two,
\* or neither.
Postgres == {"pgvector", "pgvector_hosted", "pgvector_reader", "pgvector_managed"}
AllKinds == Postgres \union {"chroma", "qdrant", "qdrant_server", "pinecone"}
ASSUME KindsAssumption == Kinds \subseteq AllKinds
ASSUME BoundsAssumption == MaxAdds \in Nat /\ MaxKills \in Nat

VARIABLES
    kind,      \* which engine it is
    mine,      \* the keys that the operator's process has suppressed itself
    tombs,     \* the embeddings tombstoned in the lineage
    seq,       \* the lineage's sequence counter
    done,      \* the steps of each key's erasure that are journaled
    wrapper,   \* each wrapper's cached tombstones and their sequence number
    thread,    \* what each thread of the application is doing
    added,     \* the keys that were ever written
    asked,     \* those to be deleted or erased since
    verified,  \* those whose erasure was verified since
    cut,       \* whether a rewrite was cut off, or overlapped a write
    adds, kills

lineage == <<tombs, seq>>
app == <<wrapper, thread>>
ghosts == <<added, asked, verified, cut>>
vars == <<kind, store, op, mine, lineage, done, app, ghosts, adds, kills>>

Owns == kind \in {"pgvector", "pgvector_hosted"}
Reads == kind \in {"pgvector", "pgvector_reader"}
Pgvector == INSTANCE PgvectorStore WITH owner <- Owns, reader <- Reads
Chroma == INSTANCE ChromaStore
Qdrant == INSTANCE QdrantStore WITH Local <- TRUE
Server == INSTANCE QdrantStore WITH Local <- FALSE
Pinecone == INSTANCE PineconeStore

Physical == \/ kind \in Postgres /\ Pgvector!Physical
            \/ kind = "chroma" /\ Chroma!Physical
            \/ kind = "qdrant" /\ Qdrant!Physical
            \/ kind = "qdrant_server" /\ Server!Physical
            \/ kind = "pinecone" /\ Pinecone!Physical

Opened == \/ kind \in Postgres /\ Pgvector!Opened
          \/ kind = "chroma" /\ Chroma!Opened
          \/ kind = "qdrant" /\ Qdrant!Opened
          \/ kind = "qdrant_server" /\ Server!Opened
          \/ kind = "pinecone" /\ Pinecone!Opened

Rows == CASE kind \in Postgres -> Pgvector!Rows
          [] kind = "chroma" -> Chroma!Rows
          [] kind = "qdrant" -> Qdrant!Rows
          [] kind = "qdrant_server" -> Server!Rows
          [] kind = "pinecone" -> Pinecone!Rows

Residue(k) == \/ kind \in Postgres /\ Pgvector!Residue(k)
              \/ kind = "chroma" /\ Chroma!Residue(k)
              \/ kind = "qdrant" /\ Qdrant!Residue(k)
              \/ kind = "qdrant_server" /\ Server!Residue(k)
              \/ kind = "pinecone" /\ Pinecone!Residue(k)

Upsert(k) == \/ kind \in Postgres /\ Pgvector!Upsert(k)
             \/ kind = "chroma" /\ Chroma!Upsert(k)
             \/ kind = "qdrant" /\ Qdrant!Upsert(k)
             \/ kind = "qdrant_server" /\ Server!Upsert(k)
             \/ kind = "pinecone" /\ Pinecone!Upsert(k)

EngineMark(k) == \/ kind \in Postgres /\ Pgvector!Mark(k)
                 \/ kind = "chroma" /\ Chroma!Mark(k)
                 \/ kind = "qdrant" /\ Qdrant!Mark(k)
                 \/ kind = "qdrant_server" /\ Server!Mark(k)
                 \/ kind = "pinecone" /\ Pinecone!Mark(k)

EngineDelete(k) == \/ kind \in Postgres /\ Pgvector!Delete(k)
                   \/ kind = "chroma" /\ Chroma!Delete(k)
                   \/ kind = "qdrant" /\ Qdrant!Delete(k)
                   \/ kind = "qdrant_server" /\ Server!Delete(k)
                   \/ kind = "pinecone" /\ Pinecone!Delete(k)

Reclaiming == \/ kind \in Postgres /\ Pgvector!Reclaiming
              \/ kind = "chroma" /\ Chroma!Reclaiming
              \/ kind = "qdrant" /\ Qdrant!Reclaiming
              \/ kind = "qdrant_server" /\ Server!Reclaiming
              \/ kind = "pinecone" /\ Pinecone!Reclaiming

OneProcess == kind = "qdrant"
Unlocked == OneProcess => op.at = "idle"

Nobody == [at |-> "idle", hits |-> {}, since |-> {}, seq |-> 0, read |-> {}]
NewWrapper == [cache |-> {}, seq |-> 0]

Init ==
    /\ kind \in Kinds
    /\ Opened /\ op = Resting
    /\ mine = {} /\ tombs = {} /\ seq = 1
    /\ done = [k \in Keys |-> "nothing"]
    /\ wrapper = [t \in Threads |-> NewWrapper]
    /\ thread = [t \in Threads |-> Nobody]
    /\ added = {} /\ asked = {} /\ verified = {} /\ cut = FALSE
    /\ adds = 0 /\ kills = 0

Converge ==
    /\ kind = "pinecone" /\ Pinecone!Converge
    /\ UNCHANGED <<kind, mine, lineage, done, app, ghosts, adds, kills>>

-----------------------------------------------------------------------------
(* The application writes and deletes.                                        *)

\* add: a rewrite that has read its survivors and not dropped the collection yet
\* will not know of the record.
Add(k) ==
    /\ Unlocked
    /\ adds < MaxAdds
    /\ adds' = adds + 1
    /\ Upsert(k)
    /\ added' = added \union {k}
    /\ asked' = asked \ {k}
    /\ verified' = verified \ {k}
    /\ cut' = (cut \/ op.at = "dropping")
    /\ UNCHANGED <<kind, op, mine, lineage, done, app, kills>>

NativeDelete(k) ==
    /\ Unlocked
    /\ k \in DOMAIN table
    /\ EngineDelete(k)
    /\ asked' = asked \union {k}
    /\ UNCHANGED <<kind, op, mine, lineage, done, app, added, verified, cut, adds, kills>>

-----------------------------------------------------------------------------
(* The application reads: the engine's answer first, then the tombstones, from *)
(* the wrapper's cache when the sequence counter says that it is current.     *)

Of(t) == CHOOSE u \in Threads : Shared \/ u = t

Retrieve(t) ==
    /\ Unlocked
    /\ thread[t].at = "idle"
    /\ thread' = [thread EXCEPT ![t] =
         [Nobody EXCEPT !.at = "checking", !.since = tombs,
                        !.hits = Answers(Rows, IF OneProcess THEN mine ELSE {})]]
    /\ UNCHANGED <<kind, store, op, mine, lineage, done, wrapper, ghosts, adds, kills>>

ReadSeq(t) ==
    /\ thread[t].at = "checking"
    /\ thread' = [thread EXCEPT
         ![t].seq = IF seq = wrapper[Of(t)].seq THEN 0 ELSE seq,
         ![t].at = IF seq = wrapper[Of(t)].seq THEN "serving" ELSE "reading"]
    /\ UNCHANGED <<kind, store, op, mine, lineage, done, wrapper, ghosts, adds, kills>>

ReadTombs(t) ==
    /\ thread[t].at = "reading"
    /\ thread' = [thread EXCEPT ![t].read = tombs, ![t].at = "caching"]
    /\ UNCHANGED <<kind, store, op, mine, lineage, done, wrapper, ghosts, adds, kills>>

CacheTombs(t) ==
    /\ thread[t].at = "caching"
    /\ wrapper' = [wrapper EXCEPT ![Of(t)].cache = thread[t].read]
    /\ thread' = [thread EXCEPT ![t].at = "stamping", ![t].read = {}]
    /\ UNCHANGED <<kind, store, op, mine, lineage, done, ghosts, adds, kills>>

CacheSeq(t) ==
    /\ thread[t].at = "stamping"
    /\ wrapper' = [wrapper EXCEPT ![Of(t)].seq = thread[t].seq]
    /\ thread' = [thread EXCEPT ![t].at = "serving", ![t].seq = 0]
    /\ UNCHANGED <<kind, store, op, mine, lineage, done, ghosts, adds, kills>>

Served(t) == thread[t].hits \ wrapper[Of(t)].cache

Serve(t) ==
    /\ thread[t].at = "serving"
    /\ thread' = [thread EXCEPT ![t] = Nobody]
    /\ UNCHANGED <<kind, store, op, mine, lineage, done, wrapper, ghosts, adds, kills>>

Reading(t) == Retrieve(t) \/ ReadSeq(t) \/ ReadTombs(t) \/ CacheTombs(t) \/ CacheSeq(t) \/ Serve(t)

-----------------------------------------------------------------------------
(* The saga's steps on one record.                                            *)

\* Mutant of Tombstone: the rows are written without taking a sequence number.
UncountedTombstone(k) ==
    /\ op.at = "idle" /\ done[k] = "nothing" /\ k \in added
    /\ tombs' = tombs \union {k}
    /\ done' = [done EXCEPT ![k] = "tombstoned"]
    /\ UNCHANGED <<kind, store, op, mine, seq, app, ghosts, adds, kills>>

\* LineageStore.tombstone: the rows and a sequence number in one transaction.
Tombstone(k) ==
    /\ op.at = "idle" /\ done[k] = "nothing" /\ k \in added
    /\ tombs' = tombs \union {k}
    /\ seq' = seq + 1
    /\ done' = [done EXCEPT ![k] = "tombstoned"]
    /\ UNCHANGED <<kind, store, op, mine, app, ghosts, adds, kills>>

\* suppress hides the keys in its own process and looks which are there.
Suppress(k) ==
    /\ op.at = "idle" /\ done[k] = "tombstoned"
    /\ mine' = mine \union {k}
    /\ Starts(Rows, "marking", k)
    /\ UNCHANGED <<kind, store, lineage, done, app, ghosts, adds, kills>>

\* _mark_suppressed, of what was there.
Mark ==
    /\ op.at = "marking"
    /\ IF op.present THEN EngineMark(op.key) ELSE UNCHANGED store
    /\ Ends
    /\ done' = [done EXCEPT ![op.key] = "suppressed"]
    /\ UNCHANGED <<kind, mine, lineage, app, ghosts, adds, kills>>

\* _reclaim: nothing to do when nothing is returned and, where that can be told, no
\* residue was found.
Noop(k) == /\ k \notin DOMAIN Rows
           /\ kind = "pinecone" \/ (Physical /\ ~Residue(k))

ReclaimNothing(k) ==
    /\ op.at = "idle" /\ done[k] = "suppressed" /\ Noop(k)
    /\ mine' = mine \union {k}
    /\ asked' = asked \union {k}
    /\ done' = [done EXCEPT ![k] = "reclaimed"]
    /\ UNCHANGED <<kind, store, op, lineage, app, added, verified, cut, adds, kills>>

Reclaim(k) ==
    /\ op.at = "idle" /\ done[k] = "suppressed" /\ ~Noop(k)
    /\ mine' = mine \union {k}
    /\ asked' = asked \union {k}
    /\ Starts(Rows, "deleting", k)
    /\ UNCHANGED <<kind, store, lineage, done, app, added, verified, cut, adds, kills>>

\* The engine's own steps; the last of them ends the reclaim.
Step ==
    /\ Reclaiming
    /\ asked' = IF op.at = "deleting" THEN asked \union {op.key} ELSE asked
    /\ done' = IF op' = Resting THEN [done EXCEPT ![op.key] = "reclaimed"] ELSE done
    /\ UNCHANGED <<kind, mine, lineage, app, added, verified, cut, adds, kills>>

\* The probes.  The logical ones do not see what their own process has suppressed,
\* so in the run that erases they always pass, and only the physical one decides.
Probe(k) ==
    /\ op.at = "idle" /\ done[k] = "reclaimed"
    /\ k \notin Answers(Rows, mine)
    /\ ~Residue(k)
    /\ verified' = verified \union {k}
    /\ UNCHANGED <<kind, store, op, mine, lineage, done, app, added, asked, cut, adds, kills>>

\* The operator's process dies, with the application if it is the same; a resumed
\* run goes on from the journal.
Kill ==
    /\ kills < MaxKills
    /\ op.at # "idle"
    /\ kills' = kills + 1
    /\ op' = Resting /\ mine' = {}
    /\ IF OneProcess
       THEN /\ thread' = [t \in Threads |-> Nobody]
            /\ wrapper' = [t \in Threads |-> NewWrapper]
       ELSE UNCHANGED app
    /\ cut' = (cut \/ (op.at = "refilling" /\ op.kept # << >>))
    /\ UNCHANGED <<kind, store, lineage, done, added, asked, verified, adds>>

Next ==
    \/ Converge
    \/ \E k \in Keys : Add(k) \/ NativeDelete(k)
    \/ \E t \in Threads : Reading(t)
    \/ \E k \in Keys : Tombstone(k) \/ Suppress(k) \/ ReclaimNothing(k) \/ Reclaim(k) \/ Probe(k)
    \/ Mark
    \/ Step
    \/ Kill

Spec == Init /\ [][Next]_vars

-----------------------------------------------------------------------------
(* Properties.                                                                *)

\* The state is well-formed; only a managed service has answers of its own, and the
\* operator's process is never in a step that its engine, or its role, does not have.
TypeOK ==
    /\ DOMAIN table \subseteq Keys /\ dead \subseteq Keys /\ mine \subseteq Keys
    /\ kind # "pinecone" => view = << >>
    /\ tombs \subseteq added
    /\ \A k \in Keys : done[k] # "nothing" => k \in tombs
    /\ op.at = "compacting" => Owns
    /\ op.at \in {"dumping", "dropping", "refilling"} => kind \in {"chroma", "qdrant"}
    /\ adds \in 0..MaxAdds /\ kills \in 0..MaxKills

\* What a thread serves was not tombstoned when the engine answered it: neither
\* the cached tombstones, nor an engine that lags behind, nor a record that was
\* written again lets an erased embedding through (langchain.py:168).
TombstonedNotServed ==
    \A t \in Threads :
       thread[t].at = "serving" => Served(t) \intersect thread[t].since = {}

\* A verified erasure on an engine whose files are really read holds until the
\* record is written again: no other erasure, rewrite or kill, no lag of a service
\* and no write behind the saga's back leaves or brings back it or its bytes.
VerifiedGone ==
    Reads \/ kind \in {"chroma", "qdrant"} =>
       \A k \in verified : ~HasBytes(k)

\* A record nobody asked to erase survives every reclaim, unless the rewrite of a
\* collection was cut off before its survivors were back, or overlapped a write
\* that it had not read (docs/adapters.md:37).
NoneLost ==
    cut \/ added \ asked \subseteq DOMAIN table \union DOMAIN op.kept

\* Outside the rewrite of a collection, every step of every kind of engine keeps
\* the adapter's promise: a record shows only after a write, a suppressed one
\* stays hidden until it is written again, whatever was not asked for stays.
RecordOf(k) == IF k \notin DOMAIN table THEN [state |-> "none"]
               ELSE [state |-> IF table[k].flagged THEN "hidden" ELSE "live", version |-> 1]
Promise == INSTANCE ErasableStore WITH
             Versions <- {1},
             record <- [k \in Keys |-> RecordOf(k)],
             bytes <- [k \in Keys |-> IF HasBytes(k) THEN {1} ELSE {}]
Rewriting == op.at \in {"dropping", "refilling"}
KeepsPromise == Promise!Init /\ [][Rewriting \/ Promise!Next]_(Promise!store)

\* docs/verification-levels.md:14 of the physical level: "the patterns are absent
\* from every file the process can read"; what says that it was checked was.
VerifiedMeansGone == Physical => \A k \in verified : ~HasBytes(k)
=============================================================================
