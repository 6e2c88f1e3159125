--------------------------- MODULE RetrievalProofs ---------------------------
(***************************************************************************)
(* What Retrieval guarantees for any number of records and of threads of the  *)
(* application, for every kind of engine and however often the operator's     *)
(* process is killed, proved with TLAPS.                                     *)
(***************************************************************************)
EXTENDS Retrieval, TLAPS

\* What the role of a Postgres adapter may do hangs on the kind alone.
USE DEF Owns, Reads, Postgres

-----------------------------------------------------------------------------
(* The inductive invariant.                                                   *)

Tables == UNION {[S -> [flagged : BOOLEAN]] : S \in SUBSET Keys}
Ops == [at : {"idle", "marking", "deleting", "compacting", "optimizing", "dumping",
              "dropping", "refilling", "sweeping"},
        key : Keys \union {"none"}, present : BOOLEAN, kept : Tables]
ThreadStates == [at : {"idle", "checking", "reading", "caching", "stamping", "serving"},
                 hits : SUBSET Keys, since : SUBSET Keys, seq : Nat, read : SUBSET Keys]

\* The engine, and the operator's process in a call of it.
EngineTyped ==
    /\ kind \in AllKinds
    /\ table \in Tables /\ view \in Tables /\ dead \subseteq Keys
    /\ kind # "pinecone" => view = << >>
    /\ op \in Ops /\ mine \subseteq Keys
    /\ op.at # "idle" => op.key \in Keys

\* The lineage and the journal.
LineageTyped ==
    /\ seq \in Nat \ {0}
    /\ done \in [Keys -> {"nothing", "tombstoned", "suppressed", "reclaimed"}]
    /\ tombs \subseteq added
    /\ \A k \in Keys : done[k] # "nothing" => k \in tombs

\* The application, and what happened.
AppTyped ==
    /\ wrapper \in [Threads -> [cache : SUBSET Keys, seq : Nat]]
    /\ thread \in [Threads -> ThreadStates]
GhostsTyped ==
    /\ added \subseteq Keys /\ asked \subseteq Keys /\ verified \subseteq Keys
    /\ cut \in BOOLEAN
    /\ adds \in 0..MaxAdds /\ kills \in 0..MaxKills

Typed == EngineTyped /\ LineageTyped /\ AppTyped /\ GhostsTyped

\* Each engine has its own steps, and survivors are held by a rewrite only.
Roles ==
    /\ op.at = "compacting" => Owns
    /\ op.at \in {"dumping", "dropping", "refilling"} => kind \in {"chroma", "qdrant"}
    /\ op.at \notin {"dropping", "refilling"} => DOMAIN op.kept = {}

\* Nothing is done to a record before its tombstone is there.
InOrder == op.at # "idle" => done[op.key] # "nothing"

\* A cache that carries the lineage's number has every tombstone; one that is being
\* renewed carries an older number until it is stamped, and what was read for it
\* has every tombstone if no number was taken since.
Current(t) ==
    /\ wrapper[t].seq <= seq
    /\ wrapper[t].seq = seq => tombs \subseteq wrapper[t].cache
    /\ thread[t].since \subseteq tombs
    /\ thread[t].at \in {"reading", "caching", "stamping"} =>
         wrapper[t].seq < thread[t].seq /\ thread[t].seq <= seq
    /\ thread[t].at = "caching" =>
         /\ thread[t].since \subseteq thread[t].read
         /\ thread[t].seq = seq => tombs \subseteq thread[t].read
    /\ thread[t].at = "stamping" =>
         /\ thread[t].since \subseteq wrapper[t].cache
         /\ thread[t].seq = seq => tombs \subseteq wrapper[t].cache
    /\ thread[t].at = "serving" => thread[t].since \subseteq wrapper[t].cache
Cached == ~Shared => \A t \in Threads : Current(t)

\* Neither the records, nor old bytes, nor what a rewrite will put back, hold a
\* record whose erasure was verified.
Gone ==
    (Reads \/ kind \in {"chroma", "qdrant"}) =>
       \A k \in verified : ~HasBytes(k) /\ k \notin DOMAIN op.kept

\* Until the collection is dropped nothing depends on the survivors that are held;
\* when it is about to be, they have to be all there.
Spared ==
    cut \/ /\ op.at # "refilling" => added \ asked \subseteq DOMAIN table
           /\ op.at = "dropping" => added \ asked \subseteq DOMAIN op.kept
           /\ NoneLost

IndInv ==
    /\ Typed
    /\ Roles
    /\ InOrder
    /\ Cached
    /\ Gone
    /\ Spared

-----------------------------------------------------------------------------
(* What the operators on records do.                                          *)

LEMMA TableFacts ==
    /\ << >> \in Tables /\ DOMAIN << >> = {}
    /\ \A r \in Tables : /\ DOMAIN r \subseteq Keys /\ r \in [DOMAIN r -> [flagged : BOOLEAN]]
                         /\ \A k \in DOMAIN r : r[k] \in [flagged : BOOLEAN]
    /\ \A S \in SUBSET Keys : \A r \in [S -> [flagged : BOOLEAN]] : r \in Tables
BY DEF Tables

LEMMA UpsertedFacts ==
    ASSUME NEW r \in Tables, NEW k \in Keys
    PROVE  /\ Upserted(r, k) \in Tables
           /\ DOMAIN Upserted(r, k) = DOMAIN r \union {k}
           /\ Upserted(r, k)[k] = [flagged |-> FALSE]
           /\ \A j \in DOMAIN r : j # k => Upserted(r, k)[j] = r[j]
<1>1. Upserted(r, k) \in [DOMAIN r \union {k} -> [flagged : BOOLEAN]]
  BY TableFacts DEF Upserted
<1> QED
  BY <1>1, TableFacts DEF Upserted

LEMMA FlaggedFacts ==
    ASSUME NEW r \in Tables, NEW k \in Keys
    PROVE  /\ Flagged(r, k) \in Tables
           /\ DOMAIN Flagged(r, k) = DOMAIN r
           /\ k \in DOMAIN r => Flagged(r, k)[k].flagged
           /\ \A j \in DOMAIN r : j # k => Flagged(r, k)[j] = r[j]
<1>1. CASE k \in DOMAIN r
  <2>1. Flagged(r, k) = [r EXCEPT ![k].flagged = TRUE]
    BY <1>1 DEF Flagged
  <2>2. r \in [DOMAIN r -> [flagged : BOOLEAN]] /\ r[k] \in [flagged : BOOLEAN]
    BY <1>1, TableFacts
  <2>3. [r[k] EXCEPT !.flagged = TRUE] \in [flagged : BOOLEAN]
    BY <2>2
  <2>4. Flagged(r, k) \in [DOMAIN r -> [flagged : BOOLEAN]]
    BY <1>1, <2>1, <2>2, <2>3
  <2>5. DOMAIN Flagged(r, k) = DOMAIN r /\ DOMAIN r \in SUBSET Keys
    BY <2>4, TableFacts
  <2>6. Flagged(r, k) \in Tables
    BY <2>4, <2>5, TableFacts
  <2>7. Flagged(r, k)[k].flagged /\ \A j \in DOMAIN r : j # k => Flagged(r, k)[j] = r[j]
    BY <1>1, <2>1, <2>2
  <2> QED
    BY <2>5, <2>6, <2>7
<1>2. CASE k \notin DOMAIN r
  BY <1>2, TableFacts DEF Flagged
<1> QED
  BY <1>1, <1>2

LEMMA WithoutFacts ==
    ASSUME NEW r \in Tables, NEW k \in Keys
    PROVE  /\ Without(r, k) \in Tables
           /\ DOMAIN Without(r, k) = DOMAIN r \ {k}
           /\ \A j \in DOMAIN r : j # k => Without(r, k)[j] = r[j]
<1>1. Without(r, k) \in [DOMAIN r \ {k} -> [flagged : BOOLEAN]]
  BY TableFacts DEF Without
<1> QED
  BY <1>1, TableFacts DEF Without

LEMMA TargetedFacts ==
    ASSUME EngineTyped, op.at # "idle"
    PROVE  /\ Targeted(table) \in Tables
           /\ DOMAIN table \ {op.key} \subseteq DOMAIN Targeted(table)
           /\ DOMAIN Targeted(table) \subseteq DOMAIN table
           /\ \A j \in DOMAIN Targeted(table) : Targeted(table)[j] = table[j]
           /\ Dying(table) \subseteq {op.key} \intersect DOMAIN table
           /\ Targeted(table) = table \/ op.key \notin DOMAIN Targeted(table)
<1>1. table \in Tables /\ op.key \in Keys
  BY DEF EngineTyped
<1>2. CASE op.present
  <2>1. Targeted(table) = Without(table, op.key)
    BY <1>2 DEF Targeted
  <2>2. Without(table, op.key) \in Tables /\ DOMAIN Without(table, op.key) = DOMAIN table \ {op.key}
    BY <1>1, WithoutFacts
  <2>3. \A j \in DOMAIN table : j # op.key => Without(table, op.key)[j] = table[j]
    BY <1>1, WithoutFacts
  <2>4. Dying(table) \subseteq {op.key} \intersect DOMAIN table
    BY DEF Dying
  <2> HIDE DEF Targeted
  <2> QED
    BY <2>1, <2>2, <2>3, <2>4
<1>3. CASE ~op.present
  BY <1>1, <1>3 DEF Targeted, Dying
<1> QED
  BY <1>2, <1>3

LEMMA RestoredFacts ==
    ASSUME EngineTyped, NEW batch \in SUBSET DOMAIN op.kept
    PROVE  /\ Restored(batch) \in Tables
           /\ DOMAIN Restored(batch) = DOMAIN table \union batch
           /\ LET left == [k \in DOMAIN op.kept \ batch |-> op.kept[k]]
              IN  left \in Tables /\ DOMAIN left = DOMAIN op.kept \ batch
<1>1. table \in Tables /\ op.kept \in Tables
  BY DEF EngineTyped, Ops
<1>2. Restored(batch) \in [DOMAIN table \union batch -> [flagged : BOOLEAN]]
  BY <1>1, TableFacts DEF Restored
<1>3. [k \in DOMAIN op.kept \ batch |-> op.kept[k]]
         \in [DOMAIN op.kept \ batch -> [flagged : BOOLEAN]]
  BY <1>1, TableFacts
<1>4. DOMAIN table \union batch \in SUBSET Keys /\ DOMAIN op.kept \ batch \in SUBSET Keys
  BY <1>1, TableFacts
<1> QED
  BY <1>2, <1>3, <1>4, TableFacts DEF Restored

-----------------------------------------------------------------------------
(* What the calls of an engine do, whichever engine it is.                    *)

OldBytes(k) == /\ view' = view
               /\ dead \subseteq dead' /\ dead' \subseteq dead \union ({k} \intersect DOMAIN table)

LEMMA EngineUpsert ==
    ASSUME NEW k, Upsert(k)
    PROVE  table' = Upserted(table, k) /\ OldBytes(k)
<1>1. CASE kind \in Postgres /\ Pgvector!Upsert(k)
  BY <1>1 DEF Pgvector!Upsert, Pgvector!Shows, Pgvector!Upserted, Upserted, OldBytes
<1>2. CASE kind = "chroma" /\ Chroma!Upsert(k)
  BY <1>2 DEF Chroma!Upsert, Chroma!Shows, Chroma!Upserted, Upserted, OldBytes
<1>3. CASE kind = "qdrant" /\ Qdrant!Upsert(k)
  BY <1>3 DEF Qdrant!Upsert, Qdrant!Shows, Qdrant!Upserted, Upserted, OldBytes
<1>4. CASE kind = "qdrant_server" /\ Server!Upsert(k)
  BY <1>4 DEF Server!Upsert, Server!Shows, Server!Upserted, Upserted, OldBytes
<1>5. CASE kind = "pinecone" /\ Pinecone!Upsert(k)
  BY <1>5 DEF Pinecone!Upsert, Pinecone!Upserted, Upserted, OldBytes
<1> QED
  BY <1>1, <1>2, <1>3, <1>4, <1>5 DEF Upsert

LEMMA EngineMarks ==
    ASSUME NEW k, EngineMark(k)
    PROVE  table' \in {table, Flagged(table, k)} /\ OldBytes(k)
<1>1. CASE kind \in Postgres /\ Pgvector!Mark(k)
  BY <1>1 DEF Pgvector!Mark, Pgvector!Shows, Pgvector!Flagged, Flagged, OldBytes
<1>2. CASE kind = "chroma" /\ Chroma!Mark(k)
  BY <1>2 DEF Chroma!Mark, Chroma!Shows, Chroma!Flagged, Flagged, OldBytes
<1>3. CASE kind = "qdrant" /\ Qdrant!Mark(k)
  BY <1>3 DEF Qdrant!Mark, Qdrant!Shows, Qdrant!Flagged, Flagged, OldBytes
<1>4. CASE kind = "qdrant_server" /\ Server!Mark(k)
  BY <1>4 DEF Server!Mark, Server!Shows, Server!Flagged, Flagged, OldBytes
<1>5. CASE kind = "pinecone" /\ Pinecone!Mark(k)
  BY <1>5 DEF Pinecone!Mark, Pinecone!Flagged, Flagged, OldBytes
<1> QED
  BY <1>1, <1>2, <1>3, <1>4, <1>5 DEF EngineMark

LEMMA EngineDeletes ==
    ASSUME NEW k, EngineDelete(k)
    PROVE  table' = Without(table, k) /\ OldBytes(k)
<1>1. CASE kind \in Postgres /\ Pgvector!Delete(k)
  BY <1>1 DEF Pgvector!Delete, Pgvector!Shows, Pgvector!Without, Without, OldBytes
<1>2. CASE kind = "chroma" /\ Chroma!Delete(k)
  BY <1>2 DEF Chroma!Delete, Chroma!Shows, Chroma!Without, Without, OldBytes
<1>3. CASE kind = "qdrant" /\ Qdrant!Delete(k)
  BY <1>3 DEF Qdrant!Delete, Qdrant!Shows, Qdrant!Without, Without, OldBytes
<1>4. CASE kind = "qdrant_server" /\ Server!Delete(k)
  BY <1>4 DEF Server!Delete, Server!Shows, Server!Without, Without, OldBytes
<1>5. CASE kind = "pinecone" /\ Pinecone!Delete(k)
  BY <1>5 DEF Pinecone!Delete, Pinecone!Without, Without, OldBytes
<1> QED
  BY <1>1, <1>2, <1>3, <1>4, <1>5 DEF EngineDelete

\* The steps of a reclaim.  The delete of the record comes first; some engines are
\* done with that, some rebuild what holds old bytes, some rewrite the collection.
Deletes ==
    /\ op.at = "deleting"
    /\ table' = Targeted(table) /\ view' = view
    /\ dead' \subseteq dead \union Dying(table)
    /\ \/ op' = Resting
       \/ op' = [op EXCEPT !.at = "optimizing"]
       \/ Owns /\ op' = [op EXCEPT !.at = "compacting"]
       \/ kind \in {"chroma", "qdrant"} /\ op' = [op EXCEPT !.at = "dumping"]

Shrinks ==
    /\ op.at \in {"compacting", "optimizing", "sweeping"}
    /\ table' = table /\ view' = view /\ dead' \subseteq dead
    /\ op' = Resting

Dumps ==
    /\ op.at = "dumping"
    /\ table' = table /\ view' = view /\ dead' = dead
    /\ op' = [op EXCEPT !.at = "dropping", !.kept = table]

Drops ==
    /\ op.at = "dropping"
    /\ table' = << >> /\ view' = view /\ dead' \subseteq dead \union DOMAIN table
    /\ op' = [op EXCEPT !.at = "refilling"]

Refills ==
    /\ op.at = "refilling" /\ view' = view /\ dead' = dead
    /\ \E batch \in SUBSET DOMAIN op.kept :
          /\ table' = Restored(batch)
          /\ op' = [op EXCEPT !.kept = [k \in DOMAIN op.kept \ batch |-> op.kept[k]]]

Purges ==
    /\ op.at = "refilling" /\ op.kept = << >>
    /\ table' = table /\ view' = view /\ dead' \subseteq dead
    /\ op' = Resting \/ op' = [op EXCEPT !.at = "sweeping"]

LEMMA PgvectorReclaims ==
    ASSUME kind \in Postgres, Pgvector!Reclaiming
    PROVE  Deletes \/ Shrinks
<1>1. CASE Pgvector!ReclaimDelete
  BY <1>1 DEF Pgvector!ReclaimDelete, Pgvector!Shows, Pgvector!Targeted, Pgvector!Dying,
      Pgvector!Without, Pgvector!Goes, Pgvector!Ends, Pgvector!Resting,
      Deletes, Targeted, Dying, Without, Resting
<1>2. CASE Pgvector!Compact
  BY <1>2 DEF Pgvector!Compact, Pgvector!Ends, Pgvector!Resting, Shrinks, Resting
<1> QED
  BY <1>1, <1>2 DEF Pgvector!Reclaiming

LEMMA ChromaReclaims ==
    ASSUME kind = "chroma", Chroma!Reclaiming
    PROVE  Deletes \/ Dumps \/ Drops \/ Refills \/ Purges \/ Shrinks
<1>1. CASE Chroma!ReclaimDelete
  BY <1>1 DEF Chroma!ReclaimDelete, Chroma!Shows, Chroma!Targeted, Chroma!Dying,
      Chroma!Without, Chroma!Goes, Chroma!Ends, Chroma!Resting,
      Deletes, Targeted, Dying, Without, Resting
<1>2. CASE Chroma!Dump
  BY <1>2 DEF Chroma!Dump, Chroma!store, Dumps
<1>3. CASE Chroma!Drop
  BY <1>3 DEF Chroma!Drop, Chroma!Shows, Chroma!Goes, Drops
<1>4. CASE Chroma!Refill
  BY <1>4 DEF Chroma!Refill, Chroma!Refilled, Chroma!Shows, Chroma!Restored,
      Refills, Restored
<1>5. CASE Chroma!Purge
  BY <1>5 DEF Chroma!Purge, Chroma!Goes, Chroma!Ends, Chroma!Resting, Purges, Resting
<1>6. CASE Chroma!Sweep
  BY <1>6 DEF Chroma!Sweep, Chroma!Ends, Chroma!Resting, Shrinks, Resting
<1> QED
  BY <1>1, <1>2, <1>3, <1>4, <1>5, <1>6 DEF Chroma!Reclaiming

LEMMA QdrantReclaims ==
    ASSUME kind = "qdrant", Qdrant!Reclaiming
    PROVE  Deletes \/ Shrinks \/ Dumps \/ Drops \/ Refills \/ Purges
<1>1. CASE Qdrant!ReclaimDelete
  BY <1>1 DEF Qdrant!ReclaimDelete, Qdrant!Shows, Qdrant!Targeted, Qdrant!Dying,
      Qdrant!Without, Qdrant!Goes, Qdrant!Ends, Qdrant!Resting,
      Deletes, Targeted, Dying, Without, Resting
<1>2. CASE Qdrant!Optimize
  BY <1>2 DEF Qdrant!Optimize, Qdrant!Ends, Qdrant!Resting, Shrinks, Resting
<1>3. CASE Qdrant!Dump
  BY <1>3 DEF Qdrant!Dump, Qdrant!store, Dumps
<1>4. CASE Qdrant!Drop
  BY <1>4 DEF Qdrant!Drop, Qdrant!Shows, Qdrant!Goes, Drops
<1>5. CASE Qdrant!Refill
  BY <1>5 DEF Qdrant!Refill, Qdrant!Refilled, Qdrant!Shows, Qdrant!Restored,
      Refills, Restored
<1>6. CASE Qdrant!Vacuum
  BY <1>6 DEF Qdrant!Vacuum, Qdrant!Goes, Qdrant!Ends, Qdrant!Resting, Purges, Resting
<1> QED
  BY <1>1, <1>2, <1>3, <1>4, <1>5, <1>6 DEF Qdrant!Reclaiming

LEMMA ServerReclaims ==
    ASSUME kind = "qdrant_server", Server!Reclaiming
    PROVE  Deletes \/ Shrinks \/ Dumps \/ Drops \/ Refills \/ Purges
<1>1. CASE Server!ReclaimDelete
  BY <1>1 DEF Server!ReclaimDelete, Server!Shows, Server!Targeted, Server!Dying,
      Server!Without, Server!Goes, Server!Ends, Server!Resting,
      Deletes, Targeted, Dying, Without, Resting
<1>2. CASE Server!Optimize
  BY <1>2 DEF Server!Optimize, Server!Ends, Server!Resting, Shrinks, Resting
<1>3. CASE Server!Dump
  BY <1>3 DEF Server!Dump, Server!store, Dumps
<1>4. CASE Server!Drop
  BY <1>4 DEF Server!Drop, Server!Shows, Server!Goes, Drops
<1>5. CASE Server!Refill
  BY <1>5 DEF Server!Refill, Server!Refilled, Server!Shows, Server!Restored,
      Refills, Restored
<1>6. CASE Server!Vacuum
  BY <1>6 DEF Server!Vacuum, Server!Goes, Server!Ends, Server!Resting, Purges, Resting
<1> QED
  BY <1>1, <1>2, <1>3, <1>4, <1>5, <1>6 DEF Server!Reclaiming

LEMMA PineconeReclaims ==
    ASSUME kind = "pinecone", Pinecone!Reclaiming
    PROVE  Deletes
<1>1. CASE Pinecone!ReclaimDelete
  BY <1>1 DEF Pinecone!ReclaimDelete, Pinecone!Shows, Pinecone!Targeted, Pinecone!Dying,
      Pinecone!Without, Pinecone!Goes, Pinecone!Ends, Pinecone!Resting,
      Deletes, Targeted, Dying, Without, Resting
<1> QED
  BY <1>1 DEF Pinecone!Reclaiming

LEMMA EngineStep ==
    ASSUME Reclaiming
    PROVE  Deletes \/ Shrinks \/ Dumps \/ Drops \/ Refills \/ Purges
BY PgvectorReclaims, ChromaReclaims, QdrantReclaims, ServerReclaims,
   PineconeReclaims DEF Reclaiming

LEMMA ResidueFacts ==
    ASSUME (Reads \/ kind \in {"chroma", "qdrant"}), NEW k
    PROVE  Residue(k) <=> HasBytes(k)
BY DEF Residue, HasBytes, Pgvector!Residue, Pgvector!HasBytes, Chroma!Residue, Chroma!HasBytes,
       Qdrant!Residue, Qdrant!HasBytes

-----------------------------------------------------------------------------
(* The initial states, and what a part of the system leaves alone.            *)

LEMMA InitInv == Init => IndInv
<1> SUFFICES ASSUME Init PROVE IndInv
  OBVIOUS
<1>1. table = << >> /\ view = << >> /\ dead = {}
  BY DEF Init, Opened, Pgvector!Opened, Chroma!Opened, Qdrant!Opened,
         Server!Opened, Pinecone!Opened
<1>2. Resting \in Ops /\ Resting.at = "idle" /\ DOMAIN Resting.kept = {}
  BY TableFacts DEF Resting, Ops
<1>3. Nobody \in ThreadStates /\ NewWrapper \in [cache : SUBSET Keys, seq : Nat]
  BY DEF Nobody, ThreadStates, NewWrapper
<1>4. EngineTyped
  BY <1>1, <1>2, KindsAssumption, TableFacts DEF Init, EngineTyped
<1>5. LineageTyped
  BY DEF Init, LineageTyped
<1>6. AppTyped
  BY <1>3 DEF Init, AppTyped
<1>7. GhostsTyped
  <2>1. cut \in BOOLEAN
    BY DEF Init
  <2> QED
    BY <2>1, BoundsAssumption DEF Init, GhostsTyped
<1>8. Roles /\ InOrder /\ Gone
  BY <1>2 DEF Init, Roles, InOrder, Gone
<1>9. Cached
  BY DEF Init, Cached, Current, Nobody, NewWrapper
<1>10. Spared
  BY DEF Init, Spared, NoneLost
<1> QED
  BY <1>4, <1>5, <1>6, <1>7, <1>8, <1>9, <1>10 DEF IndInv, Typed

\* The application's threads depend on the lineage and themselves alone.
LEMMA AppAlone ==
    ASSUME IndInv, UNCHANGED <<lineage, app>>
    PROVE  AppTyped' /\ Cached'
BY DEF IndInv, Typed, AppTyped, Cached, Current, lineage, app

\* The lineage is not touched by whoever journals nothing.
LEMMA LineageAlone ==
    ASSUME IndInv, UNCHANGED <<lineage, done>>, added \subseteq added'
    PROVE  LineageTyped'
BY DEF IndInv, Typed, LineageTyped, lineage

\* The engine and what is held for it are not touched by those who call it not.
EngineParts == EngineTyped /\ Roles /\ Gone /\ Spared
LEMMA EngineAlone ==
    ASSUME IndInv, UNCHANGED <<kind, store, op, added, verified, cut>>,
           mine' \subseteq Keys, asked \subseteq asked'
    PROVE  EngineParts'
<1>1. EngineTyped' /\ Roles'
  BY DEF IndInv, Typed, EngineTyped, Roles, store
<1>2. Gone'
  BY DEF IndInv, Gone, HasBytes, store
<1>3. Spared'
  BY DEF IndInv, Spared, NoneLost, store
<1> QED
  BY <1>1, <1>2, <1>3 DEF EngineParts

\* A step in the journal that follows a tombstone.
LEMMA JournalAlone ==
    ASSUME IndInv, UNCHANGED <<lineage, added>>, NEW k \in Keys, done[k] # "nothing",
           NEW s \in {"suppressed", "reclaimed"}, done' = [done EXCEPT ![k] = s]
    PROVE  LineageTyped'
BY DEF IndInv, Typed, LineageTyped, lineage

-----------------------------------------------------------------------------
(* The application writes, deletes and reads.                                 *)

LEMMA AddInv == ASSUME IndInv, NEW k \in Keys, Add(k) PROVE IndInv'
<1>1. table' = Upserted(table, k) /\ OldBytes(k)
  BY EngineUpsert DEF Add
<1>2. table \in Tables
  BY DEF IndInv, Typed, EngineTyped
<1>3. DOMAIN table' = DOMAIN table \union {k} /\ table' \in Tables
  BY <1>1, <1>2, UpsertedFacts
<1>4. EngineTyped'
  BY <1>1, <1>3 DEF Add, IndInv, Typed, EngineTyped, OldBytes
<1>5. LineageTyped' /\ AppTyped' /\ Cached'
  BY AppAlone, LineageAlone DEF Add
<1>6. GhostsTyped'
  <2>1. cut' \in BOOLEAN
    BY DEF Add
  <2> QED
    BY <2>1, BoundsAssumption DEF Add, IndInv, Typed, GhostsTyped
<1>7. Roles' /\ InOrder'
  BY DEF Add, IndInv, Roles, InOrder
<1>8. Gone'
  BY <1>1, <1>3 DEF Add, IndInv, Gone, HasBytes, OldBytes
<1>9. Spared'
  BY <1>3 DEF Add, IndInv, Spared, NoneLost
<1> QED
  BY <1>4, <1>5, <1>6, <1>7, <1>8, <1>9 DEF IndInv, Typed

LEMMA NativeDeleteInv == ASSUME IndInv, NEW k \in Keys, NativeDelete(k) PROVE IndInv'
<1>1. table' = Without(table, k) /\ OldBytes(k)
  BY EngineDeletes DEF NativeDelete
<1>2. table \in Tables
  BY DEF IndInv, Typed, EngineTyped
<1>3. DOMAIN table' = DOMAIN table \ {k} /\ table' \in Tables
  BY <1>1, <1>2, WithoutFacts
<1>4. EngineTyped'
  BY <1>1, <1>3 DEF NativeDelete, IndInv, Typed, EngineTyped, OldBytes
<1>5. LineageTyped' /\ AppTyped' /\ Cached'
  BY AppAlone, LineageAlone DEF NativeDelete
<1>6. GhostsTyped'
  BY DEF NativeDelete, IndInv, Typed, GhostsTyped
<1>7. Roles' /\ InOrder'
  BY DEF NativeDelete, IndInv, Roles, InOrder
<1>8. Gone'
  BY <1>1, <1>3 DEF NativeDelete, IndInv, Gone, HasBytes, OldBytes
<1>9. Spared'
  BY <1>3 DEF NativeDelete, IndInv, Spared, NoneLost
<1> QED
  BY <1>4, <1>5, <1>6, <1>7, <1>8, <1>9 DEF IndInv, Typed

LEMMA OfFacts == \A t \in Threads : Of(t) \in Threads /\ (~Shared => Of(t) = t)
BY DEF Of

LEMMA RowsFacts == EngineTyped => Rows \in Tables
BY DEF EngineTyped, AllKinds, Rows, Pgvector!Rows, Chroma!Rows, Qdrant!Rows,
       Server!Rows, Pinecone!Rows

\* A thread's step is its own, and its wrapper's.
Wrappers == [cache : SUBSET Keys, seq : Nat]
LEMMA ThreadStep ==
    ASSUME IndInv, NEW t \in Threads, NEW ts \in ThreadStates, NEW w \in Wrappers,
           UNCHANGED <<kind, store, op, mine, lineage, done, ghosts, adds, kills>>,
           thread' = [thread EXCEPT ![t] = ts],
           wrapper' = wrapper \/ wrapper' = [wrapper EXCEPT ![Of(t)] = w],
           ~Shared => Current(t)'
    PROVE  IndInv'
<1>1. EngineTyped' /\ Roles' /\ Gone' /\ Spared'
  <2>1. mine' \subseteq Keys
    BY DEF IndInv, Typed, EngineTyped
  <2> QED
    BY <2>1, EngineAlone DEF EngineParts, ghosts
<1>2. LineageTyped' /\ GhostsTyped' /\ InOrder'
  <2>1. LineageTyped'
    BY LineageAlone DEF ghosts
  <2>2. GhostsTyped'
    BY DEF ghosts, IndInv, Typed, GhostsTyped
  <2>3. InOrder'
    BY DEF IndInv, InOrder
  <2> QED
    BY <2>1, <2>2, <2>3
<1>3. AppTyped'
  BY OfFacts DEF IndInv, Typed, AppTyped, Wrappers
<1>4. Cached'
  <2> SUFFICES ASSUME ~Shared, NEW u \in Threads, u # t PROVE Current(u)'
    BY DEF Cached
  <2>1. thread'[u] = thread[u] /\ wrapper'[u] = wrapper[u]
    BY OfFacts DEF IndInv, Typed, AppTyped
  <2>2. Current(u)
    BY DEF IndInv, Cached
  <2> QED
    BY <2>1, <2>2 DEF Current, lineage
<1> QED
  BY <1>1, <1>2, <1>3, <1>4 DEF IndInv, Typed

LEMMA RetrieveInv == ASSUME IndInv, NEW t \in Threads, Retrieve(t) PROVE IndInv'
<1> DEFINE ts == [Nobody EXCEPT !.at = "checking", !.since = tombs,
                                !.hits = Answers(Rows, IF OneProcess THEN mine ELSE {})]
<1>1. ts \in ThreadStates /\ ts.at = "checking" /\ ts.since = tombs
  <2>1. Answers(Rows, IF OneProcess THEN mine ELSE {}) \in SUBSET Keys
    <3>1. DOMAIN Rows \subseteq Keys
      BY RowsFacts, TableFacts DEF IndInv, Typed
    <3> QED
      BY <3>1 DEF Answers
  <2>2. tombs \in SUBSET Keys
    BY DEF IndInv, Typed, LineageTyped, GhostsTyped
  <2> HIDE DEF Answers
  <2> QED
    BY <2>1, <2>2 DEF Nobody, ThreadStates
<1>2. thread' = [thread EXCEPT ![t] = ts]
  BY DEF Retrieve
<1>3. thread'[t] = ts
  BY <1>2 DEF IndInv, Typed, AppTyped
<1> HIDE DEF ts
<1>4. ~Shared => Current(t)'
  BY <1>1, <1>3 DEF Retrieve, IndInv, Cached, Current, lineage
<1>5. NewWrapper \in Wrappers
  BY DEF NewWrapper, Wrappers
<1> QED
  BY <1>1, <1>2, <1>4, <1>5, ThreadStep DEF Retrieve

\* A step that changes two fields of a thread's state.
LEMMA ThreadFacts ==
    ASSUME AppTyped, NEW t \in Threads
    PROVE  /\ thread[t] \in ThreadStates /\ thread \in [Threads -> ThreadStates]
           /\ thread[t].hits \subseteq Keys /\ thread[t].since \subseteq Keys
           /\ thread[t].seq \in Nat /\ thread[t].read \subseteq Keys
           /\ wrapper[Of(t)] \in Wrappers
BY OfFacts DEF AppTyped, ThreadStates, Wrappers

LEMMA ReadSeqInv == ASSUME IndInv, NEW t \in Threads, ReadSeq(t) PROVE IndInv'
<1> DEFINE ts == [thread[t] EXCEPT
                    !.seq = IF seq = wrapper[Of(t)].seq THEN 0 ELSE seq,
                    !.at = IF seq = wrapper[Of(t)].seq THEN "serving" ELSE "reading"]
<1>1. /\ ts \in ThreadStates
      /\ ts.at = IF seq = wrapper[Of(t)].seq THEN "serving" ELSE "reading"
      /\ ts.seq = IF seq = wrapper[Of(t)].seq THEN 0 ELSE seq
      /\ ts.since = thread[t].since
  BY ThreadFacts DEF IndInv, Typed, LineageTyped, ThreadStates
<1>2. thread' = [thread EXCEPT ![t] = ts]
  BY ThreadFacts DEF ReadSeq, IndInv, Typed, ThreadStates
<1>3. thread'[t] = ts
  BY <1>2 DEF IndInv, Typed, AppTyped
<1> HIDE DEF ts
<1>4. ~Shared => Current(t)'
  <2> SUFFICES ASSUME ~Shared PROVE Current(t)'
    OBVIOUS
  <2>1. Current(t) /\ Of(t) = t /\ wrapper[t].seq \in Nat /\ seq \in Nat
    BY OfFacts DEF IndInv, Cached, Typed, AppTyped, LineageTyped
  <2> QED
    <3>1. seq' = seq /\ tombs' = tombs /\ wrapper' = wrapper
      BY DEF ReadSeq, lineage
    <3>2. CASE seq = wrapper[t].seq
      BY <1>1, <1>3, <2>1, <3>1, <3>2 DEF Current
    <3>3. CASE seq # wrapper[t].seq
      BY <1>1, <1>3, <2>1, <3>1, <3>3 DEF Current
    <3> QED
      BY <3>2, <3>3
<1>5. wrapper[Of(t)] \in Wrappers
  BY ThreadFacts DEF IndInv, Typed
<1> QED
  BY <1>1, <1>2, <1>4, <1>5, ThreadStep DEF ReadSeq

LEMMA ReadTombsInv == ASSUME IndInv, NEW t \in Threads, ReadTombs(t) PROVE IndInv'
<1> DEFINE ts == [thread[t] EXCEPT !.read = tombs, !.at = "caching"]
<1>1. /\ ts \in ThreadStates /\ ts.at = "caching" /\ ts.read = tombs
      /\ ts.seq = thread[t].seq /\ ts.since = thread[t].since
  <2>1. tombs \in SUBSET Keys
    BY DEF IndInv, Typed, LineageTyped, GhostsTyped
  <2> QED
    BY <2>1, ThreadFacts DEF IndInv, Typed, ThreadStates
<1>2. thread' = [thread EXCEPT ![t] = ts]
  BY ThreadFacts DEF ReadTombs, IndInv, Typed, ThreadStates
<1>3. thread'[t] = ts
  BY <1>2 DEF IndInv, Typed, AppTyped
<1> HIDE DEF ts
<1>4. ~Shared => Current(t)'
  BY <1>1, <1>3 DEF IndInv, Cached, ReadTombs, Current, lineage
<1>5. wrapper[Of(t)] \in Wrappers
  BY ThreadFacts DEF IndInv, Typed
<1> QED
  BY <1>1, <1>2, <1>4, <1>5, ThreadStep DEF ReadTombs

LEMMA CacheTombsInv == ASSUME IndInv, NEW t \in Threads, CacheTombs(t) PROVE IndInv'
<1> DEFINE ts == [thread[t] EXCEPT !.at = "stamping", !.read = {}]
           w == [wrapper[Of(t)] EXCEPT !.cache = thread[t].read]
<1>1. /\ ts \in ThreadStates /\ ts.at = "stamping"
      /\ ts.seq = thread[t].seq /\ ts.since = thread[t].since
  BY ThreadFacts DEF IndInv, Typed, ThreadStates
<1>2. w \in Wrappers /\ w.cache = thread[t].read /\ w.seq = wrapper[Of(t)].seq
  BY ThreadFacts DEF IndInv, Typed, Wrappers
<1>3. thread' = [thread EXCEPT ![t] = ts] /\ wrapper' = [wrapper EXCEPT ![Of(t)] = w]
  BY ThreadFacts, OfFacts DEF CacheTombs, IndInv, Typed, ThreadStates, AppTyped
<1>4. thread'[t] = ts /\ (~Shared => wrapper'[t] = w)
  BY <1>3, OfFacts DEF IndInv, Typed, AppTyped
<1> HIDE DEF ts, w
<1>5. ~Shared => Current(t)'
  <2> SUFFICES ASSUME ~Shared PROVE Current(t)'
    OBVIOUS
  <2>1. Current(t) /\ Of(t) = t /\ wrapper[t].seq \in Nat /\ thread[t].seq \in Nat /\ seq \in Nat
    BY OfFacts, ThreadFacts DEF IndInv, Cached, Typed, AppTyped, LineageTyped
  <2>2. seq' = seq /\ tombs' = tombs /\ thread[t].at = "caching"
    BY DEF CacheTombs, lineage
  <2>3. w.cache = thread[t].read /\ w.seq = wrapper[t].seq /\ wrapper'[t] = w
    BY <1>2, <1>4, <2>1
  <2>4. w.seq < seq /\ (thread[t].seq = seq => tombs \subseteq w.cache) /\ thread[t].since \subseteq w.cache
    BY <2>1, <2>2, <2>3 DEF Current
  <2> QED
    BY <1>1, <1>4, <2>1, <2>2, <2>3, <2>4 DEF Current
<1> QED
  BY <1>1, <1>2, <1>3, <1>5, ThreadStep DEF CacheTombs

LEMMA CacheSeqInv == ASSUME IndInv, NEW t \in Threads, CacheSeq(t) PROVE IndInv'
<1> DEFINE ts == [thread[t] EXCEPT !.at = "serving", !.seq = 0]
           w == [wrapper[Of(t)] EXCEPT !.seq = thread[t].seq]
<1>1. ts \in ThreadStates /\ ts.at = "serving" /\ ts.since = thread[t].since
  BY ThreadFacts DEF IndInv, Typed, ThreadStates
<1>2. w \in Wrappers /\ w.cache = wrapper[Of(t)].cache /\ w.seq = thread[t].seq
  BY ThreadFacts DEF IndInv, Typed, Wrappers
<1>3. thread' = [thread EXCEPT ![t] = ts] /\ wrapper' = [wrapper EXCEPT ![Of(t)] = w]
  BY ThreadFacts, OfFacts DEF CacheSeq, IndInv, Typed, ThreadStates, AppTyped
<1>4. thread'[t] = ts /\ (~Shared => wrapper'[t] = w)
  BY <1>3, OfFacts DEF IndInv, Typed, AppTyped
<1> HIDE DEF ts, w
<1>5. ~Shared => Current(t)'
  BY <1>1, <1>2, <1>4, OfFacts DEF IndInv, Cached, CacheSeq, Current, lineage
<1> QED
  BY <1>1, <1>2, <1>3, <1>5, ThreadStep DEF CacheSeq

LEMMA ServeInv == ASSUME IndInv, NEW t \in Threads, Serve(t) PROVE IndInv'
<1>1. Nobody \in ThreadStates /\ Nobody.at = "idle" /\ Nobody.since = {}
  BY DEF Nobody, ThreadStates
<1>2. thread' = [thread EXCEPT ![t] = Nobody] /\ thread'[t] = Nobody
  BY DEF Serve, IndInv, Typed, AppTyped
<1>3. ~Shared => Current(t)'
  BY <1>1, <1>2 DEF IndInv, Cached, Serve, Current, lineage
<1>4. wrapper[Of(t)] \in Wrappers
  BY ThreadFacts DEF IndInv, Typed
<1> QED
  BY <1>1, <1>2, <1>3, <1>4, ThreadStep DEF Serve

LEMMA ReadingInv == ASSUME IndInv, NEW t \in Threads, Reading(t) PROVE IndInv'
BY RetrieveInv, ReadSeqInv, ReadTombsInv, CacheTombsInv, CacheSeqInv, ServeInv DEF Reading

-----------------------------------------------------------------------------
(* The service, and the saga's steps.                                         *)

LEMMA ConvergeInv == ASSUME IndInv, Converge PROVE IndInv'
<1>1. kind = "pinecone" /\ view' = table /\ UNCHANGED <<table, dead, op>>
  BY DEF Converge, Pinecone!Converge
<1>2. EngineTyped'
  BY <1>1 DEF Converge, IndInv, Typed, EngineTyped
<1>3. LineageTyped' /\ AppTyped' /\ Cached'
  BY AppAlone, LineageAlone DEF Converge, ghosts
<1>4. GhostsTyped'
  BY DEF Converge, ghosts, IndInv, Typed, GhostsTyped
<1>5. Roles' /\ InOrder' /\ Gone' /\ Spared'
  BY <1>1 DEF Converge, ghosts, IndInv, Roles, InOrder, Gone, Spared, NoneLost, HasBytes
<1> QED
  BY <1>2, <1>3, <1>4, <1>5 DEF IndInv, Typed

\* The number that the transaction takes makes every cache an old one.
LEMMA TombstoneInv == ASSUME IndInv, NEW k \in Keys, Tombstone(k) PROVE IndInv'
<1>1. EngineTyped' /\ Roles' /\ Gone' /\ Spared'
  <2>1. mine' \subseteq Keys
    BY DEF Tombstone, IndInv, Typed, EngineTyped
  <2> QED
    BY <2>1, EngineAlone DEF Tombstone, EngineParts, ghosts
<1>2. LineageTyped' /\ InOrder'
  BY DEF Tombstone, ghosts, IndInv, Typed, LineageTyped, InOrder
<1>3. AppTyped'
  BY DEF Tombstone, app, IndInv, Typed, AppTyped
<1>4. GhostsTyped'
  BY DEF Tombstone, ghosts, IndInv, Typed, GhostsTyped
<1>5. Cached'
  <2> SUFFICES ASSUME ~Shared, NEW t \in Threads PROVE Current(t)'
    BY DEF Cached
  <2>1. Current(t) /\ wrapper[t].seq \in Nat /\ thread[t].seq \in Nat /\ seq \in Nat
    BY ThreadFacts DEF IndInv, Cached, Typed, AppTyped, LineageTyped
  <2>2. wrapper' = wrapper /\ thread' = thread /\ seq' = seq + 1 /\ tombs \subseteq tombs'
    BY DEF Tombstone, app
  <2> QED
    BY <2>1, <2>2 DEF Current
<1> QED
  BY <1>1, <1>2, <1>3, <1>4, <1>5 DEF IndInv, Typed

\* A call of the engine begins: nothing is touched yet, and no survivors are held.
LEMMA StartsFacts ==
    ASSUME IndInv, NEW k \in Keys, NEW s \in {"marking", "deleting"}, op.at = "idle",
           Starts(Rows, s, k), UNCHANGED <<kind, store, added, verified, cut>>,
           mine' \subseteq Keys, asked \subseteq asked',
           done' = done, done[k] # "nothing"
    PROVE  EngineParts' /\ InOrder'
<1>1. op' = [at |-> s, key |-> k, present |-> k \in DOMAIN Rows, kept |-> << >>]
  BY DEF Starts, Resting
<1>2. op' \in Ops /\ op'.at = s /\ op'.key = k /\ DOMAIN op'.kept = {}
  BY <1>1, TableFacts DEF Ops
<1>3. EngineTyped' /\ Roles'
  BY <1>2 DEF IndInv, Typed, EngineTyped, Roles, store
<1>4. Gone'
  BY <1>2 DEF IndInv, Gone, HasBytes, store
<1>5. Spared'
  BY <1>2 DEF IndInv, Spared, NoneLost, Roles, store
<1>6. InOrder'
  BY <1>2 DEF InOrder
<1> QED
  BY <1>3, <1>4, <1>5, <1>6 DEF EngineParts

LEMMA SuppressInv == ASSUME IndInv, NEW k \in Keys, Suppress(k) PROVE IndInv'
<1>1. EngineParts' /\ InOrder'
  <2>1. mine' \subseteq Keys
    BY DEF Suppress, IndInv, Typed, EngineTyped
  <2> QED
    BY <2>1, StartsFacts DEF Suppress, ghosts
<1>2. LineageTyped' /\ AppTyped' /\ Cached'
  BY AppAlone, LineageAlone DEF Suppress, ghosts
<1>3. GhostsTyped'
  BY DEF Suppress, ghosts, IndInv, Typed, GhostsTyped
<1> QED
  BY <1>1, <1>2, <1>3 DEF EngineParts, IndInv, Typed

LEMMA RestingFacts == Resting \in Ops /\ Resting.at = "idle" /\ DOMAIN Resting.kept = {}
BY TableFacts DEF Resting, Ops

LEMMA MarkInv == ASSUME IndInv, Mark PROVE IndInv'
<1>1. /\ DOMAIN table' = DOMAIN table /\ table' \in Tables /\ view' = view
      /\ dead \subseteq dead' /\ dead' \subseteq dead \union DOMAIN table
  <2>1. table \in Tables /\ op.key \in Keys
    BY DEF Mark, IndInv, Typed, EngineTyped
  <2>2. CASE op.present
    BY <2>1, <2>2, EngineMarks, FlaggedFacts DEF Mark, OldBytes
  <2>3. CASE ~op.present
    BY <2>1, <2>3 DEF Mark, store
  <2> QED
    BY <2>2, <2>3
<1>2. op' = Resting /\ op.at = "marking"
  BY DEF Mark, Ends
<1>3. EngineTyped'
  BY <1>1, <1>2, RestingFacts, TableFacts DEF Mark, IndInv, Typed, EngineTyped
<1>4. LineageTyped' /\ InOrder'
  <2>1. op.key \in Keys /\ done[op.key] # "nothing"
    BY <1>2 DEF IndInv, InOrder, Typed, EngineTyped
  <2>2. done' = [done EXCEPT ![op.key] = "suppressed"] /\ UNCHANGED <<lineage, added>>
    BY DEF Mark, ghosts
  <2> QED
    BY <1>2, <2>1, <2>2, JournalAlone, RestingFacts DEF InOrder
<1>5. AppTyped' /\ Cached'
  BY AppAlone DEF Mark
<1>6. GhostsTyped'
  BY DEF Mark, ghosts, IndInv, Typed, GhostsTyped
<1>7. Roles' /\ Gone'
  BY <1>1, <1>2, RestingFacts DEF Mark, ghosts, IndInv, Roles, Gone, HasBytes
<1>8. Spared'
  BY <1>1, <1>2, RestingFacts DEF Mark, ghosts, IndInv, Roles, Spared, NoneLost
<1> QED
  BY <1>3, <1>4, <1>5, <1>6, <1>7, <1>8 DEF IndInv, Typed

LEMMA ReclaimNothingInv == ASSUME IndInv, NEW k \in Keys, ReclaimNothing(k) PROVE IndInv'
<1>1. EngineParts'
  <2>1. mine' \subseteq Keys
    BY DEF ReclaimNothing, IndInv, Typed, EngineTyped
  <2> QED
    BY <2>1, EngineAlone DEF ReclaimNothing
<1>2. LineageTyped'
  BY JournalAlone DEF ReclaimNothing
<1>3. AppTyped' /\ Cached'
  BY AppAlone DEF ReclaimNothing
<1>4. GhostsTyped' /\ InOrder'
  BY DEF ReclaimNothing, IndInv, Typed, GhostsTyped, InOrder
<1> QED
  BY <1>1, <1>2, <1>3, <1>4 DEF EngineParts, IndInv, Typed

LEMMA ReclaimInv == ASSUME IndInv, NEW k \in Keys, Reclaim(k) PROVE IndInv'
<1>1. EngineParts' /\ InOrder'
  <2>1. mine' \subseteq Keys
    BY DEF Reclaim, IndInv, Typed, EngineTyped
  <2> QED
    BY <2>1, StartsFacts DEF Reclaim
<1>2. LineageTyped' /\ AppTyped' /\ Cached'
  BY AppAlone, LineageAlone DEF Reclaim
<1>3. GhostsTyped'
  BY DEF Reclaim, IndInv, Typed, GhostsTyped
<1> QED
  BY <1>1, <1>2, <1>3 DEF EngineParts, IndInv, Typed

\* The probes decide only where the engine's files are really read.
LEMMA ProbeInv == ASSUME IndInv, NEW k \in Keys, Probe(k) PROVE IndInv'
<1>1. EngineTyped' /\ Roles' /\ InOrder' /\ Spared'
  BY DEF Probe, store, IndInv, Typed, EngineTyped, Roles, InOrder, Spared, NoneLost
<1>2. Gone'
  <2> SUFFICES ASSUME (Reads \/ kind \in {"chroma", "qdrant"}), NEW j \in verified \union {k}
               PROVE  ~HasBytes(j) /\ j \notin DOMAIN op.kept
    BY DEF Probe, Gone, HasBytes, store
  <2>1. ~HasBytes(k) /\ DOMAIN op.kept = {}
    BY ResidueFacts DEF Probe, IndInv, Roles
  <2> QED
    BY <2>1 DEF IndInv, Gone
<1>3. LineageTyped' /\ AppTyped' /\ Cached'
  BY AppAlone, LineageAlone DEF Probe
<1>4. GhostsTyped'
  BY DEF Probe, IndInv, Typed, GhostsTyped
<1> QED
  BY <1>1, <1>2, <1>3, <1>4 DEF IndInv, Typed

\* A kill loses the survivors; nothing hangs on them before the collection is dropped.
LEMMA KillInv == ASSUME IndInv, Kill PROVE IndInv'
<1>1. op' = Resting /\ mine' = {} /\ UNCHANGED <<kind, table, view, dead, lineage, done, added, asked, verified>>
  BY DEF Kill, store
<1>2. EngineTyped' /\ Roles' /\ InOrder'
  BY <1>1, RestingFacts DEF IndInv, Typed, EngineTyped, Roles, InOrder
<1>3. Gone'
  BY <1>1, RestingFacts DEF IndInv, Gone, HasBytes
<1>4. Spared'
  <2> SUFFICES ASSUME ~cut' PROVE added \ asked \subseteq DOMAIN table
    BY <1>1, RestingFacts DEF Spared, NoneLost
  <2>1. ~cut /\ ~(op.at = "refilling" /\ op.kept # << >>)
    BY DEF Kill
  <2>2. CASE op.at # "refilling"
    BY <2>1, <2>2 DEF IndInv, Spared
  <2>3. CASE op.kept = << >>
    BY <2>1, <2>3, TableFacts DEF IndInv, Spared, NoneLost
  <2> QED
    BY <2>1, <2>2, <2>3
<1>5. LineageTyped'
  BY <1>1, LineageAlone
<1>6. AppTyped' /\ Cached'
  <2>1. CASE UNCHANGED app
    BY <1>1, <2>1, AppAlone
  <2>2. CASE /\ thread' = [t \in Threads |-> Nobody]
             /\ wrapper' = [t \in Threads |-> NewWrapper]
    <3>1. Nobody \in ThreadStates /\ NewWrapper \in Wrappers
      BY DEF Nobody, ThreadStates, NewWrapper, Wrappers
    <3>2. AppTyped'
      BY <2>2, <3>1 DEF AppTyped, Wrappers
    <3>3. Cached'
      BY <1>1, <2>2 DEF IndInv, Typed, LineageTyped, lineage, Cached, Current, Nobody, NewWrapper
    <3> QED
      BY <3>2, <3>3
  <2> QED
    BY <2>1, <2>2 DEF Kill
<1>7. GhostsTyped'
  <2>1. cut' \in BOOLEAN
    BY DEF Kill
  <2> QED
    BY <1>1, <2>1, BoundsAssumption DEF Kill, IndInv, Typed, GhostsTyped
<1> QED
  BY <1>2, <1>3, <1>4, <1>5, <1>6, <1>7 DEF IndInv, Typed

-----------------------------------------------------------------------------
(* The steps of a reclaim.                                                    *)

\* What every one of them has in common.
InStep == /\ kind' = kind /\ added' = added /\ verified' = verified /\ cut' = cut /\ mine' = mine
          /\ asked' = IF op.at = "deleting" THEN asked \union {op.key} ELSE asked

LEMMA OpFacts ==
    ASSUME EngineTyped
    PROVE  /\ op \in Ops /\ op.key \in Keys \union {"none"} /\ op.kept \in Tables
           /\ DOMAIN op.kept \subseteq Keys /\ table \in Tables /\ DOMAIN table \subseteq Keys
BY TableFacts DEF EngineTyped, Ops

LEMMA DeletesInv == ASSUME IndInv, Deletes, InStep PROVE EngineParts'
<1>1. EngineTyped /\ op.key \in Keys /\ DOMAIN op.kept = {} /\ op.at = "deleting"
  BY DEF Deletes, IndInv, Typed, Roles, EngineTyped
<1>2. /\ table' \in Tables /\ DOMAIN table \ {op.key} \subseteq DOMAIN table'
      /\ DOMAIN table' \subseteq DOMAIN table
      /\ view' = view /\ dead' \subseteq dead \union DOMAIN table
  BY <1>1, TargetedFacts DEF Deletes
<1>3. /\ op' \in Ops /\ DOMAIN op'.kept = {} /\ (op'.at # "idle" => op'.key \in Keys)
      /\ \/ op'.at \in {"idle", "optimizing"}
         \/ op'.at = "compacting" /\ Owns
         \/ op'.at = "dumping" /\ kind \in {"chroma", "qdrant"}
  BY <1>1, OpFacts, RestingFacts DEF Deletes, Ops
<1>4. EngineTyped'
  BY <1>2, <1>3, OpFacts DEF InStep, IndInv, Typed, EngineTyped
<1>5. Roles'
  BY <1>3 DEF Roles, InStep
<1>6. Gone'
  BY <1>2, <1>3 DEF InStep, IndInv, Gone, HasBytes
<1>7. Spared'
  BY <1>1, <1>2, <1>3 DEF InStep, IndInv, Spared, NoneLost
<1> QED
  BY <1>4, <1>5, <1>6, <1>7 DEF EngineParts

LEMMA ShrinksInv == ASSUME IndInv, Shrinks, InStep PROVE EngineParts'
<1>1. EngineTyped'
  BY RestingFacts DEF Shrinks, InStep, IndInv, Typed, EngineTyped
<1>2. Roles' /\ Gone'
  BY RestingFacts DEF Shrinks, InStep, IndInv, Roles, Gone, HasBytes
<1>3. Spared'
  BY RestingFacts DEF Shrinks, InStep, IndInv, Roles, Spared, NoneLost
<1> QED
  BY <1>1, <1>2, <1>3 DEF EngineParts

LEMMA DumpsInv == ASSUME IndInv, Dumps, InStep PROVE EngineParts'
<1>1. op' \in Ops /\ op'.at = "dropping" /\ op'.key = op.key /\ op'.kept = table
  BY OpFacts DEF Dumps, IndInv, Typed, Ops
<1>2. EngineTyped'
  BY <1>1 DEF Dumps, InStep, IndInv, Typed, EngineTyped
<1>3. Roles' /\ Gone' /\ Spared'
  BY <1>1 DEF Dumps, InStep, IndInv, Roles, Gone, HasBytes, Spared, NoneLost
<1> QED
  BY <1>2, <1>3 DEF EngineParts

LEMMA DropsInv == ASSUME IndInv, Drops, InStep PROVE EngineParts'
<1>1. op' \in Ops /\ op'.at = "refilling" /\ op'.key = op.key /\ op'.kept = op.kept
  BY OpFacts DEF Drops, IndInv, Typed, Ops
<1>2. EngineTyped'
  BY <1>1, OpFacts, TableFacts DEF Drops, InStep, IndInv, Typed, EngineTyped
<1>3. Roles' /\ Gone'
  BY <1>1, TableFacts DEF Drops, InStep, IndInv, Roles, Gone, HasBytes
<1>4. Spared'
  BY <1>1, TableFacts DEF Drops, InStep, IndInv, Spared, NoneLost
<1> QED
  BY <1>2, <1>3, <1>4 DEF EngineParts

LEMMA RefillsInv == ASSUME IndInv, Refills, InStep PROVE EngineParts'
<1> PICK batch \in SUBSET DOMAIN op.kept :
           /\ table' = Restored(batch)
           /\ op' = [op EXCEPT !.kept = [k \in DOMAIN op.kept \ batch |-> op.kept[k]]]
  BY DEF Refills
<1> DEFINE left == [k \in DOMAIN op.kept \ batch |-> op.kept[k]]
<1>1. /\ table' \in Tables /\ DOMAIN table' = DOMAIN table \union batch
      /\ left \in Tables /\ DOMAIN left = DOMAIN op.kept \ batch
  BY RestoredFacts DEF IndInv, Typed
<1> HIDE DEF left
<1>2. op' = [op EXCEPT !.kept = left]
  BY DEF left
<1>3. op' \in Ops /\ op'.at = "refilling" /\ op'.key = op.key /\ op'.kept = left /\ op.at = "refilling"
  BY <1>1, <1>2, OpFacts DEF Refills, IndInv, Typed, Ops
<1>4. EngineTyped'
  BY <1>1, <1>3 DEF Refills, InStep, IndInv, Typed, EngineTyped
<1>5. Roles' /\ Gone'
  BY <1>1, <1>3 DEF Refills, InStep, IndInv, Roles, Gone, HasBytes
<1>6. Spared'
  BY <1>1, <1>3 DEF Refills, InStep, IndInv, Spared, NoneLost
<1> QED
  BY <1>4, <1>5, <1>6 DEF EngineParts

LEMMA PurgesInv == ASSUME IndInv, Purges, InStep PROVE EngineParts'
<1>1. op' \in Ops /\ op'.at \in {"idle", "sweeping"} /\ DOMAIN op'.kept = {} /\ DOMAIN op.kept = {}
      /\ (op'.at # "idle" => op'.key = op.key) /\ op.at = "refilling"
  BY OpFacts, RestingFacts, TableFacts DEF Purges, IndInv, Typed, Ops
<1>2. EngineTyped'
  BY <1>1 DEF Purges, InStep, IndInv, Typed, EngineTyped
<1>3. Roles' /\ Gone'
  BY <1>1 DEF Purges, InStep, IndInv, Roles, Gone, HasBytes
<1>4. Spared'
  BY <1>1 DEF Purges, InStep, IndInv, Spared, NoneLost
<1> QED
  BY <1>2, <1>3, <1>4 DEF EngineParts

LEMMA StepKeys ==
    ASSUME EngineTyped, Reclaiming
    PROVE  op.at # "idle" /\ (op' = Resting \/ (op'.at # "idle" /\ op'.key = op.key))
BY EngineStep, OpFacts DEF Deletes, Shrinks, Dumps, Drops, Refills, Purges, Ops

LEMMA StepInv == ASSUME IndInv, Step PROVE IndInv'
<1>1. EngineParts'
  <2>1. InStep
    BY DEF Step, InStep
  <2>2. Deletes \/ Shrinks \/ Dumps \/ Drops \/ Refills \/ Purges
    BY EngineStep DEF Step
  <2> QED
    BY <2>1, <2>2, DeletesInv, ShrinksInv, DumpsInv, DropsInv, RefillsInv, PurgesInv
<1>2. op.at # "idle" /\ (op' = Resting \/ (op'.at # "idle" /\ op'.key = op.key))
  BY StepKeys DEF Step, IndInv, Typed
<1>3. op.key \in Keys /\ done[op.key] # "nothing"
  BY <1>2 DEF IndInv, InOrder, Typed, EngineTyped
<1>4. LineageTyped' /\ InOrder'
  <2>1. CASE op' = Resting
    BY <1>3, <2>1, RestingFacts, JournalAlone DEF Step, InOrder
  <2>2. CASE op' # Resting
    BY <1>2, <1>3, <2>2, LineageAlone DEF Step, InOrder
  <2> QED
    BY <2>1, <2>2
<1>5. AppTyped' /\ Cached'
  BY AppAlone DEF Step
<1>6. GhostsTyped'
  BY <1>3 DEF Step, IndInv, Typed, GhostsTyped
<1> QED
  BY <1>1, <1>4, <1>5, <1>6 DEF EngineParts, IndInv, Typed

-----------------------------------------------------------------------------
(* The theorems.                                                              *)

LEMMA StepPreserves == IndInv /\ [Next]_vars => IndInv'
<1> SUFFICES ASSUME IndInv, [Next]_vars PROVE IndInv'
  OBVIOUS
<1>1. CASE UNCHANGED vars
  BY <1>1 DEF vars, store, lineage, app, ghosts, IndInv, Typed, EngineTyped, LineageTyped, AppTyped,
              GhostsTyped, Roles, InOrder, Cached, Current, Gone, HasBytes, Spared, NoneLost
<1>2. CASE Next
  BY <1>2, ConvergeInv, AddInv, NativeDeleteInv, ReadingInv, TombstoneInv, SuppressInv,
     ReclaimNothingInv, ReclaimInv, ProbeInv, MarkInv, StepInv, KillInv DEF Next
<1> QED
  BY <1>1, <1>2

LEMMA AlwaysInv == Spec => []IndInv
BY InitInv, StepPreserves, PTL DEF Spec

\* Types: the state stays well-formed, and the operator's process is never in a
\* step that its engine does not have (stores/_vector.py and the engines).
THEOREM TypeCorrect == Spec => []TypeOK
<1>1. IndInv => TypeOK
  BY OpFacts DEF IndInv, Typed, EngineTyped, LineageTyped, GhostsTyped, Roles, TypeOK
<1> QED
  BY <1>1, AlwaysInv, PTL

\* As long as each thread has its own wrapper, the sequence counter of the lineage
\* is enough to know that the cached tombstones are current: nothing that was
\* tombstoned when the engine answered is served (integrations/langchain.py).
THEOREM TombstonesAreHonoured ==
    ASSUME ~Shared
    PROVE  Spec => []TombstonedNotServed
<1>1. IndInv => TombstonedNotServed
  BY OfFacts DEF IndInv, Cached, Current, TombstonedNotServed, Served
<1> QED
  BY <1>1, AlwaysInv, PTL

\* A verified erasure stays one on every engine whose files are read: the copies
\* that a rewrite puts back, a write behind the saga's back and a kill included.
THEOREM VerifiedStaysGone == Spec => []VerifiedGone
<1>1. IndInv => VerifiedGone
  BY DEF IndInv, Gone, VerifiedGone
<1> QED
  BY <1>1, AlwaysInv, PTL

\* No record is lost to an erasure it was not part of, except by a rewrite that was
\* cut off, or that overlapped a write (stores/chroma.py, stores/qdrant.py).
THEOREM OthersAreSpared == Spec => []NoneLost
<1>1. IndInv => NoneLost
  BY DEF IndInv, Spared, NoneLost
<1> QED
  BY <1>1, AlwaysInv, PTL

-----------------------------------------------------------------------------
(* The refinement of ErasableStore, key by key.                               *)

\* The key's record is the same, and no bytes of it came.
Same(k) == /\ k \in DOMAIN table <=> k \in DOMAIN table'
           /\ k \in DOMAIN table => table'[k] = table[k]
           /\ HasBytes(k)' => HasBytes(k)

LEMMA SameIsKept == ASSUME NEW k \in Keys, Same(k) PROVE Promise!Kept(k)
<1>1. RecordOf(k)' = RecordOf(k)
  BY DEF Same, RecordOf
<1>2. RecordOf(k) # [state |-> "none"] => RecordOf(k).version = 1 /\ HasBytes(k)'
  BY DEF Same, RecordOf, HasBytes
<1> HIDE DEF RecordOf, HasBytes
<1> QED
  BY <1>1, <1>2 DEF Same, Promise!Kept, Promise!None

LEMMA LiveIsPublished ==
    ASSUME NEW k \in Keys, k \in DOMAIN table', ~table'[k].flagged
    PROVE  Promise!Published(k)
<1>1. RecordOf(k)' = [state |-> "live", version |-> 1]
  BY DEF RecordOf
<1>2. HasBytes(k)'
  BY DEF HasBytes
<1> HIDE DEF RecordOf, HasBytes
<1> QED
  BY <1>1, <1>2 DEF Promise!Published, Promise!Shown

LEMMA FlaggedIsHidden ==
    ASSUME NEW k \in Keys, k \in DOMAIN table, k \in DOMAIN table',
           ~table[k].flagged, table'[k].flagged
    PROVE  Promise!Hidden(k)
<1>1. RecordOf(k)' = [state |-> "hidden", version |-> 1]
  BY DEF RecordOf
<1>2. RecordOf(k).state = "live" /\ RecordOf(k).version = 1
  BY DEF RecordOf
<1>3. HasBytes(k)' /\ HasBytes(k)
  BY DEF HasBytes
<1> HIDE DEF RecordOf, HasBytes
<1> QED
  BY <1>1, <1>2, <1>3 DEF Promise!Hidden, Promise!Shown

LEMMA AskedIsErased ==
    ASSUME NEW k \in Keys, k \in asked', k \notin DOMAIN table', HasBytes(k)' => HasBytes(k)
    PROVE  Promise!Erased(k)
<1>1. RecordOf(k)' = [state |-> "none"]
  BY DEF RecordOf
<1> HIDE DEF RecordOf, HasBytes
<1> QED
  BY <1>1 DEF Promise!Erased, Promise!None

\* A step that leaves the records, and brings no bytes.
LEMMA SameForAll ==
    ASSUME table' = table, dead' \subseteq dead
    PROVE  Promise!Next
BY SameIsKept DEF Promise!Next, Same, HasBytes

LEMMA AddKeeps == ASSUME IndInv, NEW k \in Keys, Add(k) PROVE Promise!Next
<1>1. table' = Upserted(table, k) /\ OldBytes(k) /\ table \in Tables
  BY EngineUpsert DEF Add, IndInv, Typed, EngineTyped
<1>2. /\ DOMAIN table' = DOMAIN table \union {k} /\ ~table'[k].flagged
      /\ \A j \in DOMAIN table : j # k => table'[j] = table[j]
  BY <1>1, UpsertedFacts
<1>3. Promise!Published(k)
  BY <1>2, LiveIsPublished
<1>4. ASSUME NEW j \in Keys, j # k PROVE Promise!Kept(j)
  BY <1>1, <1>2, <1>4, SameIsKept DEF Same, HasBytes, OldBytes
<1> QED
  BY <1>3, <1>4 DEF Promise!Next

LEMMA NativeDeleteKeeps == ASSUME IndInv, NEW k \in Keys, NativeDelete(k) PROVE Promise!Next
<1>1. table' = Without(table, k) /\ OldBytes(k) /\ table \in Tables /\ k \in asked'
  BY EngineDeletes DEF NativeDelete, IndInv, Typed, EngineTyped
<1>2. /\ DOMAIN table' = DOMAIN table \ {k}
      /\ \A j \in DOMAIN table : j # k => table'[j] = table[j]
  BY <1>1, WithoutFacts
<1>3. Promise!Erased(k)
  BY <1>1, <1>2, AskedIsErased DEF HasBytes, OldBytes
<1>4. ASSUME NEW j \in Keys, j # k PROVE Promise!Kept(j)
  BY <1>1, <1>2, <1>4, SameIsKept DEF Same, HasBytes, OldBytes
<1> QED
  BY <1>3, <1>4 DEF Promise!Next

LEMMA MarkKeeps == ASSUME IndInv, Mark PROVE Promise!Next
<1>1. CASE ~op.present
  BY <1>1, SameForAll DEF Mark, store
<1> PICK k \in Keys : k = op.key
  BY DEF Mark, IndInv, Typed, EngineTyped
<1>2. CASE op.present /\ table' = table
  <2>1. OldBytes(k)
    BY <1>2, EngineMarks DEF Mark
  <2>2. ASSUME NEW j \in Keys PROVE Promise!Kept(j)
    BY <1>2, <2>1, SameIsKept DEF Same, HasBytes, OldBytes
  <2> QED
    BY <2>2 DEF Promise!Next
<1>3. CASE op.present /\ table' # table
  <2>1. table' = Flagged(table, k) /\ OldBytes(k) /\ table \in Tables
    BY <1>3, EngineMarks DEF Mark, IndInv, Typed, EngineTyped
  <2>2. /\ DOMAIN table' = DOMAIN table
        /\ k \in DOMAIN table => table'[k].flagged
        /\ \A j \in DOMAIN table : j # k => table'[j] = table[j]
    BY <2>1, FlaggedFacts
  <2>3. ASSUME NEW j \in Keys, j # k \/ k \notin DOMAIN table PROVE Promise!Kept(j)
    BY <2>1, <2>2, <2>3, SameIsKept DEF Same, HasBytes, OldBytes
  <2>4. ASSUME k \in DOMAIN table, ~table[k].flagged PROVE Promise!Hidden(k)
    BY <2>1, <2>2, <2>4, FlaggedIsHidden
  <2>5. ASSUME k \in DOMAIN table, table[k].flagged PROVE Promise!Kept(k)
    <3>1. table[k] \in [flagged : BOOLEAN] /\ table'[k] \in [flagged : BOOLEAN]
      <4>1. Flagged(table, k) \in Tables
        BY <2>1, FlaggedFacts
      <4> QED
        BY <2>1, <2>2, <2>5, <4>1, TableFacts
    <3>2. table'[k] = table[k]
      BY <2>2, <2>5, <3>1
    <3>3. Same(k)
      BY <2>1, <2>2, <2>5, <3>2 DEF Same, HasBytes, OldBytes
    <3> QED
      BY <2>1, <3>3, SameIsKept
  <2> QED
    BY <2>3, <2>4, <2>5 DEF Promise!Next
<1> QED
  BY <1>1, <1>2, <1>3

LEMMA StepKeeps == ASSUME IndInv, Step PROVE Rewriting \/ Promise!Next
<1>1. CASE Deletes
  <2>1. EngineTyped /\ op.at = "deleting" /\ op.at # "idle" /\ op.key \in Keys /\ op.key \in asked'
    BY <1>1 DEF Deletes, Step, IndInv, Typed, EngineTyped
  <2>2. /\ DOMAIN table \ {op.key} \subseteq DOMAIN table'
        /\ DOMAIN table' \subseteq DOMAIN table
        /\ \A j \in DOMAIN table' : table'[j] = table[j]
        /\ dead' \subseteq dead \union ({op.key} \intersect DOMAIN table)
        /\ table' = table \/ op.key \notin DOMAIN table'
    BY <1>1, <2>1, TargetedFacts DEF Deletes
  <2>3. ASSUME NEW j \in Keys, j # op.key \/ table' = table PROVE Promise!Kept(j)
    <3>1. Same(j)
      BY <2>2, <2>3 DEF Same, HasBytes
    <3> QED
      BY <3>1, SameIsKept
  <2>4. ASSUME NEW j \in Keys, j = op.key, j \notin DOMAIN table' PROVE Promise!Erased(j)
    <3>1. j \in asked' /\ (HasBytes(j)' => HasBytes(j))
      BY <2>1, <2>2, <2>4 DEF HasBytes
    <3> QED
      BY <2>4, <3>1, AskedIsErased
  <2>5. ASSUME NEW j \in Keys PROVE Promise!Kept(j) \/ Promise!Erased(j)
    <3>1. CASE j # op.key \/ table' = table
      BY <2>3, <3>1
    <3>2. CASE j = op.key /\ op.key \notin DOMAIN table'
      BY <2>4, <3>2
    <3> QED
      BY <2>2, <3>1, <3>2
  <2> QED
    BY <2>5 DEF Promise!Next
<1>2. CASE Shrinks \/ Dumps
  BY <1>2, SameForAll DEF Shrinks, Dumps
<1>3. CASE Drops \/ Refills \/ Purges
  BY <1>3 DEF Drops, Refills, Purges, Rewriting
<1> QED
  BY <1>1, <1>2, <1>3, EngineStep DEF Step

\* The steps that only ask, look or journal.
LEMMA QuietKeeps ==
    ASSUME \/ Converge
           \/ \E t \in Threads : Reading(t)
           \/ \E k \in Keys : \/ Tombstone(k) \/ Suppress(k) \/ ReclaimNothing(k)
                              \/ Reclaim(k) \/ Probe(k)
           \/ Kill
    PROVE  table' = table /\ dead' = dead
<1>1. CASE Converge
  BY <1>1 DEF Converge, Pinecone!Converge
<1>2. CASE \E t \in Threads : Reading(t)
  BY <1>2 DEF Reading, Retrieve, ReadSeq, ReadTombs, CacheTombs, CacheSeq, Serve, store
<1>3. CASE Kill
  BY <1>3 DEF Kill, store
<1>4. CASE \E k \in Keys : \/ Tombstone(k) \/ Suppress(k) \/ ReclaimNothing(k)
                           \/ Reclaim(k) \/ Probe(k)
  BY <1>4 DEF Tombstone, Suppress, ReclaimNothing, Reclaim, Probe, store
<1> QED
  BY <1>1, <1>2, <1>3, <1>4

LEMMA NextKeeps == IndInv /\ [Next]_vars => [Rewriting \/ Promise!Next]_(Promise!store)
<1> SUFFICES ASSUME IndInv, [Next]_vars PROVE [Rewriting \/ Promise!Next]_(Promise!store)
  OBVIOUS
<1>1. CASE UNCHANGED vars
  BY <1>1, SameForAll DEF vars, store
<1>2. CASE Next
  BY <1>2, AddKeeps, NativeDeleteKeeps, MarkKeeps, StepKeeps, QuietKeeps, SameForAll DEF Next
<1> QED
  BY <1>1, <1>2

\* Outside the rewrite of a collection every engine keeps the promise of an adapter
\* (stores/base.py): its states map to those of ErasableStore, step by step.
THEOREM EnginesKeepThePromise == Spec => KeepsPromise
<1>1. Init => Promise!Init
  <2> SUFFICES ASSUME Init PROVE Promise!Init
    OBVIOUS
  <2>1. table = << >> /\ dead = {} /\ asked = {}
    BY DEF Init, Opened, Pgvector!Opened, Chroma!Opened, Qdrant!Opened,
           Server!Opened, Pinecone!Opened
  <2>2. \A k : k \notin DOMAIN table /\ ~HasBytes(k)
    BY <2>1, TableFacts DEF HasBytes
  <2> QED
    BY <2>1, <2>2 DEF Promise!Init, Promise!None, RecordOf
<1> QED
  BY <1>1, AlwaysInv, NextKeeps, PTL DEF Spec, KeepsPromise
=============================================================================
