----------------------------- MODULE QdrantStore -----------------------------
(***************************************************************************)
(* Qdrant (stores/qdrant.py), in its local mode, where one process keeps the  *)
(* points in sqlite files, or on a server, whose files the adapter does not   *)
(* see.                                                                      *)
(***************************************************************************)
EXTENDS VectorStore

CONSTANT Local   \* whether the points are in a folder of this process

\* detect_capabilities: a server whose snapshots can be listed counts as one
\* whose bytes can be scanned.  A folder that cannot be read and written is left
\* out: nothing can be stored or reclaimed in it.
Physical == TRUE

\* The collection is created in a folder, or on a server.
Opened == table = << >> /\ view = << >> /\ dead = {}
Rows == table

\* Mutant of Residue: only the records' own rows are looked at.
RowResidue(k) == Local /\ k \in DOMAIN table

\* probe_physical scans persisted_files, and of a server there are none.
Residue(k) == Local /\ HasBytes(k)

Upsert(k) == /\ Shows(Upserted(table, k))
             /\ dead' = dead \union ({k} \intersect DOMAIN table)

Mark(k) == Shows(Flagged(table, k)) /\ UNCHANGED dead

\* The point goes, its page stays until VACUUM, or until the optimizer runs.
Delete(k) == /\ Shows(Without(table, k))
             /\ dead' = dead \union ({k} \intersect DOMAIN table)

ReclaimDelete ==
    /\ op.at = "deleting"
    /\ Shows(Targeted(table))
    /\ dead' = dead \union Dying(table)
    /\ Goes(IF Local THEN "dumping" ELSE "optimizing")

\* The server is told to rewrite its segments, and waited for, but not for ever.
Optimize ==
    /\ op.at = "optimizing"
    /\ dead' \in SUBSET dead
    /\ Ends
    /\ UNCHANGED <<table, view>>

\* _dump_all
Dump ==
    /\ op.at = "dumping"
    /\ op' = [op EXCEPT !.at = "dropping", !.kept = table]
    /\ UNCHANGED store

\* delete_collection removes the collection's folder.
Drop ==
    /\ op.at = "dropping"
    /\ Shows(<< >>)
    /\ dead' = {}
    /\ Goes("refilling")

Refill == op.at = "refilling" /\ Refilled /\ UNCHANGED dead

\* _vacuum_local
Vacuum ==
    /\ op.at = "refilling" /\ op.kept = << >>
    /\ dead' = {}
    /\ Ends
    /\ UNCHANGED <<table, view>>

Reclaiming == ReclaimDelete \/ Optimize \/ Dump \/ Drop \/ Refill \/ Vacuum
=============================================================================
