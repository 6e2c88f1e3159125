----------------------------- MODULE ChromaStore -----------------------------
(***************************************************************************)
(* Chroma (stores/chroma.py): records, a write-ahead queue and pages in one   *)
(* sqlite file, vectors in segment directories.  Its delete only marks; the   *)
(* reclaim copies the survivors into a new collection, zeroes the unused      *)
(* slots of the new segment, purges the queue and removes what is orphaned.   *)
(***************************************************************************)
EXTENDS VectorStore

\* A directory that cannot be read and written is left out: nothing can be stored or
\* reclaimed in it.
Physical == TRUE

\* The collection is created, or its unused slots are zeroed.
Opened == table = << >> /\ view = << >> /\ dead = {}
Rows == table

\* probe_physical: the bytes of every file under the directory.
Residue(k) == HasBytes(k)

\* upsert: the old vector stays in its slot and in the queue.
Upsert(k) == /\ Shows(Upserted(table, k))
             /\ dead' = dead \union ({k} \intersect DOMAIN table)

\* The flag is written with the metadata that was read just before.
Mark(k) == Shows(Flagged(table, k)) /\ UNCHANGED dead

Delete(k) == /\ Shows(Without(table, k))
             /\ dead' = dead \union ({k} \intersect DOMAIN table)

ReclaimDelete ==
    /\ op.at = "deleting"
    /\ Shows(Targeted(table))
    /\ dead' = dead \union Dying(table)
    /\ Goes("dumping")

\* _dump_all
Dump ==
    /\ op.at = "dumping"
    /\ op' = [op EXCEPT !.at = "dropping", !.kept = table]
    /\ UNCHANGED store

\* delete_collection and create: the dropped segment is left behind as an orphan.
Drop ==
    /\ op.at = "dropping"
    /\ Shows(<< >>)
    /\ dead' = dead \union DOMAIN table
    /\ Goes("refilling")

Refill == op.at = "refilling" /\ Refilled /\ UNCHANGED dead

\* _scrub_unused_slots and _purge_sqlite, with its VACUUM.
Purge ==
    /\ op.at = "refilling" /\ op.kept = << >>
    /\ dead' \in SUBSET dead
    /\ Goes("sweeping")
    /\ UNCHANGED <<table, view>>

\* One round of the sweep removes the orphaned segments that are there; the loop
\* ends when none of the subject's bytes is found, or when they stopped falling.
Sweep ==
    /\ op.at = "sweeping"
    /\ dead' \in SUBSET dead
    /\ Ends
    /\ UNCHANGED <<table, view>>

Reclaiming == ReclaimDelete \/ Dump \/ Drop \/ Refill \/ Purge \/ Sweep
=============================================================================
