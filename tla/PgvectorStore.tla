---------------------------- MODULE PgvectorStore ----------------------------
(***************************************************************************)
(* Postgres with pgvector (stores/pgvector.py).  Every update and delete      *)
(* leaves a dead tuple; the owner's reclaim rebuilds the index and the table. *)
(* A role that may not read the relation files works on what it sees through  *)
(* SQL.  The files are taken to be as the server last left its pages: a role  *)
(* that reads them and is no superuser cannot ask for the checkpoint.         *)
(***************************************************************************)
EXTENDS VectorStore

VARIABLES
    owner,   \* whether the role owns the table, as it was found to at the opening
    reader   \* whether it may read the relation files

\* detect_capabilities, which asks for the right to read, not to maintain.
Physical == reader

\* The table is created with its indexes; every read is a SELECT on it.
Opened == table = << >> /\ view = << >> /\ dead = {}
Rows == table

\* probe_physical: the heap, its TOAST table and the index, after a CHECKPOINT.
Residue(k) == reader /\ HasBytes(k)

\* INSERT ... ON CONFLICT DO UPDATE ... tombstoned = FALSE.
Upsert(k) == /\ Shows(Upserted(table, k))
             /\ dead' = dead \union ({k} \intersect DOMAIN table)

\* UPDATE ... SET tombstoned = TRUE.
Mark(k) == /\ Shows(Flagged(table, k))
           /\ dead' = dead \union ({k} \intersect DOMAIN table)

Delete(k) == /\ Shows(Without(table, k))
             /\ dead' = dead \union ({k} \intersect DOMAIN table)

\* Mutant of ReclaimDelete: whatever the role may do, it compacts.
EagerDelete ==
    /\ op.at = "deleting"
    /\ Shows(Targeted(table))
    /\ dead' = dead \union Dying(table)
    /\ Goes("compacting")

\* _reclaim: the DELETE, which is all that a role without ownership may do.
ReclaimDelete ==
    /\ op.at = "deleting"
    /\ Shows(Targeted(table))
    /\ dead' = dead \union Dying(table)
    /\ IF owner THEN Goes("compacting") ELSE Ends

\* REINDEX and VACUUM FULL, or VACUUM and REINDEX when FULL is refused: what
\* another transaction may still see stays.
Compact ==
    /\ op.at = "compacting"
    /\ dead' \in SUBSET dead
    /\ Ends
    /\ UNCHANGED <<table, view>>

Reclaiming == ReclaimDelete \/ Compact
=============================================================================
