---------------------------- MODULE PineconeStore ----------------------------
(***************************************************************************)
(* Pinecone (stores/pinecone.py): a managed service.  It accepts changes and  *)
(* shows them later, and its bytes cannot be read at all.                     *)
(***************************************************************************)
EXTENDS VectorStore

Physical == FALSE

\* An index of the service; fetch and query return what it shows.
Opened == table = << >> /\ view = << >> /\ dead = {}
Rows == view

\* probe_physical raises: nothing is ever found, or found absent.
Residue(k) == FALSE

Upsert(k) == table' = Upserted(table, k) /\ UNCHANGED <<view, dead>>

\* index.update, whose exceptions are suppressed, then _settle, whose wait for the
\* change to show is bounded.
Mark(k) == table' \in {table, Flagged(table, k)} /\ UNCHANGED <<view, dead>>

Delete(k) == table' = Without(table, k) /\ UNCHANGED <<view, dead>>

\* index.delete, the wait, and a report of what is still returned.
ReclaimDelete ==
    /\ op.at = "deleting"
    /\ table' = Targeted(table)
    /\ Ends
    /\ UNCHANGED <<view, dead>>

\* The service shows its records, sooner or later.
Converge ==
    /\ view # table
    /\ view' = table
    /\ UNCHANGED <<table, dead, op>>

Reclaiming == ReclaimDelete
=============================================================================
