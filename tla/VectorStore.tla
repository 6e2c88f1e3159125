----------------------------- MODULE VectorStore -----------------------------
(***************************************************************************)
(* What the adapters of the vector engines share (stores/_vector.py): the     *)
(* records an engine holds, what it answers, and the bytes of old records     *)
(* that its files still have; and the one call that a process is in the       *)
(* middle of, since every call of the engine is a step of its own.            *)
(***************************************************************************)
EXTENDS Naturals, FiniteSets

VARIABLES
    table,   \* the records, each flagged as suppressed or not
    view,    \* what a service that lags behind its own records returns
    dead,    \* the keys with bytes of old records in the files
    op       \* what the operator's process is doing, and the survivors it holds

store == <<table, view, dead>>

Resting == [at |-> "idle", key |-> "none", present |-> FALSE, kept |-> << >>]

\* add: a record comes without the suppressed flag.
Upserted(rows, k) == [j \in DOMAIN rows \union {k} |-> IF j = k THEN [flagged |-> FALSE] ELSE rows[j]]
\* Mutant of Without: the suppressed records go as well.
LiveWithout(rows, k) == [j \in {j \in DOMAIN rows \ {k} : ~rows[j].flagged} |-> rows[j]]
Without(rows, k) == [j \in DOMAIN rows \ {k} |-> rows[j]]
Flagged(rows, k) == IF k \in DOMAIN rows THEN [rows EXCEPT ![k].flagged = TRUE] ELSE rows

\* A consistent engine shows its records at once.
Shows(rows) == table' = rows /\ UNCHANGED view

\* get, query and filter, of the rows that the engine returns: whatever is neither
\* flagged nor suppressed by this process itself.
Answers(rows, mine) == {k \in DOMAIN rows \ mine : ~rows[k].flagged}

\* The bytes of the record, or of an old one, are in the files.
HasBytes(k) == k \in DOMAIN table \union dead

\* suppress and reclaim first look which keys are there.
Starts(rows, step, k) ==
    op' = [Resting EXCEPT !.at = step, !.key = k, !.present = k \in DOMAIN rows]

Ends == op' = Resting
Goes(step) == op' = [op EXCEPT !.at = step]

\* The delete with which every _reclaim begins, of what was there.
Targeted(rows) == IF op.present THEN Without(rows, op.key) ELSE rows
Dying(rows) == IF op.present /\ op.key \in DOMAIN rows THEN {op.key} ELSE {}

\* A batch of the survivors comes back, over what has their keys by now.
Restored(batch) ==
    [k \in DOMAIN table \union batch |-> IF k \in batch THEN op.kept[k] ELSE table[k]]

\* Mutant of Refilled: the last batch is left out.
PartRefilled ==
    \E batch \in SUBSET DOMAIN op.kept \ {DOMAIN op.kept} :
       /\ Shows(Restored(batch))
       /\ op' = [op EXCEPT !.kept = << >>]

\* The survivors of a rewrite are put back in batches.
Refilled ==
    \E batch \in SUBSET DOMAIN op.kept \ {{}} :
       /\ Shows(Restored(batch))
       /\ op' = [op EXCEPT !.kept = [k \in DOMAIN @ \ batch |-> @[k]]]
=============================================================================
