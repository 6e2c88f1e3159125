---------------------------- MODULE ErasableStore ----------------------------
(***************************************************************************)
(* What the adapter of a store promises of its records, whatever its backend *)
(* (stores/base.py, docs/adapters.md): a record comes to be retrievable only  *)
(* by being written, a suppressed one stays hidden until it is written again, *)
(* an erasure takes no record that it was not asked for, and bytes that are   *)
(* gone come back only with a write.                                          *)
(***************************************************************************)
EXTENDS FiniteSets

CONSTANTS Keys, Versions

VARIABLES
    record,   \* what each key's record shows: nothing, or a version, live or hidden
    bytes,    \* the versions of each key whose bytes the files hold
    asked     \* the keys whose deletion or erasure was asked for since they were written

store == <<record, bytes, asked>>

None == [state |-> "none"]
Shown(state, v) == [state |-> state, version |-> v]
Records == {None} \union {Shown(s, v) : s \in {"live", "hidden"}, v \in Versions}

Init ==
    /\ record = [k \in Keys |-> None]
    /\ bytes = [k \in Keys |-> {}]
    /\ asked = {}

\* Bytes of versions that no record shows may go at any time.
Kept(k) ==
    /\ record'[k] = record[k]
    /\ bytes'[k] \subseteq bytes[k]
    /\ record[k] # None /\ k \notin asked => record[k].version \in bytes'[k]

Written(k) == \E v \in Versions : /\ record'[k] = record[k]
                                  /\ bytes'[k] = bytes[k] \union {v}

Published(k) == \E v \in Versions : /\ record'[k] = Shown("live", v)
                                    /\ v \in bytes'[k] /\ bytes'[k] \subseteq bytes[k] \union {v}

Hidden(k) == /\ record[k].state = "live"
             /\ record'[k] = Shown("hidden", record[k].version)
             /\ bytes'[k] = bytes[k]

Erased(k) == /\ k \in asked'
             /\ record'[k] = None
             /\ bytes'[k] \subseteq bytes[k]

Next == \A k \in Keys : Kept(k) \/ Written(k) \/ Published(k) \/ Hidden(k) \/ Erased(k)

Spec == Init /\ [][Next]_store
=============================================================================
