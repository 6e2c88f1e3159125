------------------------------ MODULE Erasure ------------------------------
(***************************************************************************)
(* What an erasure promises about the traced artifacts of one subject, with *)
(* no saga, no journal and no failures: the tombstone marker comes first,  *)
(* each store is suppressed and then reclaimed, and a store is certified   *)
(* only when nothing is left in it.  ErasureSaga implements it.            *)
(***************************************************************************)
CONSTANT Stores

VARIABLES
    marked,     \* lineage shows the artifacts as erased
    content,    \* what each store still holds
    certified   \* stores some receipt calls VERIFIED

vars == <<marked, content, certified>>

Init ==
    /\ marked = FALSE
    /\ content = [st \in Stores |-> "live"]
    /\ certified = {}

Mark ==
    /\ marked' = TRUE
    /\ UNCHANGED <<content, certified>>

Suppress(st) ==
    /\ marked
    /\ content[st] = "live"
    /\ content' = [content EXCEPT ![st] = "suppressed"]
    /\ UNCHANGED <<marked, certified>>

Reclaim(st) ==
    /\ content[st] = "suppressed"
    /\ content' = [content EXCEPT ![st] = "gone"]
    /\ UNCHANGED <<marked, certified>>

\* A receipt may certify any stores in which nothing is left.
Certify ==
    \E S \in SUBSET {st \in Stores : content[st] = "gone"} :
        /\ certified' = certified \cup S
        /\ UNCHANGED <<marked, content>>

Next == Mark \/ Certify \/ \E st \in Stores : Suppress(st) \/ Reclaim(st)

Spec == Init /\ [][Next]_vars
============================================================================
