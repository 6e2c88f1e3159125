--------------------------- MODULE MCErasureSaga ---------------------------
(* Instances of ErasureSaga for TLC. *)
EXTENDS ErasureSaga

\* Every run finds every store configured, or the last one was taken out of it.
AllConfigured == {Stores}
LastMayBeRemoved == {Stores, Stores \ {N}}

ReclaimOnly == {TRUE}
WithAndWithoutReclaim == {TRUE, FALSE}
============================================================================
