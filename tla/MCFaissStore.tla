---- MODULE MCFaissStore ----
EXTENDS FaissStore
====
