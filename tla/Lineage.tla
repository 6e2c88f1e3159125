------------------------------- MODULE Lineage -------------------------------
(***************************************************************************)
(* The lineage graph (lineage/store.py), the hooks that write it            *)
(* (lineage/capture.py, integrations/langchain.py, stores/cache_*.py), the   *)
(* trace that reads it (lineage/trace.py, lineage/gaps.py) and the erasure   *)
(* that acts on a trace.  Threads of the application add documents, delete   *)
(* them natively and cache answers while an operator traces and erases; any  *)
(* of them may be killed between two steps.                                  *)
(*                                                                         *)
(* A key is a set of names: one name, or for a cached answer the question    *)
(* and, in the exact cache, the chunks its prompt quotes.  What is really in *)
(* an entry is the set of chunks whose text it holds.                        *)
(***************************************************************************)
EXTENDS Naturals, FiniteSets

CONSTANTS
    Apps,        \* threads of the application
    Documents,   \* what it may add: [source, subject, chunk, key, from]
    Questions,   \* what it may be asked
    CacheKinds,  \* the caches it keeps, of "exact" and "semantic"
    Repeats,     \* whether it adds a document or caches a question twice
    Nothing,     \* no document, no source, no trace
    MaxDocuments, \* bound on documents
    MaxTraces,   \* bound on the traces taken
    MaxFaults    \* bound on kills and on entries written around the wrapper

ASSUME DocumentsAssumption ==
    /\ \A d, e \in Documents : d.source = e.source => d.subject = e.subject
    /\ \A d, e \in Documents : d.from = e.source => e.from = Nothing
ASSUME CachesAssumption == CacheKinds \subseteq {"exact", "semantic"}
ASSUME BoundsAssumption == MaxDocuments \in Nat /\ MaxTraces \in Nat /\ MaxFaults \in Nat

\* What the theorems ask of the application: it gives no id to two texts, a source is
\* derived from one other or from none, and a question is not the name of a chunk.
NamedApart ==
    /\ \A d, e \in Documents : d.key = e.key => d.chunk = e.chunk
    /\ \A d, e \in Documents : d.source = e.source => d.from = e.from
    /\ \A d \in Documents :
          d.key # "around" /\ d.chunk \notin Questions /\ d.source # Nothing

VARIABLES
    owner,       \* the nodes: the subject each artifact is recorded under
    edges,       \* <<parent, child>>
    tombstones,  \* the artifacts marked deleted
    held,        \* what each <<store, key>> really holds
    side,        \* the keys in the exact cache's side table
    captured,    \* the documents whose lineage was written
    asked,       \* the questions that were answered
    app,         \* what each thread of the application is doing
    traces,      \* the traces saved
    run,         \* what the operator's command is doing
    closed,      \* the traces whose saga has ended, with its outcome
    kills, arounds

graphVars == <<owner, edges>>
storeVars == <<held, side>>
appVars == <<captured, asked, app>>
operatorVars == <<traces, run, closed>>
bounds == <<kills, arounds>>
vars == <<graphVars, tombstones, storeVars, appVars, operatorVars, bounds>>

-----------------------------------------------------------------------------
(* Artifacts.  An artifact id is derived from what it stands for; that of an  *)
(* embedding is looked up by its key, so the key stands for it.               *)

SourceId(source) == <<"source", {source}, Nothing>>
ChunkId(chunk) == <<"docs", {chunk}, Nothing>>
EmbedId(key) == <<"index", key, Nothing>>
CacheId(kind, key, subject) == <<kind, key, subject>>
PlaceOf(id) == <<id[1], id[2]>>

Subjects == {d.subject : d \in Documents}
Nodes == DOMAIN owner

\* Insert-or-ignore: a node that exists keeps its owner.
With(new) == [id \in Nodes \union DOMAIN new |->
                IF id \in Nodes THEN owner[id] ELSE new[id]]

\* What the stores hold when an entry is written or written over.
Entry(chunks) == [chunks |-> chunks, hidden |-> FALSE]
Writing(place, chunks) ==
    held' = [e \in DOMAIN held \union {place} |->
               IF e = place THEN Entry(chunks) ELSE held[e]]

Idle == [at |-> "idle", doc |-> Nothing, key |-> {}, kind |-> "none", chunks |-> {}]
Resting == [at |-> "idle", subject |-> Nothing, gaps |-> {}, trace |-> Nothing]

Init ==
    /\ owner = << >> /\ edges = {} /\ tombstones = {}
    /\ held = << >> /\ side = {}
    /\ captured = {} /\ asked = {} /\ app = [p \in Apps |-> Idle]
    /\ traces = {} /\ run = Resting /\ closed = {}
    /\ kills = 0 /\ arounds = 0

-----------------------------------------------------------------------------
(* The application adds a document: lineage in one transaction, then the      *)
(* vector, then the chunk's text.                                             *)

\* Mutant of NewEdges: a chunk that exists is reused with the parents it has.
ChunkReused(d) ==
    IF ChunkId(d.chunk) \in Nodes THEN {}
    ELSE {<<SourceId(d.source), ChunkId(d.chunk)>>, <<ChunkId(d.chunk), EmbedId({d.key})>>}

NewEdges(d) ==
    {<<SourceId(d.source), ChunkId(d.chunk)>>}
    \union (IF d.from = Nothing \/ SourceId(d.source) \in Nodes THEN {}
            ELSE {<<SourceId(d.from), SourceId(d.source)>>})
    \union (IF EmbedId({d.key}) \in Nodes THEN {}
            ELSE {<<ChunkId(d.chunk), EmbedId({d.key})>>})

\* ensure_source, ensure_chunk and prepare_embeds: an embedding that exists
\* under this key is reused, and gets no edge from the new chunk.
Capture(p, d) ==
    /\ app[p] = Idle
    /\ Repeats \/ d \notin captured
    /\ Cardinality(captured) < MaxDocuments \/ d \in captured
    /\ owner' = With([id \in {SourceId(d.source), ChunkId(d.chunk), EmbedId({d.key})} |->
                        IF id = EmbedId({d.key}) /\ ChunkId(d.chunk) \in Nodes
                        THEN owner[ChunkId(d.chunk)] ELSE d.subject])
    /\ edges' = edges \union NewEdges(d)
    /\ captured' = captured \union {d}
    /\ app' = [app EXCEPT ![p] = [Idle EXCEPT !.at = "adding", !.doc = d]]
    /\ UNCHANGED <<tombstones, storeVars, asked, operatorVars, bounds>>

\* backend.add: an upsert, which is not suppressed.
Add(p) ==
    /\ app[p].at = "adding"
    /\ Writing(<<"index", {app[p].doc.key}>>, {app[p].doc.chunk})
    /\ app' = [app EXCEPT ![p].at = "putting"]
    /\ UNCHANGED <<graphVars, tombstones, side, captured, asked, operatorVars, bounds>>

\* docstore.put: INSERT OR REPLACE with suppressed = 0.
Put(p) ==
    /\ app[p].at = "putting"
    /\ Writing(<<"docs", {app[p].doc.chunk}>>, {app[p].doc.chunk})
    /\ app' = [app EXCEPT ![p] = Idle]
    /\ UNCHANGED <<graphVars, tombstones, side, captured, asked, operatorVars, bounds>>

\* Something writes to the index without the wrapper, before it was installed
\* or past it; nobody knows whose text it is.
WriteAround ==
    /\ kills + arounds < MaxFaults
    /\ arounds' = arounds + 1
    /\ Writing(<<"index", {"around"}>>, {})
    /\ UNCHANGED <<graphVars, tombstones, side, appVars, operatorVars, kills>>

\* TombstoneVectorStore.delete: the store's own delete, and then its record.
Delete(p, key) ==
    /\ app[p] = Idle
    /\ <<"index", key>> \in DOMAIN held
    /\ held' = [e \in DOMAIN held \ {<<"index", key>>} |-> held[e]]
    /\ app' = [app EXCEPT ![p] = [Idle EXCEPT !.at = "deleting", !.key = key]]
    /\ UNCHANGED <<graphVars, tombstones, side, captured, asked, operatorVars, bounds>>

\* Mutant of RecordDelete: the key is marked whether a node knows it or not.
UnknownDelete(p) ==
    /\ app[p].at = "deleting"
    /\ tombstones' = tombstones \union {EmbedId(app[p].key)}
    /\ app' = [app EXCEPT ![p] = Idle]
    /\ UNCHANGED <<graphVars, storeVars, captured, asked, operatorVars, bounds>>

RecordDelete(p) ==
    /\ app[p].at = "deleting"
    /\ tombstones' = tombstones \union ({EmbedId(app[p].key)} \intersect Nodes)
    /\ app' = [app EXCEPT ![p] = Idle]
    /\ UNCHANGED <<graphVars, storeVars, captured, asked, operatorVars, bounds>>

-----------------------------------------------------------------------------
(* The application answers a question from retrieved chunks and caches it.    *)

\* What the wrapper's query returns: neither suppressed nor tombstoned.
Visible == {e \in DOMAIN held : /\ e[1] = "index"
                                /\ ~held[e].hidden
                                /\ EmbedId(e[2]) \notin tombstones}

Ask(p, q, hits, kind) ==
    /\ app[p] = Idle
    /\ Repeats \/ q \notin asked
    /\ asked' = asked \union {q}
    /\ LET chunks == UNION {held[e].chunks : e \in hits}
       IN app' = [app EXCEPT ![p] =
                    [at |-> IF kind = "exact" THEN "writing" ELSE "recording",
                     doc |-> Nothing, kind |-> kind, chunks |-> chunks,
                     key |-> {q} \union IF kind = "exact" THEN chunks ELSE {}]]
    /\ UNCHANGED <<graphVars, tombstones, storeVars, captured, operatorVars, bounds>>

\* TombstoneExactCache.update writes the answer first, then the side table, and
\* the lineage last; SemanticCache.update writes the lineage first.
WriteAnswer(p) ==
    /\ app[p].at = "writing"
    /\ Writing(<<app[p].kind, app[p].key>>, app[p].chunks)
    /\ app' = [app EXCEPT ![p] = IF app[p].kind = "exact" THEN [app[p] EXCEPT !.at = "listing"]
                                 ELSE Idle]
    /\ UNCHANGED <<graphVars, tombstones, side, captured, asked, operatorVars, bounds>>

ListKey(p) ==
    /\ app[p].at = "listing"
    /\ side' = side \union {app[p].key}
    /\ app' = [app EXCEPT ![p].at = "recording"]
    /\ UNCHANGED <<graphVars, tombstones, held, captured, asked, operatorVars, bounds>>

\* record_cache: one node for each subject that owns a quoted chunk, with an
\* edge from each of that subject's chunks; a node that exists is left alone.
RecordCache(p) ==
    LET parents == {ChunkId(c) : c \in app[p].chunks} \intersect Nodes
        idOf(n) == CacheId(app[p].kind, app[p].key, owner[n])
    IN /\ app[p].at = "recording"
       /\ owner' = With([id \in {idOf(n) : n \in parents} |-> id[3]])
       /\ edges' = edges \union {<<n, idOf(n)>> : n \in {n \in parents : idOf(n) \notin Nodes}}
       /\ app' = [app EXCEPT ![p] = IF app[p].kind = "exact" THEN Idle
                                    ELSE [app[p] EXCEPT !.at = "writing"]]
       /\ UNCHANGED <<tombstones, storeVars, captured, asked, operatorVars, bounds>>

-----------------------------------------------------------------------------
(* The trace.                                                                 *)

\* Mutant of Knows: a cache's node is compared with the whole of its name.
KnowsName(store, key) == store \in {"index", "docs"} /\ \E id \in Nodes : PlaceOf(id) = <<store, key>>

Knows(store, key) == \E id \in Nodes : PlaceOf(id) = <<store, key>>

\* detect_gaps: the stores with an entry whose key no node knows.  A cache's
\* node is named key@subject; the exact cache lists what its side table knows.
Sampled(store) == IF store = "exact" THEN side
                  ELSE {e[2] : e \in {e \in DOMAIN held : e[1] = store}}
Gaps == {store \in {"index", "docs", "exact", "semantic"} :
           \E key \in Sampled(store) : ~Knows(store, key)}

\* Breadth first, level by level, from a subject's own sources.
Reached(links, roots, depth) ==
    LET level[n \in 0..depth] ==
          IF n = 0 THEN roots
          ELSE LET seen == level[n - 1]
               IN seen \union {e[2] : e \in {e \in links : e[1] \in seen}}
    IN level[depth]
Descendants(roots) == Reached(edges, roots, Cardinality(Nodes))

\* What is reached and recorded, but for the sources of others.
Artifacts(s) ==
    {id \in Descendants({id \in Nodes : id[1] = "source" /\ owner[id] = s}) \intersect Nodes :
       id[1] = "source" => owner[id] = s}

\* The graph only grows, so its size stands for the hash of its snapshot.
Snapshot == <<Cardinality(Nodes), Cardinality(edges)>>

\* A node of the subject's that descends from no source at all.
Orphaned(s) ==
    \E id \in Nodes \ Descendants({id \in Nodes : id[1] = "source"}) : owner[id] = s

\* A subject of whom nothing was stamped cannot be traced.
Known(s) == \E id \in Nodes : owner[id] = s

Trace(s, gaps) == [subject |-> s, snapshot |-> Snapshot, artifacts |-> Artifacts(s),
                   gaps |-> gaps \union IF Orphaned(s) THEN {"orphan"} ELSE {}]

SampleStores(s) ==
    /\ run = Resting
    /\ Cardinality(traces) < MaxTraces
    /\ run' = [Resting EXCEPT !.at = "tracing", !.subject = s, !.gaps = Gaps]
    /\ UNCHANGED <<graphVars, tombstones, storeVars, appVars, traces, closed, bounds>>

SaveTrace ==
    /\ run.at = "tracing"
    /\ traces' = traces \union IF Known(run.subject) THEN {Trace(run.subject, run.gaps)} ELSE {}
    /\ run' = Resting
    /\ UNCHANGED <<graphVars, tombstones, storeVars, appVars, closed, bounds>>

-----------------------------------------------------------------------------
(* The erasure of a trace.                                                    *)

IsClosed(t) == \E c \in closed : c.trace = t

\* _preflight: something to erase, gaps accepted by the operator, the graph as
\* it was; and the trace was not erased before.
Preflight(t, acceptGaps) ==
    /\ run = Resting
    /\ t.artifacts # {}
    /\ acceptGaps \/ t.gaps = {}
    /\ t.snapshot = Snapshot
    /\ ~IsClosed(t)
    /\ run' = [Resting EXCEPT !.at = "tombstoning", !.subject = t.subject, !.trace = t]
    /\ UNCHANGED <<graphVars, tombstones, storeVars, appVars, traces, closed, bounds>>

Tombstone ==
    /\ run.at = "tombstoning"
    /\ tombstones' = tombstones \union run.trace.artifacts
    /\ run' = [run EXCEPT !.at = "suppressing"]
    /\ UNCHANGED <<graphVars, storeVars, appVars, traces, closed, bounds>>

Targets == {PlaceOf(id) : id \in run.trace.artifacts}
\* Mutant of Deleted: the semantic cache is cleared.
ClearedCache == {e \in DOMAIN held : e[1] = "semantic"}
                \union {e \in Targets : e[1] = "exact" /\ e[2] \in side}

\* A cache deletes; the exact one what its side table knows.  The semantic one can
\* take the nearest neighbours along (purge_k), which no configuration asks it to.
Deleted == {e \in Targets : e[1] = "semantic" \/ (e[1] = "exact" /\ e[2] \in side)}
Without(places) == [e \in DOMAIN held \ places |-> held[e]]

Suppress ==
    /\ run.at = "suppressing"
    /\ held' = [e \in DOMAIN held \ Deleted |->
                  IF e \in Targets THEN [held[e] EXCEPT !.hidden = TRUE] ELSE held[e]]
    /\ side' = {key \in side : <<"exact", key>> \notin Targets}
    /\ run' = [run EXCEPT !.at = "reclaiming"]
    /\ UNCHANGED <<graphVars, tombstones, appVars, traces, closed, bounds>>

Reclaim ==
    /\ run.at = "reclaiming"
    /\ held' = Without(Deleted \union {e \in Targets : e[1] \in {"index", "docs"}})
    /\ side' = {key \in side : <<"exact", key>> \notin Targets}
    /\ run' = [run EXCEPT !.at = "closing"]
    /\ UNCHANGED <<graphVars, tombstones, appVars, traces, closed, bounds>>

\* What threads have captured and not yet written.
Pending == {<<"index", {app[p].doc.key}>> : p \in {p \in Apps : app[p].at = "adding"}}
           \union {<<"docs", {app[p].doc.chunk}>> :
                     p \in {p \in Apps : app[p].at \in {"adding", "putting"}}}
           \union {<<app[p].kind, app[p].key>> : p \in {p \in Apps : app[p].at = "writing"}}

\* Mutant of Left: only the vectors and the answers are probed, not the texts.
LeftButTexts == {e \in Targets \intersect DOMAIN held : e[1] # "docs"}

\* What the probes find.  The exact cache looks an answer up through its side table, so
\* it finds no answer that is not listed yet: here it counts as found.
Left == Targets \intersect DOMAIN held

\* The probes, the receipt and the end of the saga: verified when nothing of
\* the trace is left where it was.
Close ==
    /\ run.at = "closing"
    /\ closed' = closed \union {[trace |-> run.trace, pending |-> Pending, known |-> captured,
                                 verified |-> Left = {}]}
    /\ run' = Resting
    /\ UNCHANGED <<graphVars, tombstones, storeVars, appVars, traces, bounds>>

-----------------------------------------------------------------------------
Kill ==
    /\ kills + arounds < MaxFaults
    /\ kills' = kills + 1
    /\ \/ /\ \E p \in Apps : app[p] # Idle /\ app' = [app EXCEPT ![p] = Idle]
          /\ UNCHANGED run
       \/ run # Resting /\ run' = Resting /\ UNCHANGED app
    /\ UNCHANGED <<graphVars, tombstones, storeVars, captured, asked, traces, closed, arounds>>

Application(p) ==
    \/ \E d \in Documents : Capture(p, d)
    \/ Add(p)
    \/ Put(p)
    \/ \E e \in DOMAIN held : e[1] = "index" /\ Delete(p, e[2])
    \/ RecordDelete(p)
    \/ \E q \in Questions, kind \in CacheKinds :
         \E hits \in (SUBSET Visible) \ {{}} : Ask(p, q, hits, kind)
    \/ WriteAnswer(p)
    \/ ListKey(p)
    \/ RecordCache(p)

Operator ==
    \/ \E s \in Subjects : SampleStores(s)
    \/ SaveTrace
    \/ \E t \in traces, acceptGaps \in BOOLEAN : Preflight(t, acceptGaps)
    \/ Tombstone
    \/ Suppress
    \/ Reclaim
    \/ Close

Next == (\E p \in Apps : Application(p)) \/ Operator \/ WriteAround \/ Kill

Spec == Init /\ [][Next]_vars

-----------------------------------------------------------------------------
(* Properties.                                                                *)

\* The graph and the stores are well-formed: what the state holds is what the
\* schema (lineage/schema.sql) and the stores' rows can hold.
TypeOK ==
    /\ \A id \in Nodes : owner[id] \in Subjects
    /\ \A e \in edges : e[2] \in Nodes
    /\ tombstones \subseteq Nodes
    /\ \A e \in DOMAIN held : held[e].hidden \in BOOLEAN
    /\ captured \subseteq Documents /\ asked \subseteq Questions
    /\ kills \in 0..MaxFaults /\ arounds \in 0..MaxFaults
    /\ run.at \in {"idle", "tracing", "tombstoning", "suppressing", "reclaiming", "closing"}

\* Whose data a chunk's text is: the subjects of the captured documents it was
\* split from, and of those that these were derived from.
Sources(chunk) ==
    LET direct == {d \in captured : d.chunk = chunk}
    IN direct \union {d \in captured : \E e \in direct : e.from = d.source}
Concerned(chunk) == {d.subject : d \in Sources(chunk)}
SubjectsOf(place) == UNION {Concerned(c) : c \in held[place].chunks}

\* An answer that TombstoneExactCache.update has written and not listed yet, or
\* was killed before it listed it.
Unlisted(place) == place[1] = "exact" /\ place[2] \notin side

\* Whatever a store holds of a subject is found by a trace of that subject, or
\* its store is reported as a gap: no interleaving of captures, deletes, cached
\* answers, erasures and kills leaves a copy that no trace reaches (capture.py:3,
\* Hard Rule 4).  The exact cache's entries count once they are listed.
NoUntracedCopy ==
    \A place \in DOMAIN held : Unlisted(place) \/ place[1] \in Gaps \/
      \A s \in SubjectsOf(place) : \E id \in Artifacts(s) : PlaceOf(id) = place

\* A trace that names the index, the docstore or the semantic cache as a gap is
\* right: an entry was written around the wrapper (and maybe an answer made of it).
\* A document that is just being added, or an entry just erased, is no false alarm
\* (gaps.py:73).
GapsAreReal ==
    \A t \in traces :
       /\ t.gaps \intersect {"orphan", "docs"} = {}
       /\ t.gaps \intersect {"index", "semantic"} # {} => arounds > 0

\* What a verified erasure erased is gone for good, but for what a thread had
\* captured and not yet written when it was verified, and what is written again
\* for a document captured since: no cached answer and no other store's write
\* brings it back (saga.py:349).
WrittenSince(c) == {<<"docs", {d.chunk}>> : d \in captured \ c.known}
                   \union {<<"index", {d.key}>> : d \in captured \ c.known}
VerifiedStaysGone ==
    \A c \in closed : c.verified =>
      \A id \in c.trace.artifacts :
         PlaceOf(id) \in DOMAIN held => PlaceOf(id) \in c.pending \union WrittenSince(c)

\* An erasure removes nothing but what holds its subject's data: not the chunks
\* of a document that happens to share a store, and not a source, an answer or a
\* chunk of somebody else (trace.py:141).
OthersSpared ==
    [][\A place \in DOMAIN held \ DOMAIN held' :
         run.at \in {"suppressing", "reclaiming"} /\ run' # run =>
           run.trace.subject \in SubjectsOf(place)]_vars
=============================================================================
