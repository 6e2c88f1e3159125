---------------------------- MODULE LineageProofs ----------------------------
(***************************************************************************)
(* What Lineage guarantees for any number of threads, documents, questions  *)
(* and faults, proved with TLAPS.                                           *)
(***************************************************************************)
EXTENDS Lineage, FiniteSetTheorems, WellFoundedInduction, TLAPS

----------------------------------------------------------------------------
(* Induction                                                               *)

\* Every non-empty set of numbers has a least one: the initial segments of the
\* numbers are finite sets, which strict inclusion orders well.
LEMMA LeastNumber ==
    ASSUME NEW S \in SUBSET Nat, S # {}
    PROVE  \E n \in S : \A m \in S : n <= m
<1> DEFINE T == {1..n : n \in S}
<1>1. T \subseteq FiniteSubsetsOf(Nat) /\ T # {}
  <2>1. \A n \in Nat : IsFiniteSet(1..n) /\ 1..n \subseteq Nat
    BY FS_Interval
  <2> QED
    BY <2>1 DEF FiniteSubsetsOf
<1>2. PICK X \in T : \A Y \in T : ~(<<Y, X>> \in StrictSubsetOrdering(Nat))
  <2> HIDE DEF T
  <2> QED
    BY <1>1, FS_StrictSubsetOrderingWellFounded, WFMin
<1>3. PICK n \in S : X = 1..n
  OBVIOUS
<1>4. ASSUME NEW m \in S, ~(n <= m) PROVE FALSE
  <2>1. 1..m \subseteq 1..n /\ n \in 1..n /\ n \notin 1..m
    BY <1>4
  <2>2. <<1..m, X>> \in StrictSubsetOrdering(Nat)
    BY <1>1, <1>3, <2>1 DEF StrictSubsetOrdering
  <2> QED
    BY <1>2, <2>2
<1> QED
  BY <1>4

----------------------------------------------------------------------------
(* The levels of the breadth-first search                                  *)

Level(links, roots, seen, n) ==
    IF n = 0 THEN roots
    ELSE seen[n - 1] \union {e[2] : e \in {e \in links : e[1] \in seen[n - 1]}}

\* The recursive definition defines a function, for every depth.
LEMMA LevelsExist ==
    ASSUME NEW links, NEW roots, NEW depth \in Nat
    PROVE  \E f : f = [n \in 0..depth |-> Level(links, roots, f, n)]
<1> DEFINE P(d) == \E f : f = [n \in 0..d |-> Level(links, roots, f, n)]
<1> DEFINE S == {d \in Nat : ~P(d)}
<1>1. P(0)
  <2> DEFINE f == [n \in 0..0 |-> roots]
  <2>1. f = [n \in 0..0 |-> Level(links, roots, f, n)]
    BY DEF Level
  <2> QED
    BY <2>1
<1>2. ASSUME NEW d \in Nat, P(d) PROVE P(d + 1)
  <2>1. PICK f : f = [n \in 0..d |-> Level(links, roots, f, n)]
    BY <1>2
  <2> DEFINE g == [n \in 0..(d + 1) |-> IF n = d + 1 THEN Level(links, roots, f, n) ELSE f[n]]
  <2>2. ASSUME NEW n \in 0..(d + 1) PROVE g[n] = Level(links, roots, g, n)
    <3>1. CASE n = 0
      BY <2>1, <3>1 DEF Level
    <3>2. CASE n # 0
      <4>1. n - 1 \in 0..d /\ g[n - 1] = f[n - 1]
        BY <3>2
      <4>2. Level(links, roots, g, n) = Level(links, roots, f, n)
        BY <3>2, <4>1 DEF Level
      <4>3. g[n] = Level(links, roots, f, n)
        BY <2>1
      <4> QED
        BY <4>2, <4>3
    <3> QED
      BY <3>1, <3>2
  <2>3. g = [n \in 0..(d + 1) |-> Level(links, roots, g, n)]
    BY <2>2
  <2> HIDE DEF g
  <2> QED
    BY <2>3
<1>3. ASSUME S # {} PROVE FALSE
  <2> HIDE DEF P
  <2>1. PICK d \in S : \A m \in S : d <= m
    BY <1>3, LeastNumber
  <2>2. d # 0 /\ d \in Nat
    BY <1>1
  <2>3. d - 1 \in Nat /\ d - 1 \notin S
    BY <2>1, <2>2
  <2> QED
    BY <1>2, <2>1, <2>2, <2>3
<1> QED
  BY <1>3

LEMMA ReachedLevels ==
    ASSUME NEW links, NEW roots, NEW depth \in Nat
    PROVE  \E f : /\ f = [n \in 0..depth |-> Level(links, roots, f, n)]
                  /\ Reached(links, roots, depth) = f[depth]
<1> DEFINE Body(f) == [n \in 0..depth |->
                        IF n = 0 THEN roots
                        ELSE f[n - 1] \union {e[2] : e \in {e \in links : e[1] \in f[n - 1]}}]
<1> DEFINE g == CHOOSE f : f = Body(f)
<1>1. Reached(links, roots, depth) = g[depth]
  BY DEF Reached
<1>2. \A f : Body(f) = [n \in 0..depth |-> Level(links, roots, f, n)]
  BY DEF Level
<1>3. \E f : f = Body(f)
  <2>1. PICK f : f = [n \in 0..depth |-> Level(links, roots, f, n)]
    BY LevelsExist
  <2>2. Body(f) = [n \in 0..depth |-> Level(links, roots, f, n)]
    BY <1>2
  <2>3. f = Body(f)
    BY <2>1, <2>2
  <2> HIDE DEF Body
  <2> QED
    BY <2>3
<1>4. g = Body(g)
  <2> HIDE DEF Body
  <2> QED
    BY <1>3
<1> QED
  BY <1>1, <1>2, <1>4

\* A search never loses what an earlier level has found.
LEMMA LevelsRise ==
    ASSUME NEW links, NEW roots, NEW depth \in Nat, NEW f,
           \A n \in 0..depth : f[n] = Level(links, roots, f, n)
    PROVE  \A m, n \in 0..depth : m <= n => f[m] \subseteq f[n]
<1> DEFINE S == {n \in 0..depth : \E m \in 0..n : ~(f[m] \subseteq f[n])}
<1>1. ASSUME NEW n \in S, \A m \in S : n <= m PROVE FALSE
  <2>1. PICK m \in 0..n : ~(f[m] \subseteq f[n])
    OBVIOUS
  <2>2. n # 0 /\ m # n /\ n - 1 \in 0..depth /\ m \in 0..(n - 1) /\ n \in 0..depth
    BY <2>1
  <2>3. f[n - 1] \subseteq f[n]
    <3>1. f[n] = Level(links, roots, f, n)
      BY <2>2
    <3> QED
      BY <2>2, <3>1 DEF Level
  <2>4. f[m] \subseteq f[n - 1]
    BY <1>1, <2>2
  <2> QED
    BY <2>1, <2>3, <2>4
<1>2. S = {}
  <2>1. S \in SUBSET Nat
    OBVIOUS
  <2> HIDE DEF S
  <2> QED
    BY <1>1, <2>1, LeastNumber
<1> SUFFICES ASSUME NEW m \in 0..depth, NEW n \in 0..depth, m <= n PROVE f[m] \subseteq f[n]
  OBVIOUS
<1>3. n \notin S /\ m \in 0..n
  BY <1>2
<1> QED
  BY <1>3

\* A search of depth three finds everything within three links of its roots.
LEMMA SearchFinds ==
    \A links, roots, a, b, c, d : \A depth \in Nat :
      depth >= 3 /\ a \in roots =>
        /\ a \in Reached(links, roots, depth)
        /\ <<a, b>> \in links => b \in Reached(links, roots, depth)
        /\ <<a, b>> \in links /\ <<b, c>> \in links => c \in Reached(links, roots, depth)
        /\ <<a, b>> \in links /\ <<b, c>> \in links /\ <<c, d>> \in links =>
              d \in Reached(links, roots, depth)
<1> TAKE links, roots, a, b, c, d
<1> TAKE depth \in Nat
<1> HAVE depth >= 3 /\ a \in roots
<1>1. PICK f : /\ f = [n \in 0..depth |-> Level(links, roots, f, n)]
               /\ Reached(links, roots, depth) = f[depth]
  BY ReachedLevels
<1>2. \A n \in 0..depth : f[n] = Level(links, roots, f, n)
  BY <1>1
<1>3. \A n \in 0..3 : n \in 0..depth /\ f[n] \subseteq f[depth]
  <2>1. \A m, n \in 0..depth : m <= n => f[m] \subseteq f[n]
    BY <1>2, LevelsRise
  <2> QED
    BY <2>1
<1>4. f[0] = roots
  <2>1. f[0] = Level(links, roots, f, 0)
    BY <1>2, <1>3
  <2> QED
    BY <2>1 DEF Level
<1>5. \A n \in 1..3 : \A x, y : x \in f[n - 1] /\ <<x, y>> \in links => y \in f[n]
  <2> SUFFICES ASSUME NEW n \in 1..3, NEW x, NEW y, x \in f[n - 1], <<x, y>> \in links
               PROVE  y \in f[n]
    OBVIOUS
  <2>1. f[n] = Level(links, roots, f, n) /\ n # 0
    BY <1>2, <1>3
  <2>2. <<x, y>>[1] = x /\ <<x, y>>[2] = y
    OBVIOUS
  <2> QED
    BY <2>1, <2>2 DEF Level
<1>6. \A x, y : <<x, y>> \in links => /\ x \in f[0] => y \in f[1]
                                      /\ x \in f[1] => y \in f[2]
                                      /\ x \in f[2] => y \in f[3]
  BY <1>5
<1>7. f[0] \subseteq f[depth] /\ f[1] \subseteq f[depth] /\ f[2] \subseteq f[depth]
      /\ f[3] \subseteq f[depth]
  BY <1>3
<1> QED
  BY <1>1, <1>4, <1>6, <1>7

\* A search stays in every set that holds its roots and that no link leaves.
LEMMA SearchStays ==
    \A links, roots, set : \A depth \in Nat :
      roots \subseteq set /\ (\A e \in links : e[1] \in set => e[2] \in set) =>
        Reached(links, roots, depth) \subseteq set
<1> TAKE links, roots, set
<1> TAKE depth \in Nat
<1> HAVE roots \subseteq set /\ (\A e \in links : e[1] \in set => e[2] \in set)
<1>1. PICK f : /\ f = [n \in 0..depth |-> Level(links, roots, f, n)]
               /\ Reached(links, roots, depth) = f[depth]
  BY ReachedLevels
<1>2. \A n \in 0..depth : f[n] = Level(links, roots, f, n)
  BY <1>1
<1> DEFINE S == {n \in 0..depth : ~(f[n] \subseteq set)}
<1>3. ASSUME NEW n \in S, \A m \in S : n <= m PROVE FALSE
  <2>1. n # 0
    <3>1. f[0] = Level(links, roots, f, 0)
      BY <1>2
    <3> QED
      BY <3>1 DEF Level
  <2>2. f[n - 1] \subseteq set /\ n \in 0..depth
    BY <1>3, <2>1
  <2>3. f[n] \subseteq set
    <3>1. f[n] = Level(links, roots, f, n)
      BY <1>2, <2>2
    <3> QED
      BY <2>1, <2>2, <3>1 DEF Level
  <2> QED
    BY <2>3
<1>4. S = {}
  <2>1. S \in SUBSET Nat
    OBVIOUS
  <2> HIDE DEF S
  <2> QED
    BY <1>3, <2>1, LeastNumber
<1> QED
  BY <1>1, <1>4

----------------------------------------------------------------------------
(* Type correctness                                                        *)

StoreNames == {"index", "docs", "exact", "semantic"}
Chunks == {d.chunk : d \in Documents}
Names == {"around"} \union Questions \union Chunks \union {d.key : d \in Documents}

Threads == [at: {"idle", "adding", "putting", "deleting", "writing", "listing", "recording"},
            doc: Documents \union {Nothing}, key: SUBSET Names,
            kind: CacheKinds \union {"none"}, chunks: SUBSET Chunks]
Entries == [chunks: SUBSET Chunks, hidden: BOOLEAN]
Erasing == {"tombstoning", "suppressing", "reclaiming", "closing"}
Answering(p) == app[p].at \in {"writing", "listing", "recording"}

\* A thread knows what it is doing, a store holds entries of its own, and an erasure
\* acts on a saved trace, whose artifacts are nodes.
ThreadsOK ==
    /\ app \in [Apps -> Threads]
    /\ \A p \in Apps : app[p].at \in {"adding", "putting"} => app[p].doc \in captured
    /\ \A p \in Apps : Answering(p) => app[p].kind \in CacheKinds
StoresOK == \A e \in DOMAIN held : e \in StoreNames \X SUBSET Names /\ held[e] \in Entries
OperatorOK ==
    /\ run \in [at: {"idle", "tracing"} \union Erasing, subject: Subjects \union {Nothing},
                gaps: SUBSET StoreNames, trace: traces \union {Nothing}]
    /\ run.at = "tracing" => run.subject \in Subjects
    /\ run.at \in Erasing => run.trace \in traces
    /\ \A t \in traces : t.artifacts \subseteq Nodes /\ t.subject \in Subjects
TypeInv == TypeOK /\ ThreadsOK /\ StoresOK /\ OperatorOK

LEMMA IdleThread == Idle \in Threads /\ Idle.at = "idle"
BY DEF Idle, Threads

\* A thread goes on and nobody else does.
LEMMA ThreadMoves ==
    ASSUME ThreadsOK, NEW p \in Apps, NEW a \in Threads, app' = [app EXCEPT ![p] = a],
           captured \subseteq captured',
           a.at \in {"adding", "putting"} => a.doc \in captured',
           a.at \in {"writing", "listing", "recording"} => a.kind \in CacheKinds
    PROVE  /\ ThreadsOK'
           /\ app'[p] = a
           /\ \A q \in Apps \ {p} : app'[q] = app[q]
BY DEF ThreadsOK, Answering

\* An entry is written, over another one or not.
LEMMA WritingOK ==
    ASSUME StoresOK, NEW place \in StoreNames \X SUBSET Names, NEW chunks \in SUBSET Chunks,
           Writing(place, chunks)
    PROVE  /\ StoresOK'
           /\ DOMAIN held' = DOMAIN held \union {place}
           /\ held'[place].chunks = chunks
           /\ \A e \in DOMAIN held \ {place} : held'[e] = held[e]
           /\ \A e \in DOMAIN held' : held'[e].hidden \in BOOLEAN
BY DEF StoresOK, Writing, Entry, Entries

\* Entries are removed or hidden.
LEMMA RemovingOK ==
    ASSUME StoresOK, NEW gone, NEW hide,
           \/ held' = [e \in DOMAIN held \ gone |-> held[e]]
           \/ held' = [e \in DOMAIN held \ gone |->
                         IF e \in hide THEN [held[e] EXCEPT !.hidden = TRUE] ELSE held[e]]
    PROVE  /\ StoresOK'
           /\ DOMAIN held' = DOMAIN held \ gone
           /\ \A e \in DOMAIN held' : held'[e].chunks = held[e].chunks
           /\ \A e \in DOMAIN held' : held'[e].hidden \in BOOLEAN
<1>1. DOMAIN held' = DOMAIN held \ gone
  OBVIOUS
<1>2. ASSUME NEW e \in DOMAIN held'
      PROVE  held'[e] \in Entries /\ held'[e].chunks = held[e].chunks
  <2>1. e \in DOMAIN held /\ held[e] \in Entries
    BY <1>1, <1>2 DEF StoresOK
  <2>2. held'[e] = held[e] \/ held'[e] = [held[e] EXCEPT !.hidden = TRUE]
    BY <1>1, <1>2
  <2> QED
    BY <2>1, <2>2 DEF Entries
<1>3. \A e \in DOMAIN held' : held'[e].hidden \in BOOLEAN
  BY <1>2 DEF Entries
<1> QED
  BY <1>1, <1>2, <1>3 DEF StoresOK

\* The graph grows.
LEMMA WithFacts ==
    ASSUME NEW new, owner' = With(new)
    PROVE  /\ DOMAIN owner' = Nodes \union DOMAIN new
           /\ \A id \in Nodes : owner'[id] = owner[id]
           /\ \A id \in DOMAIN new \ Nodes : owner'[id] = new[id]
BY DEF With, Nodes

LEMMA CaptureTypes ==
    ASSUME TypeInv, NEW p \in Apps, NEW d \in Documents, Capture(p, d)
    PROVE  TypeInv'
<1> DEFINE new == [id \in {SourceId(d.source), ChunkId(d.chunk), EmbedId({d.key})} |->
                     IF id = EmbedId({d.key}) /\ ChunkId(d.chunk) \in Nodes
                     THEN owner[ChunkId(d.chunk)] ELSE d.subject]
<1>1. /\ Nodes' = Nodes \union {SourceId(d.source), ChunkId(d.chunk), EmbedId({d.key})}
      /\ \A id \in Nodes : owner'[id] = owner[id]
      /\ \A id \in DOMAIN new \ Nodes : owner'[id] = new[id]
  <2>1. owner' = With(new)
    BY DEF Capture
  <2> QED
    BY <2>1, WithFacts DEF Nodes
<1>2. \A id \in DOMAIN new : new[id] \in Subjects
  BY DEF TypeInv, TypeOK, Subjects
<1>3. \A e \in edges' : e[2] \in Nodes'
  <2>1. \A e \in NewEdges(d) : e[2] \in Nodes'
    BY <1>1 DEF NewEdges
  <2> QED
    BY <1>1, <2>1 DEF Capture, TypeInv, TypeOK
<1>4. ThreadsOK'
  <2> DEFINE a == [Idle EXCEPT !.at = "adding", !.doc = d]
  <2>1. a \in Threads /\ a.at = "adding" /\ a.doc = d
    BY DEF Idle, Threads
  <2>2. app' = [app EXCEPT ![p] = a] /\ captured' = captured \union {d}
    BY DEF Capture
  <2> HIDE DEF a
  <2> QED
    BY <2>1, <2>2, ThreadMoves DEF TypeInv
<1>5. StoresOK'
  BY DEF Capture, storeVars, TypeInv, StoresOK
<1>6. OperatorOK'
  BY <1>1 DEF Capture, operatorVars, TypeInv, OperatorOK
<1>7. TypeOK'
  <2>1. \A id \in Nodes' : owner'[id] \in Subjects
    BY <1>1, <1>2 DEF TypeInv, TypeOK
  <2> QED
    BY <1>1, <1>3, <2>1 DEF Capture, operatorVars, storeVars, bounds, TypeInv, TypeOK
<1> QED
  BY <1>4, <1>5, <1>6, <1>7 DEF TypeInv

\* A thread that writes an entry and goes on.
LEMMA WriterTypes ==
    ASSUME TypeInv, NEW p \in Apps, Add(p) \/ Put(p) \/ WriteAnswer(p)
    PROVE  TypeInv'
<1>1. app[p] \in Threads /\ app[p].doc \in Documents \union {Nothing}
  BY DEF TypeInv, ThreadsOK, Threads
<1>2. UNCHANGED <<graphVars, tombstones, side, captured, asked, operatorVars, bounds>>
  BY DEF Add, Put, WriteAnswer
<1>3. ASSUME NEW a \in Threads, app' = [app EXCEPT ![p] = a],
             a.at \in {"adding", "putting"} => a.doc \in captured,
             a.at \in {"writing", "listing", "recording"} => a.kind \in CacheKinds,
             NEW place \in StoreNames \X SUBSET Names, NEW chunks \in SUBSET Chunks,
             Writing(place, chunks)
      PROVE  TypeInv'
  <2>1. ThreadsOK'
    BY <1>2, <1>3, ThreadMoves DEF TypeInv
  <2>2. StoresOK' /\ (\A e \in DOMAIN held' : held'[e].hidden \in BOOLEAN)
    BY <1>3, WritingOK DEF TypeInv
  <2>3. TypeOK'
    BY <1>2, <2>2 DEF TypeInv, TypeOK, graphVars, operatorVars, bounds, Nodes
  <2>4. OperatorOK'
    BY <1>2 DEF TypeInv, OperatorOK, graphVars, operatorVars, Nodes
  <2> QED
    BY <2>1, <2>2, <2>3, <2>4 DEF TypeInv
<1>4. CASE Add(p)
  <2> DEFINE a == [app[p] EXCEPT !.at = "putting"]
  <2>1. a \in Threads /\ a.at = "putting" /\ a.doc \in captured /\ a.doc = app[p].doc
    BY <1>1, <1>4 DEF Add, Threads, TypeInv, ThreadsOK
  <2>2. app' = [app EXCEPT ![p] = a]
    BY <1>4 DEF Add
  <2>3. captured \subseteq Documents
    BY DEF TypeInv, TypeOK
  <2>4. /\ <<"index", {app[p].doc.key}>> \in StoreNames \X SUBSET Names
        /\ {app[p].doc.chunk} \in SUBSET Chunks
    BY <2>1, <2>3 DEF StoreNames, Names, Chunks
  <2>5. Writing(<<"index", {app[p].doc.key}>>, {app[p].doc.chunk})
    BY <1>4 DEF Add
  <2> HIDE DEF a
  <2> QED
    BY <1>3, <2>1, <2>2, <2>4, <2>5
<1>5. CASE Put(p)
  <2>1. app[p].doc \in captured /\ captured \subseteq Documents
    BY <1>5 DEF Put, TypeInv, TypeOK, ThreadsOK
  <2>2. /\ <<"docs", {app[p].doc.chunk}>> \in StoreNames \X SUBSET Names
        /\ {app[p].doc.chunk} \in SUBSET Chunks
    BY <2>1 DEF StoreNames, Names, Chunks
  <2> QED
    BY <1>3, <1>5, <2>2, IdleThread DEF Put
<1>6. CASE WriteAnswer(p)
  <2> PICK a : a = IF app[p].kind = "exact" THEN [app[p] EXCEPT !.at = "listing"] ELSE Idle
    OBVIOUS
  <2>1. app[p].kind \in CacheKinds
    BY <1>6 DEF WriteAnswer, TypeInv, ThreadsOK, Answering
  <2>2. /\ a \in Threads /\ a.at \notin {"adding", "putting"}
        /\ a.at \in {"writing", "listing", "recording"} => a.kind \in CacheKinds
    BY <1>1, <2>1, IdleThread DEF Threads
  <2>3. /\ <<app[p].kind, app[p].key>> \in StoreNames \X SUBSET Names
        /\ app[p].chunks \in SUBSET Chunks
    BY <1>1, <2>1, CachesAssumption DEF Threads, StoreNames
  <2> QED
    BY <1>3, <1>6, <2>2, <2>3 DEF WriteAnswer
<1> QED
  BY <1>4, <1>5, <1>6

\* The other moves of a thread.
LEMMA MoverTypes ==
    ASSUME TypeInv, NEW p \in Apps,
           \/ \E e \in DOMAIN held : e[1] = "index" /\ Delete(p, e[2])
           \/ RecordDelete(p)
           \/ ListKey(p)
           \/ \E q \in Questions, kind \in CacheKinds :
                \E hits \in (SUBSET Visible) \ {{}} : Ask(p, q, hits, kind)
    PROVE  TypeInv'
<1>1. app[p] \in Threads
  BY DEF TypeInv, ThreadsOK
<1>2. UNCHANGED <<graphVars, captured, operatorVars, bounds>>
  BY DEF Delete, RecordDelete, ListKey, Ask
<1>3. ASSUME NEW a \in Threads, app' = [app EXCEPT ![p] = a],
             a.at \notin {"adding", "putting"},
             a.at \in {"writing", "listing", "recording"} => a.kind \in CacheKinds,
             tombstones' \subseteq Nodes, asked' \subseteq Questions, StoresOK'
      PROVE  TypeInv'
  <2>1. ThreadsOK'
    BY <1>2, <1>3, ThreadMoves DEF TypeInv
  <2>2. TypeOK'
    BY <1>2, <1>3 DEF TypeInv, TypeOK, graphVars, operatorVars, bounds, Nodes, StoresOK, Entries
  <2>3. OperatorOK'
    BY <1>2 DEF TypeInv, OperatorOK, graphVars, operatorVars, Nodes
  <2> QED
    BY <1>3, <2>1, <2>2, <2>3 DEF TypeInv
<1>4. ASSUME NEW e \in DOMAIN held, e[1] = "index", Delete(p, e[2]) PROVE TypeInv'
  <2> DEFINE a == [Idle EXCEPT !.at = "deleting", !.key = e[2]]
  <2>1. e[2] \in SUBSET Names
    BY DEF TypeInv, StoresOK
  <2>2. a \in Threads /\ a.at = "deleting"
    BY <2>1 DEF Idle, Threads
  <2>3. app' = [app EXCEPT ![p] = a]
    BY <1>4 DEF Delete
  <2>4. StoresOK'
    BY <1>4 DEF Delete, TypeInv, StoresOK
  <2>5. tombstones' \subseteq Nodes /\ asked' \subseteq Questions
    BY <1>4 DEF Delete, TypeInv, TypeOK
  <2> HIDE DEF a
  <2> QED
    BY <1>3, <2>2, <2>3, <2>4, <2>5
<1>5. CASE RecordDelete(p)
  <2>1. tombstones' \subseteq Nodes /\ asked' \subseteq Questions /\ StoresOK'
    BY <1>5 DEF RecordDelete, TypeInv, TypeOK, StoresOK, storeVars
  <2> QED
    BY <1>3, <1>5, <2>1, IdleThread DEF RecordDelete
<1>6. CASE ListKey(p)
  <2> DEFINE a == [app[p] EXCEPT !.at = "recording"]
  <2>1. a \in Threads /\ a.at = "recording" /\ a.kind \in CacheKinds
    BY <1>1, <1>6 DEF ListKey, Threads, TypeInv, ThreadsOK, Answering
  <2>2. app' = [app EXCEPT ![p] = a]
    BY <1>6 DEF ListKey
  <2>3. tombstones' \subseteq Nodes /\ asked' \subseteq Questions /\ StoresOK'
    BY <1>6 DEF ListKey, TypeInv, TypeOK, StoresOK
  <2> HIDE DEF a
  <2> QED
    BY <1>3, <2>1, <2>2, <2>3
<1>7. ASSUME NEW q \in Questions, NEW kind \in CacheKinds, NEW hits \in SUBSET Visible,
             Ask(p, q, hits, kind)
      PROVE  TypeInv'
  <2> DEFINE chunks == UNION {held[e].chunks : e \in hits}
  <2> DEFINE a == [at |-> IF kind = "exact" THEN "writing" ELSE "recording",
                   doc |-> Nothing, kind |-> kind, chunks |-> chunks,
                   key |-> {q} \union IF kind = "exact" THEN chunks ELSE {}]
  <2>1. chunks \subseteq Chunks
    BY DEF TypeInv, StoresOK, Entries, Visible
  <2>2. app' = [app EXCEPT ![p] = a]
    BY <1>7 DEF Ask
  <2> HIDE DEF chunks
  <2>3. a \in Threads
    BY <2>1 DEF Threads, Names
  <2>4. a.at \in {"writing", "recording"} /\ a.kind = kind
    OBVIOUS
  <2>5. tombstones' \subseteq Nodes /\ asked' \subseteq Questions /\ StoresOK'
    BY <1>7 DEF Ask, TypeInv, TypeOK, StoresOK, storeVars
  <2> HIDE DEF a
  <2> QED
    BY <1>3, <2>2, <2>3, <2>4, <2>5
<1> QED
  BY <1>4, <1>5, <1>6, <1>7

LEMMA RecordCacheTypes ==
    ASSUME TypeInv, NEW p \in Apps, RecordCache(p)
    PROVE  TypeInv'
<1> DEFINE parents == {ChunkId(c) : c \in app[p].chunks} \intersect Nodes
<1> DEFINE idOf(n) == CacheId(app[p].kind, app[p].key, owner[n])
<1> DEFINE new == [id \in {idOf(n) : n \in parents} |-> id[3]]
<1>1. app[p] \in Threads
  BY DEF TypeInv, ThreadsOK
<1>2. /\ owner' = With(new)
      /\ edges' = edges \union {<<n, idOf(n)>> : n \in {n \in parents : idOf(n) \notin Nodes}}
      /\ UNCHANGED <<tombstones, storeVars, captured, asked, operatorVars, bounds>>
  BY DEF RecordCache
<1>3. /\ Nodes' = Nodes \union {idOf(n) : n \in parents}
      /\ \A id \in Nodes : owner'[id] = owner[id]
      /\ \A id \in {idOf(n) : n \in parents} \ Nodes : owner'[id] = id[3]
  <2> PICK fresh : fresh = {idOf(n) : n \in parents}
    OBVIOUS
  <2> PICK f : f = [id \in fresh |-> id[3]]
    OBVIOUS
  <2>1. owner' = With(f)
    BY <1>2
  <2> HIDE DEF parents, idOf, new
  <2>2. DOMAIN f = fresh /\ \A id \in fresh : f[id] = id[3]
    OBVIOUS
  <2> QED
    BY ZenonT(30), <2>1, <2>2, WithFacts DEF Nodes
<1>4. \A id \in {idOf(n) : n \in parents} : id[3] \in Subjects
  BY DEF TypeInv, TypeOK, CacheId
<1>5. \A e \in edges' : e[2] \in Nodes'
  BY <1>2, <1>3 DEF TypeInv, TypeOK
<1>6. ThreadsOK'
  <2> PICK a : a = IF app[p].kind = "exact" THEN Idle ELSE [app[p] EXCEPT !.at = "writing"]
    OBVIOUS
  <2>1. app[p].kind \in CacheKinds
    BY DEF RecordCache, TypeInv, ThreadsOK, Answering
  <2>2. /\ a \in Threads /\ a.at \notin {"adding", "putting"}
        /\ a.at \in {"writing", "listing", "recording"} => a.kind \in CacheKinds
    BY <1>1, <2>1, IdleThread DEF Threads
  <2>3. app' = [app EXCEPT ![p] = a] /\ captured' = captured
    BY DEF RecordCache
  <2> QED
    BY <2>2, <2>3, ThreadMoves DEF TypeInv
<1>7. StoresOK'
  BY <1>2 DEF TypeInv, StoresOK, storeVars
<1>8. OperatorOK'
  BY <1>2, <1>3 DEF TypeInv, OperatorOK, operatorVars
<1>9. TypeOK'
  <2>1. \A id \in Nodes' : owner'[id] \in Subjects
    BY <1>3, <1>4 DEF TypeInv, TypeOK
  <2> QED
    BY <1>2, <1>3, <1>5, <2>1 DEF TypeInv, TypeOK, storeVars, operatorVars, bounds
<1> QED
  BY <1>6, <1>7, <1>8, <1>9 DEF TypeInv

\* What is reached and recorded is recorded.
LEMMA ArtifactsAreNodes == \A s : Artifacts(s) \subseteq Nodes
BY DEF Artifacts

LEMMA TraceTypes ==
    ASSUME TypeInv, (\E s \in Subjects : SampleStores(s)) \/ SaveTrace
    PROVE  TypeInv'
<1>1. UNCHANGED <<graphVars, tombstones, storeVars, appVars, closed, bounds>>
  BY DEF SampleStores, SaveTrace
<1>2. ThreadsOK' /\ StoresOK'
  BY <1>1 DEF TypeInv, ThreadsOK, StoresOK, Answering, storeVars, appVars
<1>3. ASSUME NEW s \in Subjects, SampleStores(s) PROVE OperatorOK' /\ TypeOK'
  <2>1. Gaps \in SUBSET StoreNames
    BY DEF Gaps, StoreNames
  <2>2. /\ run'.at = "tracing" /\ run'.subject = s /\ traces' = traces
        /\ run' \in [at: {"idle", "tracing"} \union Erasing, subject: Subjects \union {Nothing},
                     gaps: SUBSET StoreNames, trace: traces \union {Nothing}]
    BY <1>3, <2>1 DEF SampleStores, Resting
  <2>3. OperatorOK'
    BY <1>1, <2>2 DEF TypeInv, OperatorOK, graphVars, Nodes, Erasing
  <2> QED
    BY <1>1, <2>2, <2>3 DEF TypeInv, TypeOK, graphVars, storeVars, appVars, bounds, Nodes
<1>4. CASE SaveTrace
  <2>1. ASSUME NEW t \in traces' PROVE t.artifacts \subseteq Nodes' /\ t.subject \in Subjects
    <3>1. Nodes' = Nodes
      BY <1>1 DEF graphVars, Nodes
    <3>2. t \in traces \/ t = Trace(run.subject, run.gaps)
      BY <1>4 DEF SaveTrace
    <3>3. run.subject \in Subjects
      BY <1>4 DEF SaveTrace, TypeInv, OperatorOK
    <3>4. Artifacts(run.subject) \subseteq Nodes
      BY ArtifactsAreNodes
    <3> QED
      BY <3>1, <3>2, <3>3, <3>4 DEF Trace, TypeInv, OperatorOK
  <2>2. /\ run'.at = "idle"
        /\ run' \in [at: {"idle", "tracing"} \union Erasing, subject: Subjects \union {Nothing},
                     gaps: SUBSET StoreNames, trace: traces' \union {Nothing}]
    BY <1>4 DEF SaveTrace, Resting
  <2>3. OperatorOK'
    BY <1>1, <2>1, <2>2 DEF OperatorOK, graphVars, Nodes, Erasing
  <2>4. TypeOK'
    <3>1. run'.at = "idle" /\ TypeOK
      BY <2>2 DEF TypeInv
    <3> QED
      BY <1>1, <3>1 DEF TypeOK, graphVars, storeVars, appVars, bounds, Nodes
  <2> QED
    BY <1>2, <2>3, <2>4 DEF TypeInv
<1> QED
  BY <1>2, <1>3, <1>4 DEF TypeInv

LEMMA EraseTypes ==
    ASSUME TypeInv,
           \/ \E t \in traces, acceptGaps \in BOOLEAN : Preflight(t, acceptGaps)
           \/ Tombstone \/ Suppress \/ Reclaim \/ Close
    PROVE  TypeInv'
<1>1. UNCHANGED <<graphVars, appVars, traces, bounds>>
  BY DEF Preflight, Tombstone, Suppress, Reclaim, Close
<1>2. ThreadsOK'
  BY <1>1 DEF TypeInv, ThreadsOK, Answering, appVars
<1>3. ASSUME NEW a \in {"idle"} \union Erasing, run'.at = a,
             run' \in [at: {"idle", "tracing"} \union Erasing, subject: Subjects \union {Nothing},
                       gaps: SUBSET StoreNames, trace: traces \union {Nothing}],
             a # "idle" => run'.trace \in traces,
             tombstones' \subseteq Nodes, StoresOK'
      PROVE  TypeInv'
  <2>1. OperatorOK'
    BY <1>1, <1>3 DEF TypeInv, OperatorOK, graphVars, Nodes, Erasing
  <2>2. TypeOK'
    BY <1>1, <1>3 DEF TypeInv, TypeOK, graphVars, appVars, bounds, Nodes, Erasing, StoresOK, Entries
  <2> QED
    BY <1>2, <1>3, <2>1, <2>2 DEF TypeInv
<1>4. ASSUME NEW t \in traces, NEW acceptGaps \in BOOLEAN, Preflight(t, acceptGaps)
      PROVE  TypeInv'
  <2>1. t.subject \in Subjects
    BY DEF TypeInv, OperatorOK
  <2>2. /\ run'.at = "tombstoning" /\ run'.trace = t
        /\ run' \in [at: {"idle", "tracing"} \union Erasing, subject: Subjects \union {Nothing},
                     gaps: SUBSET StoreNames, trace: traces \union {Nothing}]
    BY <1>4, <2>1 DEF Preflight, Resting, Erasing
  <2>3. tombstones' \subseteq Nodes /\ StoresOK'
    BY <1>4 DEF Preflight, TypeInv, TypeOK, StoresOK, storeVars
  <2> QED
    BY <1>3, <2>2, <2>3 DEF Erasing
<1>5. ASSUME NEW a \in Erasing, run.at \in Erasing, run' = [run EXCEPT !.at = a],
             tombstones' \subseteq Nodes, StoresOK'
      PROVE  TypeInv'
  <2>1. /\ run'.at = a /\ run'.trace \in traces
        /\ run' \in [at: {"idle", "tracing"} \union Erasing, subject: Subjects \union {Nothing},
                     gaps: SUBSET StoreNames, trace: traces \union {Nothing}]
    BY <1>5 DEF TypeInv, OperatorOK
  <2> QED
    BY <1>3, <1>5, <2>1
<1>6. CASE Tombstone
  <2>1. tombstones' \subseteq Nodes
    BY <1>6 DEF Tombstone, TypeInv, TypeOK, OperatorOK, Erasing
  <2>2. StoresOK'
    BY <1>6 DEF Tombstone, TypeInv, StoresOK, storeVars
  <2> QED
    BY <1>5, <1>6, <2>1, <2>2 DEF Tombstone, Erasing
<1>7. CASE Suppress
  <2>1. StoresOK'
    <3> PICK gone, hide : gone = Deleted /\ hide = Targets
      OBVIOUS
    <3> QED
      BY <1>7, RemovingOK DEF Suppress, TypeInv
  <2> QED
    BY <1>5, <1>7, <2>1 DEF Suppress, Erasing, TypeInv, TypeOK
<1>8. CASE Reclaim
  <2>1. StoresOK'
    <3> PICK gone : gone = Deleted \union {e \in Targets : e[1] \in {"index", "docs"}}
      OBVIOUS
    <3> QED
      BY <1>8, RemovingOK DEF Reclaim, Without, TypeInv
  <2> QED
    BY <1>5, <1>8, <2>1 DEF Reclaim, Erasing, TypeInv, TypeOK
<1>9. CASE Close
  <2>1. /\ run'.at = "idle"
        /\ run' \in [at: {"idle", "tracing"} \union Erasing, subject: Subjects \union {Nothing},
                     gaps: SUBSET StoreNames, trace: traces \union {Nothing}]
    BY <1>9 DEF Close, Resting
  <2>2. tombstones' \subseteq Nodes /\ StoresOK'
    BY <1>9 DEF Close, TypeInv, TypeOK, StoresOK, storeVars
  <2> QED
    BY <1>3, <2>1, <2>2
<1> QED
  BY <1>4, <1>6, <1>7, <1>8, <1>9

LEMMA FaultTypes ==
    ASSUME TypeInv, WriteAround \/ Kill
    PROVE  TypeInv'
<1>1. UNCHANGED <<graphVars, tombstones, captured, asked, traces, closed>>
  BY DEF WriteAround, Kill, appVars, operatorVars
<1>2. kills' \in 0..MaxFaults /\ arounds' \in 0..MaxFaults
  BY BoundsAssumption DEF WriteAround, Kill, TypeInv, TypeOK
<1>3. StoresOK' /\ (\A e \in DOMAIN held' : held'[e].hidden \in BOOLEAN)
  <2>1. CASE WriteAround
    <3>1. <<"index", {"around"}>> \in StoreNames \X SUBSET Names /\ {} \in SUBSET Chunks
      BY DEF StoreNames, Names
    <3> QED
      BY <2>1, <3>1, WritingOK DEF WriteAround, TypeInv
  <2>2. CASE Kill
    BY <2>2 DEF Kill, TypeInv, TypeOK, StoresOK, storeVars
  <2> QED
    BY <2>1, <2>2
<1>4. ThreadsOK'
  <2>1. CASE app' = app
    BY <1>1, <2>1 DEF TypeInv, ThreadsOK, Answering
  <2>2. ASSUME NEW p \in Apps, app' = [app EXCEPT ![p] = Idle] PROVE ThreadsOK'
    BY <1>1, <2>2, ThreadMoves, IdleThread DEF TypeInv
  <2> QED
    BY <2>1, <2>2 DEF WriteAround, Kill, appVars
<1>5. OperatorOK' /\ run'.at \in {"idle", "tracing"} \union Erasing
  <2>1. CASE run' = run
    BY <1>1, <2>1 DEF TypeInv, OperatorOK, graphVars, Nodes
  <2>2. CASE run' = Resting
    BY <1>1, <2>2 DEF TypeInv, OperatorOK, graphVars, Nodes, Resting, Erasing
  <2> QED
    BY <2>1, <2>2 DEF WriteAround, Kill, operatorVars
<1>6. TypeOK'
  BY <1>1, <1>2, <1>3, <1>5 DEF TypeInv, TypeOK, graphVars, Nodes, Erasing
<1> QED
  BY <1>3, <1>4, <1>5, <1>6 DEF TypeInv

LEMMA InitTypes == Init => TypeInv
<1> SUFFICES ASSUME Init PROVE TypeInv
  OBVIOUS
<1>1. Nodes = {} /\ DOMAIN held = {}
  BY DEF Init, Nodes
<1>2. TypeOK
  BY <1>1, BoundsAssumption DEF Init, TypeOK, Resting
<1>3. ThreadsOK
  BY IdleThread DEF Init, ThreadsOK, Answering
<1>4. StoresOK
  BY <1>1 DEF StoresOK
<1>5. OperatorOK
  BY DEF Init, OperatorOK, Resting, Erasing
<1> QED
  BY <1>2, <1>3, <1>4, <1>5 DEF TypeInv

LEMMA NextTypes == TypeInv /\ [Next]_vars => TypeInv'
<1> SUFFICES ASSUME TypeInv, [Next]_vars PROVE TypeInv'
  OBVIOUS
<1>1. ASSUME NEW p \in Apps, Application(p) PROVE TypeInv'
  BY <1>1, CaptureTypes, WriterTypes, MoverTypes, RecordCacheTypes DEF Application
<1>2. CASE Operator
  BY <1>2, TraceTypes, EraseTypes DEF Operator
<1>3. CASE WriteAround \/ Kill
  BY <1>3, FaultTypes
<1>4. CASE UNCHANGED vars
  <2> USE <1>4 DEF vars, graphVars, storeVars, appVars, operatorVars, bounds
  <2>1. TypeOK'
    BY DEF TypeInv, TypeOK, Nodes
  <2>2. ThreadsOK'
    BY DEF TypeInv, ThreadsOK, Answering
  <2>3. StoresOK'
    BY DEF TypeInv, StoresOK
  <2>4. OperatorOK'
    BY DEF TypeInv, OperatorOK, Nodes
  <2> QED
    BY <2>1, <2>2, <2>3, <2>4 DEF TypeInv
<1> QED
  BY <1>1, <1>2, <1>3, <1>4 DEF Next

\* The graph, the stores and every thread stay well-formed, for any number of threads,
\* documents and faults, whether documents and questions are repeated or not.
THEOREM TypeCorrect == Spec => []TypeOK
<1>1. TypeInv => TypeOK
  BY DEF TypeInv
<1> QED
  BY <1>1, InitTypes, NextTypes, PTL DEF Spec

----------------------------------------------------------------------------
(* The inductive invariant                                                 *)

Texts == {d.chunk : d \in captured}

\* The lineage of a captured document.
Linked(d) ==
    /\ {SourceId(d.source), ChunkId(d.chunk), EmbedId({d.key})} \subseteq Nodes
    /\ owner[SourceId(d.source)] = d.subject
    /\ <<SourceId(d.source), ChunkId(d.chunk)>> \in edges
    /\ <<ChunkId(d.chunk), EmbedId({d.key})>> \in edges
    /\ d.from # Nothing => <<SourceId(d.from), SourceId(d.source)>> \in edges

\* What a node stands for, and a link: a captured document's, or a cached answer's.
DocNode(id) ==
    \E d \in captured : id \in {SourceId(d.source), ChunkId(d.chunk), EmbedId({d.key})}
CacheNode(id) ==
    /\ id = CacheId(id[1], id[2], id[3]) /\ id[1] \in CacheKinds
    /\ id[2] \intersect Questions \subseteq asked
    /\ \E c \in Texts : <<ChunkId(c), id>> \in edges
DocLink(e) ==
    \E d \in captured :
       \/ e = <<SourceId(d.source), ChunkId(d.chunk)>>
       \/ e = <<ChunkId(d.chunk), EmbedId({d.key})>>
       \/ d.from # Nothing /\ e = <<SourceId(d.from), SourceId(d.source)>>
CacheLink(e) == \E c \in Texts : e = <<ChunkId(c), e[2]>> /\ CacheNode(e[2])

GraphInv ==
    /\ IsFiniteSet(Nodes)
    /\ \A d \in captured : Linked(d)
    /\ \A id \in Nodes : DocNode(id) \/ CacheNode(id)
    /\ \A e \in edges : DocLink(e) \/ CacheLink(e)

\* The links of a cached answer are those of the chunks it quotes, all of them, ...
Traced(place, chunks) ==
    \A c \in chunks : \E id \in Nodes : PlaceOf(id) = place /\ <<ChunkId(c), id>> \in edges
\* ... and no others; and an answer without any is made of an unknown entry.
Quoting(place, chunks) ==
    /\ place[2] \intersect Questions \subseteq asked
    /\ chunks \subseteq Texts
    /\ chunks = {} => arounds # 0
    /\ \A e \in edges : PlaceOf(e[2]) = place => \E c \in chunks : e[1] = ChunkId(c)
Unknown(place) == \A id \in Nodes : PlaceOf(id) # place

Place(p) == <<app[p].kind, app[p].key>>

\* The answer that a thread is caching: nothing of it is known but in a semantic cache,
\* where its lineage comes first.
Answers(p) ==
    Answering(p) =>
      /\ Quoting(Place(p), app[p].chunks)
      /\ IF app[p].kind = "semantic" /\ app[p].at = "writing"
         THEN Traced(Place(p), app[p].chunks) ELSE Unknown(Place(p))
      /\ Place(p) \in DOMAIN held => held[Place(p)].chunks = app[p].chunks
      /\ app[p].at = "listing" => app[p].kind = "exact"
Apart ==
    \A p, q \in Apps : p # q /\ Answering(p) /\ Answering(q) => app[p].key # app[q].key

\* What an entry is: written around the wrapper, a captured document's, or an answer.
Holds(place, chunks) ==
    \/ place = <<"index", {"around"}>> /\ chunks = {} /\ arounds # 0
    \/ \E d \in captured : /\ place \in {<<"index", {d.key}>>, <<"docs", {d.chunk}>>}
                           /\ chunks = {d.chunk}
    \/ /\ place[1] \in CacheKinds
       /\ Quoting(place, chunks)
       /\ Traced(place, chunks) \/ (place[1] = "exact" /\ Unknown(place))
StoreInv == \A place \in DOMAIN held : Holds(place, held[place].chunks)

\* What is reached from a subject's sources concerns the subject.
Touches(id, s) ==
    \/ \E d \in captured :
          /\ id = SourceId(d.source)
          /\ d.subject = s \/ \E e \in captured : e.source = d.from /\ e.subject = s
    \/ \E c \in Texts : s \in Concerned(c) /\ id = ChunkId(c)
    \/ \E c \in Texts : s \in Concerned(c) /\ <<ChunkId(c), id>> \in edges

\* The gaps a trace may report.
Honest(gaps) ==
    /\ "docs" \notin gaps
    /\ gaps \intersect {"index", "semantic"} # {} => arounds # 0
TracesOK ==
    /\ \A t \in traces : /\ Honest(t.gaps) /\ "orphan" \notin t.gaps
                         /\ \A id \in t.artifacts : Touches(id, t.subject)
    /\ run.at = "tracing" => Honest(run.gaps)

\* Nothing of a verified erasure is in a store or about to be written, but for what was
\* about to be written then and what was captured since.
Places(t) == {PlaceOf(id) : id \in t.artifacts}
Gone(c) ==
    /\ c.trace \in traces
    /\ c.known \subseteq captured
    /\ c.verified => (DOMAIN held \union Pending) \intersect Places(c.trace)
                       \subseteq c.pending \union WrittenSince(c)

IndInv ==
    /\ TypeInv
    /\ GraphInv
    /\ \A p \in Apps : Answers(p)
    /\ Apart
    /\ StoreInv
    /\ TracesOK
    /\ \A c \in closed : Gone(c)

----------------------------------------------------------------------------
(* What a step leaves alone                                                *)

\* The graph, the captured documents and the questions only grow.
Grown ==
    /\ Nodes \subseteq Nodes' /\ \A id \in Nodes : owner'[id] = owner[id]
    /\ edges \subseteq edges' /\ captured \subseteq captured' /\ asked \subseteq asked'
    /\ traces \subseteq traces' /\ (arounds # 0 => arounds' # 0)

\* The step adds nothing to the lineage of what is in this place.
Calm(place) ==
    /\ \A id \in Nodes' \ Nodes : PlaceOf(id) # place
    /\ \A e \in edges' \ edges : PlaceOf(e[2]) # place

LEMMA QuotingKept ==
    ASSUME Grown, NEW place, NEW chunks, Quoting(place, chunks), Calm(place)
    PROVE  Quoting(place, chunks)'
BY DEF Grown, Quoting, Calm, Texts

LEMMA TracedKept ==
    ASSUME Grown, NEW place, NEW chunks, Traced(place, chunks)
    PROVE  Traced(place, chunks)'
BY DEF Grown, Traced

LEMMA UnknownKept ==
    ASSUME NEW place, Unknown(place), Calm(place)
    PROVE  Unknown(place)'
BY DEF Unknown, Calm

LEMMA HoldsKept ==
    ASSUME Grown, NEW place, NEW chunks, Holds(place, chunks),
           place[1] \in CacheKinds => Calm(place)
    PROVE  Holds(place, chunks)'
<1>1. CASE place = <<"index", {"around"}>> /\ chunks = {} /\ arounds # 0
  BY <1>1 DEF Grown, Holds
<1>2. ASSUME NEW d \in captured, place \in {<<"index", {d.key}>>, <<"docs", {d.chunk}>>},
             chunks = {d.chunk}
      PROVE  Holds(place, chunks)'
  BY <1>2 DEF Grown, Holds
<1>3. CASE /\ place[1] \in CacheKinds /\ Quoting(place, chunks)
           /\ Traced(place, chunks) \/ (place[1] = "exact" /\ Unknown(place))
  <2>1. Quoting(place, chunks)'
    BY <1>3, QuotingKept
  <2>2. Traced(place, chunks)' \/ (place[1] = "exact" /\ Unknown(place)')
    BY <1>3, TracedKept, UnknownKept
  <2> QED
    BY <1>3, <2>1, <2>2 DEF Holds
<1> QED
  BY <1>1, <1>2, <1>3 DEF Holds

\* A thread that another one's step does not concern.
LEMMA AnswersKept ==
    ASSUME Grown, NEW q \in Apps, Answers(q), app'[q] = app[q],
           Answering(q) => Calm(Place(q)),
           Answering(q) /\ Place(q) \in DOMAIN held' =>
              Place(q) \in DOMAIN held /\ held'[Place(q)].chunks = held[Place(q)].chunks
    PROVE  Answers(q)'
<1> SUFFICES ASSUME Answering(q)' PROVE Answers(q)'
  BY DEF Answers
<1>1. Answering(q) /\ Place(q)' = Place(q)
  BY DEF Answering, Place
<1> PICK place : place = Place(q)
  OBVIOUS
<1> PICK chunks : chunks = app[q].chunks
  OBVIOUS
<1>2. Quoting(place, chunks) /\ Calm(place)
  BY <1>1 DEF Answers
<1>3. Quoting(place, chunks)'
  BY <1>2, QuotingKept
<1>4. Traced(place, chunks) => Traced(place, chunks)'
  BY TracedKept
<1>5. Unknown(place) => Unknown(place)'
  BY <1>2, UnknownKept
<1>6. IF app'[q].kind = "semantic" /\ app'[q].at = "writing"
      THEN Traced(place, chunks)' ELSE Unknown(place)'
  BY <1>1, <1>4, <1>5 DEF Answers
<1>7. place \in DOMAIN held' => held'[place].chunks = chunks
  BY <1>1 DEF Answers
<1>8. app'[q].at = "listing" => app'[q].kind = "exact"
  BY <1>1 DEF Answers
<1>9. Place(q)' = place /\ app'[q].chunks = chunks
  BY <1>1
<1> QED
  BY <1>3, <1>6, <1>7, <1>8, <1>9 DEF Answers

LEMMA StoresKept ==
    ASSUME Grown, StoreInv,
           \A place \in DOMAIN held' :
              \/ /\ place \in DOMAIN held /\ held'[place].chunks = held[place].chunks
                 /\ place[1] \in CacheKinds => Calm(place)
              \/ Holds(place, held[place].chunks)'
    PROVE  StoreInv'
<1> SUFFICES ASSUME NEW place \in DOMAIN held' PROVE Holds(place, held[place].chunks)'
  BY DEF StoreInv
<1>1. CASE /\ place \in DOMAIN held /\ held'[place].chunks = held[place].chunks
           /\ place[1] \in CacheKinds => Calm(place)
  <2> PICK chunks : chunks = held[place].chunks
    OBVIOUS
  <2>1. Holds(place, chunks)
    BY <1>1 DEF StoreInv
  <2>2. Holds(place, chunks)'
    BY <1>1, <2>1, HoldsKept
  <2> QED
    BY <1>1, <2>2
<1> QED
  BY <1>1

LEMMA ConcernedGrows ==
    ASSUME Grown, NEW c
    PROVE  Concerned(c) \subseteq Concerned(c)'
BY DEF Grown, Concerned, Sources

LEMMA TouchesKept ==
    ASSUME Grown, NEW id, NEW s, Touches(id, s)
    PROVE  Touches(id, s)'
<1>1. \A c \in Texts : c \in Texts' /\ (s \in Concerned(c) => s \in Concerned(c)')
  BY ConcernedGrows DEF Texts, Grown
<1>2. ASSUME NEW d \in captured, id = SourceId(d.source),
             d.subject = s \/ \E e \in captured : e.source = d.from /\ e.subject = s
      PROVE  Touches(id, s)'
  BY <1>2 DEF Touches, Grown
<1>3. ASSUME NEW c \in Texts, s \in Concerned(c), id = ChunkId(c) \/ <<ChunkId(c), id>> \in edges
      PROVE  Touches(id, s)'
  BY <1>1, <1>3 DEF Touches, Grown
<1> QED
  BY <1>2, <1>3 DEF Touches

LEMMA TracesKept ==
    ASSUME Grown, TracesOK, traces' = traces,
           run'.at = "tracing" => run.at = "tracing" /\ run'.gaps = run.gaps
    PROVE  TracesOK'
<1>1. ASSUME NEW t \in traces
      PROVE  /\ Honest(t.gaps)' /\ "orphan" \notin t.gaps
             /\ \A id \in t.artifacts : Touches(id, t.subject)'
  <2>1. Honest(t.gaps)'
    BY DEF TracesOK, Honest, Grown
  <2>2. ASSUME NEW id \in t.artifacts PROVE Touches(id, t.subject)'
    BY TouchesKept DEF TracesOK
  <2> QED
    BY <2>1, <2>2 DEF TracesOK
<1>2. run'.at = "tracing" => Honest(run.gaps)'
  BY DEF TracesOK, Honest, Grown
<1> QED
  BY <1>1, <1>2 DEF TracesOK

\* What is added to the stores and to the threads' hands is none of the trace's.
LEMMA GoneKept ==
    ASSUME Grown, NEW c, Gone(c),
           c.verified =>
             \A place \in (DOMAIN held' \union Pending') \ (DOMAIN held \union Pending) :
                place \in Places(c.trace) => place \in WrittenSince(c)'
    PROVE  Gone(c)'
<1>1. WrittenSince(c) \subseteq WrittenSince(c)'
  BY DEF WrittenSince, Grown
<1> QED
  BY <1>1 DEF Gone, Grown

\* What a thread still has to write.
Owes(a) ==
    {place \in {<<"index", {a.doc.key}>>, <<"docs", {a.doc.chunk}>>, <<a.kind, a.key>>} :
       \/ a.at = "adding" /\ place \in {<<"index", {a.doc.key}>>, <<"docs", {a.doc.chunk}>>}
       \/ a.at = "putting" /\ place = <<"docs", {a.doc.chunk}>>
       \/ a.at = "writing" /\ place = <<a.kind, a.key>>}

LEMMA PendingOwed ==
    /\ \A place : place \in Pending <=> \E p \in Apps : place \in Owes(app[p])
    /\ \A place : place \in Pending' <=> \E p \in Apps : place \in Owes(app'[p])
<1>1. ASSUME NEW place PROVE place \in Pending <=> \E p \in Apps : place \in Owes(app[p])
  <2>1. ASSUME place \in Pending PROVE \E p \in Apps : place \in Owes(app[p])
    BY <2>1 DEF Pending, Owes
  <2>2. ASSUME NEW p \in Apps, place \in Owes(app[p]) PROVE place \in Pending
    BY <2>2 DEF Pending, Owes
  <2> QED
    BY <2>1, <2>2
<1>2. ASSUME NEW place PROVE place \in Pending' <=> \E p \in Apps : place \in Owes(app'[p])
  <2>1. ASSUME place \in Pending' PROVE \E p \in Apps : place \in Owes(app'[p])
    BY <2>1 DEF Pending, Owes
  <2>2. ASSUME NEW p \in Apps, place \in Owes(app'[p]) PROVE place \in Pending'
    BY <2>2 DEF Pending, Owes
  <2> QED
    BY <2>1, <2>2
<1> QED
  BY <1>1, <1>2

LEMMA PendingMoves ==
    ASSUME NEW p \in Apps, NEW a, app'[p] = a, \A q \in Apps \ {p} : app'[q] = app[q]
    PROVE  Pending' \subseteq Pending \union Owes(a)
<1> SUFFICES ASSUME NEW place \in Pending', place \notin Owes(a) PROVE place \in Pending
  OBVIOUS
<1> PICK q \in Apps : place \in Owes(app'[q])
  BY PendingOwed
<1>1. place \in Owes(app[q])
  <2> PICK b : b = app'[q]
    OBVIOUS
  <2>1. q # p
    OBVIOUS
  <2> QED
    BY <2>1
<1> QED
  BY <1>1, PendingOwed

LEMMA ApartKept ==
    ASSUME Apart, NEW p \in Apps, NEW a, app'[p] = a, \A q \in Apps \ {p} : app'[q] = app[q],
           a.at \in {"writing", "listing", "recording"} => Answering(p) /\ a.key = app[p].key
    PROVE  Apart'
<1> SUFFICES ASSUME NEW q \in Apps, NEW r \in Apps, q # r, Answering(q)', Answering(r)'
             PROVE  app'[q].key # app'[r].key
  BY DEF Apart
<1>1. \A s \in Apps : Answering(s)' => Answering(s) /\ app'[s].key = app[s].key
  <2> SUFFICES ASSUME NEW s \in Apps, Answering(s)'
               PROVE  Answering(s) /\ app'[s].key = app[s].key
    OBVIOUS
  <2>1. CASE s = p
    BY <2>1 DEF Answering
  <2>2. CASE s # p
    BY <2>2 DEF Answering
  <2> QED
    BY <2>1, <2>2
<1> QED
  BY <1>1 DEF Apart

\* A thread's step: what it wrote it owed, and what it owes now is in nobody's trace.
LEMMA ThreadSteps ==
    ASSUME IndInv, TypeInv', NEW p \in Apps, NEW a, app'[p] = a,
           \A q \in Apps \ {p} : app'[q] = app[q],
           Grown, UNCHANGED operatorVars, GraphInv',
           \A q \in Apps \ {p} : Answering(q) => Calm(Place(q)),
           \A q \in Apps \ {p} : Answering(q) /\ Place(q) \in DOMAIN held' =>
              Place(q) \in DOMAIN held /\ held'[Place(q)].chunks = held[Place(q)].chunks,
           Answers(p)', Apart', StoreInv',
           DOMAIN held' \subseteq DOMAIN held \union Owes(app[p]),
           \A place \in Owes(a) \ Owes(app[p]) :
              Unknown(place) \/ \A c \in closed : place \in WrittenSince(c)'
    PROVE  IndInv'
<1>1. \A q \in Apps : Answers(q)'
  <2> SUFFICES ASSUME NEW q \in Apps PROVE Answers(q)'
    OBVIOUS
  <2>1. CASE q = p
    BY <2>1
  <2>2. CASE q # p
    BY <2>2, AnswersKept DEF IndInv
  <2> QED
    BY <2>1, <2>2
<1>2. TracesOK'
  BY TracesKept DEF IndInv, operatorVars
<1>3. ASSUME NEW c \in closed PROVE Gone(c)'
  <2>1. Gone(c)
    BY DEF IndInv
  <2>2. ASSUME NEW place \in (DOMAIN held' \union Pending') \ (DOMAIN held \union Pending),
               place \in Places(c.trace)
        PROVE  place \in WrittenSince(c)'
    <3>1. place \notin Owes(app[p])
      BY PendingOwed
    <3>2. place \in Pending'
      BY <3>1
    <3>3. place \in Owes(a)
      BY <3>2, PendingMoves
    <3>4. ~Unknown(place)
      <4>1. c.trace.artifacts \subseteq Nodes
        BY <2>1 DEF IndInv, TypeInv, OperatorOK, Gone
      <4> QED
        BY <2>2, <4>1 DEF Places, Unknown
    <3> QED
      BY <3>1, <3>3, <3>4
  <2> QED
    BY <2>1, <2>2, GoneKept
<1>4. \A c \in closed' : Gone(c)'
  BY <1>3 DEF operatorVars
<1> QED
  BY <1>1, <1>2, <1>4 DEF IndInv

\* An action that touches neither the graph nor the documents.
LEMMA StillGrown ==
    ASSUME UNCHANGED <<graphVars, captured>>, asked \subseteq asked', traces \subseteq traces',
           arounds # 0 => arounds' # 0
    PROVE  Grown
BY DEF Grown, graphVars, Nodes

\* What the graph says stays said.
LEMMA GraphKept ==
    ASSUME Grown, GraphInv
    PROVE  /\ \A d \in captured : Linked(d)'
           /\ \A id \in Nodes : DocNode(id)' \/ CacheNode(id)'
           /\ \A e \in edges : DocLink(e)' \/ CacheLink(e)'
<1>1. \A d \in captured : Linked(d)'
  <2> SUFFICES ASSUME NEW d \in captured PROVE Linked(d)'
    OBVIOUS
  <2>1. Linked(d)
    BY DEF GraphInv
  <2> QED
    BY <2>1 DEF Linked, Grown
<1>2. \A id : (DocNode(id) => DocNode(id)') /\ (CacheNode(id) => CacheNode(id)')
  BY DEF DocNode, CacheNode, Texts, Grown
<1>3. \A e : (DocLink(e) => DocLink(e)') /\ (CacheLink(e) => CacheLink(e)')
  <2> SUFFICES ASSUME NEW e
               PROVE  (DocLink(e) => DocLink(e)') /\ (CacheLink(e) => CacheLink(e)')
    OBVIOUS
  <2>1. DocLink(e) => DocLink(e)'
    BY DEF DocLink, Grown
  <2>2. CacheLink(e) => CacheLink(e)'
    BY <1>2 DEF CacheLink, Texts, Grown
  <2> QED
    BY <2>1, <2>2
<1> QED
  BY <1>1, <1>2, <1>3 DEF GraphInv

\* Nothing is added to the graph.
LEMMA StillGraph ==
    ASSUME GraphInv, Grown, UNCHANGED <<graphVars, captured>>
    PROVE  GraphInv' /\ \A place : Calm(place)
<1>1. Nodes' = Nodes /\ edges' = edges
  BY DEF Nodes, graphVars
<1> QED
  BY <1>1, GraphKept DEF GraphInv, Calm

----------------------------------------------------------------------------
(* The application's steps                                                 *)

\* A document's vector, or its text, is written.
LEMMA DocumentSteps ==
    ASSUME IndInv, TypeInv', NEW p \in Apps, Add(p) \/ Put(p)
    PROVE  IndInv'
<1> PICK d : d = app[p].doc
  OBVIOUS
<1>1. UNCHANGED <<graphVars, tombstones, side, captured, asked, operatorVars, bounds>>
  BY DEF Add, Put
<1>2. /\ app \in [Apps -> Threads] /\ d \in captured /\ captured \subseteq Documents
      /\ StoresOK /\ ~Answering(p)
  BY DEF Add, Put, IndInv, TypeInv, TypeOK, ThreadsOK, Answering
<1>3. Grown
  BY <1>1, StillGrown DEF operatorVars, bounds
<1>4. GraphInv' /\ \A place : Calm(place)
  BY <1>1, <1>3, StillGraph DEF IndInv
<1>5. \A q \in Apps : Answering(q) => Place(q)[1] \in {"exact", "semantic"}
  BY CachesAssumption DEF IndInv, TypeInv, ThreadsOK, Place
<1>6. ASSUME NEW place \in {<<"index", {d.key}>>, <<"docs", {d.chunk}>>}, Writing(place, {d.chunk}),
             NEW a, app' = [app EXCEPT ![p] = a], place \in Owes(app[p]), Owes(a) \subseteq Owes(app[p]),
             a.at \notin {"writing", "listing", "recording"}
      PROVE  IndInv'
  <2>1. place \in StoreNames \X SUBSET Names /\ {d.chunk} \in SUBSET Chunks
    BY <1>2 DEF StoreNames, Names, Chunks
  <2>2. /\ DOMAIN held' = DOMAIN held \union {place}
        /\ held'[place].chunks = {d.chunk}
        /\ \A e \in DOMAIN held \ {place} : held'[e] = held[e]
    BY <1>2, <1>6, <2>1, WritingOK
  <2>3. app'[p] = a /\ \A q \in Apps \ {p} : app'[q] = app[q]
    BY <1>2, <1>6
  <2>4. Holds(place, held[place].chunks)'
    BY <1>1, <1>2, <2>2 DEF Holds
  <2>5. StoreInv'
    BY <1>3, <1>4, <2>2, <2>4, StoresKept DEF IndInv
  <2>6. Apart'
    BY <1>6, <2>3, ApartKept DEF IndInv
  <2>7. Answers(p)'
    BY <1>6, <2>3 DEF Answers, Answering
  <2>8. place[1] \in {"index", "docs"}
    OBVIOUS
  <2>9. \A q \in Apps : Answering(q) /\ Place(q) \in DOMAIN held' =>
              Place(q) \in DOMAIN held /\ held'[Place(q)].chunks = held[Place(q)].chunks
    BY <1>5, <2>2, <2>8
  <2>10. DOMAIN held' \subseteq DOMAIN held \union Owes(app[p])
    BY <1>6, <2>2
  <2> QED
    BY <1>1, <1>3, <1>4, <1>6, <2>3, <2>5, <2>6, <2>7, <2>9, <2>10, ThreadSteps
<1>7. CASE Add(p)
  <2> PICK a : a = [app[p] EXCEPT !.at = "putting"]
    OBVIOUS
  <2>1. a.at = "putting" /\ a.doc = d
    BY <1>2 DEF Threads
  <2>2. app' = [app EXCEPT ![p] = a] /\ app[p].at = "adding"
    BY <1>7 DEF Add
  <2>3. Writing(<<"index", {d.key}>>, {d.chunk})
    BY <1>7 DEF Add
  <2>4. <<"index", {d.key}>> \in Owes(app[p]) /\ Owes(a) \subseteq Owes(app[p])
    BY <2>1, <2>2 DEF Owes
  <2> QED
    BY <1>6, <2>1, <2>2, <2>3, <2>4
<1>8. CASE Put(p)
  <2> PICK a : a = Idle
    OBVIOUS
  <2>1. a.at = "idle"
    BY DEF Idle
  <2>2. app' = [app EXCEPT ![p] = a] /\ app[p].at = "putting"
    BY <1>8 DEF Put
  <2>3. Writing(<<"docs", {d.chunk}>>, {d.chunk})
    BY <1>8 DEF Put
  <2>4. <<"docs", {d.chunk}>> \in Owes(app[p]) /\ Owes(a) \subseteq Owes(app[p])
    BY <2>1, <2>2 DEF Owes
  <2> QED
    BY <1>6, <2>1, <2>2, <2>3, <2>4
<1> QED
  BY <1>7, <1>8

\* An answer is written: nobody else's, and held as it is known.
LEMMA AnswerSteps ==
    ASSUME IndInv, TypeInv', NEW p \in Apps, WriteAnswer(p)
    PROVE  IndInv'
<1> PICK place : place = Place(p)
  OBVIOUS
<1> PICK chunks : chunks = app[p].chunks
  OBVIOUS
<1> PICK a : a = IF app[p].kind = "exact" THEN [app[p] EXCEPT !.at = "listing"] ELSE Idle
  OBVIOUS
<1>1. UNCHANGED <<graphVars, tombstones, side, captured, asked, operatorVars, bounds>>
  BY DEF WriteAnswer
<1>2. /\ app \in [Apps -> Threads] /\ StoresOK /\ Answering(p) /\ app[p].kind \in CacheKinds
      /\ app[p].kind \in {"exact", "semantic"} /\ app[p].at = "writing"
  BY CachesAssumption DEF WriteAnswer, IndInv, TypeInv, ThreadsOK, Answering
<1>3. Grown
  BY <1>1, StillGrown DEF operatorVars, bounds
<1>4. GraphInv' /\ \A e : Calm(e)
  BY <1>1, <1>3, StillGraph DEF IndInv
<1>5. app' = [app EXCEPT ![p] = a] /\ Writing(place, chunks)
  BY DEF WriteAnswer, Place
<1>6. app'[p] = a /\ \A q \in Apps \ {p} : app'[q] = app[q]
  BY <1>2, <1>5
<1>7. /\ DOMAIN held' = DOMAIN held \union {place}
      /\ held'[place].chunks = chunks
      /\ \A e \in DOMAIN held \ {place} : held'[e] = held[e]
  <2>1. place \in StoreNames \X SUBSET Names /\ chunks \in SUBSET Chunks
    BY <1>2 DEF StoreNames, Place, Threads
  <2> QED
    BY <1>2, <1>5, <2>1, WritingOK
<1>8. /\ Quoting(place, chunks)
      /\ IF app[p].kind = "semantic" THEN Traced(place, chunks) ELSE Unknown(place)
  BY <1>2 DEF IndInv, Answers
<1>9. Quoting(place, chunks)' /\ (Traced(place, chunks) => Traced(place, chunks)')
      /\ (Unknown(place) => Unknown(place)')
  BY <1>3, <1>4, <1>8, QuotingKept, TracedKept, UnknownKept
<1>10. Holds(place, held[place].chunks)'
  <2>1. place[1] = app[p].kind
    BY DEF Place
  <2>2. Traced(place, chunks)' \/ (place[1] = "exact" /\ Unknown(place)')
    BY <1>2, <1>8, <1>9, <2>1
  <2>3. Holds(place, chunks)'
    BY <1>2, <1>9, <2>1, <2>2 DEF Holds
  <2> QED
    BY <1>7, <2>3
<1>11. StoreInv'
  BY <1>3, <1>4, <1>7, <1>10, StoresKept DEF IndInv
<1>12. /\ a.at = IF app[p].kind = "exact" THEN "listing" ELSE "idle"
       /\ app[p].kind = "exact" => a.kind = app[p].kind /\ a.key = app[p].key /\ a.chunks = chunks
  BY <1>2 DEF Idle, Threads
<1>13. Apart'
  BY <1>2, <1>6, <1>12, ApartKept DEF IndInv
<1>14. Answers(p)'
  <2>1. CASE app[p].kind = "exact"
    <3>1. Place(p)' = place /\ app'[p].chunks = chunks /\ app'[p].kind = "exact"
      BY <1>6, <1>12, <2>1 DEF Place
    <3>2. Unknown(place)'
      BY <1>8, <1>9, <2>1
    <3> QED
      BY <1>7, <1>9, <3>1, <3>2 DEF Answers
  <2>2. CASE app[p].kind # "exact"
    BY <1>6, <1>12, <2>2 DEF Answers, Answering
  <2> QED
    BY <2>1, <2>2
<1>15. \A q \in Apps \ {p} : Answering(q) /\ Place(q) \in DOMAIN held' =>
              Place(q) \in DOMAIN held /\ held'[Place(q)].chunks = held[Place(q)].chunks
  <2>1. \A q \in Apps \ {p} : Answering(q) => app[q].key # app[p].key
    BY <1>2 DEF IndInv, Apart
  <2>2. \A q \in Apps \ {p} : Answering(q) => Place(q) # place
    BY <2>1 DEF Place
  <2> QED
    BY <1>7, <2>2
<1>16. place \in Owes(app[p]) /\ Owes(a) = {}
  BY <1>2, <1>12 DEF Owes, Place
<1> QED
  BY <1>1, <1>3, <1>4, <1>6, <1>7, <1>11, <1>13, <1>14, <1>15, <1>16, ThreadSteps

\* A store forgets some entries, and what it keeps is what it was.
LEMMA StoresShrink ==
    ASSUME Grown, StoreInv, \A place \in DOMAIN held' : place[1] \in CacheKinds => Calm(place),
           DOMAIN held' \subseteq DOMAIN held,
           \A e \in DOMAIN held' : held'[e].chunks = held[e].chunks
    PROVE  StoreInv'
BY StoresKept

\* A native delete, its record, and an answer that is listed.
LEMMA MoverSteps ==
    ASSUME IndInv, TypeInv', NEW p \in Apps,
           (\E key : Delete(p, key)) \/ RecordDelete(p) \/ ListKey(p)
    PROVE  IndInv'
<1>1. UNCHANGED <<graphVars, captured, asked, operatorVars, bounds>>
  BY DEF Delete, RecordDelete, ListKey, storeVars
<1>2. app \in [Apps -> Threads] /\ StoresOK /\ (Answering(p) => app[p].kind \in CacheKinds)
  BY DEF IndInv, TypeInv, ThreadsOK, Answering
<1>3. Grown
  BY <1>1, StillGrown DEF operatorVars, bounds
<1>4. GraphInv' /\ \A e : Calm(e)
  BY <1>1, <1>3, StillGraph DEF IndInv
<1>5. /\ DOMAIN held' \subseteq DOMAIN held
      /\ \A e \in DOMAIN held' : held'[e].chunks = held[e].chunks
  <2>1. ASSUME NEW key, Delete(p, key)
        PROVE  /\ DOMAIN held' \subseteq DOMAIN held
               /\ \A e \in DOMAIN held' : held'[e].chunks = held[e].chunks
    BY <2>1 DEF Delete
  <2>2. CASE RecordDelete(p) \/ ListKey(p)
    BY <2>2 DEF RecordDelete, ListKey, storeVars
  <2> QED
    BY <2>1, <2>2
<1>6. StoreInv'
  BY <1>3, <1>4, <1>5, StoresShrink DEF IndInv
<1>7. ASSUME NEW a, app' = [app EXCEPT ![p] = a], Owes(a) = {},
             a.at \in {"writing", "listing", "recording"} => Answering(p) /\ a.key = app[p].key,
             Answers(p)'
      PROVE  IndInv'
  <2>1. app'[p] = a /\ \A q \in Apps \ {p} : app'[q] = app[q]
    BY <1>2, <1>7
  <2>2. Apart'
    BY <1>7, <2>1, ApartKept DEF IndInv
  <2> QED
    BY <1>1, <1>3, <1>4, <1>5, <1>6, <1>7, <2>1, <2>2, ThreadSteps
<1>8. ASSUME NEW a, app' = [app EXCEPT ![p] = a], a.at \in {"idle", "deleting"} PROVE IndInv'
  <2>1. app'[p] = a
    BY <1>2, <1>8
  <2>2. Answers(p)'
    BY <1>8, <2>1 DEF Answers, Answering
  <2>3. Owes(a) = {}
    BY <1>8 DEF Owes
  <2> QED
    BY <1>7, <1>8, <2>2, <2>3
<1>9. ASSUME NEW key, Delete(p, key) PROVE IndInv'
  <2> PICK a : a = [Idle EXCEPT !.at = "deleting", !.key = key]
    OBVIOUS
  <2>1. a.at = "deleting"
    BY DEF Idle
  <2> QED
    BY <1>8, <1>9, <2>1 DEF Delete
<1>10. CASE RecordDelete(p)
  BY <1>8, <1>10, IdleThread DEF RecordDelete
<1>11. CASE ListKey(p)
  <2> PICK a : a = [app[p] EXCEPT !.at = "recording"]
    OBVIOUS
  <2>1. app' = [app EXCEPT ![p] = a] /\ app[p].at = "listing"
    BY <1>11 DEF ListKey
  <2>2. /\ a.at = "recording" /\ a.kind = app[p].kind /\ a.key = app[p].key
        /\ a.chunks = app[p].chunks /\ Answering(p) /\ app'[p] = a
    BY <1>2, <2>1 DEF Threads, Answering
  <2>3. Answers(p)'
    <3> PICK place : place = Place(p)
      OBVIOUS
    <3> PICK chunks : chunks = a.chunks
      OBVIOUS
    <3>1. Quoting(place, chunks) /\ Unknown(place)
      BY <2>1, <2>2 DEF IndInv, Answers
    <3>2. Quoting(place, chunks)' /\ Unknown(place)'
      BY <1>3, <1>4, <3>1, QuotingKept, UnknownKept
    <3>3. Place(p)' = place /\ app'[p].chunks = chunks
      BY <2>2 DEF Place
    <3>4. place \in DOMAIN held' => held'[place].chunks = chunks
      BY <1>5, <2>2 DEF IndInv, Answers
    <3> QED
      BY <2>2, <3>2, <3>3, <3>4 DEF Answers
  <2>4. Owes(a) = {}
    BY <2>2 DEF Owes
  <2> QED
    BY <1>7, <2>1, <2>2, <2>3, <2>4
<1> QED
  BY <1>9, <1>10, <1>11

\* A new question: nothing is known or held under it, and nobody else is answering it.
LEMMA AskSteps ==
    ASSUME NamedApart, ~Repeats, IndInv, TypeInv', NEW p \in Apps, NEW q \in Questions,
           NEW kind \in CacheKinds, NEW hits \in (SUBSET Visible) \ {{}}, Ask(p, q, hits, kind)
    PROVE  IndInv'
<1> PICK chunks : chunks = UNION {held[e].chunks : e \in hits}
  OBVIOUS
<1> PICK key : key = {q} \union IF kind = "exact" THEN chunks ELSE {}
  OBVIOUS
<1> PICK a : a = [at |-> IF kind = "exact" THEN "writing" ELSE "recording",
                  doc |-> Nothing, kind |-> kind, chunks |-> chunks, key |-> key]
  OBVIOUS
<1> PICK place : place = <<kind, key>>
  OBVIOUS
<1>1. UNCHANGED <<graphVars, tombstones, storeVars, captured, operatorVars, bounds>>
  BY DEF Ask
<1>2. /\ app \in [Apps -> Threads] /\ captured \subseteq Documents
      /\ kind \in {"exact", "semantic"}
      /\ \A e \in edges : e[2] \in Nodes
  BY CachesAssumption DEF IndInv, TypeInv, TypeOK, ThreadsOK
<1>3. /\ q \notin asked /\ asked' = asked \union {q} /\ app' = [app EXCEPT ![p] = a]
  BY DEF Ask
<1>4. app'[p] = a /\ \A r \in Apps \ {p} : app'[r] = app[r]
  BY <1>2, <1>3
<1>5. Grown
  BY <1>1, <1>3, StillGrown DEF operatorVars, bounds
<1>6. GraphInv' /\ \A e : Calm(e)
  BY <1>1, <1>5, StillGraph DEF IndInv
<1>7. ASSUME NEW e \in hits
      PROVE  \/ held[e].chunks = {} /\ arounds # 0
             \/ \E c \in Texts : held[e].chunks = {c}
  <2>1. e \in DOMAIN held /\ e[1] = "index"
    BY DEF Visible
  <2>2. Holds(e, held[e].chunks)
    BY <2>1 DEF IndInv, StoreInv
  <2>3. e[1] \notin CacheKinds
    BY <2>1, CachesAssumption
  <2> QED
    BY <2>2, <2>3 DEF Holds, Texts
<1>8. chunks \subseteq Texts
  BY <1>7
<1>9. chunks = {} => arounds # 0
  <2> SUFFICES ASSUME chunks = {} PROVE arounds # 0
    OBVIOUS
  <2>1. PICK e \in hits : TRUE
    OBVIOUS
  <2>2. held[e].chunks \subseteq chunks
    BY <2>1
  <2> QED
    BY <1>7, <2>1, <2>2
<1>10. q \in key /\ key \intersect Questions \subseteq {q}
  BY <1>2, <1>8 DEF NamedApart, Texts
<1>11. Unknown(place)
  <2> SUFFICES ASSUME NEW id \in Nodes, PlaceOf(id) = place PROVE FALSE
    BY DEF Unknown
  <2>1. id[1] = kind /\ id[2] = key
    BY DEF PlaceOf
  <2>2. ~DocNode(id)
    BY <1>2, <2>1 DEF DocNode, SourceId, ChunkId, EmbedId
  <2>3. ~CacheNode(id)
    BY <1>3, <1>10, <2>1 DEF CacheNode
  <2> QED
    BY <2>2, <2>3 DEF IndInv, GraphInv
<1>12. place \notin DOMAIN held
  <2> SUFFICES ASSUME place \in DOMAIN held PROVE FALSE
    OBVIOUS
  <2>1. Holds(place, held[place].chunks)
    BY DEF IndInv, StoreInv
  <2>2. Quoting(place, held[place].chunks)
    BY <1>2, <2>1 DEF Holds
  <2> QED
    BY <1>3, <1>10, <2>2 DEF Quoting
<1>13. Quoting(place, chunks)' /\ Unknown(place)'
  <2>1. Unknown(place)'
    BY <1>6, <1>11, UnknownKept
  <2>2. \A e \in edges' : PlaceOf(e[2]) # place
    BY <1>1, <1>2, <1>11 DEF Unknown, graphVars
  <2>3. chunks \subseteq Texts' /\ (chunks = {} => arounds' # 0)
    BY <1>1, <1>8, <1>9 DEF Texts, bounds
  <2>4. place[2] \intersect Questions \subseteq asked'
    BY <1>3, <1>10
  <2> QED
    BY <2>1, <2>2, <2>3, <2>4 DEF Quoting
<1>14. Answers(p)'
  <2>1. Place(p)' = place /\ app'[p].chunks = chunks
    BY <1>4 DEF Place
  <2>2. place \notin DOMAIN held'
    BY <1>1, <1>12 DEF storeVars
  <2>3. app'[p].at # "listing" /\ ~(app'[p].kind = "semantic" /\ app'[p].at = "writing")
    BY <1>4
  <2> QED
    BY <1>13, <2>1, <2>2, <2>3 DEF Answers
<1>15. Apart'
  <2>1. ASSUME NEW r \in Apps \ {p}, Answering(r) PROVE app[r].key # key
    <3>1. Quoting(Place(r), app[r].chunks)
      BY <2>1 DEF IndInv, Answers
    <3>2. app[r].key \intersect Questions \subseteq asked
      BY <3>1 DEF Quoting, Place
    <3> QED
      BY <1>3, <1>10, <3>2
  <2>2. app'[p].key = key
    BY <1>4
  <2>3. \A r \in Apps \ {p} : Answering(r)' => Answering(r) /\ app'[r].key = app[r].key
    BY <1>4 DEF Answering
  <2> SUFFICES ASSUME NEW r \in Apps, NEW s \in Apps, r # s, Answering(r)', Answering(s)'
               PROVE  app'[r].key # app'[s].key
    BY DEF Apart
  <2>4. CASE r = p
    BY <2>1, <2>2, <2>3, <2>4
  <2>5. CASE s = p
    BY <2>1, <2>2, <2>3, <2>5
  <2>6. CASE r # p /\ s # p
    BY <2>3, <2>6 DEF IndInv, Apart
  <2> QED
    BY <2>4, <2>5, <2>6
<1>16. StoreInv'
  BY <1>1, <1>5, <1>6, StoresShrink DEF IndInv, storeVars
<1>17. Owes(a) \subseteq {place}
  BY DEF Owes
<1> QED
  BY <1>1, <1>4, <1>5, <1>6, <1>11, <1>14, <1>15, <1>16, <1>17, ThreadSteps DEF storeVars

\* A document's lineage is written: its own nodes and links and nobody's answer, and it
\* was not captured before.
LEMMA CaptureSteps ==
    ASSUME NamedApart, ~Repeats, IndInv, TypeInv', NEW p \in Apps, NEW d \in Documents,
           Capture(p, d)
    PROVE  IndInv'
<1> DEFINE ids == {SourceId(d.source), ChunkId(d.chunk), EmbedId({d.key})}
<1> PICK a : a = [Idle EXCEPT !.at = "adding", !.doc = d]
  OBVIOUS
<1>1. UNCHANGED <<tombstones, storeVars, asked, operatorVars, bounds>>
  BY DEF Capture
<1>2. /\ app \in [Apps -> Threads] /\ captured \subseteq Documents
      /\ \A c \in CacheKinds : c \in {"exact", "semantic"}
  BY CachesAssumption DEF IndInv, TypeInv, TypeOK, ThreadsOK
<1>3. d \notin captured /\ captured' = captured \union {d} /\ app' = [app EXCEPT ![p] = a]
  BY DEF Capture
<1>4. /\ a.at = "adding" /\ a.doc = d
      /\ app'[p] = a /\ \A q \in Apps \ {p} : app'[q] = app[q]
  BY <1>2, <1>3 DEF Idle
<1>5. /\ Nodes' = Nodes \union ids
      /\ \A id \in Nodes : owner'[id] = owner[id]
      /\ SourceId(d.source) \notin Nodes => owner'[SourceId(d.source)] = d.subject
  <2> DEFINE new == [id \in ids |-> IF id = EmbedId({d.key}) /\ ChunkId(d.chunk) \in Nodes
                                    THEN owner[ChunkId(d.chunk)] ELSE d.subject]
  <2>1. owner' = With(new)
    BY DEF Capture
  <2>2. DOMAIN new = ids
    OBVIOUS
  <2>3. SourceId(d.source) # EmbedId({d.key})
    BY DEF SourceId, EmbedId
  <2>4. SourceId(d.source) \in ids /\ new[SourceId(d.source)] = d.subject
    BY <2>3
  <2> HIDE DEF new
  <2> QED
    BY <2>1, <2>2, <2>4, WithFacts DEF Nodes
<1>6. edges' = edges \union NewEdges(d)
  BY DEF Capture
<1>7. Grown
  BY <1>1, <1>3, <1>5, <1>6 DEF Grown, operatorVars, bounds
<1>8. \A id \in ids : id[1] \in {"source", "docs", "index"}
  BY DEF SourceId, ChunkId, EmbedId
<1>9. \A e \in NewEdges(d) : e[2] \in ids
  BY DEF NewEdges
<1>10. ASSUME NEW place, place[1] \in CacheKinds PROVE Calm(place)
  <2>1. \A id \in ids : PlaceOf(id) # place
    BY <1>2, <1>8, <1>10 DEF PlaceOf
  <2> QED
    BY <1>5, <1>6, <1>9, <2>1 DEF Calm
<1>11. \A id \in ids \intersect Nodes : DocNode(id)
  BY <1>2, <1>8 DEF IndInv, GraphInv, CacheNode
<1>12. Linked(d)'
  <2>1. owner'[SourceId(d.source)] = d.subject
    <3>1. CASE SourceId(d.source) \in Nodes
      <4>1. PICK e \in captured : e.source = d.source
        BY <1>11, <3>1 DEF DocNode, SourceId, ChunkId, EmbedId
      <4>2. owner[SourceId(e.source)] = e.subject
        BY DEF IndInv, GraphInv, Linked
      <4>3. e.subject = d.subject
        BY <1>2, <4>1, DocumentsAssumption
      <4> QED
        BY <1>5, <3>1, <4>1, <4>2, <4>3
    <3> QED
      BY <1>5, <3>1
  <2>2. <<SourceId(d.source), ChunkId(d.chunk)>> \in edges'
    BY <1>6 DEF NewEdges
  <2>3. <<ChunkId(d.chunk), EmbedId({d.key})>> \in edges'
    <3>1. CASE EmbedId({d.key}) \in Nodes
      <4>1. PICK e \in captured : {e.key} = {d.key}
        BY <1>11, <3>1 DEF DocNode, SourceId, ChunkId, EmbedId
      <4>2. e.key = d.key
        BY <4>1
      <4>3. e.chunk = d.chunk
        BY <1>2, <4>2 DEF NamedApart
      <4>4. <<ChunkId(e.chunk), EmbedId({e.key})>> \in edges
        BY DEF IndInv, GraphInv, Linked
      <4> QED
        BY <1>6, <4>2, <4>3, <4>4
    <3>2. CASE EmbedId({d.key}) \notin Nodes
      BY <1>6, <3>2 DEF NewEdges
    <3> QED
      BY <3>1, <3>2
  <2>4. d.from # Nothing => <<SourceId(d.from), SourceId(d.source)>> \in edges'
    <3>1. CASE SourceId(d.source) \in Nodes
      <4>1. PICK e \in captured : e.source = d.source
        BY <1>11, <3>1 DEF DocNode, SourceId, ChunkId, EmbedId
      <4>2. e.from = d.from
        BY <1>2, <4>1 DEF NamedApart
      <4>3. e.from # Nothing => <<SourceId(e.from), SourceId(e.source)>> \in edges
        BY DEF IndInv, GraphInv, Linked
      <4> QED
        BY <1>6, <4>1, <4>2, <4>3
    <3>2. CASE SourceId(d.source) \notin Nodes
      BY <1>6, <3>2 DEF NewEdges
    <3> QED
      BY <3>1, <3>2
  <2>5. ids \subseteq Nodes'
    BY <1>5
  <2> QED
    BY <2>1, <2>2, <2>3, <2>4, <2>5 DEF Linked
<1>13. GraphInv'
  <2>1. IsFiniteSet(Nodes')
    <3>1. IsFiniteSet(Nodes)
      BY DEF IndInv, GraphInv
    <3>2. \A S, x : IsFiniteSet(S) => IsFiniteSet(S \union {x})
      BY FS_AddElement
    <3>3. Nodes' = ((Nodes \union {SourceId(d.source)}) \union {ChunkId(d.chunk)})
                    \union {EmbedId({d.key})}
      BY <1>5
    <3> HIDE DEF ids
    <3> QED
      BY <3>1, <3>2, <3>3
  <2>2. \A e \in captured' : Linked(e)'
    BY <1>3, <1>7, <1>12, GraphKept DEF IndInv
  <2>3. \A id \in Nodes' : DocNode(id)' \/ CacheNode(id)'
    <3>1. \A id \in ids : DocNode(id)'
      BY <1>3 DEF DocNode
    <3> QED
      BY <1>5, <1>7, <3>1, GraphKept DEF IndInv
  <2>4. \A e \in edges' : DocLink(e)' \/ CacheLink(e)'
    <3>1. \A e \in NewEdges(d) : DocLink(e)'
      BY <1>3 DEF DocLink, NewEdges
    <3> QED
      BY <1>6, <1>7, <3>1, GraphKept DEF IndInv
  <2> QED
    BY <2>1, <2>2, <2>3, <2>4 DEF GraphInv
<1>14. Answers(p)'
  BY <1>4 DEF Answers, Answering
<1>15. Apart'
  BY <1>4, ApartKept DEF IndInv
<1>16. StoreInv'
  BY <1>1, <1>7, <1>10, StoresShrink DEF IndInv, storeVars
<1>17. ASSUME NEW place \in Owes(a), NEW c \in closed PROVE place \in WrittenSince(c)'
  <2>1. c.known \subseteq captured
    BY DEF IndInv, Gone
  <2>2. place \in {<<"index", {d.key}>>, <<"docs", {d.chunk}>>}
    BY <1>4 DEF Owes
  <2>3. d \in captured' \ c.known
    BY <1>3, <2>1
  <2> QED
    BY <2>2, <2>3 DEF WrittenSince
<1>18. \A q \in Apps : Answering(q) => Calm(Place(q))
  <2>1. \A q \in Apps : Answering(q) => Place(q)[1] \in CacheKinds
    BY DEF IndInv, TypeInv, ThreadsOK, Place
  <2> QED
    BY <1>10, <2>1
<1> QED
  BY <1>1, <1>4, <1>7, <1>13, <1>14, <1>15, <1>16, <1>17, <1>18, ThreadSteps DEF storeVars

\* An answer's lineage is written: a node for each subject quoted, none of them there
\* before, and a link from every chunk quoted.
LEMMA RecordCacheAdds ==
    ASSUME IndInv, NEW p \in Apps, RecordCache(p),
           NEW place, place = Place(p), NEW chunks, chunks = app[p].chunks
    PROVE  \E fresh :
             /\ IsFiniteSet(fresh)
             /\ Nodes' = Nodes \union fresh /\ \A id \in Nodes : owner'[id] = owner[id]
             /\ edges \subseteq edges'
             /\ \A e \in edges' \ edges : e[2] \in fresh /\ \E c \in chunks : e = <<ChunkId(c), e[2]>>
             /\ \A c \in chunks : \E id \in fresh : <<ChunkId(c), id>> \in edges'
             /\ \A id \in fresh : /\ PlaceOf(id) = place /\ id = CacheId(id[1], id[2], id[3])
                                  /\ \E c \in chunks : <<ChunkId(c), id>> \in edges'
<1> DEFINE parents == {ChunkId(c) : c \in app[p].chunks} \intersect Nodes
<1> DEFINE idOf(n) == CacheId(app[p].kind, app[p].key, owner[n])
<1> PICK fresh : fresh = {idOf(n) : n \in parents}
  OBVIOUS
<1>1. Quoting(place, chunks) /\ Unknown(place)
  BY DEF RecordCache, IndInv, Answers, Answering
<1>2. parents = {ChunkId(c) : c \in chunks}
  <2>1. \A c \in Texts : ChunkId(c) \in Nodes
    BY DEF Texts, IndInv, GraphInv, Linked
  <2> QED
    BY <1>1, <2>1 DEF Quoting
<1>3. \A n : PlaceOf(idOf(n)) = place
  BY DEF PlaceOf, CacheId, Place
<1>4. \A n : idOf(n) \notin Nodes
  BY <1>1, <1>3 DEF Unknown
<1>5. edges' = edges \union {<<n, idOf(n)>> : n \in parents}
  <2>1. edges' = edges \union {<<n, idOf(n)>> : n \in {n \in parents : idOf(n) \notin Nodes}}
    BY DEF RecordCache
  <2>2. {n \in parents : idOf(n) \notin Nodes} = parents
    BY <1>4
  <2> QED
    BY <2>1, <2>2
<1>6. Nodes' = Nodes \union fresh /\ \A id \in Nodes : owner'[id] = owner[id]
  <2> PICK f : f = [id \in fresh |-> id[3]]
    OBVIOUS
  <2>1. owner' = With(f)
    BY DEF RecordCache
  <2> QED
    BY <2>1, WithFacts DEF Nodes
<1>7. IsFiniteSet(fresh)
  <2> PICK f : f = [n \in parents |-> idOf(n)]
    OBVIOUS
  <2>1. IsFiniteSet(parents)
    <3>1. IsFiniteSet(Nodes) /\ parents \in SUBSET Nodes
      BY DEF IndInv, GraphInv
    <3> HIDE DEF parents
    <3> QED
      BY <3>1, FS_Subset
  <2>2. f \in Surjection(parents, fresh)
    <3> HIDE DEF parents, idOf
    <3> QED
      BY DEF Surjection
  <2> HIDE DEF parents, idOf
  <2> QED
    BY <2>1, <2>2, FS_Surjection
<1>8. \A e \in edges' \ edges : e[2] \in fresh /\ \E c \in chunks : e = <<ChunkId(c), e[2]>>
  <2> SUFFICES ASSUME NEW e \in edges' \ edges
               PROVE  e[2] \in fresh /\ \E c \in chunks : e = <<ChunkId(c), e[2]>>
    OBVIOUS
  <2>1. PICK n \in parents : e = <<n, idOf(n)>>
    BY <1>5
  <2>2. e[1] = n /\ e[2] = idOf(n)
    BY <2>1
  <2> QED
    BY <1>2, <2>1, <2>2
<1>9. \A c \in chunks : \E id \in fresh : <<ChunkId(c), id>> \in edges'
  BY <1>2, <1>5
<1>10. ASSUME NEW id \in fresh
       PROVE  /\ PlaceOf(id) = place /\ id = CacheId(id[1], id[2], id[3])
              /\ \E c \in chunks : <<ChunkId(c), id>> \in edges'
  <2>1. PICK n \in parents : id = idOf(n)
    OBVIOUS
  <2>2. id = CacheId(id[1], id[2], id[3])
    BY <2>1 DEF CacheId
  <2> QED
    BY <1>2, <1>3, <1>5, <2>1, <2>2
<1> QED
  BY <1>5, <1>6, <1>7, <1>8, <1>9, <1>10

LEMMA RecordCacheSteps ==
    ASSUME IndInv, TypeInv', NEW p \in Apps, RecordCache(p)
    PROVE  IndInv'
<1> PICK place : place = Place(p)
  OBVIOUS
<1> PICK chunks : chunks = app[p].chunks
  OBVIOUS
<1> PICK a : a = IF app[p].kind = "exact" THEN Idle ELSE [app[p] EXCEPT !.at = "writing"]
  OBVIOUS
<1> PICK fresh :
       /\ IsFiniteSet(fresh)
       /\ Nodes' = Nodes \union fresh /\ \A id \in Nodes : owner'[id] = owner[id]
       /\ edges \subseteq edges'
       /\ \A e \in edges' \ edges : e[2] \in fresh /\ \E c \in chunks : e = <<ChunkId(c), e[2]>>
       /\ \A c \in chunks : \E id \in fresh : <<ChunkId(c), id>> \in edges'
       /\ \A id \in fresh : /\ PlaceOf(id) = place /\ id = CacheId(id[1], id[2], id[3])
                            /\ \E c \in chunks : <<ChunkId(c), id>> \in edges'
  BY RecordCacheAdds
<1>1. UNCHANGED <<tombstones, storeVars, captured, asked, operatorVars, bounds>>
  BY DEF RecordCache
<1>2. /\ app \in [Apps -> Threads] /\ app[p].kind \in CacheKinds
      /\ app[p].kind \in {"exact", "semantic"} /\ Answering(p) /\ app[p].at = "recording"
  BY CachesAssumption DEF RecordCache, IndInv, TypeInv, ThreadsOK, Answering
<1>3. app'[p] = a /\ \A q \in Apps \ {p} : app'[q] = app[q]
  BY <1>2 DEF RecordCache
<1>4. /\ Quoting(place, chunks) /\ Unknown(place)
      /\ place \in DOMAIN held => held[place].chunks = chunks
  BY <1>2 DEF IndInv, Answers
<1>5. Grown
  BY <1>1 DEF Grown, operatorVars, bounds
<1>6. ASSUME NEW e, e # place PROVE Calm(e)
  BY <1>6 DEF Calm
<1>7. Quoting(place, chunks)' /\ Traced(place, chunks)'
  <2>1. \A e \in edges' : PlaceOf(e[2]) = place => \E c \in chunks : e[1] = ChunkId(c)
    <3> SUFFICES ASSUME NEW e \in edges', PlaceOf(e[2]) = place PROVE \E c \in chunks : e[1] = ChunkId(c)
      OBVIOUS
    <3>1. CASE e \in edges
      BY <1>4, <3>1 DEF Quoting
    <3>2. CASE e \notin edges
      <4>1. PICK c \in chunks : e = <<ChunkId(c), e[2]>>
        BY <3>2
      <4>2. e[1] = ChunkId(c)
        BY <4>1
      <4> QED
        BY <4>2
    <3> QED
      BY <3>1, <3>2
  <2>2. Quoting(place, chunks)'
    BY <1>1, <1>4, <2>1 DEF Quoting, Texts, bounds
  <2>3. \A c \in chunks : \E id \in Nodes' : PlaceOf(id) = place /\ <<ChunkId(c), id>> \in edges'
    OBVIOUS
  <2> QED
    BY <2>2, <2>3 DEF Traced
<1>8. \A id \in fresh : CacheNode(id)'
  <2> SUFFICES ASSUME NEW id \in fresh PROVE CacheNode(id)'
    OBVIOUS
  <2>1. id[1] = place[1] /\ id[2] = place[2]
    BY DEF PlaceOf
  <2>2. id[1] \in CacheKinds
    BY <1>2, <2>1 DEF Place
  <2>3. id[2] \intersect Questions \subseteq asked'
    BY <1>1, <1>4, <2>1 DEF Quoting
  <2>4. \E c \in Texts' : <<ChunkId(c), id>> \in edges'
    BY <1>7 DEF Quoting
  <2> QED
    BY <2>2, <2>3, <2>4 DEF CacheNode
<1>9. GraphInv'
  <2>1. IsFiniteSet(Nodes')
    BY FS_Union DEF IndInv, GraphInv
  <2>2. \A d \in captured' : Linked(d)'
    BY <1>1, <1>5, GraphKept DEF IndInv
  <2>3. \A id \in Nodes' : DocNode(id)' \/ CacheNode(id)'
    BY <1>5, <1>8, GraphKept DEF IndInv
  <2>4. \A e \in edges' : DocLink(e)' \/ CacheLink(e)'
    <3>1. ASSUME NEW e \in edges' \ edges PROVE CacheLink(e)'
      <4>1. PICK c \in chunks : e = <<ChunkId(c), e[2]>>
        OBVIOUS
      <4>2. c \in Texts'
        BY <1>7 DEF Quoting
      <4>3. CacheNode(e[2])'
        BY <1>8
      <4> QED
        BY <4>1, <4>2, <4>3 DEF CacheLink
    <3> QED
      BY <1>5, <3>1, GraphKept DEF IndInv
  <2> QED
    BY <2>1, <2>2, <2>3, <2>4 DEF GraphInv
<1>10. /\ a.at = IF app[p].kind = "exact" THEN "idle" ELSE "writing"
       /\ app[p].kind # "exact" => /\ a.kind = app[p].kind /\ a.key = app[p].key
                                   /\ a.chunks = chunks
  BY <1>2 DEF Idle, Threads
<1>11. Apart'
  BY <1>2, <1>3, <1>10, ApartKept DEF IndInv
<1>12. Answers(p)'
  <2>1. CASE app[p].kind = "exact"
    BY <1>3, <1>10, <2>1 DEF Answers, Answering
  <2>2. CASE app[p].kind # "exact"
    <3>1. /\ Place(p)' = place /\ app'[p].chunks = chunks
          /\ app'[p].kind = "semantic" /\ app'[p].at = "writing"
      BY <1>2, <1>3, <1>10, <2>2 DEF Place
    <3>2. place \in DOMAIN held' => held'[place].chunks = chunks
      BY <1>1, <1>4 DEF storeVars
    <3> QED
      BY <1>7, <3>1, <3>2 DEF Answers
  <2> QED
    BY <2>1, <2>2
<1>13. StoreInv'
  <2>1. ASSUME place \in DOMAIN held' PROVE Holds(place, held[place].chunks)'
    <3>1. held'[place].chunks = chunks /\ place[1] \in CacheKinds
      BY <1>1, <1>2, <1>4, <2>1 DEF storeVars, Place
    <3>2. Holds(place, chunks)'
      BY <1>7, <3>1 DEF Holds
    <3> QED
      BY <3>1, <3>2
  <2> QED
    BY <1>1, <1>5, <1>6, <2>1, StoresKept DEF IndInv, storeVars
<1>14. \A q \in Apps \ {p} : Answering(q) => Calm(Place(q))
  <2>1. \A q \in Apps \ {p} : Answering(q) => app[q].key # app[p].key
    BY <1>2 DEF IndInv, Apart
  <2>2. \A q \in Apps \ {p} : Answering(q) => Place(q) # place
    BY <2>1 DEF Place
  <2> QED
    BY <1>6, <2>2
<1>15. Owes(a) \subseteq {place}
  BY <1>10 DEF Owes, Place
<1> QED
  BY <1>1, <1>3, <1>4, <1>5, <1>9, <1>11, <1>12, <1>13, <1>14, <1>15, ThreadSteps DEF storeVars

----------------------------------------------------------------------------
(* The operator's steps                                                    *)

\* A step of the operator adds to no store and nothing to the graph.
LEMMA OperatorSteps ==
    ASSUME IndInv, TypeInv', UNCHANGED <<graphVars, appVars, arounds>>, traces \subseteq traces',
           DOMAIN held' \subseteq DOMAIN held,
           \A e \in DOMAIN held' : held'[e].chunks = held[e].chunks,
           TracesOK', \A c \in closed' \ closed : Gone(c)'
    PROVE  IndInv'
<1>1. Grown
  BY StillGrown DEF appVars
<1>2. GraphInv' /\ \A e : Calm(e)
  BY <1>1, StillGraph DEF IndInv, appVars
<1>3. \A p \in Apps : Answers(p)'
  BY <1>1, <1>2, AnswersKept DEF IndInv, appVars
<1>4. Apart'
  BY DEF IndInv, Apart, appVars, Answering
<1>5. StoreInv'
  BY <1>1, <1>2, StoresShrink DEF IndInv
<1>6. \A c \in closed : Gone(c)'
  <2>1. Pending' = Pending
    BY DEF Pending, appVars
  <2> QED
    BY <1>1, <2>1, GoneKept DEF IndInv
<1> QED
  BY <1>2, <1>3, <1>4, <1>5, <1>6 DEF IndInv

\* Every entry but one written around the wrapper, or made of such a one, is known.
LEMMA GapsAreHonest ==
    ASSUME IndInv
    PROVE  Honest(Gaps)
<1>1. ASSUME NEW e \in DOMAIN held, e[1] \in {"index", "docs", "semantic"}
      PROVE  Knows(e[1], e[2]) \/ (e[1] \in {"index", "semantic"} /\ arounds # 0)
  <2>1. e = <<e[1], e[2]>>
    BY DEF IndInv, TypeInv, StoresOK
  <2>2. Holds(e, held[e].chunks)
    BY DEF IndInv, StoreInv
  <2>3. CASE e = <<"index", {"around"}>> /\ arounds # 0
    BY <2>3
  <2>4. ASSUME NEW d \in captured, e \in {<<"index", {d.key}>>, <<"docs", {d.chunk}>>}
        PROVE  Knows(e[1], e[2])
    <3>1. EmbedId({d.key}) \in Nodes /\ ChunkId(d.chunk) \in Nodes
      BY DEF IndInv, GraphInv, Linked
    <3>2. /\ PlaceOf(EmbedId({d.key})) = <<"index", {d.key}>>
          /\ PlaceOf(ChunkId(d.chunk)) = <<"docs", {d.chunk}>>
      BY DEF PlaceOf, EmbedId, ChunkId
    <3> QED
      BY <2>1, <2>4, <3>1, <3>2 DEF Knows
  <2>5. CASE e[1] \in CacheKinds /\ Quoting(e, held[e].chunks) /\ Traced(e, held[e].chunks)
    <3>1. CASE held[e].chunks = {}
      BY <1>1, <2>5, <3>1, CachesAssumption DEF Quoting
    <3>2. CASE held[e].chunks # {}
      <4>1. \E id \in Nodes : PlaceOf(id) = e
        BY <2>5, <3>2 DEF Traced
      <4> QED
        BY <2>1, <4>1 DEF Knows
    <3> QED
      BY <3>1, <3>2
  <2> QED
    BY <1>1, <2>2, <2>3, <2>4, <2>5 DEF Holds
<1>2. ASSUME NEW store \in {"index", "docs", "semantic"}, store \in Gaps
      PROVE  store # "docs" /\ arounds # 0
  <2>1. PICK key \in Sampled(store) : ~Knows(store, key)
    BY <1>2 DEF Gaps
  <2>2. PICK e \in DOMAIN held : e[1] = store /\ e[2] = key
    BY <2>1 DEF Sampled
  <2> QED
    BY <1>1, <2>1, <2>2
<1> QED
  BY <1>2 DEF Honest
\* Once a document is captured there are as many nodes as the longest chain has links.
LEMMA DeepEnough ==
    ASSUME IndInv
    PROVE  Cardinality(Nodes) \in Nat /\ (captured # {} => Cardinality(Nodes) >= 3)
<1>1. IsFiniteSet(Nodes)
  BY DEF IndInv, GraphInv
<1>2. ASSUME NEW d \in captured PROVE Cardinality(Nodes) >= 3
  <2> PICK a, b, c : a = SourceId(d.source) /\ b = ChunkId(d.chunk) /\ c = EmbedId({d.key})
    OBVIOUS
  <2>1. a # b /\ a # c /\ b # c /\ {a, b, c} \subseteq Nodes
    <3>1. Linked(d)
      BY DEF IndInv, GraphInv
    <3> QED
      BY <3>1 DEF Linked, SourceId, ChunkId, EmbedId
  <2>2. \A S, x : IsFiniteSet(S) /\ x \notin S =>
                IsFiniteSet(S \union {x}) /\ Cardinality(S \union {x}) = Cardinality(S) + 1
    BY FS_AddElement
  <2> PICK A, B, C : A = {} \union {a} /\ B = A \union {b} /\ C = B \union {c}
    OBVIOUS
  <2>3. IsFiniteSet(A) /\ Cardinality(A) = 1
    BY <2>2, FS_EmptySet
  <2>4. IsFiniteSet(B) /\ Cardinality(B) = 2
    <3>1. b \notin A
      BY <2>1
    <3> QED
      BY <2>2, <2>3, <3>1
  <2>5. IsFiniteSet(C) /\ Cardinality(C) = 3
    <3>1. c \notin B
      BY <2>1
    <3> QED
      BY SMTT(30), <2>2, <2>4, <3>1
  <2>6. C \in SUBSET Nodes
    BY <2>1
  <2>7. Cardinality(C) <= Cardinality(Nodes)
    BY <1>1, <2>6, FS_Subset
  <2> QED
    BY <1>1, <2>5, <2>7, FS_CardinalityType
<1> QED
  BY <1>1, <1>2, FS_CardinalityType

\* A trace of a subject finds every text that concerns it, and all that is made of one.
LEMMA ConcernedIsReached ==
    ASSUME NamedApart, IndInv, NEW c, NEW s \in Concerned(c)
    PROVE  /\ ChunkId(c) \in Artifacts(s)
           /\ \A id \in Nodes : <<ChunkId(c), id>> \in edges => id \in Artifacts(s)
<1> PICK roots : roots = {id \in Nodes : id[1] = "source" /\ owner[id] = s}
  OBVIOUS
<1> PICK depth \in Nat : depth = Cardinality(Nodes)
  BY DeepEnough
<1>1. \A d \in captured : Linked(d)
  BY DEF IndInv, GraphInv
<1>2. PICK d \in captured : d.subject = s /\ d \in Sources(c)
  BY DEF Concerned, Sources
<1>3. SourceId(d.source) \in roots /\ depth >= 3
  <2>1. captured # {} /\ SourceId(d.source)[1] = "source"
    BY DEF SourceId
  <2> QED
    BY <1>1, <1>2, <2>1, DeepEnough DEF Linked
<1>4. \/ <<SourceId(d.source), ChunkId(c)>> \in edges
      \/ \E e \in captured : /\ <<SourceId(d.source), SourceId(e.source)>> \in edges
                             /\ <<SourceId(e.source), ChunkId(c)>> \in edges
  <2>1. CASE d.chunk = c
    BY <1>1, <2>1 DEF Linked
  <2>2. ASSUME NEW e \in captured, e.chunk = c, e.from = d.source
        PROVE  /\ <<SourceId(d.source), SourceId(e.source)>> \in edges
               /\ <<SourceId(e.source), ChunkId(c)>> \in edges
    <3>1. d.source # Nothing
      BY DEF NamedApart, IndInv, TypeInv, TypeOK
    <3>2. Linked(e)
      BY <1>1
    <3> QED
      BY <2>2, <3>1, <3>2 DEF Linked
  <2> QED
    BY <1>2, <2>1, <2>2 DEF Sources
<1>5. ChunkId(c) \in Reached(edges, roots, depth)
  BY <1>3, <1>4, SearchFinds
<1>6. \A id : <<ChunkId(c), id>> \in edges => id \in Reached(edges, roots, depth)
  BY <1>3, <1>4, SearchFinds
<1>7. ChunkId(c) \in Nodes /\ ChunkId(c)[1] # "source"
  <2>1. ChunkId(c) \in Nodes
    BY <1>4 DEF IndInv, TypeInv, TypeOK
  <2> QED
    BY <2>1 DEF ChunkId
<1>8. ASSUME NEW id \in Nodes, <<ChunkId(c), id>> \in edges PROVE id[1] # "source"
  <2>1. PICK e \in edges : e[1] = ChunkId(c) /\ e[2] = id
    BY <1>8
  <2>2. CASE DocLink(e)
    BY <2>1, <2>2 DEF DocLink, SourceId, ChunkId, EmbedId
  <2>3. CASE CacheLink(e)
    BY <2>1, <2>3, CachesAssumption DEF CacheLink, CacheNode
  <2> QED
    BY <2>2, <2>3 DEF IndInv, GraphInv
<1>9. \A id \in Nodes : id[1] # "source" /\ id \in Reached(edges, roots, depth) => id \in Artifacts(s)
  BY DEF Artifacts, Descendants
<1> QED
  BY <1>5, <1>6, <1>7, <1>8, <1>9

\* Every node descends from a source.
LEMMA NoOrphans ==
    ASSUME NamedApart, IndInv, NEW s
    PROVE  ~Orphaned(s)
<1> PICK roots : roots = {id \in Nodes : id[1] = "source"}
  OBVIOUS
<1> PICK depth \in Nat : depth = Cardinality(Nodes)
  BY DeepEnough
<1> SUFFICES ASSUME NEW id \in Nodes PROVE id \in Reached(edges, roots, depth)
  BY DEF Orphaned, Descendants
<1>1. ASSUME NEW d \in captured
      PROVE  /\ SourceId(d.source) \in roots /\ depth >= 3
             /\ <<SourceId(d.source), ChunkId(d.chunk)>> \in edges
             /\ <<ChunkId(d.chunk), EmbedId({d.key})>> \in edges
  <2>1. captured # {} /\ SourceId(d.source)[1] = "source"
    BY DEF SourceId
  <2>2. Linked(d)
    BY DEF IndInv, GraphInv
  <2> QED
    BY <2>1, <2>2, DeepEnough DEF Linked
<1>2. CASE DocNode(id)
  BY <1>1, <1>2, SearchFinds DEF DocNode
<1>3. CASE CacheNode(id)
  <2>1. PICK d \in captured : <<ChunkId(d.chunk), id>> \in edges
    BY <1>3 DEF CacheNode, Texts
  <2> QED
    BY <1>1, <2>1, SearchFinds
<1> QED
  BY <1>2, <1>3 DEF IndInv, GraphInv

\* A trace of a subject finds only what concerns the subject.
LEMMA TracedTouches ==
    ASSUME NamedApart, IndInv, NEW s, NEW id \in Artifacts(s)
    PROVE  Touches(id, s)
<1> PICK roots : roots = {n \in Nodes : n[1] = "source" /\ owner[n] = s}
  OBVIOUS
<1> PICK depth \in Nat : depth = Cardinality(Nodes)
  BY DeepEnough
<1> PICK set : set = {n \in Nodes : Touches(n, s)}
  OBVIOUS
<1>1. captured \subseteq Documents /\ \A e \in edges : e[2] \in Nodes
  BY DEF IndInv, TypeInv, TypeOK
<1>2. roots \subseteq set
  <2> SUFFICES ASSUME NEW n \in Nodes, n[1] = "source", owner[n] = s PROVE Touches(n, s)
    OBVIOUS
  <2>1. ~CacheNode(n)
    BY CachesAssumption DEF CacheNode
  <2>2. PICK d \in captured : n = SourceId(d.source)
    BY <2>1 DEF IndInv, GraphInv, DocNode, SourceId, ChunkId, EmbedId
  <2>3. owner[SourceId(d.source)] = d.subject
    BY DEF IndInv, GraphInv, Linked
  <2> QED
    BY <2>2, <2>3 DEF Touches
<1>3. ASSUME NEW e \in edges, Touches(e[1], s) PROVE Touches(e[2], s)
  <2>1. \A c : <<ChunkId(c), e[1]>> \in edges => ~(e[1][1] \in {"source", "docs"})
    <3> SUFFICES ASSUME NEW c, <<ChunkId(c), e[1]>> \in edges PROVE ~(e[1][1] \in {"source", "docs"})
      OBVIOUS
    <3>1. PICK f \in edges : f[1] = ChunkId(c) /\ f[2] = e[1]
      BY DEF ChunkId
    <3>2. CASE DocLink(f)
      BY <3>1, <3>2 DEF DocLink, SourceId, ChunkId, EmbedId
    <3>3. CASE CacheLink(f)
      BY <3>1, <3>3, CachesAssumption DEF CacheLink, CacheNode
    <3> QED
      BY <3>2, <3>3 DEF IndInv, GraphInv
  <2>2. ASSUME NEW c, e = <<ChunkId(c), e[2]>> PROVE Touches(e[2], s)
    <3>1. e[1] = ChunkId(c) /\ e[1][1] = "docs"
      BY <2>2 DEF ChunkId
    <3>2. PICK b \in Texts : s \in Concerned(b) /\ e[1] = ChunkId(b)
      <4>1. \A d : e[1] # SourceId(d.source)
        BY <3>1 DEF SourceId
      <4>2. \A b : <<ChunkId(b), e[1]>> \notin edges
        BY <2>1, <3>1
      <4> QED
        BY <1>3, <4>1, <4>2 DEF Touches
    <3>3. <<ChunkId(b), e[2]>> \in edges
      BY <2>2, <3>2
    <3> QED
      BY <3>2, <3>3 DEF Touches
  <2>3. ASSUME NEW source, e[1] = SourceId(source)
        PROVE  \E d \in captured :
                 /\ d.source = source
                 /\ d.subject = s \/ \E f \in captured : f.source = d.from /\ f.subject = s
    <3>1. e[1][1] = "source" /\ \A b : e[1] # ChunkId(b)
      BY <2>3 DEF SourceId, ChunkId
    <3>2. \A b : <<ChunkId(b), e[1]>> \notin edges
      BY <2>1, <3>1
    <3>3. PICK d \in captured :
            /\ e[1] = SourceId(d.source)
            /\ d.subject = s \/ \E f \in captured : f.source = d.from /\ f.subject = s
      BY <1>3, <3>1, <3>2 DEF Touches
    <3>4. d.source = source
      BY <2>3, <3>3 DEF SourceId
    <3> QED
      BY <3>3, <3>4
  <2>4. ASSUME NEW d \in captured, e = <<SourceId(d.source), ChunkId(d.chunk)>>
        PROVE  Touches(e[2], s)
    <3>1. e[1] = SourceId(d.source) /\ e[2] = ChunkId(d.chunk)
      BY <2>4
    <3>2. PICK b \in captured :
            /\ b.source = d.source
            /\ b.subject = s \/ \E f \in captured : f.source = b.from /\ f.subject = s
      BY <2>3, <3>1
    <3>3. b.subject = d.subject /\ b.from = d.from
      BY <1>1, <3>2, DocumentsAssumption DEF NamedApart
    <3>4. d.subject = s \/ \E f \in captured : f.source = d.from /\ f.subject = s
      BY <3>2, <3>3
    <3>5. s \in Concerned(d.chunk)
      BY <3>4 DEF Concerned, Sources
    <3> QED
      BY <3>1, <3>5 DEF Touches, Texts
  <2>5. ASSUME NEW d \in captured, d.from # Nothing, e = <<SourceId(d.from), SourceId(d.source)>>
        PROVE  Touches(e[2], s)
    <3>1. e[1] = SourceId(d.from) /\ e[2] = SourceId(d.source)
      BY <2>5
    <3>2. PICK b \in captured :
            /\ b.source = d.from
            /\ b.subject = s \/ \E f \in captured : f.source = b.from /\ f.subject = s
      BY <2>3, <3>1
    <3>3. b.from = Nothing
      BY <1>1, <3>2, DocumentsAssumption
    <3>4. \A f \in captured : f.source # Nothing
      BY <1>1 DEF NamedApart
    <3>5. b.subject = s
      BY <3>2, <3>3, <3>4
    <3> QED
      BY <3>1, <3>2, <3>5 DEF Touches
  <2> QED
    <3>1. CASE DocLink(e)
      <4>1. \A d \in captured : e = <<ChunkId(d.chunk), EmbedId({d.key})>> => e = <<ChunkId(d.chunk), e[2]>>
        OBVIOUS
      <4> QED
        BY <2>2, <2>4, <2>5, <3>1, <4>1 DEF DocLink
    <3>2. CASE CacheLink(e)
      BY <2>2, <3>2 DEF CacheLink
    <3> QED
      BY <3>1, <3>2 DEF IndInv, GraphInv
<1>4. Reached(edges, roots, depth) \subseteq set
  BY <1>1, <1>2, <1>3, SearchStays
<1>5. id \in Reached(edges, roots, depth)
  BY DEF Artifacts, Descendants
<1> QED
  BY <1>4, <1>5

\* The stores are sampled and the trace is saved.
LEMMA TraceSteps ==
    ASSUME NamedApart, IndInv, TypeInv', (\E s \in Subjects : SampleStores(s)) \/ SaveTrace
    PROVE  IndInv'
<1>1. UNCHANGED <<graphVars, storeVars, appVars, closed, arounds>>
  BY DEF SampleStores, SaveTrace, bounds
<1>2. traces \subseteq traces'
  BY DEF SampleStores, SaveTrace
<1>3. \A gaps : Honest(gaps) => Honest(gaps)'
  BY <1>1 DEF Honest
<1>4. \A id, s : Touches(id, s) => Touches(id, s)'
  BY <1>1 DEF Touches, Texts, Concerned, Sources, graphVars, appVars
<1>5. ASSUME NEW t \in traces
      PROVE  /\ Honest(t.gaps)' /\ "orphan" \notin t.gaps
             /\ \A id \in t.artifacts : Touches(id, t.subject)'
  BY <1>3, <1>4 DEF IndInv, TracesOK
<1>6. TracesOK'
  <2>1. ASSUME NEW s \in Subjects, SampleStores(s) PROVE TracesOK'
    <3>1. traces' = traces
      BY <2>1 DEF SampleStores
    <3>2. run'.gaps = Gaps
      BY <2>1 DEF SampleStores, Resting
    <3> PICK gaps : gaps = Gaps
      OBVIOUS
    <3>3. Honest(gaps)'
      BY <1>3, GapsAreHonest
    <3> QED
      BY <1>5, <3>1, <3>2, <3>3 DEF TracesOK
  <2>2. CASE SaveTrace
    <3> PICK t : t = Trace(run.subject, run.gaps)
      OBVIOUS
    <3>1. traces' \subseteq traces \union {t} /\ run'.at = "idle"
      BY <2>2 DEF SaveTrace, Resting
    <3>2. t.gaps = run.gaps /\ t.artifacts = Artifacts(run.subject) /\ t.subject = run.subject
      <4>1. run.gaps \union {} = run.gaps
        BY DEF IndInv, TypeInv, OperatorOK
      <4> PICK s : s = run.subject
        OBVIOUS
      <4>2. ~Orphaned(s)
        BY NoOrphans
      <4> QED
        BY <4>1, <4>2 DEF Trace
    <3>3. Honest(t.gaps)' /\ "orphan" \notin t.gaps
      <4> PICK gaps : gaps = run.gaps
        OBVIOUS
      <4>1. Honest(gaps) /\ gaps \subseteq StoreNames
        BY <2>2 DEF SaveTrace, IndInv, TracesOK, TypeInv, OperatorOK
      <4>2. Honest(gaps)' /\ "orphan" \notin gaps
        BY <1>3, <4>1 DEF StoreNames
      <4> QED
        BY <3>2, <4>2
    <3>4. ASSUME NEW id \in t.artifacts PROVE Touches(id, t.subject)'
      <4> PICK s : s = run.subject
        OBVIOUS
      <4>1. Touches(id, s)
        BY <3>2, TracedTouches
      <4>2. Touches(id, s)'
        BY <1>4, <4>1
      <4> QED
        BY <3>2, <4>2
    <3> QED
      BY <1>5, <3>1, <3>3, <3>4 DEF TracesOK
  <2> QED
    BY <2>1, <2>2
<1> QED
  BY <1>1, <1>2, <1>6, OperatorSteps DEF storeVars

\* The erasure of a trace, to its end.
LEMMA EraseSteps ==
    ASSUME IndInv, TypeInv',
           \/ \E t \in traces, acceptGaps \in BOOLEAN : Preflight(t, acceptGaps)
           \/ Tombstone \/ Suppress \/ Reclaim \/ Close
    PROVE  IndInv'
<1>1. UNCHANGED <<graphVars, appVars, traces, bounds>>
  BY DEF Preflight, Tombstone, Suppress, Reclaim, Close
<1>2. run'.at # "tracing"
  <2>1. ASSUME NEW a, a # "tracing", run.at \in Erasing, run' = [run EXCEPT !.at = a]
        PROVE  run'.at # "tracing"
    BY <2>1 DEF IndInv, TypeInv, OperatorOK
  <2>2. CASE \E t \in traces, acceptGaps \in BOOLEAN : Preflight(t, acceptGaps)
    BY <2>2 DEF Preflight, Resting
  <2>3. CASE Tombstone \/ Suppress \/ Reclaim
    BY <2>1, <2>3 DEF Tombstone, Suppress, Reclaim, Erasing
  <2>4. CASE Close
    BY <2>4 DEF Close, Resting
  <2> QED
    BY <2>2, <2>3, <2>4
<1>3. Grown
  BY <1>1, StillGrown DEF appVars, bounds
<1>4. TracesOK'
  BY <1>1, <1>2, <1>3, TracesKept DEF IndInv
<1>5. /\ DOMAIN held' \subseteq DOMAIN held
      /\ \A e \in DOMAIN held' : held'[e].chunks = held[e].chunks
  <2>1. CASE Suppress
    <3> PICK gone, hide : gone = Deleted /\ hide = Targets
      OBVIOUS
    <3>1. held' = [e \in DOMAIN held \ gone |->
                     IF e \in hide THEN [held[e] EXCEPT !.hidden = TRUE] ELSE held[e]]
      BY <2>1 DEF Suppress
    <3> QED
      BY <3>1, RemovingOK DEF IndInv, TypeInv
  <2>2. CASE Reclaim
    BY <2>2 DEF Reclaim, Without
  <2>3. CASE ~Suppress /\ ~Reclaim
    BY <2>3 DEF Preflight, Tombstone, Close, storeVars
  <2> QED
    BY <2>1, <2>2, <2>3
<1>6. ASSUME NEW c \in closed' \ closed PROVE Gone(c)'
  <2>1. Close /\ c = [trace |-> run.trace, pending |-> Pending, known |-> captured,
                      verified |-> Left = {}]
    BY <1>6 DEF Preflight, Tombstone, Suppress, Reclaim, Close
  <2>2. c.trace = run.trace /\ c.pending = Pending /\ c.known = captured
    BY <2>1
  <2>3. c.verified => Left = {}
    BY <2>1
  <2>4. c.trace \in traces' /\ c.known \subseteq captured'
    BY <1>1, <2>1, <2>2 DEF Close, Erasing, IndInv, TypeInv, OperatorOK, appVars
  <2>5. Places(c.trace) = Targets
    BY <2>2 DEF Places, Targets
  <2>6. DOMAIN held' = DOMAIN held /\ Pending' = Pending
    BY <1>1, <2>1 DEF Close, storeVars, Pending, appVars
  <2> QED
    BY <2>2, <2>3, <2>4, <2>5, <2>6 DEF Gone, Left
<1> QED
  BY <1>1, <1>4, <1>5, <1>6, OperatorSteps DEF bounds

----------------------------------------------------------------------------
(* Faults                                                                  *)

\* An entry nobody knows of is in nobody's trace.
LEMMA AroundSteps ==
    ASSUME NamedApart, IndInv, TypeInv', WriteAround
    PROVE  IndInv'
<1> PICK place : place = <<"index", {"around"}>>
  OBVIOUS
<1>1. UNCHANGED <<graphVars, tombstones, side, appVars, operatorVars, kills>>
  BY DEF WriteAround
<1>2. arounds' # 0
  BY DEF WriteAround, IndInv, TypeInv, TypeOK
<1>3. Grown
  BY <1>1, <1>2, StillGrown DEF appVars, operatorVars
<1>4. GraphInv' /\ \A e : Calm(e)
  BY <1>1, <1>3, StillGraph DEF IndInv, appVars
<1>5. /\ DOMAIN held' = DOMAIN held \union {place}
      /\ held'[place].chunks = {}
      /\ \A e \in DOMAIN held \ {place} : held'[e] = held[e]
  <2>1. place \in StoreNames \X SUBSET Names /\ {} \in SUBSET Chunks
    BY DEF StoreNames, Names
  <2>2. Writing(place, {})
    BY DEF WriteAround
  <2> QED
    BY <2>1, <2>2, WritingOK DEF IndInv, TypeInv
<1>6. \A p \in Apps : Answers(p)'
  <2>1. \A p \in Apps : Answering(p) => Place(p) # place
    BY CachesAssumption DEF IndInv, TypeInv, ThreadsOK, Place
  <2> QED
    BY <1>1, <1>3, <1>4, <1>5, <2>1, AnswersKept DEF IndInv, appVars
<1>7. Apart'
  BY <1>1 DEF IndInv, Apart, Answering, appVars
<1>8. StoreInv'
  <2>1. Holds(place, held[place].chunks)'
    BY <1>2, <1>5 DEF Holds
  <2> QED
    BY <1>3, <1>4, <1>5, <2>1, StoresKept DEF IndInv
<1>9. TracesOK'
  BY <1>1, <1>3, TracesKept DEF IndInv, operatorVars
<1>10. Unknown(place)
  <2> SUFFICES ASSUME NEW id \in Nodes, PlaceOf(id) = place PROVE FALSE
    BY DEF Unknown
  <2>1. id[1] = "index" /\ id[2] = {"around"}
    BY DEF PlaceOf
  <2>2. ~CacheNode(id)
    BY <2>1, CachesAssumption DEF CacheNode
  <2>3. PICK d \in captured : {d.key} = {"around"}
    BY <2>1, <2>2 DEF IndInv, GraphInv, DocNode, SourceId, ChunkId, EmbedId
  <2>4. d \in Documents /\ d.key = "around"
    BY <2>3 DEF IndInv, TypeInv, TypeOK
  <2> QED
    BY <2>4 DEF NamedApart
<1>11. \A c \in closed : Gone(c)'
  <2> SUFFICES ASSUME NEW c \in closed PROVE Gone(c)'
    OBVIOUS
  <2>1. Gone(c)
    BY DEF IndInv
  <2>2. place \notin Places(c.trace)
    BY <1>10, <2>1 DEF IndInv, TypeInv, OperatorOK, Gone, Places, Unknown
  <2>3. Pending' = Pending
    BY <1>1 DEF Pending, appVars
  <2> QED
    BY <1>3, <1>5, <2>1, <2>2, <2>3, GoneKept
<1>12. closed' = closed
  BY <1>1 DEF operatorVars
<1> QED
  BY <1>4, <1>6, <1>7, <1>8, <1>9, <1>11, <1>12 DEF IndInv

\* A thread, or the operator's command, is killed.
LEMMA KillSteps ==
    ASSUME IndInv, TypeInv', Kill
    PROVE  IndInv'
<1>1. UNCHANGED <<graphVars, tombstones, storeVars, captured, asked, traces, closed, arounds>>
  BY DEF Kill
<1>2. Grown
  BY <1>1, StillGrown
<1>3. GraphInv' /\ \A e : Calm(e)
  BY <1>1, <1>2, StillGraph DEF IndInv
<1>4. ASSUME NEW p \in Apps, app' = [app EXCEPT ![p] = Idle], UNCHANGED run PROVE IndInv'
  <2> PICK a : a = Idle
    OBVIOUS
  <2>1. app'[p] = a /\ \A q \in Apps \ {p} : app'[q] = app[q]
    BY <1>4 DEF IndInv, TypeInv, ThreadsOK
  <2>2. a.at = "idle" /\ Owes(a) = {}
    BY IdleThread DEF Owes
  <2>3. Answers(p)'
    BY <2>1, <2>2 DEF Answers, Answering
  <2>4. Apart'
    BY <2>1, <2>2, ApartKept DEF IndInv
  <2>5. StoreInv'
    BY <1>1, <1>2, <1>3, StoresShrink DEF IndInv, storeVars
  <2> QED
    BY <1>1, <1>2, <1>3, <1>4, <2>1, <2>2, <2>3, <2>4, <2>5, ThreadSteps
    DEF storeVars, operatorVars
<1>5. ASSUME run' = Resting, UNCHANGED app PROVE IndInv'
  <2>1. run'.at # "tracing"
    BY <1>5 DEF Resting
  <2>2. TracesOK'
    BY <1>1, <1>2, <2>1, TracesKept DEF IndInv
  <2> QED
    BY <1>1, <1>5, <2>2, OperatorSteps DEF storeVars, appVars
<1> QED
  BY <1>4, <1>5 DEF Kill

----------------------------------------------------------------------------
(* The theorems                                                            *)

LEMMA InitInd == Init => IndInv
<1> SUFFICES ASSUME Init PROVE IndInv
  OBVIOUS
<1>1. Nodes = {} /\ DOMAIN held = {} /\ edges = {} /\ captured = {} /\ traces = {} /\ closed = {}
  BY DEF Init, Nodes
<1>2. GraphInv
  BY <1>1, FS_EmptySet DEF GraphInv
<1>3. \A p \in Apps : ~Answering(p)
  BY IdleThread DEF Init, Answering
<1>4. (\A p \in Apps : Answers(p)) /\ Apart
  BY <1>3 DEF Answers, Apart
<1>5. StoreInv /\ TracesOK
  BY <1>1 DEF Init, StoreInv, TracesOK, Resting
<1> QED
  BY <1>1, <1>2, <1>4, <1>5, InitTypes DEF IndInv

LEMMA NextInd ==
    ASSUME NamedApart, ~Repeats
    PROVE  IndInv /\ [Next]_vars => IndInv'
<1> SUFFICES ASSUME IndInv, [Next]_vars PROVE IndInv'
  OBVIOUS
<1>1. TypeInv'
  BY NextTypes DEF IndInv
<1>2. ASSUME NEW p \in Apps, Application(p) PROVE IndInv'
  BY <1>1, <1>2, CaptureSteps, DocumentSteps, MoverSteps, AskSteps, AnswerSteps, RecordCacheSteps
  DEF Application
<1>3. CASE Operator
  BY <1>1, <1>3, TraceSteps, EraseSteps DEF Operator
<1>4. CASE WriteAround
  BY <1>1, <1>4, AroundSteps
<1>5. CASE Kill
  BY <1>1, <1>5, KillSteps
<1>6. CASE UNCHANGED vars
  <2> USE <1>6 DEF vars, operatorVars, bounds
  <2>1. UNCHANGED <<graphVars, appVars, arounds>> /\ traces \subseteq traces' /\ closed' = closed
    OBVIOUS
  <2>2. Grown
    BY StillGrown DEF appVars
  <2>3. TracesOK'
    BY <2>2, TracesKept DEF IndInv
  <2> QED
    BY <1>1, <2>1, <2>3, OperatorSteps DEF storeVars
<1> QED
  BY <1>2, <1>3, <1>4, <1>5, <1>6 DEF Next

LEMMA AlwaysInd ==
    ASSUME NamedApart, ~Repeats
    PROVE  Spec => []IndInv
<1>1. IndInv /\ [Next]_vars => IndInv'
  BY NextInd
<1> QED
  BY <1>1, InitInd, PTL DEF Spec

\* Whatever a store holds of a subject, a trace of the subject finds, or the store is
\* reported as a gap; the exact cache's unlisted answers apart.
THEOREM EveryCopyIsTraced ==
    ASSUME NamedApart, ~Repeats
    PROVE  Spec => []NoUntracedCopy
<1>1. ASSUME IndInv PROVE NoUntracedCopy
  <2> SUFFICES ASSUME NEW place \in DOMAIN held, ~Unlisted(place), place[1] \notin Gaps,
                      NEW s \in SubjectsOf(place)
               PROVE  \E id \in Artifacts(s) : PlaceOf(id) = place
    BY DEF NoUntracedCopy
  <2>1. PICK c \in held[place].chunks : s \in Concerned(c)
    BY DEF SubjectsOf
  <2>2. /\ ChunkId(c) \in Artifacts(s)
        /\ \A id \in Nodes : <<ChunkId(c), id>> \in edges => id \in Artifacts(s)
    BY <1>1, <2>1, ConcernedIsReached
  <2>3. ASSUME NEW d \in captured, place \in {<<"index", {d.key}>>, <<"docs", {d.chunk}>>},
               held[place].chunks = {d.chunk}
        PROVE  \E id \in Artifacts(s) : PlaceOf(id) = place
    <3>1. c = d.chunk
      BY <2>1, <2>3
    <3>2. EmbedId({d.key}) \in Artifacts(s)
      BY <1>1, <2>2, <3>1 DEF IndInv, GraphInv, Linked
    <3>3. /\ PlaceOf(EmbedId({d.key})) = <<"index", {d.key}>>
          /\ PlaceOf(ChunkId(c)) = <<"docs", {c}>>
      BY DEF PlaceOf, EmbedId, ChunkId
    <3> QED
      BY <2>2, <2>3, <3>1, <3>2, <3>3
  <2>4. CASE Traced(place, held[place].chunks)
    BY <2>1, <2>2, <2>4 DEF Traced
  <2>5. CASE place[1] = "exact" /\ Unknown(place)
    <3>1. place[2] \in Sampled("exact")
      BY <2>5 DEF Unlisted, Sampled
    <3>2. ~Knows("exact", place[2])
      <4>1. place = <<place[1], place[2]>>
        BY <1>1 DEF IndInv, TypeInv, StoresOK
      <4>2. place = <<"exact", place[2]>>
        BY <2>5, <4>1
      <4> QED
        BY <2>5, <4>2 DEF Knows, Unknown
    <3> QED
      BY <2>5, <3>1, <3>2 DEF Gaps
  <2>6. Holds(place, held[place].chunks)
    BY <1>1 DEF IndInv, StoreInv
  <2> QED
    BY <2>1, <2>3, <2>4, <2>5, <2>6 DEF Holds
<1> QED
  BY <1>1, AlwaysInd, PTL

\* A saved trace raises no false alarm: no orphan and no gap in the docstore, and one in
\* the index or the semantic cache only when something was written around the wrapper.
THEOREM NoFalseAlarm ==
    ASSUME NamedApart, ~Repeats
    PROVE  Spec => []GapsAreReal
<1>1. ASSUME IndInv PROVE GapsAreReal
  <2> SUFFICES ASSUME NEW t \in traces
               PROVE  /\ t.gaps \intersect {"orphan", "docs"} = {}
                      /\ t.gaps \intersect {"index", "semantic"} # {} => arounds > 0
    BY DEF GapsAreReal
  <2>1. Honest(t.gaps) /\ "orphan" \notin t.gaps
    BY <1>1 DEF IndInv, TracesOK
  <2>2. arounds # 0 => arounds > 0
    BY <1>1, BoundsAssumption DEF IndInv, TypeInv, TypeOK
  <2> QED
    BY <2>1, <2>2 DEF Honest
<1> QED
  BY <1>1, AlwaysInd, PTL

\* What a verified erasure erased comes back only by a write that was already under way,
\* or for a document captured since.
THEOREM ErasedStaysGone ==
    ASSUME NamedApart, ~Repeats
    PROVE  Spec => []VerifiedStaysGone
<1>1. ASSUME IndInv PROVE VerifiedStaysGone
  BY <1>1 DEF IndInv, Gone, Places, VerifiedStaysGone
<1> QED
  BY <1>1, AlwaysInd, PTL

\* What an entry of a traced place holds is what made the trace find it.
LEMMA TouchedHolds ==
    ASSUME NamedApart, IndInv, NEW id \in Nodes, NEW s, Touches(id, s),
           NEW place \in DOMAIN held, PlaceOf(id) = place
    PROVE  s \in SubjectsOf(place)
<1> PICK chunks : chunks = held[place].chunks
  OBVIOUS
<1> SUFFICES \E c \in chunks : s \in Concerned(c)
  BY DEF SubjectsOf
<1>1. place = <<id[1], id[2]>> /\ place[1] = id[1] /\ place[2] = id[2]
  BY DEF PlaceOf
<1>2. /\ \A source : SourceId(source)[1] = "source"
      /\ \A c : ChunkId(c)[1] = "docs"
      /\ \A key : EmbedId(key)[1] = "index"
  BY DEF SourceId, ChunkId, EmbedId
<1>3. \/ id[1] = "source"
      \/ id[1] = "docs" /\ \E c : s \in Concerned(c) /\ id = ChunkId(c)
      \/ \E c : s \in Concerned(c) /\ <<ChunkId(c), id>> \in edges
  BY <1>2 DEF Touches
<1>4. ASSUME NEW c, <<ChunkId(c), id>> \in edges
      PROVE  \/ \E d \in captured : c = d.chunk /\ id = EmbedId({d.key})
             \/ id[1] \in CacheKinds
  <2>1. PICK e \in edges : e[1] = ChunkId(c) /\ e[2] = id
    BY <1>4
  <2>2. CASE DocLink(e)
    BY <2>1, <2>2 DEF DocLink, SourceId, ChunkId, EmbedId
  <2>3. CASE CacheLink(e)
    BY <2>1, <2>3 DEF CacheLink, CacheNode
  <2> QED
    BY <2>2, <2>3 DEF IndInv, GraphInv
<1>5. CASE place[1] = "docs"
  <2>1. PICK d \in captured : place = <<"docs", {d.chunk}>> /\ chunks = {d.chunk}
    BY <1>5, CachesAssumption DEF IndInv, StoreInv, Holds
  <2>2. PICK c : s \in Concerned(c) /\ id = ChunkId(c)
    BY <1>1, <1>2, <1>3, <1>4, <1>5, CachesAssumption
  <2>3. c = d.chunk
    BY <1>1, <2>1, <2>2 DEF ChunkId
  <2> QED
    BY <2>1, <2>2, <2>3
<1>6. CASE place[1] = "index"
  <2>1. PICK c : s \in Concerned(c) /\ <<ChunkId(c), id>> \in edges
    BY <1>1, <1>6, <1>3
  <2>2. PICK d \in captured : c = d.chunk /\ id = EmbedId({d.key})
    BY <1>1, <1>4, <1>6, <2>1, CachesAssumption
  <2>3. place = <<"index", {d.key}>> /\ d.key # "around"
    BY <1>1, <2>2 DEF EmbedId, NamedApart, IndInv, TypeInv, TypeOK
  <2>4. PICK e \in captured : {e.key} = {d.key} /\ chunks = {e.chunk}
    BY <1>6, <2>3, CachesAssumption DEF IndInv, StoreInv, Holds
  <2>5. e.chunk = d.chunk
    BY <2>4 DEF NamedApart, IndInv, TypeInv, TypeOK
  <2> QED
    BY <2>1, <2>2, <2>4, <2>5
<1>7. CASE place[1] \in CacheKinds
  <2>1. Quoting(place, chunks)
    BY <1>7, CachesAssumption DEF IndInv, StoreInv, Holds
  <2>2. PICK c : s \in Concerned(c) /\ <<ChunkId(c), id>> \in edges
    BY <1>1, <1>7, <1>3, CachesAssumption
  <2>3. PICK b \in chunks : ChunkId(c) = ChunkId(b)
    BY <2>1, <2>2 DEF Quoting
  <2>4. b = c
    BY <2>3 DEF ChunkId
  <2> QED
    BY <2>2, <2>3, <2>4
<1>8. place[1] \in {"docs", "index"} \union CacheKinds
  BY DEF IndInv, StoreInv, Holds
<1> QED
  BY <1>5, <1>6, <1>7, <1>8

\* An erasure takes nothing out of a store but what holds its subject's data.
THEOREM ErasureSparesOthers ==
    ASSUME NamedApart, ~Repeats
    PROVE  Spec => OthersSpared
<1>1. ASSUME IndInv, [Next]_vars, NEW place \in DOMAIN held \ DOMAIN held',
             run.at \in {"suppressing", "reclaiming"}, run' # run
      PROVE  run.trace.subject \in SubjectsOf(place)
  <2>1. place \in Targets
    <3>1. CASE Suppress
      BY <1>1, <3>1 DEF Suppress, Deleted
    <3>2. CASE Reclaim
      BY <1>1, <3>2 DEF Reclaim, Without, Deleted
    <3>3. CASE Kill
      BY <1>1, <3>3 DEF Kill, storeVars
    <3>4. ASSUME NEW p \in Apps, Application(p) PROVE FALSE
      BY <1>1, <3>4 DEF Application, Capture, Add, Put, Delete, RecordDelete, Ask, WriteAnswer,
                        ListKey, RecordCache, operatorVars
    <3>5. CASE Operator /\ ~Suppress /\ ~Reclaim
      <4>1. run # Resting
        BY <1>1 DEF Resting
      <4> QED
        BY <1>1, <3>5, <4>1 DEF Operator, SampleStores, SaveTrace, Preflight, Tombstone, Close
    <3>6. CASE WriteAround \/ UNCHANGED vars
      BY <1>1, <3>6 DEF WriteAround, vars, operatorVars
    <3> QED
      BY <1>1, <3>1, <3>2, <3>3, <3>4, <3>5, <3>6 DEF Next
  <2> PICK t \in traces : t = run.trace
    BY <1>1 DEF IndInv, TypeInv, OperatorOK, Erasing
  <2>2. PICK id \in t.artifacts : PlaceOf(id) = place
    BY <2>1 DEF Targets
  <2>3. id \in Nodes /\ Touches(id, t.subject)
    BY <1>1, <2>2 DEF IndInv, TypeInv, OperatorOK, TracesOK
  <2> QED
    BY <1>1, <2>2, <2>3, TouchedHolds
<1>2. IndInv /\ [Next]_vars =>
        [\A place \in DOMAIN held \ DOMAIN held' :
           run.at \in {"suppressing", "reclaiming"} /\ run' # run =>
             run.trace.subject \in SubjectsOf(place)]_vars
  BY <1>1
<1> QED
  BY <1>2, AlwaysInd, PTL DEF Spec, OthersSpared
=============================================================================
