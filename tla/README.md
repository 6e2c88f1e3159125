# Verification of tombstone

TLA+ models of tombstone's erasure pipeline: lineage and its capture, the stores and the
retrieval path, the saga and its receipts, and the entry points through which a person
asks for an erasure. TLC checks them on small instances; TLAPS proves the safety
properties for every value of the constants, under the hypotheses that section 4 names.
`PROJECT.json` lists every run, every theorem, the source lines each definition models,
and the hazards the properties are aimed at. Paths below are relative to
`src/src/tombstone/`.

## 1. The system

tombstone erases one subject's data from retrieval and training pipelines. A *trace*
follows lineage from the subject to every derived artifact; a *saga* suppresses,
reclaims and verifies the traced artifacts store by store, journaling every step; a
signed *receipt* says for each artifact how far the erasure was verified.

| component | state | operations | talks to |
|---|---|---|---|
| Saga (`erase/saga.py`, `commands/erase.py`) | nothing but memory: the dead letters, the facts and the reclaim results of one run | preflight, choose/resume/retry a saga, suppress, baseline, reclaim, verify, receipt, finalize | all of the following |
| Journal (`erase/journal.py`), hash chain (`chain.py`), ledger (`receipt/ledger.py`) | append-only JSON lines, each naming the hash of the line before, and a lock file | append, read, head, verify | saga, replay, independent check |
| Status lattice (`verify/levels.py`), probes (`verify/*.py`), replay (`receipt/replay.py`) | none: journaled probe records | assign, derive facts, re-derive them | saga, `receipt replay` |
| Independent check (`verify/independent.py`) | none | check a receipt's signature and place in the ledger without trusting the saga | ledger |
| Lineage store, capture, trace (`lineage/*.py`) | SQL: nodes, edges, tombstones, native deletes, pins, a sequence counter | capture (before the store write), trace, tombstone, live_duplicates, gaps | every store, saga |
| Pins (`pins.py`, `model/pins.py`) | one pin per store in lineage | observe, diff, repin | saga's preflight |
| Dataset store (`train/dataset.py`) | manifest.json, shard-NN.jsonl | suppress, reclaim, probe | saga, training |
| Adapter store and shard ensemble (`stores/adapter.py`, `train/unlearn.py`, `train/ensemble.py`) | weights per shard, tombstone-state.json, serving.json | suppress (recompose), reclaim (exact unlearning), probes, finalize | dataset, saga |
| FAISS adapter (`stores/faiss.py`, `stores/_vector.py`) | each open adapter's copy of the index, the records and the excluded ids; three files | add, suppress, delete, reclaim, probes, persist | saga, retriever |
| Vector engines (`stores/pgvector.py`, `chroma.py`, `qdrant.py`, `pinecone.py`) | records with a suppressed flag, the engine's files | the same, each in its engine's steps | saga, retriever |
| Retriever (`integrations/langchain.py`) | a cached set of tombstoned ids and its sequence number | retrieve, add, delete | engines, capture, lineage |
| Caches, document store (`stores/cache_*.py`, `stores/docstore.py`) | cached answers, chunk texts; the exact cache's side table | lookup, update, suppress, reclaim | capture, lineage |
| Runtime, MCP tools, page, terminal, `api.forget` (`registry.py`, `mcp/*.py`, `ui/*`, `commands/forget.py`, `api.py`) | one Runtime with its adapters and a build lock; what was shown for confirmation | trace, show, confirm, erase | trace, saga |
| Configuration, rendering, scanning, setup, measurements | none while a saga runs | one-shot commands | |

What makes it hard:

* **Kills and resumption.** The saga keeps its state in the journal only; it may be killed
  between any two records, or between a store's change and the record of it.
* **Failing steps.** A step that raises may have changed its store; its store is
  dead-lettered and retried by a *second* saga of the same trace.
* **Concurrency.** Nothing but the hash chain's file is locked: two processes may erase the
  same trace, two threads different subjects of one shard; applications capture, retrieve
  and cache while an operator traces and erases.
* **Two implementations of one rule.** The saga and replay derive the same facts from the
  same records with different code; the code's own comments name this as a danger.
* **Staleness.** Pins, baselines, snapshots, the original hash of a shard, the previous
  receipt's hash, a retriever's tombstones, the trace a person was shown: each is read at
  one time and relied upon at another.
* **Engines that keep bytes.** A deleted vector stays in dead tuples, write-ahead queues,
  unused slots or an index that cannot remove; every engine has its own way to get rid of it,
  in several steps, with what must survive in memory in between.

What each component owes: the saga - suppression before reclaim, no receipt without
an end, no VERIFIED that is untrue, and always an end; the chain - linked, whatever
is cut off, and no false alarm; the lattice - a truthful status, independent of kills,
that whoever looks again agrees with; the training stores - what is erased stays erased and
nobody else is; lineage - no copy that a trace cannot find, and no false gap; a store - what
is verified is gone, what nobody erased is kept; retrieval - no tombstoned chunk served; the
entry points - what is erased is what was shown and confirmed.

## 2. The modules

| module | models | depends on |
|---|---|---|
| `Erasure` | the abstract promise: marker, suppress, reclaim, certify | |
| `ErasureSaga` | `Saga.run` over the stores of one trace, with the journal, pins, snapshots, receipts | implements `Erasure` |
| `ErasureSagaProofs` | its theorems | `ErasureSaga` |
| `ReceiptLedger` | `chain.py`, the ledger on it and the independent check of it | |
| `ReceiptLedgerProofs` | its theorems | `ReceiptLedger` |
| `StatusLattice` | one artifact's probes, facts, lattice, replay, audit and independent verifier | |
| `StatusLatticeProofs` | its theorems | `StatusLattice` |
| `TrainingStores` | dataset, shards, adapter state, serving model, under sagas of several subjects | |
| `TrainingStoresProofs` | its theorems | `TrainingStores` |
| `Lineage` | capture, graph, traces, gaps, document store and caches, the erasure of a trace | |
| `LineageProofs` | its theorems | `Lineage` |
| `ErasableStore` | the abstract promise of an adapter for its records | |
| `FaissStore` | the FAISS adapter with its three files | implements `ErasableStore` |
| `FaissStoreProofs` | its theorems | `FaissStore` |
| `VectorStore` | what the adapters of the vector engines share | |
| `PgvectorStore`, `ChromaStore`, `QdrantStore`, `PineconeStore` | one engine each: upsert, flag, delete, reclaim, residue | extend `VectorStore` |
| `Retrieval` | any engine under a saga and under the retriever of an application | composes the engines, implements `ErasableStore` |
| `RetrievalProofs` | its theorems | `Retrieval` |
| `EntryPoints` | Runtime, MCP tools, page, terminal and `api.forget` against a moving graph | |
| `EntryPointsProofs` | its theorems | `EntryPoints` |
| `MC*` | instances for TLC | |

### ErasureSaga

One action per journal append, store change or receipt write of `Saga.run`, so that a
kill (`Crash`) can fall between any two of them. `Launch` is `_preflight` (stale trace,
pins), `Choose` and `StartSaga` lines 211-246, `TakeOver`/`FindUndone`/`BeginStep`/
`Work`/`EndOk`/`EndFailed` are `_run_step`, `Repin`, `DeadLetter`, `Judge`,
`RefuseReceipt`/`WriteReceipt`, `AppendLedger`, `CloseSaga` and `Finalize` follow
`run` to its end. `proc` is what a run keeps in memory; the journal is what survives.
`WorkFails` is a step that raises, with or without its effect.

Abstractions: the journal is the sets of records its readers ask for (every query
of `Journal` is an existence question, except the first saga of a trace and the last probe
of a step); receipts are numbered; a store's content is live, suppressed or gone for all
of its artifacts; a kill also stands for an exception that leaves `run`
(`LockTimeout`, a full disk). A capture only makes the trace stale.

### ReceiptLedger

`append` is split at the points where it can be cut off: before the lock, after it,
after part of the line, after the line and before its newline, before it returns. A record's hash is
its number (no collisions), and what `fsync` returned for is durable. `Begin` covers
the three users: a saga issuing a receipt (`prev_receipt_hash`, then `append`, each
under a lock of its own), and the independent check (`verify`, then `read`).

### StatusLattice

One artifact in a store of any kind (`cfg`), what is really there (`env`), and its
journal as a *sequence*, because the order of the records is the subject: the earliest
baseline of any saga of the trace, the last probe of this one. `Learn` is
`_facts_from_journal`, `Relearn` with `ReplayFacts` is `facts_from_records`, `Told` goes
through the journal with the one or the other, from what is known before (`Unread`), and `Lattice`
is the table of `assign`. Stores are not trusted: `Hiding` and
`Removing` may happen, partly happen or not happen at all before their step ends, raises
or is killed, and a removal may leave the content elsewhere (`ghost`). Measurements are
kept as what the rules compare them with (hits or none, above control or within).
`--semantic` compares with a neighbourhood that only the run remembers (`run.before`), and
which a resumed run records too late, or not at all. Another subject's artifact with the
same content (`env.dupes`) is live, or hidden with its bytes still there, or absent, and
moves at any time. `AuditState` is what `tombstone verify` reports now, `Disagrees` what
`verify/independent.py` objects to.
Left out: the rules for artifacts with no adapter and of third parties (known
structurally, no probe), and the two that raise (another tenant's scope; no tombstone,
which `Saga.run` cannot reach). `SagaOptions.verify = False` is not modelled.

### TrainingStores

Several subjects, each with one example, in shards (`shard_for`), one dataset and one
sharded adapter, each saga going through `Plan`. Every file is read and written back whole,
and the model keeps the reads and the writes apart: `ReadManifest`/`MarkSuppressed`,
`ReadRows`/`DropRow`/`DropEntry`, `ReadState`/`MarkExcluded`/`Hide`, and the five parts of a
retrain. Training is deterministic (fixed seed), so a shard's hash is the set of subjects
it was trained on, and extraction is idealised (it finds a subject iff a served shard knows
it). Left out: the unsharded adapter (approximate unlearning) and the membership test.
Threads of one Runtime share the store's `context`, as in the code. Before a later run
the operator repins a store that a failed step had changed.

### Lineage

Two halves over one graph. The application's threads: `Capture` (one transaction:
`ensure_source`, `ensure_chunk`, `prepare_embeds`), then `Add` and `Put` - lineage before
the store; `Delete` then `RecordDelete`; `Ask`, and then the two caches in their different
orders (`WriteAnswer`, `ListKey`, `RecordCache` for the exact one; `RecordCache`,
`WriteAnswer` for the semantic one). The operator: `SampleStores` and `SaveTrace`
(`detect_gaps`, then the walk and its snapshot), `Preflight`, `Tombstone`, `Suppress`,
`Reclaim`, `Close` with the probes. `Kill` stops any of them between two steps, and
`WriteAround` puts an entry into the index without a capture.

A key is a set of names, a text the set of chunks it quotes: this is what decides whose data
an entry holds (`SubjectsOf`, which the properties compare with what the graph knows).
Insert-or-ignore (`With`), the reuse of an embedding under its key, and the reuse of a cache
node without new edges are as in `capture.py`. The breadth-first search of `trace.py` is
`Reached`, level by level as a recursive function, up to the number of nodes. The graph only
grows, so its size stands for the hash of its snapshot. The semantic cache's deletion of
nearest neighbours is off (`purge_k = 0`, the default): `OthersSpared` is about that
configuration. An answer of the exact cache that its side table does not list counts as left
behind, although the probes, which look through that table, do not find it. `NamedApart` says of the documents
that can be captured that no id is used for two texts; `MCLineage` states it of the runs'
documents. Left out: stamping of what was there before the wrapper, and other
subjects that a text mentions.

### ErasableStore, FaissStore

`ErasableStore` is what `stores/base.py` and `docs/adapters.md` ask of an adapter, per key:
a record becomes retrievable only by being written, a suppressed one stays hidden until it
is written again, nothing vanishes that was not asked for, bytes come back only with a write.

`FaissStore`: an adapter opens three files into its own copy, each operation changes the
copy and then persists index, records and excluded ids one after the other, so a kill leaves
any prefix of the three. Ids are given out by the adapter (`NextId`), a vector is removed only
by `Reclaim`, which rebuilds the index from the survivors, and which raises when a record
has no vector (`ReclaimFails`: the copy is changed, the files are not). `Probe` is the
logical probe of the adapter's copy and the scan of the files. The first adapter has created
the empty files before anything else. A record's bytes are known by their key: no two keys
have the same vector here, so a scan that would take one for the other is left out. An
adapter's records never share an id, but after a cut-off add the id of a vector without a
record is given out again (see `AnswersForItself` below).

### VectorStore, the engines, Retrieval

`VectorStore` holds what an engine's adapter has: the records with their flag (`table`),
what a lagging service returns (`view`), the keys with bytes of old records in the files
(`dead`), and the call in progress with the survivors it holds in memory (`op`). An engine
defines `Upsert`, `Mark`, `Delete`, `Reclaiming`, `Rows`, `Residue` and `Physical`:

* `PgvectorStore`: dead tuples until the owner's `REINDEX` and `VACUUM FULL`, which other
  transactions may hold back. The role may own the table, may read the relation files, both or
  neither: the one decides whether a reclaim compacts, the other whether bytes are scanned;
* `ChromaStore`: survivors read into memory, the collection dropped and refilled in batches,
  then the unused slots, the queue and the orphaned segments purged, as far as it succeeds;
* `QdrantStore`: in its local mode read out, dropped and refilled, on a server only told to
  optimize;
* `PineconeStore`: accepts changes now and shows them later (`Converge`), no bytes to look at; a
  mark may silently not happen (its exceptions are suppressed).

Left out: the checkpoint that a reader of relation files who is no superuser cannot ask for
(the files are as the server last left its pages), and local folders of Chroma and Qdrant that
cannot be read.

`Retrieval` takes one of them (`kind`) and puts around it the saga's steps on one key
(`Tombstone`, `Suppress`, `Mark`, `Reclaim`, the engine's own steps, `Probe`), the
application's writes and deletes, and the retriever's read in its five steps: the engine's
answer, the sequence number, the tombstones, the two fields of the cache. `mine` is the set of
keys that the operator's process has suppressed itself; it is gone after a kill.

### EntryPoints

What lies between a person and `Saga.run`. Each instance is one set of entry points in use
together (`fronts`).

* A tool call, of `tool_forget` or of `tool_trace` with `tool_erase` after it, opens every
  store through `Runtime.store` (`WaitForBuild` remembers the store that was missing, `LockBuild`,
  `Build` looks for that store again: double-checked locking), a store that cannot be opened
  being a gap. `tool_forget` keeps the trace in `_SHOWN`, asks, and erases what `_SHOWN` has
  *then*; `tool_erase` erases the trace whose id it was given. No tool accepts gaps.
* The page keeps the trace it shows and sends its id with the confirmation; `ServePage` traces
  again and compares. Gaps are accepted by a tick under the list of them.
* `tombstone forget` keeps the trace in its own process (`Forget`, `Proceed`), with
  `--accept-gaps`, `--no-store-scan`, and `--yes` as an answer nobody waits for.
* `api.forget` traces and erases in one call, with `accept_gaps` (`CallApi`).

Meanwhile the graph moves and gaps come and go (`Move`), and the MCP server is restarted under
clients that were asked already. The server's Runtime is there before its first call
(`_tools.py` makes it in `build`); the unlocked first use of `Runtime.shared` by the
threads of another program is outside.

## 3. The runs

Passing runs:

| run | instance | what it shows |
|---|---|---|
| `saga_one_operator` | 1 process, 2 stores (one without PHYSICAL), 2 sagas, 2 kills, 1 failing step, 1 capture, with and without reclaim, a store removed from the configuration | the phases' order, truth of VERIFIED, `saga_end` with the saga's last receipt, no receipt in mid-step, and the refinement of `Erasure` |
| `saga_resume` | 1 process, 2 stores, 2 kills, 1 failing step | under fairness the first saga ends; its own changes never block it and no snapshot of a subject's texts stays |
| `ledger_chain` | 2 processes, 3 receipts, 2 cut-off operations | links, no false alarms, acknowledged records, every call returns |
| `lattice_verdicts` | every kind of store, a saga and a retry, 1 kill or raising step, 2 moves of another subject | truth of VERIFIED, independence of kills, agreement of replay, audit and independent verifier |
| `training_one_at_a_time` | 3 subjects, 2 shards, adapter before dataset, 1 fault | erased stays erased, unlearning unlearns, others are kept and served (also run with the dataset first, and with 2 faults) |
| `lineage_trace` | 2 application threads, 2 of 3 documents (two subjects share a chunk, one document is derived from another's), 1 question, both caches, 1 trace, 1 kill or write around | every copy is traced or its store is a gap, gaps are real, verified stays gone, others lose nothing |
| `faiss_store` | 1 adapter, 2 keys, 2 versions, 2 ids, 1 kill | the refinement of `ErasableStore`, verified bytes are gone, a vector answers for its own key, a repeated reclaim succeeds |
| `retrieval_engines` | 8 kinds of engine (4 kinds of role of pgvector), 1 retriever, 2 keys, 2 writes, 1 kill | tombstoned is not served, verified is gone, nothing else is lost, the adapter's promise |
| `entry_points` | 2 subjects, 2 moves; 2 tool calls, 2 stores and 1 restart, or the page, or the terminal and `api.forget` | what is erased is what was named, found and, where somebody is asked, shown; gaps only where accepted; one adapter per store |

Why these bounds. Two stores are enough for the saga because a store interacts with another
one only through the order of the groups and the shared dead letters, judgement and receipt.
Two kills reach "killed again while resuming", two sagas "a retry and what it
retries". Concurrent operators are the theorems' subject: they hold for any set of
processes. Three subjects in two shards give a subject with and one without a
shard-mate; three receipts give one that is before and one that is after a damaged line.
Two moves bring another subject's copy and hide it, or take it away, at any point, the time
after the receipt included. In `lineage_trace` two documents are the smallest number with
a shared chunk, a derived document or an answer made of two subjects' chunks, and two threads
interleave their captures with each other and with the erasure. Two keys and two versions in
`faiss_store` give a survivor of a rebuild and an overwritten vector; `retrieval_engines`
needs a second key for the survivor. The entry points share nothing but the graph and the
ended traces, so tools, page, and terminal with `api.forget` have an initial state each.

Violation runs check one documented statement that the code does not keep; each is a
finding in `PROJECT.json`:

| run | statement | counterexample |
|---|---|---|
| `training_lost_update` (`DatasetStaysErased`) | VERIFIED rows stay erased | two sagas of one shard: the slower writes back the row the other dropped |
| `lineage_cache_reuse` (`NoUntracedCopy`) | one cache node with an edge from every parent chunk | a question is answered again from another chunk of the same subject: the node is reused and gets no edge, and a second subject whose document shares that chunk cannot reach the answer |
| `retrieval_qdrant_server` (`VerifiedMeansGone`) | PHYSICAL means that the files were scanned | a server whose snapshots can be listed has the capability, but no file to scan: VERIFIED(physical) with the vector still in its segment |

### What is conditional, and what happens outside the condition

* `EndedSagasLeaveNothing` assumes for the pins that no step fails: a dead-lettered step with
  an effect is not re-pinned, and the retry is refused with `PinMismatch`. For the snapshots it
  leaves out one kill, that between `saga_end` and `finalize` (`late`): such a run is never
  resumed, so a snapshot of the subject's texts stays. All other kills are in.
* `EndedByLastReceipt` is checked for one process: a second run of one open saga may append
  its receipt after the first has ended the saga. A kill between the append and `saga_end` is in:
  the resumed run appends another receipt and ends with that one.
* `FirstSagaEnds` assumes no capture (it would make the trace stale for ever, as
  intended) and an operator who resumes with reclaim: one who resumes with `--no-reclaim`
  after a kill in mid-reclaim is refused each time (Hard Rule 6).
* `NoReceiptMidStep` is checked for one process: two runs of one open saga do not see
  each other's steps between the check and the append.
* `AckedKept` allows one lost record: the one written behind a line whose newline was cut
  off, which glues the two together.
* `KillsDoNotMatter` leaves out a store that is reclaimed after it was verified (first run
  `--no-reclaim`, killed before its receipt, resumed with reclaim): the old verdict stays.
  `VerifiedIsTrue` holds there too. It allows both answers at the semantic level
  after a kill: the neighbourhood to compare with was in the memory of the dead run
  (saga.py:258).
* `VerifiedIsTrue` and `SecondOpinionsAgree` leave out an adapter without any extraction
  prompt one of whose steps raised (`bool(None)`, saga.py:633). The independent verifier is
  also excused while another subject's copy is hidden with its bytes still there: it takes
  them for this artifact's.
* `ReplayAgreesUnlessRaised` leaves out sagas one of whose steps raised.
* `ReclaimForgets` leaves out subjects one of whose steps failed (a dead-lettered dataset
  does not stop the adapter's retrain). Every property of the training stores is
  checked with one saga at a time; the lost update of two is `training_lost_update`.
* `NoUntracedCopy` counts an entry of the exact cache once its key is in the side table: one
  written and not yet listed, or killed there, is invisible to trace and gaps. It is checked
  with each document and question used once (`Repeats`); repeated questions are
  `lineage_cache_reuse`. No id is given to two texts (`NamedApart`).
* `VerifiedStaysGone` leaves out what a thread had captured before the verification
  and writes after it, and what is captured again.
* `AnswersForItself` leaves out histories in which an add was killed between its index and its
  records (the id is given out again); `VerifiedBytesGone` a key that was rewritten with
  another text than the one its lineage fingerprinted.
* `NoneLost` leaves out a collection's rewrite that was killed before its survivors were
  back, or into which the application wrote: the survivors are in memory only.
* `TombstonedNotServed` has one wrapper for each thread.
* `ErasesWhatWasShown` holds of every erasure, but says less of a call of `tool_forget` whose
  entry in `_SHOWN` another call for the same subject and reason, or a restart, has replaced or
  removed (`disturbed`): the trace erased is then the same subject's, in the graph as it is and
  without gaps, and it differs from the one shown only where that one was out of date or had gaps.

### Disagreements found by reading and by earlier runs, without a run here

Modelled, so that another instance or property shows them:

* Two receipts issued at once name the same predecessor (saga.py:413 reads the head before
  the append takes the lock), and the independent check rejects one of them; no failure is needed.
* A killed retry saga is never found again: `saga_for_trace` returns the first (journal.py:172).
* The dead letters of a run are a local variable (saga.py:248) while their record is permanent:
  a reclaim that is dead-lettered in a run that is then killed, and succeeds in the resumed
  one, gets `verified` from the saga and `dlq` from replay. A kill between the ledger append
  and `saga_end` (saga.py:426) leaves a receipt that replay cannot attribute.
* A verification that raises before its model probe: `model_unprobed` in the receipt,
  VERIFIED(physical) in replay.
* A shard's original hash is kept for ever (adapter.py:239): its next subject is only suppressed,
  and VERIFIED. A retrain for somebody else recomposes an excluded shard
  back in (unlearn.py:90).
* Threads that share one langchain wrapper can keep a stale set of tombstones as current
  (langchain.py:175; `Shared = TRUE`).
* `tool_forget` "erases exactly what that confirmation listed" (_tools.py:199). After a second
  call for the same subject and reason, or a restart, it erases a newer trace of that subject
  than the one listed (`disturbed`).
* A kill between `saga_end` and `finalize` (saga.py:429) leaves the snapshot: the closed saga is
  not resumed (`late`).
* A Pinecone probe does not know that the index has not settled yet (pinecone.py:250).
* Two documents of one key and different texts: `prepare_embeds` keeps the embedding's node and
  adds no edge from the new chunk (capture.py:149), so the second document's subject does not reach the
  vector (`NoUntracedCopy` is violated as soon as `Docs` holds two such documents).

Not modelled: pins and captures of several traces while a saga is down (saga.py:130, :335,
:357), threads that share the adapter store's context (adapter.py:208), a retrain that
overwrites another process's state (adapter.py:260), two processes with stale copies of one
FAISS index (faiss.py:92), and the re-ingestion of a closed trace's documents with the same
graph hash (saga.py:234).

### Fairness and deadlock

`saga_resume` assumes weak fairness of a run's next step (a process that is not killed goes
on) and of `Launch` (the operator runs the command again). Strong fairness is not
needed: nothing disables a run's step for good. `ledger_chain` assumes weak fairness of
each process's steps only, not of the lock: `file_lock` polls until a deadline, so
`Timeout` is what ends the wait of a process that loses every race. `faiss_store` assumes
weak fairness of opening and persisting, which are one thread's consecutive steps, and
strong fairness of the erasure of a key that was asked for and of its probe: other
operations of the adapter disable them again and again, and the operator, who resumes
until a receipt is there, tries again. No fairness is assumed of writes or deletes.

`CHECK_DEADLOCK FALSE` throughout: a system in which every saga has ended and the bounds
on faults are used up rightly stops.

## 4. The theorems

Every theorem is about `Spec` with its constants left open: any sets of processes, threads,
subjects, keys, documents, questions and stores, any bounds on faults. What is assumed of them
are the named ASSUMEs of the modules, which say that sets are of the right kind and that
bounds are numbers, and the hypotheses below, each of which a run or an experiment shows to be
needed. No property is inductive as it stands; each module therefore has an inductive
invariant (`IndInv`; in `StatusLatticeProofs` `SLInv` and `KInv`), checked by TLC on the instance of the component's run before it was proved, and one lemma per action, or per group of
actions that leave the same things alone.

| module | theorem | property | hypotheses |
|---|---|---|---|
| `ErasureSagaProofs` | `TypeCorrect`, `SuppressionFirst`, `VerifiedIsRight` | `TypeOK`, `SuppressBeforeReclaim`, `VerifiedIsErased` | |
| | `ReceiptBeforeEnd` | (`ClosedHasReceipt`, which is in no run: the next says more of one process) | |
| | `OneOperatorEndsOnce` | `EndedByLastReceipt` | `OneOperator` |
| | `SagaImplementsErasure` | `ImplementsErasure` | |
| | `NoStepIsCutByAReceipt` | `NoReceiptMidStep` | `OneOperator` |
| | `OneOperatorLeavesNothing` | `EndedSagasLeaveNothing` | `OneOperator`, `SameStores` |
| `ReceiptLedgerProofs` | `LedgerTypeCorrect`, `ChainIsLinked`, `AlarmsAreTrue`, `AtMostOneIsLost` | `TypeOK`, `Linked`, `NoFalseAlarm`, `AckedKept` | |
| `StatusLatticeProofs` | `TypeCorrect`, `VerifiedTrue`, `SecondOpinions`, `ReplayAgrees`, `KillsAreHarmless` | `TypeOK`, `VerifiedIsTrue`, `SecondOpinionsAgree`, `ReplayAgreesUnlessRaised`, `KillsDoNotMatter` | |
| `EntryPointsProofs` | `TypeCorrect`, `AdaptersAreOne`, `ConfirmedIsErased` | `TypeOK`, `OneAdapter`, `ErasesWhatWasShown` | |
| `RetrievalProofs` | `TypeCorrect`, `VerifiedStaysGone`, `OthersAreSpared`, `EnginesKeepThePromise` | `TypeOK`, `VerifiedGone`, `NoneLost`, `KeepsPromise` | |
| | `TombstonesAreHonoured` | `TombstonedNotServed` | `~Shared` |
| `FaissStoreProofs` | `TypeCorrect`, `VectorsAnswerForThemselves`, `VerifiedStaysGone`, `FilesKeepThePromise` | `TypeOK`, `AnswersForItself`, `VerifiedBytesGone`, `ImplementsErasableStore` | `OneAdapter` |
| `TrainingStoresProofs` | `TypeCorrect` | `TypeOK` | |
| | `DatasetErasureLasts`, `UnlearningLasts`, `ErasingCostsOthersNothing` | `DatasetStaysErased`, `ReclaimForgets`, `OthersUnharmed` | `OneAtATime` |
| `LineageProofs` | `TypeCorrect` | `TypeOK` | |
| | `EveryCopyIsTraced`, `NoFalseAlarm`, `ErasedStaysGone`, `ErasureSparesOthers` | `NoUntracedCopy`, `GapsAreReal`, `VerifiedStaysGone`, `OthersSpared` | `NamedApart`, `~Repeats` |

### The hypotheses

* `OneOperator`, `SameStores`: one process runs the command, and it is configured alike every
  time. Two operators reclaim and re-pin behind each other's back, and a store that is missing from the
  configuration is neither re-pinned nor released. Kills, failing steps, resumption, retries
  and both values of `--no-reclaim` are all in. `NoStepIsCutByAReceipt`
  and `OneOperatorEndsOnce` need the first only: a second process may begin a step between the
  check and the append, or append its receipt after the first has ended the saga.
* `~Shared`: a langchain wrapper for each thread; threads that share one can keep a stale set of
  tombstones (`TombstonedNotServed` is then violated).
* `OneAdapter`: one adapter has the FAISS files open. `EntryPoints` shows that of one Runtime; two
  processes overwrite each other's files.
* `OneAtATime`: `training_lost_update` is the counterexample without it.
* `~Repeats`: `lineage_cache_reuse` is the counterexample without it. `NamedApart`: with two documents of
  one key TLC finds `NoUntracedCopy` violated.

### The invariants

*Saga.* A reclaim begins because of where a run *is*, not because of what the journal holds.
`IndInv` adds `Local(p)`, what a run's position says of the journal (`Behind`: a configured
store it has left behind is dead-lettered in memory or durably suppressed; `Worked`; `Judged`;
`Recorded`; `Placed`), and `Journaled`, what the journal says of the world. Nearly every action
leaves the other processes' part alone because nothing they rely on is taken back (`Grows`,
`OtherRuns`). The refinement needs `Worked` and `Journaled`: a store is reclaimed only when it
is no longer live. For one process there are three more: `Ending` (a run is in an
open saga until its `saga_end`, and what it is about to write there is the last receipt of the
ledger), `Pinning` (while no step has failed, a store that differs from its pin is one that the
only run there is has still to pin) and `Releasing` (the snapshots are of configured stores and,
unless a run was killed before `finalize`, belong to a saga that has not ended or to a run that is
about to drop them).

*Ledger.* Mutual exclusion (`Exclusive`), the shape of the file with its torn tail (`FileLinked`),
the fit between a writer's record and the file it was composed for (`Fits`), and acknowledged
records in an undamaged file (`Kept`, `Audited`), which makes "missing" a true alarm.
`AllButOne` is needed for `AckedKept`: what counts is not what was acknowledged but what
will be, so it also speaks of a writer that has its line in the file and not yet its newline.

*Lattice.* The journal is a sequence and the facts a fold over it, so `SLInv` speaks of what a
saga or replay would be told *now*: `Reading` (the two readers, started from the same, have been told
alike, whatever records came in whatever order) and `Truth` (a level of which the last word is "not found" is
one at which nothing is to be found: every record says so truthfully when it is written, nothing that is gone
comes back, and a removal leaves a copy behind only of bytes that were still there, which that scan
would have found). Both grow by one record at a time (`ReadingOnce`, `TruthOnce`), after `ToldStages` has shown that the recursive
function is one for every number of records. What a step that raises breaks is kept apart: until then
(`Smoothly`) there is one saga, no dead letter, and a closed saga's receipt says what its journal does
(`GoodRun`, `Measured`), which is what ties replay to the receipt. For the kills, `KInv` adds
that the steps end in their order and none is begun twice (`Steady`), so that from its first probe on a
level stays as it was found unless others move (`Frozen`, `Current`); that an earlier run's baseline
still counts right (`Compared`); and, for the semantic level, that without a fault there is one
run, whose receipt is never refused (`Unfailing`). An uninterrupted verification's facts are then computed level by
level (`FreshFields`) and compared with what the saga knows.

*Entry points.* Whoever builds holds the lock and a built store is built once (`Opening`); what is shown is of
the subject that was named (`Named`); what a tool's client was shown is what is remembered until
somebody disturbs it (`Undisturbed`), which turns a statement about the moment of an
erasure into one about the whole wait for an answer; and the page's request and the command's
trace are what was shown (`PageHonest`, `CommandHonest`).

*Retrieval.* `Roles` and `InOrder` tie a call's step to its engine and its tombstone. `Current` follows the
retriever's five steps: a cache with the lineage's number has every tombstone, one that is being
renewed has an older number until it is stamped. `Gone` must speak of the survivors in memory as well
as of the files, since a refill puts them back, and `Spared` of what is in the table or in
memory, depending on the step of a rewrite. `EnginesKeepThePromise` shows, engine by engine, that
each step outside a rewrite is one of `ErasableStore` or a stutter.

*FAISS.* `Together` says of one index with one set of records that each record's last vector is its own,
ids are apart and below the next one, and nothing verified is in either. It holds of the
files *and* of the adapter's copy, and of the copy's index with the files' records, since a kill may
leave just that. `Copy` says how the copy and the files differ in each of the seven steps;
the refinement follows from it.

*Training stores.* `InStep` says that what a saga read and has not written back is still so (the
statement that two sagas break), `Passed` and `Logged` what its plan and its journal say of the
files, and `Owed` that a shard lacks somebody only while a saga that began has still to retrain it.

*Lineage.* The graph is exactly the lineage of the captured documents and cached answers (`GraphInv`),
and what is in a store is of a captured document, or an answer whose every chunk has an edge, or an
exact answer that nothing knows of (`Holds`). `Answers(p)` says of each thread's position what the graph
knows of its answer already: the two caches differ here. `Touches` bounds what a trace can
reach, `Gone` what a verified trace leaves. That the search finds what is linked is shown for the
recursive function `Reached` (`ReachedLevels`): a longest chain is sources,
chunk, entry, so the third level has everything. Induction over levels goes through the
least counterexample (`LeastNumber`), as the library's induction rules take operators that
the provers here cannot instantiate.

### Only model-checked

* Liveness (`FirstSagaEnds`, `CallsReturn`, `ErasuresEnd`): it rests on fairness and ENABLED,
  which the prover does not handle.
* `ErasableStore` and `Erasure` have no properties of their own; what implements them is proved.

## 5. Not modelled

* Signatures and canonical JSON: hashes are ideal. The bit patterns of a physical scan and the
  arithmetic of the semantic drift: measurements are what the rules compare.
* The unsharded adapter (approximate unlearning), the membership test, canaries and the
  training itself: numerical.
* `lineage/stamp.py` (lineage for what was stored before the wrapper), and mentions of other
  subjects in a text.
* The langgraph memory: notes in a dict of the process, captured as the retriever captures
  documents; nothing survives the process.
* Configuration, rendering, `scan`, `init` and other one-shot commands; HTTP and the MCP
  protocol; the CLI's output. The measurements under `bench/`.
* Drivers of external services: an engine is what its adapter relies on.

## 6. Plan

Done: every module of section 2 with its runs, and the proofs of every invariant that the runs
check, of the action properties `SuppressBeforeReclaim`, `VerifiedIsErased` and `OthersSpared`, and of
the refinements of `Erasure` and `ErasableStore`. Next, in order:

1. `FirstSagaEnds`, `CallsReturn` and `ErasuresEnd` rest on "some step is enabled until the end": that
   part is not temporal and can be stated as an invariant and proved.
2. The theorems with a hypothesis (`OneOperator`, `OneAtATime`, `~Repeats`, `~Shared`), for what remains
   true without it: what one operator's part of the journal still says when there are two.
3. Second instances for the disagreements listed above, and for two operators.
