--------------------------- MODULE TrainingStores ---------------------------
(***************************************************************************)
(* The training data and the sharded adapters trained on it, as the sagas   *)
(* of several subjects erase them: dataset.py, adapter.py (exact            *)
(* unlearning), unlearn.py and ensemble.py, driven by the phases of         *)
(* saga.py.  All of it lives in files that a saga reads, and later writes   *)
(* back whole: the manifest, the rows of a shard, the adapter's state file, *)
(* the weights of a shard, the serving manifest.                            *)
(*                                                                         *)
(* Each subject has one example.  Training is deterministic (a fixed seed), *)
(* so what a shard's weights are, and so their hash, is the set of subjects *)
(* it was trained on; a shard trained on nobody has no adapter.  Extraction *)
(* is idealised: it finds a subject iff a served shard was trained on it.   *)
(***************************************************************************)
EXTENDS Naturals, Sequences, FiniteSets

CONSTANTS
    Subjects,      \* the subjects, by the integer that stable_int_hash makes of them
    Shards,        \* number of shards
    AdapterFirst,  \* does the adapter's store name sort before the dataset's?
    MaxRunning,    \* sagas that run at once, as threads of one Runtime
    MaxFaults,     \* bound on failing steps and kills
    Nobody         \* no subject

ASSUME TrainingAssumption ==
    /\ Subjects \subseteq Nat
    /\ Shards \in Nat \ {0}
    /\ AdapterFirst \in BOOLEAN
    /\ MaxRunning \in Nat /\ MaxFaults \in Nat
    /\ Nobody \notin Subjects

shard_for(s) == s % Shards
ShardIds == 0..(Shards - 1)
InShard(k) == {s \in Subjects : shard_for(s) = k}

Dataset == "dataset"
Adapter == "adapter"
Stores == {Dataset, Adapter}
Phases == {"suppress", "reclaim", "verify"}
First == IF AdapterFirst THEN Adapter ELSE Dataset
Second == IF AdapterFirst THEN Dataset ELSE Adapter

\* The steps of Saga.run; stores in the order of their names.
Plan == << <<"suppress", First>>, <<"suppress", Second>>,
           <<"reclaim", First>>, <<"reclaim", Second>>,
           <<"verify", First>>, <<"verify", Second>> >>
Receipt == Len(Plan) + 1
Finalize == Len(Plan) + 2

VARIABLES
    entries,   \* manifest.json: what it says of each example
    rows,      \* the examples in the shard-NN.jsonl files
    weights,   \* what each shard adapter was trained on
    state,     \* tombstone-state.json
    serving,   \* the shards in serving.json
    context,   \* the trace the adapter store works for (set_context)
    log,       \* the journal of the subject's (last) saga
    receipt,   \* what the subject's receipt says
    run,       \* the saga of the subject as it runs
    clumsy,    \* (history) subjects one of whose steps failed
    faults

dataVars == <<entries, rows>>
modelVars == <<weights, state, serving>>
vars == <<dataVars, modelVars, context, log, receipt, run, clumsy, faults>>

Snapshots == {"absent", "empty", "texts"}
States == [excluded: SUBSET ShardIds,
           original: [ShardIds -> SUBSET SUBSET Subjects],  \* the hash, if any
           forget: [Subjects -> Snapshots]]
EmptyState == [excluded |-> {}, original |-> [k \in ShardIds |-> {}],
               forget |-> [s \in Subjects |-> "absent"]]
EntryStates == {"live", "suppressed", "gone"}
AllLive == [s \in Subjects |-> "live"]

Rules == {"none", "verified", "logical_fail", "logical_unprobed", "physical_fail",
          "model_unprobed", "dlq"}
Unprobed == [st \in Stores |-> "none"]
Steps == Phases \X Stores
Logs == [saga: {"none", "open", "ended"}, begun: SUBSET Steps, ended: SUBSET Steps,
         ok: SUBSET Steps, verdict: [Stores -> Rules]]
NoLog == [saga |-> "none", begun |-> {}, ended |-> {}, ok |-> {}, verdict |-> Unprobed]
NoReceipt == [rule |-> Unprobed, reclaimed |-> FALSE]

PCs == {"ready", "manifest", "rows", "state", "train", "compose", "save"}
Runs == [at: 0..Finalize, pc: PCs, reclaim: BOOLEAN, dlq: SUBSET Stores,
         man: [Subjects -> EntryStates], texts: SUBSET Subjects, st: States]
Stopped == [at |-> 0, pc |-> "ready", reclaim |-> FALSE, dlq |-> {},
            man |-> AllLive, texts |-> {}, st |-> EmptyState]

Init ==
    /\ entries = AllLive
    /\ rows = Subjects
    /\ weights = [k \in ShardIds |-> InShard(k)]
    /\ state = EmptyState
    /\ serving = {k \in ShardIds : InShard(k) # {}}
    /\ context = Nobody
    /\ log = [s \in Subjects |-> NoLog]
    /\ receipt = [s \in Subjects |-> NoReceipt]
    /\ run = [s \in Subjects |-> Stopped]
    /\ clumsy = {}
    /\ faults = 0

----------------------------------------------------------------------------
(* The files                                                               *)

\* Shards that have an adapter, and what the served ones know.
Trained == {k \in ShardIds : weights[k] # {}}
Served == UNION {weights[k] : k \in serving}

\* Faulty variant: suppressed examples are read too.
FaultyExamples(k) == rows \cap InShard(k)

\* shard_examples, as the trainer reads them.
Examples(k) == {s \in rows \cap InShard(k) : entries[s] = "live"}

\* Faulty variant: the exclusions on file still count.
FaultyComposed(excluded) == Trained \ (excluded \cup state.excluded)

\* write_serving_manifest: the adapters there are, but for the excluded ones.
Composed(excluded) == Trained \ excluded

\* _snapshot_forget_texts, for the trace in the store's context.
Snapshot == IF entries[context] # "gone" /\ context \in rows THEN "texts" ELSE "empty"

\* AdapterStore.suppress: what becomes of the state that was read.
AfterSuppress(st, s) ==
    LET k == shard_for(s)
    IN  [st EXCEPT !.excluded = @ \cup {k},
                   !.original[k] = IF @ = {} THEN {weights[k]} ELSE @,
                   !.forget[context] = IF @ = "absent" THEN Snapshot ELSE @]

----------------------------------------------------------------------------
(* The saga                                                                *)

Running == {s \in Subjects : run[s].at # 0}
InPlan(s) == run[s].at \in DOMAIN Plan
Step(s) == Plan[run[s].at]

\* Faulty variant: the step after it is passed over too.
FaultyOnwards(r) == [r EXCEPT !.at = @ + 2, !.pc = "ready", !.man = AllLive, !.texts = {},
                              !.st = EmptyState]

\* The run goes on to its next step and forgets what it had read.
Onwards(r) == [r EXCEPT !.at = @ + 1, !.pc = "ready", !.man = AllLive, !.texts = {},
                        !.st = EmptyState]

\* Nothing to do: the step is in the journal, its store is dead-lettered, or
\* reclaim is off.
Skipped(s) ==
    \/ Step(s) \in log[s].ok
    \/ Step(s)[1] # "suppress" /\ Step(s)[2] \in run[s].dlq
    \/ Step(s)[1] = "reclaim" /\ ~run[s].reclaim

\* The saga is to take this step, or is at pc in the middle of it.
Ready(s, phase, st) ==
    InPlan(s) /\ Step(s) = <<phase, st>> /\ run[s].pc = "ready" /\ ~Skipped(s)
IsAt(s, phase, st, pc) ==
    InPlan(s) /\ Step(s) = <<phase, st>> /\ run[s].pc = pc

\* step_begin, and what the step reads first.
StepBegins(s, r) ==
    /\ log' = [log EXCEPT ![s].begun = @ \cup {Step(s)}]
    /\ run' = [run EXCEPT ![s] = r]
    /\ UNCHANGED <<receipt, context, clumsy, faults>>

StepGoesOn(s, r) ==
    /\ run' = [run EXCEPT ![s] = r]
    /\ UNCHANGED <<log, receipt, context, clumsy, faults>>

StepEnds(s, verdict) ==
    /\ log' = [log EXCEPT ![s].begun = @ \cup {Step(s)}, ![s].ended = @ \cup {Step(s)},
                          ![s].ok = @ \cup {Step(s)}, ![s].verdict = verdict]
    /\ run' = [run EXCEPT ![s] = Onwards(@)]
    /\ UNCHANGED <<receipt, context, clumsy, faults>>

\* The step raises: its end is journaled, and its store dead-lettered (verify's is not).
Condemned(s) == IF Step(s)[1] = "verify" THEN {} ELSE {Step(s)[2]}
StepFails(s) ==
    /\ log' = [log EXCEPT ![s].begun = @ \cup {Step(s)}, ![s].ended = @ \cup {Step(s)}]
    /\ run' = [run EXCEPT ![s] =
         [Onwards(run[s]) EXCEPT !.dlq = run[s].dlq \cup Condemned(s)]]
    /\ clumsy' = clumsy \cup {s}
    /\ UNCHANGED <<receipt, context>>

\* run_erase of a trace that has no receipt, or a retry of one with dead letters.
Start(s) ==
    /\ run[s].at = 0
    /\ Cardinality(Running) < MaxRunning
    /\ \/ /\ log[s].saga # "ended"
          /\ log' = [log EXCEPT ![s].saga = "open"]
       \/ /\ log[s].saga = "ended"
          /\ \E st \in Stores : receipt[s].rule[st] = "dlq"
          /\ log' = [log EXCEPT ![s] = [NoLog EXCEPT !.saga = "open"]]
    /\ \E reclaim \in BOOLEAN :
          run' = [run EXCEPT ![s] = [Stopped EXCEPT !.at = 1, !.reclaim = reclaim]]
    /\ context' = s
    /\ UNCHANGED <<dataVars, modelVars, receipt, clumsy, faults>>

PassOver(s) ==
    /\ InPlan(s) /\ run[s].pc = "ready" /\ Skipped(s)
    /\ StepGoesOn(s, Onwards(run[s]))
    /\ UNCHANGED <<dataVars, modelVars>>

----------------------------------------------------------------------------
(* DatasetStore                                                            *)

ReadManifest(s) ==
    /\ Ready(s, "suppress", Dataset) \/ Ready(s, "reclaim", Dataset)
    /\ StepBegins(s, [run[s] EXCEPT !.pc = "manifest", !.man = entries])
    /\ UNCHANGED <<dataVars, modelVars>>

\* suppress: the manifest that was read is written back with the mark.
MarkSuppressed(s) ==
    /\ IsAt(s, "suppress", Dataset, "manifest")
    /\ entries' = [run[s].man EXCEPT ![s] = IF @ = "live" THEN "suppressed" ELSE @]
    /\ StepEnds(s, log[s].verdict)
    /\ UNCHANGED <<rows, modelVars>>

\* reclaim rewrites the shard file of an example the manifest knows.
ReadRows(s) ==
    /\ IsAt(s, "reclaim", Dataset, "manifest")
    /\ run[s].man[s] # "gone"
    /\ StepGoesOn(s, [run[s] EXCEPT !.pc = "rows", !.texts = rows \cap InShard(shard_for(s))])
    /\ UNCHANGED <<dataVars, modelVars>>

DropRow(s) ==
    /\ IsAt(s, "reclaim", Dataset, "rows")
    /\ rows' = (rows \ InShard(shard_for(s))) \cup (run[s].texts \ {s})
    /\ StepGoesOn(s, [run[s] EXCEPT !.pc = "save"])
    /\ UNCHANGED <<entries, modelVars>>

DropEntry(s) ==
    /\ \/ IsAt(s, "reclaim", Dataset, "save")
       \/ IsAt(s, "reclaim", Dataset, "manifest") /\ run[s].man[s] = "gone"
    /\ entries' = [run[s].man EXCEPT ![s] = "gone"]
    /\ StepEnds(s, log[s].verdict)
    /\ UNCHANGED <<rows, modelVars>>

----------------------------------------------------------------------------
(* AdapterStore, exact unlearning                                          *)

ReadState(s) ==
    /\ Ready(s, "suppress", Adapter) \/ Ready(s, "reclaim", Adapter)
    /\ StepBegins(s, [run[s] EXCEPT !.pc = "state", !.st = state])
    /\ UNCHANGED <<dataVars, modelVars>>

\* suppress: snapshot the texts, write the state, ...
MarkExcluded(s) ==
    /\ IsAt(s, "suppress", Adapter, "state")
    /\ state' = AfterSuppress(run[s].st, s)
    /\ StepGoesOn(s, [run[s] EXCEPT !.pc = "compose", !.st = state'])
    /\ UNCHANGED <<dataVars, weights, serving>>

\* ... and serve without the excluded shards, if any is left.
Hide(s) ==
    /\ IsAt(s, "suppress", Adapter, "compose")
    /\ LET shown == Composed(run[s].st.excluded)
       IN  \/ /\ Trained = {} \/ shown # {}
              /\ serving' = IF Trained = {} THEN serving ELSE shown
              /\ StepEnds(s, log[s].verdict)
           \/ /\ Trained # {} /\ shown = {}
              /\ StepFails(s)
              /\ UNCHANGED <<serving, faults>>
    /\ UNCHANGED <<dataVars, weights, state>>

\* reclaim, exact_unlearn: read what is left, remove the adapter, ...
DropWeights(s) ==
    LET k == shard_for(s)
    IN  /\ IsAt(s, "reclaim", Adapter, "state")
        /\ weights' = [weights EXCEPT ![k] = {}]
        /\ StepGoesOn(s, [run[s] EXCEPT !.pc = "train", !.texts = Examples(k)])
        /\ UNCHANGED <<dataVars, state, serving>>

\* ... train it again, ...
Train(s) ==
    /\ IsAt(s, "reclaim", Adapter, "train")
    /\ weights' = [weights EXCEPT ![shard_for(s)] = run[s].texts]
    /\ StepGoesOn(s, [run[s] EXCEPT !.pc = "compose"])
    /\ UNCHANGED <<dataVars, state, serving>>

\* ... serve every adapter there is, ...
Recompose(s) ==
    /\ IsAt(s, "reclaim", Adapter, "compose")
    /\ \/ /\ Composed({}) # {}
          /\ serving' = Composed({})
          /\ StepGoesOn(s, [run[s] EXCEPT !.pc = "save"])
       \/ /\ Composed({}) = {}
          /\ StepFails(s)
          /\ UNCHANGED <<serving, faults>>
    /\ UNCHANGED <<dataVars, weights, state>>

\* ... and write the state back: the shard is no longer excluded.
Readmit(s) ==
    /\ IsAt(s, "reclaim", Adapter, "save")
    /\ state' = [run[s].st EXCEPT !.excluded = @ \ {shard_for(s)}]
    /\ StepEnds(s, log[s].verdict)
    /\ UNCHANGED <<dataVars, weights, serving>>

----------------------------------------------------------------------------
(* Verification, the receipt, and what goes wrong                          *)

\* Faulty variant: the manifest is asked, the shard files are not.
FaultyVerifyDataset(s) ==
    /\ Ready(s, "verify", Dataset)
    /\ LET rule == IF entries[s] = "live" THEN "logical_fail" ELSE "verified"
       IN  StepEnds(s, [log[s].verdict EXCEPT ![Dataset] = rule])
    /\ UNCHANGED <<dataVars, modelVars>>

VerifyDataset(s) ==
    /\ Ready(s, "verify", Dataset)
    /\ LET rule == IF entries[s] = "live" THEN "logical_fail"
                   ELSE IF s \in rows THEN "physical_fail" ELSE "verified"
       IN  StepEnds(s, [log[s].verdict EXCEPT ![Dataset] = rule])
    /\ UNCHANGED <<dataVars, modelVars>>

\* Extraction has the prompts of the trace in context, and loads what is served.
Prompts == state.forget[context] = "texts"
Unchanged(k) == weights[k] # {} /\ weights[k] \in state.original[k]

\* assign, of an adapter: without prompts the logical probe counts as passed,
\* and it is the model rule that says so.
AdapterRule(s) ==
    IF Prompts /\ context \in Served THEN "logical_fail"
    ELSE IF Unchanged(shard_for(s)) THEN "physical_fail"
    ELSE IF ~Prompts THEN "model_unprobed" ELSE "verified"

VerifyAdapter(s) ==
    /\ Ready(s, "verify", Adapter)
    /\ \/ /\ Prompts => serving \subseteq Trained
          /\ StepEnds(s, [log[s].verdict EXCEPT ![Adapter] = AdapterRule(s)])
       \/ /\ ~(Prompts => serving \subseteq Trained)
          /\ StepFails(s)
          /\ UNCHANGED faults
    /\ UNCHANGED <<dataVars, modelVars>>

InProgress(s) == log[s].begun # log[s].ended

WriteReceipt(s) ==
    /\ run[s].at = Receipt
    /\ ~InProgress(s)
    /\ receipt' = [receipt EXCEPT ![s] =
         [rule |-> [st \in Stores |->
                      IF st \in run[s].dlq THEN "dlq"
                      ELSE IF log[s].verdict[st] = "none" THEN "logical_unprobed"
                      ELSE log[s].verdict[st]],
          reclaimed |-> run[s].reclaim /\ <<"reclaim", Adapter>> \in log[s].ok]]
    /\ log' = [log EXCEPT ![s].saga = "ended"]
    /\ run' = [run EXCEPT ![s] = Onwards(@)]
    /\ UNCHANGED <<dataVars, modelVars, context, clumsy, faults>>

\* Hard Rule 6: a step that began in an earlier run has not ended.
RefuseReceipt(s) ==
    /\ run[s].at = Receipt
    /\ InProgress(s)
    /\ StepGoesOn(s, Stopped)
    /\ UNCHANGED <<dataVars, modelVars>>

\* finalize reads the state and writes it back without any snapshot.
Release(s) ==
    /\ run[s].at = Finalize
    /\ \/ /\ run[s].pc = "ready"
          /\ StepGoesOn(s, [run[s] EXCEPT !.pc = "state", !.st = state])
          /\ UNCHANGED state
       \/ /\ run[s].pc = "state"
          /\ state' = [run[s].st EXCEPT !.forget = EmptyState.forget]
          /\ StepGoesOn(s, Stopped)
    /\ UNCHANGED <<dataVars, weights, serving>>

\* A step raises wherever it is: out of memory, disk full, a manifest that
\* cannot be parsed.
Fail(s) ==
    /\ InPlan(s)
    /\ run[s].pc # "ready" \/ (Step(s)[1] = "verify" /\ ~Skipped(s))
    /\ faults < MaxFaults
    /\ faults' = faults + 1
    /\ StepFails(s)
    /\ UNCHANGED <<dataVars, modelVars>>

\* The run is killed; its saga stays open.
Crash(s) ==
    /\ run[s].at # 0
    /\ faults < MaxFaults
    /\ faults' = faults + 1
    /\ run' = [run EXCEPT ![s] = Stopped]
    /\ UNCHANGED <<dataVars, modelVars, context, log, receipt, clumsy>>

Go(s) ==
    \/ PassOver(s)
    \/ ReadManifest(s) \/ MarkSuppressed(s) \/ ReadRows(s) \/ DropRow(s) \/ DropEntry(s)
    \/ ReadState(s) \/ MarkExcluded(s) \/ Hide(s)
    \/ DropWeights(s) \/ Train(s) \/ Recompose(s) \/ Readmit(s)
    \/ VerifyDataset(s) \/ VerifyAdapter(s)
    \/ WriteReceipt(s) \/ RefuseReceipt(s) \/ Release(s)

Next == \E s \in Subjects : Start(s) \/ Go(s) \/ Fail(s) \/ Crash(s)

Spec == Init /\ [][Next]_vars

----------------------------------------------------------------------------
(* Properties                                                              *)

TypeOK ==
    /\ entries \in [Subjects -> EntryStates]
    /\ rows \subseteq Subjects
    /\ weights \in [ShardIds -> SUBSET Subjects]
    /\ state \in States
    /\ serving \subseteq ShardIds
    /\ context \in Subjects \cup {Nobody}
    /\ log \in [Subjects -> Logs]
    /\ receipt \in [Subjects -> [rule: [Stores -> Rules], reclaimed: BOOLEAN]]
    /\ run \in [Subjects -> Runs]
    /\ clumsy \subseteq Subjects
    /\ faults \in 0..MaxFaults

\* A receipt that says VERIFIED of the dataset stays right, whatever other
\* subjects' sagas rewrite afterwards: the example is in no shard file and is
\* not offered to the trainer.
DatasetStaysErased ==
    \A s \in Subjects :
        receipt[s].rule[Dataset] = "verified" => s \notin rows /\ entries[s] # "live"

\* Exact unlearning unlearns: once a saga none of whose steps failed has
\* retrained the subject's shard, the subject is not in its weights, and no
\* later retrain, for whomever, brings it back; the order of the two stores and
\* the subject's rows that are still on disk do not matter.
ReclaimForgets ==
    \A s \in Subjects \ clumsy :
        <<"reclaim", Adapter>> \in log[s].ok => s \notin weights[shard_for(s)]

\* A shard that is retrained for one subject keeps what it knows of those
\* nobody erases.
OthersKept ==
    \A s \in Subjects :
        log[s].saga = "none" =>
            LET k == shard_for(s) IN weights[k] = {} \/ s \in weights[k]

\* Once all that was begun was carried through, exclusions are over.
OthersServed ==
    (\A s \in Subjects :
        \/ log[s].saga = "none"
        \/ log[s].saga = "ended" /\ run[s].at = 0 /\ receipt[s].reclaimed)
    => \A s \in Subjects : log[s].saga = "none" => s \in Served

\* An erasure costs the subjects nobody erases nothing: the shards know them
\* throughout, and the ensemble that is served has them again when all is done.
OthersUnharmed == OthersKept /\ OthersServed
============================================================================
