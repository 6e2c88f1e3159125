------------------------ MODULE TrainingStoresProofs ------------------------
(***************************************************************************)
(* What erasing subjects from the training data and the sharded adapters     *)
(* guarantees for any number of subjects, shards, failures and kills, proved *)
(* with TLAPS: type correctness for sagas that run at once, the rest for one *)
(* saga after the other.                                                    *)
(***************************************************************************)
EXTENDS TrainingStores, FiniteSetTheorems, TLAPS

\* Two sagas write back whole files that they read before, each over the other's.
OneAtATime == MaxRunning = 1

-----------------------------------------------------------------------------
(* The inductive invariant.                                                   *)

Alone == \A s, t \in Running : s = t

\* What a saga in the middle of a step read is still so, and what it has done already.
InStep(s) ==
    InPlan(s) /\ run[s].pc # "ready" =>
      /\ Step(s) \notin log[s].ok
      /\ Step(s)[1] # "suppress" => Step(s)[2] \notin run[s].dlq
      /\ Step(s)[2] = Dataset => run[s].man = entries
      /\ IsAt(s, "reclaim", Dataset, "rows") => run[s].texts = rows \cap InShard(shard_for(s))
      /\ IsAt(s, "reclaim", Adapter, "train") => run[s].texts = Examples(shard_for(s))
      /\ Step(s) = <<"reclaim", Adapter>> /\ run[s].pc \in {"compose", "save"} =>
           weights[shard_for(s)] = Examples(shard_for(s))
      /\ IsAt(s, "reclaim", Adapter, "save") => Trained \subseteq serving

\* A suppress that a run has left behind was carried through, or failed.
Passed(s) ==
    \A n \in {1, 2} : n < run[s].at =>
      /\ Plan[n] \in log[s].ok \/ s \in clumsy
      /\ Plan[n] \in log[s].ok \/ Plan[n][2] \in run[s].dlq

\* What the journal says of the steps carried through, and the receipt after it.
Logged(s) ==
    /\ <<"suppress", Dataset>> \in log[s].ok => entries[s] # "live"
    /\ <<"reclaim", Adapter>> \in log[s].ok =>
         /\ <<"suppress", Adapter>> \in log[s].ok
         /\ <<"suppress", Dataset>> \in log[s].ok \/ s \in clumsy
         /\ s \in clumsy \/ s \notin weights[shard_for(s)]
    /\ log[s].saga = "ended" /\ receipt[s].reclaimed => <<"reclaim", Adapter>> \in log[s].ok
    /\ log[s].verdict[Dataset] = "verified" \/ receipt[s].rule[Dataset] = "verified" =>
         s \notin rows /\ entries[s] # "live"

\* Who was never erased is in the files, and in the weights of the shard, if it has any.
Spared(s) ==
    log[s].saga = "none" =>
      /\ run[s].at = 0 /\ log[s].ok = {}
      /\ s \in rows /\ entries[s] = "live"
      /\ weights[shard_for(s)] = {} \/ s \in weights[shard_for(s)]

\* A saga that began and has not retrained its shard.
Owes(t) == log[t].saga # "none" /\ <<"reclaim", Adapter>> \notin log[t].ok

\* A shard lacks somebody, or a trained shard is not served, only while such a saga is
\* about.
Owed ==
    /\ \A s \in Subjects : log[s].saga = "none" /\ s \notin weights[shard_for(s)] =>
         \E t \in Subjects : Owes(t) /\ shard_for(t) = shard_for(s)
    /\ Trained \subseteq serving \/ \E t \in Subjects : Owes(t)

IndInv ==
    /\ TypeOK /\ Alone /\ Owed
    /\ \A s \in Subjects : InStep(s) /\ Passed(s) /\ Logged(s) /\ Spared(s)

-----------------------------------------------------------------------------
(* The plan, and the types of what a saga is about.                           *)

LEMMA PlanFacts ==
    /\ Receipt = 7 /\ Finalize = 8 /\ DOMAIN Plan = 1..6
    /\ First \in Stores /\ Second \in Stores /\ Dataset # Adapter
    /\ Plan[1] = <<"suppress", First>> /\ Plan[2] = <<"suppress", Second>>
    /\ Plan[3] = <<"reclaim", First>> /\ Plan[4] = <<"reclaim", Second>>
    /\ Plan[5] = <<"verify", First>> /\ Plan[6] = <<"verify", Second>>
    /\ {First, Second} = {Dataset, Adapter}
<1>1. Len(Plan) = 6 /\ DOMAIN Plan = 1..6
  BY DEF Plan
<1> QED
  BY <1>1 DEF Receipt, Finalize, Plan, First, Second, Stores, Dataset, Adapter

LEMMA StepFacts ==
    ASSUME NEW s, InPlan(s)
    PROVE  /\ run[s].at \in 1..6 /\ Step(s) \in Steps /\ Step(s) = Plan[run[s].at]
           /\ Step(s)[1] \in Phases /\ Step(s)[2] \in Stores
           /\ Step(s)[1] = "suppress" <=> run[s].at \in {1, 2}
           /\ Step(s)[1] = "reclaim" <=> run[s].at \in {3, 4}
BY PlanFacts DEF InPlan, Step, Steps, Phases

LEMMA ShardFacts ==
    /\ ShardIds = 0..(Shards - 1) /\ Shards \in Nat \ {0}
    /\ \A s \in Subjects : shard_for(s) \in ShardIds /\ s \in InShard(shard_for(s))
    /\ \A k : InShard(k) \subseteq Subjects
<1>1. ASSUME NEW s \in Subjects PROVE s % Shards \in 0..(Shards - 1)
  <2>1. s \in Nat /\ Shards \in Nat /\ Shards > 0
    BY TrainingAssumption
  <2> QED
    BY <2>1
<1> QED
  BY <1>1, TrainingAssumption DEF ShardIds, shard_for, InShard

LEMMA StateFacts ==
    ASSUME NEW st \in States
    PROVE  /\ st.excluded \subseteq ShardIds
           /\ st.original \in [ShardIds -> SUBSET SUBSET Subjects]
           /\ st.forget \in [Subjects -> Snapshots]
BY DEF States

LEMMA EmptyFacts ==
    /\ EmptyState \in States /\ AllLive \in [Subjects -> EntryStates]
    /\ EmptyState.forget \in [Subjects -> Snapshots]
    /\ Unprobed \in [Stores -> Rules]
    /\ NoLog \in Logs /\ NoLog.saga = "none" /\ NoLog.ok = {} /\ NoLog.verdict = Unprobed
    /\ Unprobed[Dataset] = "none"
    /\ Stopped \in Runs /\ Stopped.at = 0 /\ Stopped.pc = "ready"
    /\ Stopped.dlq = {}
<1>1. EmptyState \in States /\ AllLive \in [Subjects -> EntryStates]
      /\ EmptyState.forget \in [Subjects -> Snapshots]
  BY DEF EmptyState, States, Snapshots, AllLive, EntryStates
<1>2. Unprobed \in [Stores -> Rules] /\ Unprobed[Dataset] = "none"
  BY DEF Unprobed, Rules, Stores
<1>3. /\ NoLog \in Logs /\ NoLog.saga = "none" /\ NoLog.ok = {} /\ NoLog.verdict = Unprobed
  BY <1>2 DEF NoLog, Logs
<1>4. Stopped \in Runs /\ Stopped.at = 0 /\ Stopped.pc = "ready" /\ Stopped.dlq = {}
  BY <1>1, PlanFacts DEF Stopped, Runs, PCs
<1> QED
  BY <1>1, <1>2, <1>3, <1>4

LEMMA RunFacts ==
    ASSUME TypeOK, NEW s \in Subjects
    PROVE  /\ run[s] \in Runs /\ log[s] \in Logs
           /\ run[s].at \in 0..8 /\ run[s].pc \in PCs /\ run[s].reclaim \in BOOLEAN
           /\ run[s].dlq \subseteq Stores /\ run[s].man \in [Subjects -> EntryStates]
           /\ run[s].texts \subseteq Subjects /\ run[s].st \in States
           /\ log[s].saga \in {"none", "open", "ended"} /\ log[s].ok \subseteq Steps
           /\ log[s].begun \subseteq Steps /\ log[s].ended \subseteq Steps
           /\ log[s].verdict \in [Stores -> Rules]
BY PlanFacts DEF TypeOK, Runs, Logs

LEMMA OnwardsFacts ==
    ASSUME NEW r \in Runs, r.at \in 0..7
    PROVE  /\ Onwards(r) \in Runs /\ Onwards(r).at = r.at + 1 /\ Onwards(r).pc = "ready"
           /\ Onwards(r).dlq = r.dlq /\ Onwards(r).reclaim = r.reclaim
<1>1. EmptyState \in States /\ AllLive \in [Subjects -> EntryStates] /\ "ready" \in PCs
  BY EmptyFacts DEF PCs
<1>2. r.at + 1 \in 0..Finalize
  BY PlanFacts
<1> QED
  BY <1>1, <1>2 DEF Onwards, Runs

-----------------------------------------------------------------------------
(* What a step does to the saga that takes it.                                *)

SagaTyped ==
    /\ context \in Subjects \cup {Nobody}
    /\ log \in [Subjects -> Logs]
    /\ receipt \in [Subjects -> [rule: [Stores -> Rules], reclaimed: BOOLEAN]]
    /\ run \in [Subjects -> Runs]
    /\ clumsy \subseteq Subjects
FilesTyped ==
    /\ entries \in [Subjects -> EntryStates]
    /\ rows \subseteq Subjects
    /\ weights \in [ShardIds -> SUBSET Subjects]
    /\ state \in States
    /\ serving \subseteq ShardIds

LEMMA TypeParts == TypeOK <=> FilesTyped /\ SagaTyped /\ faults \in 0..MaxFaults
BY DEF TypeOK, FilesTyped, SagaTyped

\* The log and the run of s become l and r.
Becomes(s, l, r) ==
    /\ log' \in [Subjects -> Logs] /\ run' \in [Subjects -> Runs]
    /\ log'[s] = l /\ run'[s] = r
    /\ \A t \in Subjects : t # s => log'[t] = log[t] /\ run'[t] = run[t]

LEMMA BecomesTyped ==
    ASSUME TypeOK, NEW s \in Subjects, NEW l \in Logs, NEW r \in Runs,
           log' = [log EXCEPT ![s] = l], run' = [run EXCEPT ![s] = r]
    PROVE  Becomes(s, l, r)
BY DEF TypeOK, Becomes

LEMMA BeginsFacts ==
    ASSUME TypeOK, NEW s \in Subjects, InPlan(s), NEW r \in Runs, StepBegins(s, r)
    PROVE  /\ SagaTyped'
           /\ run'[s] = r /\ log'[s].ok = log[s].ok /\ log'[s].saga = log[s].saga
           /\ log'[s].verdict = log[s].verdict
           /\ \A t \in Subjects : t # s => log'[t] = log[t] /\ run'[t] = run[t]
           /\ receipt' = receipt /\ clumsy' = clumsy /\ context' = context /\ faults' = faults
<1> DEFINE l == [log[s] EXCEPT !.begun = log[s].begun \cup {Step(s)}]
<1>1. /\ l \in Logs /\ l.ok = log[s].ok /\ l.saga = log[s].saga /\ l.verdict = log[s].verdict
  BY RunFacts, StepFacts DEF Logs
<1>2. log' = [log EXCEPT ![s] = l] /\ run' = [run EXCEPT ![s] = r]
  BY RunFacts DEF StepBegins, Logs, TypeOK
<1> HIDE DEF l
<1>3. Becomes(s, l, r)
  BY <1>1, <1>2, BecomesTyped
<1> QED
  BY <1>1, <1>3 DEF StepBegins, SagaTyped, TypeOK, Becomes

LEMMA GoesOnFacts ==
    ASSUME TypeOK, NEW s \in Subjects, NEW r \in Runs, StepGoesOn(s, r)
    PROVE  /\ SagaTyped'
           /\ run'[s] = r /\ log' = log
           /\ \A t \in Subjects : t # s => run'[t] = run[t]
           /\ receipt' = receipt /\ clumsy' = clumsy /\ context' = context /\ faults' = faults
BY DEF StepGoesOn, SagaTyped, TypeOK

LEMMA EndsFacts ==
    ASSUME TypeOK, NEW s \in Subjects, InPlan(s), NEW verdict \in [Stores -> Rules],
           StepEnds(s, verdict)
    PROVE  /\ SagaTyped'
           /\ run'[s] = Onwards(run[s])
           /\ log'[s].ok = log[s].ok \cup {Step(s)} /\ log'[s].saga = log[s].saga
           /\ log'[s].verdict = verdict
           /\ \A t \in Subjects : t # s => log'[t] = log[t] /\ run'[t] = run[t]
           /\ receipt' = receipt /\ clumsy' = clumsy /\ context' = context /\ faults' = faults
<1> DEFINE l == [log[s] EXCEPT !.begun = log[s].begun \cup {Step(s)},
                               !.ended = log[s].ended \cup {Step(s)},
                               !.ok = log[s].ok \cup {Step(s)}, !.verdict = verdict]
<1>1. /\ l \in Logs /\ l.ok = log[s].ok \cup {Step(s)} /\ l.saga = log[s].saga
      /\ l.verdict = verdict
  <2>1. log[s] \in Logs /\ Step(s) \in Steps
    BY RunFacts, StepFacts
  <2> QED
    BY <2>1 DEF Logs
<1>2. Onwards(run[s]) \in Runs
  BY RunFacts, StepFacts, OnwardsFacts
<1>3. log' = [log EXCEPT ![s] = l] /\ run' = [run EXCEPT ![s] = Onwards(run[s])]
  BY ZenonT(30), RunFacts DEF StepEnds, Logs, TypeOK
<1> HIDE DEF l
<1>4. Becomes(s, l, Onwards(run[s]))
  BY <1>1, <1>2, <1>3, BecomesTyped
<1> QED
  BY <1>1, <1>4 DEF StepEnds, SagaTyped, TypeOK, Becomes

LEMMA FailsFacts ==
    ASSUME TypeOK, NEW s \in Subjects, InPlan(s), StepFails(s)
    PROVE  /\ SagaTyped'
           /\ run'[s].at = run[s].at + 1 /\ run'[s].pc = "ready"
           /\ run[s].dlq \subseteq run'[s].dlq
           /\ Step(s)[1] # "verify" => Step(s)[2] \in run'[s].dlq
           /\ log'[s].ok = log[s].ok /\ log'[s].saga = log[s].saga
           /\ log'[s].verdict = log[s].verdict
           /\ \A t \in Subjects : t # s => log'[t] = log[t] /\ run'[t] = run[t]
           /\ receipt' = receipt /\ clumsy' = clumsy \cup {s} /\ context' = context
<1> DEFINE l == [log[s] EXCEPT !.begun = log[s].begun \cup {Step(s)},
                               !.ended = log[s].ended \cup {Step(s)}]
           o == Onwards(run[s])
           dlq == run[s].dlq \cup Condemned(s)
           r == [o EXCEPT !.dlq = dlq]
<1>1. /\ l \in Logs /\ l.ok = log[s].ok /\ l.saga = log[s].saga /\ l.verdict = log[s].verdict
  <2>1. log[s] \in Logs /\ Step(s) \in Steps
    BY RunFacts, StepFacts
  <2> QED
    BY <2>1 DEF Logs
<1>2. o \in Runs /\ o.at = run[s].at + 1 /\ o.pc = "ready" /\ o.dlq = run[s].dlq
  BY RunFacts, StepFacts, OnwardsFacts
<1>3. dlq \subseteq Stores /\ run[s].dlq \subseteq dlq
      /\ (Step(s)[1] # "verify" => Step(s)[2] \in dlq)
  BY RunFacts, StepFacts DEF Condemned
<1>4. log' = [log EXCEPT ![s] = l]
  BY ZenonT(30), RunFacts DEF StepFails, Logs, TypeOK
<1>5. run' = [run EXCEPT ![s] = r]
  BY RunFacts DEF StepFails
<1> HIDE DEF l, o, dlq
<1>6. r \in Runs /\ r.at = o.at /\ r.pc = o.pc /\ r.dlq = dlq
  BY <1>2, <1>3 DEF Runs
<1> HIDE DEF r
<1>7. Becomes(s, l, r)
  BY <1>1, <1>4, <1>5, <1>6, BecomesTyped
<1> QED
  BY <1>1, <1>2, <1>3, <1>6, <1>7 DEF StepFails, SagaTyped, TypeOK, Becomes

-----------------------------------------------------------------------------
(* Type correctness, step by step.                                            *)

\* What a run may read, remember or pass to its next step.
LEMMA RunTyped ==
    ASSUME TypeOK, NEW s \in Subjects
    PROVE  /\ [run[s] EXCEPT !.pc = "manifest", !.man = entries] \in Runs
           /\ \A X \in SUBSET Subjects : /\ [run[s] EXCEPT !.pc = "rows", !.texts = X] \in Runs
                                         /\ [run[s] EXCEPT !.pc = "train", !.texts = X] \in Runs
           /\ \A st \in States : /\ [run[s] EXCEPT !.pc = "state", !.st = st] \in Runs
                                 /\ [run[s] EXCEPT !.pc = "compose", !.st = st] \in Runs
           /\ [run[s] EXCEPT !.pc = "save"] \in Runs
           /\ [run[s] EXCEPT !.pc = "compose"] \in Runs
<1>1. run[s] \in Runs /\ entries \in [Subjects -> EntryStates]
  BY RunFacts DEF TypeOK
<1> QED
  BY <1>1 DEF Runs, PCs

LEMMA AfterSuppressTyped ==
    ASSUME TypeOK, NEW s \in Subjects, NEW st \in States
    PROVE  AfterSuppress(st, s) \in States
<1> DEFINE k == shard_for(s)
           original == [st.original EXCEPT ![k] = IF st.original[k] = {} THEN {weights[k]}
                                                  ELSE st.original[k]]
           forget == [st.forget EXCEPT ![context] = IF st.forget[context] = "absent" THEN Snapshot
                                                    ELSE st.forget[context]]
<1>1. /\ k \in ShardIds /\ weights[k] \subseteq Subjects
      /\ st.excluded \subseteq ShardIds
      /\ st.original \in [ShardIds -> SUBSET SUBSET Subjects]
      /\ st.forget \in [Subjects -> Snapshots]
      /\ Snapshot \in Snapshots
  BY ShardFacts, StateFacts DEF TypeOK, Snapshot, Snapshots
<1>2. original \in [ShardIds -> SUBSET SUBSET Subjects]
  BY <1>1
<1>3. forget \in [Subjects -> Snapshots]
  BY <1>1
<1>4. AfterSuppress(st, s) =
        [st EXCEPT !.excluded = st.excluded \cup {k}, !.original = original, !.forget = forget]
  BY DEF AfterSuppress, States
<1> HIDE DEF original, forget, k
<1> QED
  BY <1>1, <1>2, <1>3, <1>4 DEF States

LEMMA DatasetTyped ==
    ASSUME TypeOK, NEW s \in Subjects,
           \/ PassOver(s) \/ ReadManifest(s) \/ MarkSuppressed(s) \/ ReadRows(s) \/ DropRow(s)
           \/ DropEntry(s) \/ VerifyDataset(s)
    PROVE  FilesTyped' /\ SagaTyped' /\ faults' = faults
<1>0. /\ FilesTyped /\ log[s].verdict \in [Stores -> Rules]
      /\ run[s] \in Runs /\ run[s].man \in [Subjects -> EntryStates] /\ run[s].texts \subseteq Subjects
  BY RunFacts, TypeParts
<1>1. CASE PassOver(s)
  <2>1. Onwards(run[s]) \in Runs
    BY <1>1, RunFacts, StepFacts, OnwardsFacts DEF PassOver
  <2> QED
    BY <1>0, <1>1, <2>1, GoesOnFacts DEF PassOver, FilesTyped, dataVars, modelVars
<1>2. CASE ReadManifest(s)
  <2>1. InPlan(s)
    BY <1>2 DEF ReadManifest, Ready
  <2> QED
    BY <1>0, <1>2, <2>1, RunTyped, BeginsFacts DEF ReadManifest, FilesTyped, dataVars, modelVars
<1>3. CASE MarkSuppressed(s)
  <2>1. InPlan(s)
    BY <1>3 DEF MarkSuppressed, IsAt
  <2>2. SagaTyped' /\ faults' = faults
    BY <1>0, <1>3, <2>1, EndsFacts DEF MarkSuppressed
  <2>3. entries' \in [Subjects -> EntryStates]
    BY <1>0, <1>3 DEF MarkSuppressed, EntryStates
  <2> QED
    BY <1>0, <1>3, <2>2, <2>3 DEF MarkSuppressed, FilesTyped, modelVars
<1>4. CASE ReadRows(s)
  <2>1. rows \cap InShard(shard_for(s)) \in SUBSET Subjects
    BY ShardFacts
  <2> QED
    BY <1>0, <1>4, <2>1, RunTyped, GoesOnFacts DEF ReadRows, FilesTyped, dataVars, modelVars
<1>5. CASE DropRow(s)
  <2>1. SagaTyped' /\ faults' = faults
    BY <1>5, RunTyped, GoesOnFacts DEF DropRow
  <2> QED
    BY <1>0, <1>5, <2>1 DEF DropRow, FilesTyped, modelVars
<1>6. CASE DropEntry(s)
  <2>1. InPlan(s)
    BY <1>6 DEF DropEntry, IsAt
  <2>2. SagaTyped' /\ faults' = faults
    BY <1>0, <1>6, <2>1, EndsFacts DEF DropEntry
  <2>3. entries' \in [Subjects -> EntryStates]
    BY <1>0, <1>6 DEF DropEntry, EntryStates
  <2> QED
    BY <1>0, <1>6, <2>2, <2>3 DEF DropEntry, FilesTyped, modelVars
<1>7. CASE VerifyDataset(s)
  <2> DEFINE rule == IF entries[s] = "live" THEN "logical_fail"
                     ELSE IF s \in rows THEN "physical_fail" ELSE "verified"
  <2>1. InPlan(s) /\ StepEnds(s, [log[s].verdict EXCEPT ![Dataset] = rule])
    BY <1>7 DEF VerifyDataset, Ready
  <2>2. [log[s].verdict EXCEPT ![Dataset] = rule] \in [Stores -> Rules]
    BY <1>0 DEF Rules
  <2> HIDE DEF rule
  <2> QED
    BY <1>0, <1>7, <2>1, <2>2, EndsFacts DEF VerifyDataset, FilesTyped, dataVars, modelVars
<1> QED
  BY <1>1, <1>2, <1>3, <1>4, <1>5, <1>6, <1>7

LEMMA ExamplesFacts == ASSUME NEW k PROVE Examples(k) \subseteq Subjects /\ Examples(k) \subseteq rows
BY DEF Examples, InShard

LEMMA AdapterTyped ==
    ASSUME TypeOK, NEW s \in Subjects,
           \/ ReadState(s) \/ MarkExcluded(s) \/ Hide(s) \/ DropWeights(s) \/ Train(s)
           \/ Recompose(s) \/ Readmit(s) \/ VerifyAdapter(s)
    PROVE  FilesTyped' /\ SagaTyped' /\ faults' = faults
<1>0. /\ FilesTyped /\ log[s].verdict \in [Stores -> Rules] /\ shard_for(s) \in ShardIds
      /\ run[s] \in Runs /\ run[s].st \in States /\ run[s].texts \subseteq Subjects
      /\ \A X : Composed(X) \subseteq ShardIds
  BY RunFacts, TypeParts, ShardFacts DEF Composed, Trained
<1>1. CASE ReadState(s)
  <2>1. InPlan(s) /\ state \in States
    BY <1>0, <1>1 DEF ReadState, Ready, FilesTyped
  <2> QED
    BY <1>0, <1>1, <2>1, RunTyped, BeginsFacts DEF ReadState, FilesTyped, dataVars, modelVars
<1>2. CASE MarkExcluded(s)
  <2>1. state' \in States
    BY <1>0, <1>2, AfterSuppressTyped DEF MarkExcluded
  <2>2. SagaTyped' /\ faults' = faults
    BY <1>2, <2>1, RunTyped, GoesOnFacts DEF MarkExcluded
  <2> QED
    BY <1>0, <1>2, <2>1, <2>2 DEF MarkExcluded, FilesTyped, dataVars
<1>3. CASE Hide(s)
  <2>1. InPlan(s)
    BY <1>3 DEF Hide, IsAt
  <2>2. SagaTyped' /\ faults' = faults /\ serving' \subseteq ShardIds
    BY <1>0, <1>3, <2>1, EndsFacts, FailsFacts DEF Hide, FilesTyped
  <2> QED
    BY <1>0, <1>3, <2>2 DEF Hide, FilesTyped, dataVars
<1>4. CASE DropWeights(s)
  <2>1. Examples(shard_for(s)) \in SUBSET Subjects
    BY ExamplesFacts
  <2>2. SagaTyped' /\ faults' = faults
    BY <1>4, <2>1, RunTyped, GoesOnFacts DEF DropWeights
  <2>3. weights' \in [ShardIds -> SUBSET Subjects]
    BY <1>0, <1>4 DEF DropWeights, FilesTyped
  <2> QED
    BY <1>0, <1>4, <2>2, <2>3 DEF DropWeights, FilesTyped, dataVars
<1>5. CASE Train(s)
  <2>1. SagaTyped' /\ faults' = faults
    BY <1>5, RunTyped, GoesOnFacts DEF Train
  <2>2. weights' \in [ShardIds -> SUBSET Subjects]
    BY <1>0, <1>5 DEF Train, FilesTyped
  <2> QED
    BY <1>0, <1>5, <2>1, <2>2 DEF Train, FilesTyped, dataVars
<1>6. CASE Recompose(s)
  <2>1. InPlan(s)
    BY <1>6 DEF Recompose, IsAt
  <2>2. SagaTyped' /\ faults' = faults /\ serving' \subseteq ShardIds
    BY <1>0, <1>6, <2>1, GoesOnFacts, RunTyped, FailsFacts DEF Recompose, FilesTyped
  <2> QED
    BY <1>0, <1>6, <2>2 DEF Recompose, FilesTyped, dataVars
<1>7. CASE Readmit(s)
  <2>1. InPlan(s)
    BY <1>7 DEF Readmit, IsAt
  <2>2. SagaTyped' /\ faults' = faults
    BY <1>0, <1>7, <2>1, EndsFacts DEF Readmit
  <2>3. state' \in States
    BY <1>0, <1>7 DEF Readmit, States
  <2> QED
    BY <1>0, <1>7, <2>2, <2>3 DEF Readmit, FilesTyped, dataVars
<1>8. CASE VerifyAdapter(s)
  <2>1. InPlan(s) /\ AdapterRule(s) \in Rules
    BY <1>8 DEF VerifyAdapter, Ready, AdapterRule, Rules
  <2>2. [log[s].verdict EXCEPT ![Adapter] = AdapterRule(s)] \in [Stores -> Rules]
    BY <1>0, <2>1
  <2>3. SagaTyped' /\ faults' = faults
    BY <1>8, <2>1, <2>2, EndsFacts, FailsFacts DEF VerifyAdapter
  <2> QED
    BY <1>0, <1>8, <2>3 DEF VerifyAdapter, FilesTyped, dataVars, modelVars
<1> QED
  BY <1>1, <1>2, <1>3, <1>4, <1>5, <1>6, <1>7, <1>8

LEMMA StartFacts ==
    ASSUME TypeOK, NEW s \in Subjects, Start(s)
    PROVE  /\ SagaTyped'
           /\ run'[s].at = 1 /\ run'[s].pc = "ready"
           /\ log'[s].saga = "open"
           /\ \/ log'[s].ok = {} /\ log'[s].verdict = Unprobed
              \/ log'[s].ok = log[s].ok /\ log'[s].verdict = log[s].verdict
           /\ log[s].saga = "none" => log'[s].ok = log[s].ok
           /\ \A t \in Subjects : t # s => log'[t] = log[t] /\ run'[t] = run[t]
           /\ UNCHANGED <<dataVars, modelVars, receipt, clumsy, faults>>
<1>1. PICK reclaim \in BOOLEAN :
             run' = [run EXCEPT ![s] = [Stopped EXCEPT !.at = 1, !.reclaim = reclaim]]
  BY DEF Start
<1>2. PICK r : r = [Stopped EXCEPT !.at = 1, !.reclaim = reclaim]
  OBVIOUS
<1>3. r \in Runs /\ r.at = 1 /\ r.pc = "ready"
  <2>1. Stopped \in Runs /\ 1 \in 0..Finalize /\ Stopped.pc = "ready"
    BY EmptyFacts, PlanFacts
  <2> QED
    BY <1>2, <2>1 DEF Runs
<1>4. PICK l : l = IF log[s].saga = "ended" THEN [NoLog EXCEPT !.saga = "open"]
                   ELSE [log[s] EXCEPT !.saga = "open"]
  OBVIOUS
<1>5. log' = [log EXCEPT ![s] = l]
  BY <1>4, RunFacts DEF Start, TypeOK
<1>6. /\ l \in Logs /\ l.saga = "open"
      /\ \/ l.ok = {} /\ l.verdict = Unprobed
         \/ l.ok = log[s].ok /\ l.verdict = log[s].verdict
      /\ log[s].saga = "none" => l.ok = log[s].ok
  <2>1. CASE log[s].saga = "ended"
    BY <1>4, <2>1, EmptyFacts DEF Logs
  <2>2. CASE log[s].saga # "ended"
    BY <1>4, <2>2, RunFacts DEF Logs
  <2> QED
    BY <2>1, <2>2
<1>7. Becomes(s, l, r)
  BY <1>1, <1>2, <1>3, <1>5, <1>6, BecomesTyped
<1> QED
  BY <1>3, <1>6, <1>7 DEF Start, SagaTyped, TypeOK, Becomes

LEMMA ReceiptFacts ==
    ASSUME TypeOK, NEW s \in Subjects, WriteReceipt(s)
    PROVE  /\ SagaTyped'
           /\ run'[s].at = 8 /\ run'[s].pc = "ready"
           /\ log'[s].ok = log[s].ok /\ log'[s].saga = "ended" /\ log'[s].verdict = log[s].verdict
           /\ receipt'[s].reclaimed => <<"reclaim", Adapter>> \in log[s].ok
           /\ receipt'[s].rule[Dataset] = "verified" => log[s].verdict[Dataset] = "verified"
           /\ \A t \in Subjects :
                t # s => log'[t] = log[t] /\ run'[t] = run[t] /\ receipt'[t] = receipt[t]
           /\ UNCHANGED <<dataVars, modelVars, context, clumsy, faults>>
<1> DEFINE rule == [st \in Stores |-> IF st \in run[s].dlq THEN "dlq"
                                      ELSE IF log[s].verdict[st] = "none" THEN "logical_unprobed"
                                      ELSE log[s].verdict[st]]
           reclaimed == run[s].reclaim /\ <<"reclaim", Adapter>> \in log[s].ok
           new == [rule |-> rule, reclaimed |-> reclaimed]
           l == [log[s] EXCEPT !.saga = "ended"]
<1>1. run[s].at = 7 /\ log[s] \in Logs /\ log[s].verdict \in [Stores -> Rules]
  BY RunFacts, PlanFacts DEF WriteReceipt
<1>2. l \in Logs /\ l.ok = log[s].ok /\ l.saga = "ended" /\ l.verdict = log[s].verdict
  BY <1>1 DEF Logs
<1>3. /\ Onwards(run[s]) \in Runs /\ Onwards(run[s]).at = 8 /\ Onwards(run[s]).pc = "ready"
  BY <1>1, RunFacts, OnwardsFacts
<1>4. rule \in [Stores -> Rules]
  BY <1>1 DEF Rules
<1>5. rule[Dataset] = "verified" => log[s].verdict[Dataset] = "verified"
  BY <1>1 DEF Stores
<1>6. reclaimed \in BOOLEAN /\ (reclaimed => <<"reclaim", Adapter>> \in log[s].ok)
  OBVIOUS
<1>7. receipt' = [receipt EXCEPT ![s] = new]
  BY DEF WriteReceipt
<1>8. log' = [log EXCEPT ![s] = l] /\ run' = [run EXCEPT ![s] = Onwards(run[s])]
  BY <1>1 DEF WriteReceipt, TypeOK, Logs
<1> HIDE DEF rule, reclaimed, l
<1>9. new \in [rule : [Stores -> Rules], reclaimed : BOOLEAN] /\ new.rule = rule
      /\ (new.reclaimed <=> reclaimed)
  BY <1>4, <1>6
<1> HIDE DEF new
<1>10. Becomes(s, l, Onwards(run[s]))
  BY <1>2, <1>3, <1>8, BecomesTyped
<1>11. /\ receipt' \in [Subjects -> [rule : [Stores -> Rules], reclaimed : BOOLEAN]]
       /\ receipt'[s] = new /\ \A t \in Subjects : t # s => receipt'[t] = receipt[t]
  BY <1>7, <1>9 DEF TypeOK
<1> QED
  BY <1>2, <1>3, <1>5, <1>6, <1>9, <1>10, <1>11 DEF WriteReceipt, SagaTyped, TypeOK, Becomes

LEMMA ReleaseTyped ==
    ASSUME TypeOK, NEW s \in Subjects, RefuseReceipt(s) \/ Release(s)
    PROVE  FilesTyped' /\ SagaTyped' /\ faults' = faults
<1>0. FilesTyped /\ Stopped \in Runs /\ EmptyState.forget \in [Subjects -> Snapshots]
      /\ run[s].st \in States
  BY TypeParts, EmptyFacts, RunFacts
<1>1. CASE RefuseReceipt(s)
  BY <1>0, <1>1, GoesOnFacts DEF RefuseReceipt, FilesTyped, dataVars, modelVars
<1>2. CASE Release(s)
  <2>1. CASE StepGoesOn(s, [run[s] EXCEPT !.pc = "state", !.st = state]) /\ UNCHANGED state
    <3>1. SagaTyped' /\ faults' = faults
      BY <1>0, <2>1, RunTyped, GoesOnFacts DEF FilesTyped
    <3> QED
      BY <1>0, <1>2, <2>1, <3>1 DEF Release, FilesTyped, dataVars
  <2>2. CASE state' = [run[s].st EXCEPT !.forget = EmptyState.forget] /\ StepGoesOn(s, Stopped)
    <3>1. SagaTyped' /\ faults' = faults
      BY <1>0, <2>2, GoesOnFacts
    <3>2. state' \in States
      BY <1>0, <2>2 DEF States
    <3> QED
      BY <1>0, <1>2, <3>1, <3>2 DEF Release, FilesTyped, dataVars
  <2> QED
    BY <1>2, <2>1, <2>2 DEF Release
<1> QED
  BY <1>1, <1>2

LEMMA FaultTyped ==
    ASSUME TypeOK, NEW s \in Subjects, Fail(s) \/ Crash(s)
    PROVE  FilesTyped' /\ SagaTyped' /\ faults' \in 0..MaxFaults
<1>0. FilesTyped /\ Stopped \in Runs
  BY TypeParts, EmptyFacts
<1>1. faults' = faults + 1 /\ faults < MaxFaults /\ faults \in 0..MaxFaults /\ MaxFaults \in Nat
  BY TrainingAssumption DEF Fail, Crash, TypeOK
<1>2. UNCHANGED <<dataVars, modelVars>>
  BY DEF Fail, Crash
<1>3. FilesTyped'
  BY <1>0, <1>2 DEF FilesTyped, dataVars, modelVars
<1>4. CASE Fail(s)
  BY <1>1, <1>3, <1>4, FailsFacts DEF Fail
<1>5. CASE Crash(s)
  BY <1>0, <1>1, <1>3, <1>5 DEF Crash, SagaTyped, TypeOK
<1> QED
  BY <1>4, <1>5

LEMMA TypeInit == Init => TypeOK
<1> SUFFICES ASSUME Init PROVE TypeOK
  OBVIOUS
<1>1. entries \in [Subjects -> EntryStates] /\ state \in States /\ log \in [Subjects -> Logs]
      /\ run \in [Subjects -> Runs]
  BY EmptyFacts DEF Init
<1>2. receipt \in [Subjects -> [rule : [Stores -> Rules], reclaimed : BOOLEAN]]
  BY EmptyFacts DEF Init, NoReceipt
<1>3. weights \in [ShardIds -> SUBSET Subjects]
  BY ShardFacts DEF Init
<1> QED
  BY <1>1, <1>2, <1>3, TrainingAssumption DEF Init, TypeOK

LEMMA TypeStep == TypeOK /\ [Next]_vars => TypeOK'
<1> SUFFICES ASSUME TypeOK, [Next]_vars PROVE TypeOK'
  OBVIOUS
<1>1. ASSUME FilesTyped', SagaTyped', faults' \in 0..MaxFaults PROVE TypeOK'
  BY <1>1 DEF TypeOK, FilesTyped, SagaTyped
<1>2. faults \in 0..MaxFaults
  BY DEF TypeOK
<1>3. CASE UNCHANGED vars
  BY <1>3 DEF TypeOK, vars, dataVars, modelVars
<1>4. ASSUME NEW s \in Subjects, Start(s) PROVE TypeOK'
  BY <1>1, <1>2, <1>4, StartFacts, TypeParts DEF FilesTyped, dataVars, modelVars
<1>5. ASSUME NEW s \in Subjects, WriteReceipt(s) PROVE TypeOK'
  BY <1>1, <1>2, <1>5, ReceiptFacts, TypeParts DEF FilesTyped, dataVars, modelVars
<1>6. ASSUME NEW s \in Subjects, Fail(s) \/ Crash(s) PROVE TypeOK'
  BY <1>1, <1>6, FaultTyped
<1>7. ASSUME NEW s \in Subjects, Go(s) PROVE TypeOK'
  BY <1>1, <1>2, <1>5, <1>7, DatasetTyped, AdapterTyped, ReleaseTyped DEF Go
<1> QED
  BY <1>3, <1>4, <1>6, <1>7 DEF Next

\* Type correctness, however many sagas run at once.
THEOREM TypeCorrect == Spec => []TypeOK
BY TypeInit, TypeStep, PTL DEF Spec

-----------------------------------------------------------------------------
(* One saga after the other: what a step leaves to the others.                *)

\* The files of s's step: rows and examples only go, and only its own; a shard keeps its
\* weights, loses them or is trained on what is offered.
DataStep(s) ==
    /\ rows' \subseteq rows /\ rows \ {s} \subseteq rows'
    /\ \A t \in Subjects : t # s => entries'[t] = entries[t]
    /\ entries[s] # "live" => entries'[s] # "live"
    /\ \A k \in ShardIds : weights'[k] \in {weights[k], {}, Examples(k)}

LEMMA NoData == ASSUME NEW s \in Subjects, UNCHANGED <<entries, rows, weights>> PROVE DataStep(s)
BY DEF DataStep

LEMMA RunningFacts ==
    ASSUME IndInv, NEW s \in Subjects, run[s].at # 0
    PROVE  /\ \A t \in Subjects : t # s => run[t].at = 0
           /\ log[s].saga # "none"
           /\ TypeOK /\ InStep(s) /\ Passed(s) /\ Logged(s)
BY DEF IndInv, Alone, Running, Spared

\* What was carried through stays so.
LEMMA LoggedKept ==
    ASSUME IndInv, NEW s \in Subjects, DataStep(s), clumsy \subseteq clumsy', NEW t \in Subjects,
           log'[t].ok = log[t].ok, log'[t].saga = log[t].saga, log'[t].verdict = log[t].verdict,
           receipt'[t] = receipt[t]
    PROVE  Logged(t)'
<1>1. /\ entries[t] # "live" => entries'[t] # "live"
      /\ t \notin rows => t \notin rows'
      /\ weights'[shard_for(t)] \in {weights[shard_for(t)], {}, Examples(shard_for(t))}
  BY ShardFacts DEF DataStep
<1>2. entries[t] # "live" => t \notin Examples(shard_for(t))
  BY DEF Examples
<1> QED
  BY <1>1, <1>2 DEF IndInv, Logged

LEMMA OthersKept2 ==
    ASSUME IndInv, NEW s \in Subjects, DataStep(s), clumsy \subseteq clumsy',
           NEW t \in Subjects, t # s, run[t].at = 0,
           log'[t] = log[t], run'[t] = run[t], receipt'[t] = receipt[t]
    PROVE  InStep(t)' /\ Passed(t)' /\ Logged(t)' /\ Spared(t)'
<1>1. InStep(t)'
  BY PlanFacts DEF InStep, InPlan
<1>2. Passed(t)'
  BY DEF Passed
<1>3. Logged(t)'
  BY LoggedKept
<1>4. Spared(t)'
  <2> SUFFICES ASSUME log[t].saga = "none"
               PROVE  /\ log[t].ok = {} /\ t \in rows' /\ entries'[t] = "live"
                      /\ weights'[shard_for(t)] = {} \/ t \in weights'[shard_for(t)]
    BY DEF Spared
  <2>1. /\ log[t].ok = {} /\ t \in rows /\ entries[t] = "live"
        /\ weights[shard_for(t)] = {} \/ t \in weights[shard_for(t)]
    BY DEF IndInv, Spared
  <2>2. t \in Examples(shard_for(t))
    BY <2>1, ShardFacts DEF Examples
  <2> QED
    BY <2>1, <2>2, ShardFacts DEF DataStep
<1> QED
  BY <1>1, <1>2, <1>3, <1>4

\* What s's step is to show, besides its own part of the invariant.
LEMMA Combine ==
    ASSUME IndInv, TypeOK', NEW s \in Subjects, DataStep(s), clumsy \subseteq clumsy',
           \A t \in Subjects : t # s => /\ run[t].at = 0 /\ run'[t] = run[t]
                                        /\ log'[t] = log[t] /\ receipt'[t] = receipt[t],
           log'[s].saga # "none",
           InStep(s)', Passed(s)', Logged(s)', Owed'
    PROVE  IndInv'
<1>1. Alone'
  BY DEF Alone, Running
<1>2. Spared(s)'
  BY DEF Spared
<1>3. ASSUME NEW t \in Subjects PROVE InStep(t)' /\ Passed(t)' /\ Logged(t)' /\ Spared(t)'
  BY <1>2, <1>3, OthersKept2
<1> QED
  BY <1>1, <1>3 DEF IndInv

LEMMA PassedOn ==
    ASSUME NEW s \in Subjects, Passed(s), TypeOK, InPlan(s), run'[s].at = run[s].at + 1,
           run[s].dlq \subseteq run'[s].dlq, log[s].ok \subseteq log'[s].ok, clumsy \subseteq clumsy',
           \/ Step(s)[1] # "suppress" \/ Step(s) \in log'[s].ok
           \/ s \in clumsy' /\ Step(s)[2] \in run'[s].dlq
    PROVE  Passed(s)'
<1>1. run[s].at \in 1..6 /\ Step(s) = Plan[run[s].at]
      /\ (Step(s)[1] = "suppress" <=> run[s].at \in {1, 2})
  BY StepFacts
<1>2. ASSUME NEW n \in {1, 2}, n < run'[s].at
      PROVE  /\ Plan[n] \in log'[s].ok \/ s \in clumsy'
             /\ Plan[n] \in log'[s].ok \/ Plan[n][2] \in run'[s].dlq
  <2>1. CASE n < run[s].at
    BY <2>1 DEF Passed
  <2>2. CASE ~(n < run[s].at)
    <3>1. n = run[s].at
      BY <1>1, <1>2, <2>2
    <3> QED
      BY <1>1, <3>1
  <2> QED
    BY <2>1, <2>2
<1> QED
  BY <1>2 DEF Passed

LEMMA PassedStay ==
    ASSUME NEW s \in Subjects, Passed(s), run'[s].at = run[s].at, run'[s].dlq = run[s].dlq,
           log'[s].ok = log[s].ok, clumsy' = clumsy
    PROVE  Passed(s)'
BY DEF Passed

\* Nobody's debt is settled, and no shard changes.
LEMMA OwedKept ==
    ASSUME IndInv, NEW s \in Subjects, UNCHANGED <<weights, serving>>,
           \A t \in Subjects : t # s => log'[t] = log[t],
           log'[s].saga # "none",
           <<"reclaim", Adapter>> \in log'[s].ok => log[s].saga # "none" /\ <<"reclaim", Adapter>> \in log[s].ok
    PROVE  Owed'
<1>1. ASSUME NEW t \in Subjects, Owes(t) PROVE Owes(t)'
  BY <1>1 DEF Owes
<1>2. ASSUME NEW t \in Subjects, log'[t].saga = "none" PROVE log[t].saga = "none"
  BY <1>2
<1> QED
  BY <1>1, <1>2 DEF IndInv, Owed, Trained

\* The saga that changes its shard owes for it.
LEMMA OwedStep ==
    ASSUME IndInv, NEW s \in Subjects, Owes(s)',
           \A t \in Subjects : t # s => log'[t] = log[t],
           \A k \in ShardIds : k # shard_for(s) => weights'[k] = weights[k]
    PROVE  Owed'
<1>1. ASSUME NEW t \in Subjects, Owes(t) PROVE Owes(t)'
  BY <1>1 DEF Owes
<1>2. ASSUME NEW t \in Subjects, log'[t].saga = "none", t \notin weights'[shard_for(t)]
      PROVE  \E u \in Subjects : Owes(u)' /\ shard_for(u) = shard_for(t)
  <2>1. CASE shard_for(t) = shard_for(s)
    BY <2>1
  <2>2. CASE shard_for(t) # shard_for(s)
    <3>1. log[t].saga = "none" /\ t \notin weights[shard_for(t)]
      BY <1>2, <2>2, ShardFacts DEF Owes
    <3> QED
      BY <1>1, <3>1 DEF IndInv, Owed
  <2> QED
    BY <2>1, <2>2
<1> QED
  BY <1>2 DEF Owed

LEMMA Unready ==
    ASSUME NEW s \in Subjects, run'[s].pc = "ready" \/ run'[s].at \notin 1..6
    PROVE  InStep(s)'
BY PlanFacts DEF InStep, InPlan

\* A step that adds nothing to what the journal says was carried through.
LEMMA Unlogged ==
    ASSUME IndInv, TypeOK', NEW s \in Subjects, run[s].at # 0, DataStep(s),
           clumsy \subseteq clumsy', receipt' = receipt,
           \A t \in Subjects : t # s => log'[t] = log[t] /\ run'[t] = run[t],
           log'[s].ok = log[s].ok, log'[s].saga = log[s].saga, log'[s].verdict = log[s].verdict,
           InStep(s)', Passed(s)', Owed'
    PROVE  IndInv'
<1>1. Logged(s)'
  BY LoggedKept
<1> QED
  BY <1>1, RunningFacts, Combine

LEMMA UnloggedOwed ==
    ASSUME IndInv, NEW s \in Subjects, run[s].at # 0, UNCHANGED <<weights, serving>>,
           \A t \in Subjects : t # s => log'[t] = log[t],
           log'[s].saga = log[s].saga,
           <<"reclaim", Adapter>> \in log'[s].ok => <<"reclaim", Adapter>> \in log[s].ok
    PROVE  Owed'
BY RunningFacts, OwedKept

LEMMA InPlanFacts == ASSUME NEW s, InPlan(s) PROVE run[s].at # 0
BY StepFacts

LEMMA PassOverInv == ASSUME IndInv, TypeOK', NEW s \in Subjects, PassOver(s) PROVE IndInv'
<1>1. /\ InPlan(s) /\ run[s].at # 0 /\ Skipped(s) /\ TypeOK /\ Passed(s)
      /\ UNCHANGED <<entries, rows, weights, serving>>
  BY InPlanFacts, RunningFacts DEF PassOver, dataVars, modelVars
<1>2. /\ run'[s] = Onwards(run[s]) /\ log' = log /\ receipt' = receipt /\ clumsy' = clumsy
      /\ \A t \in Subjects : t # s => run'[t] = run[t]
      /\ run'[s].at = run[s].at + 1 /\ run'[s].pc = "ready" /\ run'[s].dlq = run[s].dlq
  BY <1>1, RunFacts, StepFacts, OnwardsFacts, GoesOnFacts DEF PassOver
<1>3. Step(s)[1] # "suppress" \/ Step(s) \in log[s].ok
  BY <1>1 DEF Skipped
<1>4. Passed(s)' /\ InStep(s)'
  BY <1>1, <1>2, <1>3, PassedOn, Unready
<1> QED
  BY <1>1, <1>2, <1>4, NoData, Unlogged, UnloggedOwed

LEMMA ReadManifestInv == ASSUME IndInv, TypeOK', NEW s \in Subjects, ReadManifest(s) PROVE IndInv'
<1> DEFINE r == [run[s] EXCEPT !.pc = "manifest", !.man = entries]
<1>1. /\ InPlan(s) /\ run[s].at # 0 /\ TypeOK /\ Passed(s) /\ Step(s) \notin log[s].ok
      /\ StepBegins(s, r) /\ UNCHANGED <<entries, rows, weights, serving>>
      /\ Step(s)[2] = Dataset
      /\ Step(s)[1] # "suppress" => Step(s)[2] \notin run[s].dlq
  BY InPlanFacts, RunningFacts DEF ReadManifest, Ready, Skipped, dataVars, modelVars
<1>2. r \in Runs /\ r.at = run[s].at /\ r.pc = "manifest" /\ r.dlq = run[s].dlq /\ r.man = entries
  BY ZenonT(30), <1>1, RunTyped, RunFacts DEF Runs
<1> HIDE DEF r
<1>3. /\ run'[s] = r /\ log'[s].ok = log[s].ok /\ log'[s].saga = log[s].saga
      /\ log'[s].verdict = log[s].verdict
      /\ \A t \in Subjects : t # s => log'[t] = log[t] /\ run'[t] = run[t]
      /\ receipt' = receipt /\ clumsy' = clumsy
  BY <1>1, <1>2, BeginsFacts
<1>4. InStep(s)'
  BY <1>1, <1>2, <1>3 DEF InStep, InPlan, Step, IsAt
<1>5. Passed(s)'
  BY <1>1, <1>2, <1>3, PassedStay
<1> QED
  BY <1>1, <1>3, <1>4, <1>5, NoData, Unlogged, UnloggedOwed

LEMMA ReadRowsInv == ASSUME IndInv, TypeOK', NEW s \in Subjects, ReadRows(s) PROVE IndInv'
<1> DEFINE r == [run[s] EXCEPT !.pc = "rows", !.texts = rows \cap InShard(shard_for(s))]
<1>1. /\ InPlan(s) /\ run[s].at # 0 /\ TypeOK /\ Passed(s) /\ InStep(s) /\ StepGoesOn(s, r)
      /\ UNCHANGED <<entries, rows, weights, serving>>
      /\ Step(s)[2] = Dataset /\ run[s].pc # "ready"
  BY InPlanFacts, RunningFacts DEF ReadRows, IsAt, dataVars, modelVars
<1>2. /\ r \in Runs /\ r.at = run[s].at /\ r.pc = "rows" /\ r.dlq = run[s].dlq
      /\ r.man = run[s].man /\ r.texts = rows \cap InShard(shard_for(s))
  <2>1. PICK X \in SUBSET Subjects : X = rows \cap InShard(shard_for(s))
    BY ShardFacts
  <2>2. run[s] \in Runs /\ [run[s] EXCEPT !.pc = "rows", !.texts = X] \in Runs
    BY <1>1, RunTyped, RunFacts
  <2> QED
    BY <2>1, <2>2 DEF Runs
<1> HIDE DEF r
<1>3. /\ run'[s] = r /\ log' = log
      /\ \A t \in Subjects : t # s => run'[t] = run[t]
      /\ receipt' = receipt /\ clumsy' = clumsy
  BY <1>1, <1>2, GoesOnFacts
<1>4. InStep(s)'
  BY <1>1, <1>2, <1>3 DEF InStep, InPlan, Step, IsAt
<1>5. Passed(s)'
  BY <1>1, <1>2, <1>3, PassedStay
<1> QED
  BY <1>1, <1>3, <1>4, <1>5, NoData, Unlogged, UnloggedOwed

LEMMA DropRowInv == ASSUME IndInv, TypeOK', NEW s \in Subjects, DropRow(s) PROVE IndInv'
<1> DEFINE r == [run[s] EXCEPT !.pc = "save"]
<1>1. /\ InPlan(s) /\ run[s].at # 0 /\ TypeOK /\ Passed(s) /\ InStep(s) /\ StepGoesOn(s, r)
      /\ UNCHANGED <<entries, weights, serving>>
      /\ Step(s)[2] = Dataset /\ run[s].pc # "ready"
      /\ run[s].texts = rows \cap InShard(shard_for(s))
  BY InPlanFacts, RunningFacts DEF DropRow, InStep, IsAt, modelVars
<1>2. r \in Runs /\ r.at = run[s].at /\ r.pc = "save" /\ r.dlq = run[s].dlq /\ r.man = run[s].man
  BY <1>1, RunTyped, RunFacts DEF Runs
<1> HIDE DEF r
<1>3. /\ run'[s] = r /\ log' = log
      /\ \A t \in Subjects : t # s => run'[t] = run[t]
      /\ receipt' = receipt /\ clumsy' = clumsy
  BY <1>1, <1>2, GoesOnFacts
<1>4. rows' = rows \ {s}
  BY <1>1, ShardFacts DEF DropRow
<1>5. DataStep(s)
  BY <1>1, <1>4 DEF DataStep
<1>6. InStep(s)'
  BY <1>1, <1>2, <1>3, PlanFacts DEF InStep, InPlan, Step, IsAt
<1>7. Passed(s)'
  BY <1>1, <1>2, <1>3, PassedStay
<1> QED
  BY <1>1, <1>3, <1>5, <1>6, <1>7, Unlogged, UnloggedOwed

LEMMA ReadStateInv == ASSUME IndInv, TypeOK', NEW s \in Subjects, ReadState(s) PROVE IndInv'
<1> DEFINE r == [run[s] EXCEPT !.pc = "state", !.st = state]
<1>1. /\ InPlan(s) /\ run[s].at # 0 /\ TypeOK /\ Passed(s) /\ Step(s) \notin log[s].ok
      /\ StepBegins(s, r) /\ UNCHANGED <<entries, rows, weights, serving>>
      /\ Step(s)[2] = Adapter
      /\ Step(s)[1] # "suppress" => Step(s)[2] \notin run[s].dlq
  BY InPlanFacts, RunningFacts DEF ReadState, Ready, Skipped, dataVars, modelVars
<1>2. r \in Runs /\ r.at = run[s].at /\ r.pc = "state" /\ r.dlq = run[s].dlq
  BY ZenonT(30), <1>1, RunTyped, RunFacts DEF Runs, TypeOK
<1> HIDE DEF r
<1>3. /\ run'[s] = r /\ log'[s].ok = log[s].ok /\ log'[s].saga = log[s].saga
      /\ log'[s].verdict = log[s].verdict
      /\ \A t \in Subjects : t # s => log'[t] = log[t] /\ run'[t] = run[t]
      /\ receipt' = receipt /\ clumsy' = clumsy
  BY <1>1, <1>2, BeginsFacts
<1>4. InStep(s)'
  BY <1>1, <1>2, <1>3, PlanFacts DEF InStep, InPlan, Step, IsAt
<1>5. Passed(s)'
  BY <1>1, <1>2, <1>3, PassedStay
<1> QED
  BY <1>1, <1>3, <1>4, <1>5, NoData, Unlogged, UnloggedOwed

LEMMA MarkExcludedInv == ASSUME IndInv, TypeOK', NEW s \in Subjects, MarkExcluded(s) PROVE IndInv'
<1> DEFINE r == [run[s] EXCEPT !.pc = "compose", !.st = state']
<1>1. /\ InPlan(s) /\ run[s].at # 0 /\ TypeOK /\ Passed(s) /\ InStep(s) /\ StepGoesOn(s, r)
      /\ UNCHANGED <<entries, rows, weights, serving>>
      /\ Step(s) = <<"suppress", Adapter>> /\ run[s].pc # "ready"
  BY InPlanFacts, RunningFacts DEF MarkExcluded, IsAt, dataVars
<1>2. r \in Runs /\ r.at = run[s].at /\ r.pc = "compose" /\ r.dlq = run[s].dlq
  <2>1. state' \in States
    BY DEF TypeOK
  <2> QED
    BY ZenonT(30), <1>1, <2>1, RunTyped, RunFacts DEF Runs
<1>3. run'[s].at = run[s].at /\ run'[s].dlq = run[s].dlq
      /\ log' = log /\ receipt' = receipt /\ clumsy' = clumsy
      /\ \A t \in Subjects : t # s => run'[t] = run[t]
  BY <1>1, <1>2, GoesOnFacts
<1> HIDE DEF r
<1>4. InStep(s)'
  BY <1>1, <1>3, PlanFacts DEF InStep, InPlan, Step, IsAt
<1>5. Passed(s)'
  BY <1>1, <1>3, PassedStay
<1> QED
  BY <1>1, <1>3, <1>4, <1>5, NoData, Unlogged, UnloggedOwed

\* A saga in the middle of its adapter's steps still owes for its shard.
LEMMA ReclaimingFacts ==
    ASSUME IndInv, NEW s \in Subjects, InPlan(s), run[s].pc # "ready",
           Step(s) \in {<<"suppress", Adapter>>, <<"reclaim", Adapter>>}
    PROVE  <<"reclaim", Adapter>> \notin log[s].ok /\ Owes(s)
BY InPlanFacts, RunningFacts DEF Owes, InStep, Logged

LEMMA DropWeightsInv == ASSUME IndInv, TypeOK', NEW s \in Subjects, DropWeights(s) PROVE IndInv'
<1> DEFINE k == shard_for(s)
           r == [run[s] EXCEPT !.pc = "train", !.texts = Examples(k)]
<1>1. /\ InPlan(s) /\ run[s].at # 0 /\ TypeOK /\ Passed(s) /\ InStep(s) /\ StepGoesOn(s, r)
      /\ UNCHANGED <<entries, rows, serving>> /\ weights' = [weights EXCEPT ![k] = {}]
      /\ Step(s) = <<"reclaim", Adapter>> /\ run[s].pc # "ready"
  BY InPlanFacts, RunningFacts DEF DropWeights, IsAt, dataVars
<1>2. /\ r \in Runs /\ r.at = run[s].at /\ r.pc = "train" /\ r.dlq = run[s].dlq
      /\ r.texts = Examples(k)
  <2>1. PICK X \in SUBSET Subjects : X = Examples(k)
    BY ExamplesFacts
  <2>2. run[s] \in Runs /\ [run[s] EXCEPT !.pc = "train", !.texts = X] \in Runs
    BY <1>1, RunTyped, RunFacts
  <2> QED
    BY <2>1, <2>2 DEF Runs
<1> HIDE DEF r
<1>3. /\ run'[s] = r /\ log' = log
      /\ \A t \in Subjects : t # s => run'[t] = run[t]
      /\ receipt' = receipt /\ clumsy' = clumsy
  BY <1>1, <1>2, GoesOnFacts
<1>4. Examples(k)' = Examples(k)
  BY <1>1 DEF Examples
<1>5. InStep(s)'
  BY <1>1, <1>2, <1>3, <1>4, PlanFacts DEF InStep, InPlan, Step, IsAt
<1>6. Passed(s)'
  BY <1>1, <1>2, <1>3, PassedStay
<1>7. DataStep(s) /\ \A j \in ShardIds : j # k => weights'[j] = weights[j]
  BY <1>1, ShardFacts DEF DataStep, TypeOK
<1>8. Owed'
  BY <1>1, <1>3, <1>7, ReclaimingFacts, OwedStep DEF Owes
<1> QED
  BY <1>1, <1>3, <1>5, <1>6, <1>7, <1>8, Unlogged

LEMMA TrainInv == ASSUME IndInv, TypeOK', NEW s \in Subjects, Train(s) PROVE IndInv'
<1> DEFINE k == shard_for(s)
           r == [run[s] EXCEPT !.pc = "compose"]
<1>1. /\ InPlan(s) /\ run[s].at # 0 /\ TypeOK /\ Passed(s) /\ InStep(s) /\ StepGoesOn(s, r)
      /\ UNCHANGED <<entries, rows, serving>> /\ weights' = [weights EXCEPT ![k] = run[s].texts]
      /\ Step(s) = <<"reclaim", Adapter>> /\ run[s].pc # "ready"
      /\ run[s].texts = Examples(k)
  BY InPlanFacts, RunningFacts DEF Train, InStep, IsAt, dataVars
<1>2. r \in Runs /\ r.at = run[s].at /\ r.pc = "compose" /\ r.dlq = run[s].dlq
  BY <1>1, RunTyped, RunFacts DEF Runs
<1> HIDE DEF r
<1>3. /\ run'[s] = r /\ log' = log
      /\ \A t \in Subjects : t # s => run'[t] = run[t]
      /\ receipt' = receipt /\ clumsy' = clumsy
  BY <1>1, <1>2, GoesOnFacts
<1>4. Examples(k)' = Examples(k) /\ weights'[k] = Examples(k)
  BY <1>1, ShardFacts DEF Examples, TypeOK
<1>5. InStep(s)'
  BY <1>1, <1>2, <1>3, <1>4, PlanFacts DEF InStep, InPlan, Step, IsAt
<1>6. Passed(s)'
  BY <1>1, <1>2, <1>3, PassedStay
<1>7. DataStep(s) /\ \A j \in ShardIds : j # k => weights'[j] = weights[j]
  BY <1>1, ShardFacts DEF DataStep, TypeOK
<1>8. Owed'
  BY <1>1, <1>3, <1>7, ReclaimingFacts, OwedStep DEF Owes
<1> QED
  BY <1>1, <1>3, <1>5, <1>6, <1>7, <1>8, Unlogged

\* A step that fails adds nothing to the journal.
LEMMA FailsInv ==
    ASSUME IndInv, TypeOK', NEW s \in Subjects, InPlan(s), StepFails(s),
           UNCHANGED <<entries, rows, weights, serving>>
    PROVE  IndInv'
<1>1. run[s].at # 0 /\ TypeOK /\ Passed(s)
  BY InPlanFacts, RunningFacts
<1>2. /\ run'[s].at = run[s].at + 1 /\ run'[s].pc = "ready"
      /\ run[s].dlq \subseteq run'[s].dlq
      /\ Step(s)[1] # "verify" => Step(s)[2] \in run'[s].dlq
      /\ log'[s].ok = log[s].ok /\ log'[s].saga = log[s].saga
      /\ log'[s].verdict = log[s].verdict
      /\ \A t \in Subjects : t # s => log'[t] = log[t] /\ run'[t] = run[t]
      /\ receipt' = receipt /\ clumsy' = clumsy \cup {s}
  BY <1>1, FailsFacts
<1>3. Passed(s)' /\ InStep(s)'
  BY <1>1, <1>2, PassedOn, Unready
<1> QED
  BY <1>1, <1>2, <1>3, NoData, Unlogged, UnloggedOwed

LEMMA RecomposeInv == ASSUME IndInv, TypeOK', NEW s \in Subjects, Recompose(s) PROVE IndInv'
<1> DEFINE r == [run[s] EXCEPT !.pc = "save"]
<1>1. /\ InPlan(s) /\ run[s].at # 0 /\ TypeOK /\ Passed(s) /\ InStep(s)
      /\ UNCHANGED <<entries, rows, weights>>
      /\ Step(s) = <<"reclaim", Adapter>> /\ run[s].pc # "ready"
      /\ weights[shard_for(s)] = Examples(shard_for(s))
  BY InPlanFacts, RunningFacts DEF Recompose, InStep, IsAt, dataVars
<1>2. CASE serving' = Composed({}) /\ StepGoesOn(s, r)
  <2>1. r \in Runs /\ r.at = run[s].at /\ r.pc = "save" /\ r.dlq = run[s].dlq
    BY <1>1, RunTyped, RunFacts DEF Runs
  <2> HIDE DEF r
  <2>2. /\ run'[s] = r /\ log' = log
        /\ \A t \in Subjects : t # s => run'[t] = run[t]
        /\ receipt' = receipt /\ clumsy' = clumsy
    BY <1>1, <1>2, <2>1, GoesOnFacts
  <2>3. Trained' \subseteq serving' /\ Examples(shard_for(s))' = Examples(shard_for(s))
    BY <1>1, <1>2 DEF Trained, Composed, Examples
  <2>4. InStep(s)'
    BY <1>1, <2>1, <2>2, <2>3, PlanFacts DEF InStep, InPlan, Step, IsAt
  <2>5. Passed(s)'
    BY <1>1, <2>1, <2>2, PassedStay
  <2>6. Owed'
    BY <1>1, <2>2, ReclaimingFacts, OwedStep DEF Owes
  <2> QED
    BY <1>1, <2>2, <2>4, <2>5, <2>6, NoData, Unlogged
<1>3. CASE StepFails(s) /\ UNCHANGED <<serving, faults>>
  BY <1>1, <1>3, FailsInv
<1> QED
  BY <1>2, <1>3 DEF Recompose

-----------------------------------------------------------------------------
(* One saga after the other: the steps that are carried through.              *)

LEMMA LoggedEnds ==
    ASSUME IndInv, NEW s \in Subjects, DataStep(s), clumsy' = clumsy, receipt' = receipt,
           NEW p, p # <<"reclaim", Adapter>>,
           log'[s].ok = log[s].ok \cup {p}, log'[s].saga = log[s].saga,
           p = <<"suppress", Dataset>> => entries'[s] # "live",
           log'[s].verdict[Dataset] = "verified" =>
             log[s].verdict[Dataset] = "verified" \/ (s \notin rows' /\ entries'[s] # "live")
    PROVE  Logged(s)'
<1>1. /\ entries[s] # "live" => entries'[s] # "live"
      /\ s \notin rows => s \notin rows'
      /\ weights'[shard_for(s)] \in {weights[shard_for(s)], {}, Examples(shard_for(s))}
  BY ShardFacts DEF DataStep
<1>2. entries[s] # "live" => s \notin Examples(shard_for(s))
  BY DEF Examples
<1>3. Logged(s)
  BY DEF IndInv
<1> QED
  BY <1>1, <1>2, <1>3 DEF Logged

\* A step that is carried through, and is no reclaim of the adapter.
LEMMA EndsInv ==
    ASSUME IndInv, TypeOK', NEW s \in Subjects, InPlan(s), NEW verdict \in [Stores -> Rules],
           StepEnds(s, verdict), DataStep(s), Step(s) # <<"reclaim", Adapter>>,
           Step(s) = <<"suppress", Dataset>> => entries'[s] # "live",
           verdict[Dataset] = "verified" =>
             log[s].verdict[Dataset] = "verified" \/ (s \notin rows' /\ entries'[s] # "live"),
           UNCHANGED <<weights, serving>> \/ (Owes(s) /\ UNCHANGED weights)
    PROVE  IndInv'
<1>1. run[s].at # 0 /\ TypeOK /\ Passed(s)
  BY InPlanFacts, RunningFacts
<1>2. /\ run'[s] = Onwards(run[s]) /\ log'[s].ok = log[s].ok \cup {Step(s)}
      /\ log'[s].saga = log[s].saga /\ log'[s].verdict = verdict
      /\ \A t \in Subjects : t # s => log'[t] = log[t] /\ run'[t] = run[t]
      /\ receipt' = receipt /\ clumsy' = clumsy
      /\ run'[s].at = run[s].at + 1 /\ run'[s].pc = "ready" /\ run'[s].dlq = run[s].dlq
  BY <1>1, RunFacts, StepFacts, OnwardsFacts, EndsFacts
<1>3. Passed(s)' /\ InStep(s)'
  BY <1>1, <1>2, PassedOn, Unready
<1>4. Logged(s)'
  BY <1>2, LoggedEnds
<1>5. Owed'
  <2>1. CASE UNCHANGED <<weights, serving>>
    BY <1>1, <1>2, <2>1, UnloggedOwed
  <2>2. CASE Owes(s) /\ UNCHANGED weights
    BY <1>2, <2>2, OwedStep DEF Owes
  <2> QED
    BY <2>1, <2>2
<1> QED
  BY <1>1, <1>2, <1>3, <1>4, <1>5, RunningFacts, Combine

LEMMA MarkSuppressedInv == ASSUME IndInv, TypeOK', NEW s \in Subjects, MarkSuppressed(s) PROVE IndInv'
<1>1. /\ InPlan(s) /\ TypeOK /\ Step(s) = <<"suppress", Dataset>> /\ run[s].man = entries
      /\ UNCHANGED <<rows, weights, serving>> /\ StepEnds(s, log[s].verdict)
  BY InPlanFacts, RunningFacts DEF MarkSuppressed, InStep, IsAt, modelVars
<1>2. entries' = [entries EXCEPT ![s] = IF entries[s] = "live" THEN "suppressed" ELSE entries[s]]
  BY <1>1 DEF MarkSuppressed
<1>3. entries'[s] # "live" /\ \A t \in Subjects : t # s => entries'[t] = entries[t]
  BY <1>1, <1>2 DEF TypeOK
<1>4. DataStep(s)
  BY <1>1, <1>3 DEF DataStep
<1> QED
  BY <1>1, <1>3, <1>4, RunFacts, EndsInv

LEMMA DropEntryInv == ASSUME IndInv, TypeOK', NEW s \in Subjects, DropEntry(s) PROVE IndInv'
<1>1. /\ InPlan(s) /\ TypeOK /\ Step(s) = <<"reclaim", Dataset>> /\ run[s].man = entries
      /\ UNCHANGED <<rows, weights, serving>> /\ StepEnds(s, log[s].verdict)
      /\ Step(s) # <<"reclaim", Adapter>>
  BY InPlanFacts, RunningFacts, PlanFacts DEF DropEntry, InStep, IsAt, modelVars
<1>2. entries' = [entries EXCEPT ![s] = "gone"]
  BY <1>1 DEF DropEntry
<1>3. entries'[s] # "live" /\ \A t \in Subjects : t # s => entries'[t] = entries[t]
  BY <1>1, <1>2 DEF TypeOK
<1>4. DataStep(s)
  BY <1>1, <1>3 DEF DataStep
<1> QED
  BY <1>1, <1>3, <1>4, RunFacts, EndsInv

LEMMA HideInv == ASSUME IndInv, TypeOK', NEW s \in Subjects, Hide(s) PROVE IndInv'
<1>1. /\ InPlan(s) /\ TypeOK /\ Step(s) = <<"suppress", Adapter>> /\ run[s].pc # "ready"
      /\ UNCHANGED <<entries, rows, weights>>
  BY InPlanFacts, RunningFacts DEF Hide, IsAt, dataVars
<1>2. Owes(s) /\ Step(s) # <<"reclaim", Adapter>> /\ Step(s) # <<"suppress", Dataset>>
  BY <1>1, ReclaimingFacts, PlanFacts
<1>3. CASE StepEnds(s, log[s].verdict)
  BY <1>1, <1>2, <1>3, NoData, RunFacts, EndsInv
<1>4. CASE StepFails(s) /\ UNCHANGED <<serving, faults>>
  BY <1>1, <1>4, FailsInv
<1> QED
  BY <1>3, <1>4 DEF Hide

LEMMA VerifyDatasetInv == ASSUME IndInv, TypeOK', NEW s \in Subjects, VerifyDataset(s) PROVE IndInv'
<1> DEFINE rule == IF entries[s] = "live" THEN "logical_fail"
                   ELSE IF s \in rows THEN "physical_fail" ELSE "verified"
           verdict == [log[s].verdict EXCEPT ![Dataset] = rule]
<1>1. /\ InPlan(s) /\ TypeOK /\ Step(s) = <<"verify", Dataset>>
      /\ StepEnds(s, verdict)
      /\ UNCHANGED <<entries, rows, weights, serving>>
  BY InPlanFacts, RunningFacts DEF VerifyDataset, Ready, dataVars, modelVars
<1>2. verdict \in [Stores -> Rules] /\ verdict[Dataset] = rule
  <2>1. rule \in Rules /\ Dataset \in Stores /\ log[s].verdict \in [Stores -> Rules]
    BY <1>1, RunFacts DEF Rules, Stores
  <2> HIDE DEF rule
  <2> QED
    BY <2>1
<1>3. rule = "verified" => s \notin rows' /\ entries'[s] # "live"
  BY <1>1
<1> HIDE DEF rule, verdict
<1> QED
  BY <1>1, <1>2, <1>3, NoData, EndsInv

LEMMA VerifyAdapterInv == ASSUME IndInv, TypeOK', NEW s \in Subjects, VerifyAdapter(s) PROVE IndInv'
<1> DEFINE verdict == [log[s].verdict EXCEPT ![Adapter] = AdapterRule(s)]
<1>1. /\ InPlan(s) /\ TypeOK /\ Step(s) = <<"verify", Adapter>>
      /\ UNCHANGED <<entries, rows, weights, serving>>
  BY InPlanFacts, RunningFacts DEF VerifyAdapter, Ready, dataVars, modelVars
<1>2. verdict \in [Stores -> Rules] /\ verdict[Dataset] = log[s].verdict[Dataset]
  BY <1>1, RunFacts, PlanFacts DEF AdapterRule, Rules, Stores
<1>3. CASE StepEnds(s, verdict)
  <2> HIDE DEF verdict
  <2> QED
    BY <1>1, <1>2, <1>3, NoData, EndsInv
<1>4. CASE StepFails(s)
  BY <1>1, <1>4, FailsInv
<1> QED
  BY <1>3, <1>4 DEF VerifyAdapter

LEMMA ReadmitInv == ASSUME IndInv, TypeOK', NEW s \in Subjects, Readmit(s) PROVE IndInv'
<1> DEFINE k == shard_for(s)
           p == <<"reclaim", Adapter>>
<1>1. /\ InPlan(s) /\ run[s].at # 0 /\ TypeOK /\ Passed(s) /\ Logged(s) /\ log[s].saga # "none"
      /\ UNCHANGED <<entries, rows, weights, serving>> /\ StepEnds(s, log[s].verdict)
      /\ Step(s) = p /\ Adapter \notin run[s].dlq /\ p \notin log[s].ok
      /\ weights[k] = Examples(k) /\ Trained \subseteq serving
  BY InPlanFacts, RunningFacts DEF Readmit, InStep, IsAt, dataVars
<1>2. /\ run'[s] = Onwards(run[s]) /\ log'[s].ok = log[s].ok \cup {p}
      /\ log'[s].saga = log[s].saga /\ log'[s].verdict = log[s].verdict
      /\ \A t \in Subjects : t # s => log'[t] = log[t] /\ run'[t] = run[t]
      /\ receipt' = receipt /\ clumsy' = clumsy
      /\ run'[s].at = run[s].at + 1 /\ run'[s].pc = "ready" /\ run'[s].dlq = run[s].dlq
  <2>1. log[s].verdict \in [Stores -> Rules] /\ run[s] \in Runs /\ run[s].at \in 1..6
    BY <1>1, RunFacts, StepFacts
  <2> QED
    BY <1>1, <2>1, OnwardsFacts, EndsFacts
<1>3. Passed(s)' /\ InStep(s)'
  BY <1>1, <1>2, PassedOn, Unready
<1>4. /\ <<"suppress", Adapter>> \in log[s].ok
      /\ <<"suppress", Dataset>> \in log[s].ok \/ s \in clumsy
  <2>1. run[s].at \in {3, 4}
    BY <1>1, StepFacts
  <2>2. PICK n \in {1, 2} : Plan[n] = <<"suppress", Adapter>>
    BY PlanFacts
  <2>3. PICK m \in {1, 2} : Plan[m] = <<"suppress", Dataset>>
    BY PlanFacts
  <2>4. n < run[s].at /\ m < run[s].at
    BY <2>1
  <2> QED
    BY <1>1, <2>2, <2>3, <2>4 DEF Passed
<1>5. s \in clumsy \/ s \notin weights[k]
  BY <1>1, <1>4 DEF Logged, Examples
<1>6. Logged(s)'
  BY <1>1, <1>2, <1>4, <1>5 DEF Logged
<1>7. Owed'
  <2>1. ASSUME NEW t \in Subjects, log'[t].saga = "none", t \notin weights[shard_for(t)]
        PROVE  \E u \in Subjects : Owes(u)' /\ shard_for(u) = shard_for(t)
    <3>1. t # s /\ log[t].saga = "none"
      BY <1>1, <1>2, <2>1
    <3>2. t \in Examples(shard_for(t))
      BY <3>1, ShardFacts DEF IndInv, Spared, Examples
    <3>3. shard_for(t) # k
      BY <1>1, <2>1, <3>2
    <3>4. PICK u \in Subjects : Owes(u) /\ shard_for(u) = shard_for(t)
      BY <2>1, <3>1 DEF IndInv, Owed
    <3>5. Owes(u)'
      BY <1>2, <3>3, <3>4 DEF Owes
    <3> QED
      BY <3>4, <3>5
  <2>2. Trained' \subseteq serving'
    BY <1>1 DEF Trained
  <2> QED
    BY <1>1, <2>1, <2>2 DEF Owed
<1> QED
  BY <1>1, <1>2, <1>3, <1>6, <1>7, RunningFacts, NoData, Combine

-----------------------------------------------------------------------------
(* One saga after the other: how a saga begins and ends.                       *)

LEMMA WriteReceiptInv == ASSUME IndInv, TypeOK', NEW s \in Subjects, WriteReceipt(s) PROVE IndInv'
<1>1. /\ run[s].at = 7 /\ TypeOK /\ Passed(s) /\ Logged(s) /\ log[s].saga # "none"
      /\ \A t \in Subjects : t # s => run[t].at = 0
  BY PlanFacts, RunningFacts DEF WriteReceipt
<1>2. /\ run'[s].at = 8 /\ run'[s].pc = "ready"
      /\ log'[s].ok = log[s].ok /\ log'[s].saga = "ended" /\ log'[s].verdict = log[s].verdict
      /\ receipt'[s].reclaimed => <<"reclaim", Adapter>> \in log[s].ok
      /\ receipt'[s].rule[Dataset] = "verified" => log[s].verdict[Dataset] = "verified"
      /\ \A t \in Subjects :
           t # s => log'[t] = log[t] /\ run'[t] = run[t] /\ receipt'[t] = receipt[t]
      /\ UNCHANGED <<dataVars, modelVars, context, clumsy, faults>>
  BY <1>1, ReceiptFacts
<1>3. run'[s].dlq = run[s].dlq
  <2>1. run[s] \in Runs /\ run'[s] = Onwards(run[s])
    BY <1>1, RunFacts, ReceiptFacts DEF WriteReceipt, TypeOK
  <2> QED
    BY <1>1, <2>1, OnwardsFacts
<1>4. UNCHANGED <<entries, rows, weights, serving>> /\ clumsy' = clumsy
  BY <1>2 DEF dataVars, modelVars
<1>5. Logged(s)'
  BY <1>1, <1>2, <1>4 DEF Logged
<1>6. Passed(s)'
  <2>1. ASSUME NEW n \in {1, 2}, n < run'[s].at
        PROVE  /\ Plan[n] \in log'[s].ok \/ s \in clumsy'
               /\ Plan[n] \in log'[s].ok \/ Plan[n][2] \in run'[s].dlq
    <3>1. n < run[s].at
      BY <1>1
    <3> QED
      BY <1>1, <1>2, <1>3, <1>4, <3>1 DEF Passed
  <2> QED
    BY <2>1 DEF Passed
<1>7. InStep(s)'
  BY <1>2, Unready
<1>8. Owed'
  BY <1>1, <1>2, <1>4, OwedKept
<1>9. DataStep(s)
  BY <1>4, NoData
<1> QED
  BY <1>1, <1>2, <1>4, <1>5, <1>6, <1>7, <1>8, <1>9, Combine

\* A run that gives up, is killed or is over leaves the files to its saga's next run.
LEMMA StopsInv ==
    ASSUME IndInv, TypeOK', NEW s \in Subjects, run[s].at # 0, run'[s].at = 0,
           \A t \in Subjects : t # s => run'[t] = run[t],
           UNCHANGED <<entries, rows, weights, serving, log, receipt, clumsy>>
    PROVE  IndInv'
<1>1. InStep(s)' /\ Passed(s)'
  BY PlanFacts DEF InStep, InPlan, Passed
<1> QED
  BY <1>1, NoData, Unlogged, UnloggedOwed

LEMMA CrashInv == ASSUME IndInv, TypeOK', NEW s \in Subjects, Crash(s) PROVE IndInv'
<1>1. /\ run[s].at # 0 /\ run' = [run EXCEPT ![s] = Stopped]
      /\ UNCHANGED <<entries, rows, weights, serving, log, receipt, clumsy>>
  BY DEF Crash, dataVars, modelVars
<1>2. run'[s].at = 0 /\ \A t \in Subjects : t # s => run'[t] = run[t]
  BY <1>1, EmptyFacts DEF IndInv, TypeOK
<1> QED
  BY <1>1, <1>2, StopsInv

LEMMA FailInv == ASSUME IndInv, TypeOK', NEW s \in Subjects, Fail(s) PROVE IndInv'
<1>1. InPlan(s) /\ StepFails(s) /\ UNCHANGED <<entries, rows, weights, serving>>
  BY DEF Fail, dataVars, modelVars
<1> QED
  BY <1>1, FailsInv

LEMMA RefuseReceiptInv == ASSUME IndInv, TypeOK', NEW s \in Subjects, RefuseReceipt(s) PROVE IndInv'
<1>1. /\ run[s].at # 0 /\ TypeOK /\ StepGoesOn(s, Stopped)
      /\ UNCHANGED <<entries, rows, weights, serving>>
  BY PlanFacts DEF RefuseReceipt, IndInv, dataVars, modelVars
<1>2. /\ run'[s].at = 0 /\ \A t \in Subjects : t # s => run'[t] = run[t]
      /\ UNCHANGED <<log, receipt, clumsy>>
  BY <1>1, EmptyFacts, GoesOnFacts
<1> QED
  BY <1>1, <1>2, StopsInv

LEMMA ReleaseInv == ASSUME IndInv, TypeOK', NEW s \in Subjects, Release(s) PROVE IndInv'
<1> DEFINE r == [run[s] EXCEPT !.pc = "state", !.st = state]
<1>1. /\ run[s].at = 8 /\ TypeOK /\ Passed(s)
      /\ UNCHANGED <<entries, rows, weights, serving>>
  BY PlanFacts, RunningFacts DEF Release, IndInv, dataVars
<1>2. CASE StepGoesOn(s, r)
  <2>1. r \in Runs /\ r.at = 8 /\ r.dlq = run[s].dlq
    BY ZenonT(30), <1>1, RunTyped, RunFacts DEF Runs, TypeOK
  <2> HIDE DEF r
  <2>2. /\ run'[s] = r /\ \A t \in Subjects : t # s => run'[t] = run[t]
        /\ UNCHANGED <<log, receipt, clumsy>>
    BY <1>1, <1>2, <2>1, GoesOnFacts
  <2>3. InStep(s)' /\ Passed(s)'
    BY <1>1, <2>1, <2>2, Unready, PassedStay
  <2> QED
    BY <1>1, <2>2, <2>3, NoData, Unlogged, UnloggedOwed
<1>3. CASE StepGoesOn(s, Stopped)
  <2>1. /\ run'[s].at = 0 /\ \A t \in Subjects : t # s => run'[t] = run[t]
        /\ UNCHANGED <<log, receipt, clumsy>>
    BY <1>1, <1>3, EmptyFacts, GoesOnFacts
  <2> QED
    BY <1>1, <2>1, StopsInv
<1> QED
  BY <1>2, <1>3 DEF Release

LEMMA StartInv == ASSUME OneAtATime, IndInv, TypeOK', NEW s \in Subjects, Start(s) PROVE IndInv'
<1>1. Running = {}
  <2> SUFFICES ASSUME NEW t \in Running PROVE FALSE
    OBVIOUS
  <2>1. Running = {t}
    BY DEF IndInv, Alone
  <2>2. Cardinality(Running) = 1
    BY <2>1, FS_Singleton
  <2> QED
    BY <2>2 DEF Start, OneAtATime
<1>2. /\ run'[s].at = 1 /\ run'[s].pc = "ready" /\ log'[s].saga = "open"
      /\ \/ log'[s].ok = {} /\ log'[s].verdict = Unprobed
         \/ log'[s].ok = log[s].ok /\ log'[s].verdict = log[s].verdict
      /\ log[s].saga = "none" => log'[s].ok = log[s].ok
      /\ \A t \in Subjects : t # s => log'[t] = log[t] /\ run'[t] = run[t]
      /\ UNCHANGED <<entries, rows, weights, serving, receipt, clumsy>>
  BY StartFacts DEF IndInv, dataVars, modelVars
<1>3. \A t \in Subjects : run[t].at = 0
  BY <1>1 DEF Running
<1>4. Logged(s) /\ Spared(s)
  BY DEF IndInv
<1>5. InStep(s)' /\ Passed(s)'
  BY <1>2, Unready DEF Passed
<1>6. Logged(s)'
  BY <1>2, <1>4, EmptyFacts DEF Logged
<1>7. <<"reclaim", Adapter>> \in log'[s].ok =>
        log[s].saga # "none" /\ <<"reclaim", Adapter>> \in log[s].ok
  BY <1>2, <1>4 DEF Spared
<1>8. Owed'
  BY <1>2, <1>7, OwedKept
<1> QED
  BY <1>2, <1>3, <1>5, <1>6, <1>8, NoData, Combine

-----------------------------------------------------------------------------
(* One saga after the other: the theorems.                                     *)

LEMMA InitInv == Init => IndInv
<1> SUFFICES ASSUME Init PROVE IndInv
  OBVIOUS
<1>1. TypeOK
  BY TypeInit
<1>2. \A s \in Subjects : run[s] = Stopped /\ log[s] = NoLog /\ receipt[s] = NoReceipt
  BY DEF Init
<1>3. NoReceipt.rule[Dataset] = "none"
  BY EmptyFacts DEF NoReceipt
<1>4. \A s \in Subjects : s \in weights[shard_for(s)] /\ s \in rows /\ entries[s] = "live"
  BY ShardFacts DEF Init, AllLive
<1>5. \A s \in Subjects : InStep(s) /\ Passed(s)
  BY <1>2, EmptyFacts, PlanFacts DEF InStep, InPlan, Passed
<1>6. \A s \in Subjects : Logged(s) /\ Spared(s)
  BY <1>2, <1>3, <1>4, EmptyFacts DEF Logged, Spared
<1>7. Owed
  BY <1>4 DEF Owed, Init, Trained
<1>8. Alone
  BY <1>2, EmptyFacts DEF Alone, Running
<1> QED
  BY <1>1, <1>5, <1>6, <1>7, <1>8 DEF IndInv

LEMMA StepInv == ASSUME OneAtATime PROVE IndInv /\ [Next]_vars => IndInv'
<1> SUFFICES ASSUME IndInv, [Next]_vars PROVE IndInv'
  OBVIOUS
<1>1. TypeOK'
  BY TypeStep DEF IndInv
<1>2. CASE UNCHANGED vars
  <2>1. UNCHANGED <<entries, rows, weights, serving, log, receipt, run, clumsy>>
    BY <1>2 DEF vars, dataVars, modelVars
  <2>2. Alone' /\ Owed'
    BY <2>1 DEF IndInv, Alone, Running, Owed, Owes, Trained
  <2>3. ASSUME NEW s \in Subjects PROVE InStep(s)'
    BY <2>1 DEF IndInv, InStep, InPlan, Step, IsAt, Examples, Trained
  <2>4. ASSUME NEW s \in Subjects PROVE Passed(s)' /\ Logged(s)' /\ Spared(s)'
    BY <2>1 DEF IndInv, Passed, Logged, Spared
  <2> QED
    BY <1>1, <2>2, <2>3, <2>4 DEF IndInv
<1>3. ASSUME NEW s \in Subjects, Start(s) PROVE IndInv'
  BY <1>1, <1>3, StartInv
<1>4. ASSUME NEW s \in Subjects, Go(s) PROVE IndInv'
  BY <1>1, <1>4, PassOverInv, ReadManifestInv, MarkSuppressedInv, ReadRowsInv, DropRowInv,
     DropEntryInv, ReadStateInv, MarkExcludedInv, HideInv, DropWeightsInv, TrainInv,
     RecomposeInv, ReadmitInv, VerifyDatasetInv, VerifyAdapterInv, WriteReceiptInv,
     RefuseReceiptInv, ReleaseInv DEF Go
<1>5. ASSUME NEW s \in Subjects, Fail(s) PROVE IndInv'
  BY <1>1, <1>5, FailInv
<1>6. ASSUME NEW s \in Subjects, Crash(s) PROVE IndInv'
  BY <1>1, <1>6, CrashInv
<1> QED
  BY <1>2, <1>3, <1>4, <1>5, <1>6 DEF Next

LEMMA AlwaysInv == ASSUME OneAtATime PROVE Spec => []IndInv
BY InitInv, StepInv, PTL DEF Spec

\* A receipt that says VERIFIED of the dataset stays right when sagas do not overlap:
\* what a later saga writes back it read after the example was gone.
THEOREM DatasetErasureLasts == ASSUME OneAtATime PROVE Spec => []DatasetStaysErased
<1>1. IndInv => DatasetStaysErased
  BY DEF IndInv, Logged, DatasetStaysErased
<1> QED
  BY <1>1, AlwaysInv, PTL

\* Exact unlearning unlearns, in either order of the stores, and for good.
THEOREM UnlearningLasts == ASSUME OneAtATime PROVE Spec => []ReclaimForgets
<1>1. IndInv => ReclaimForgets
  BY DEF IndInv, Logged, ReclaimForgets
<1> QED
  BY <1>1, AlwaysInv, PTL

\* Whom nobody erases keeps a place in the weights, and is served when all is done.
THEOREM ErasingCostsOthersNothing == ASSUME OneAtATime PROVE Spec => []OthersUnharmed
<1>1. ASSUME IndInv PROVE OthersKept
  BY <1>1 DEF IndInv, Spared, OthersKept
<1>2. ASSUME IndInv PROVE OthersServed
  <2> SUFFICES ASSUME \A s \in Subjects :
                        \/ log[s].saga = "none"
                        \/ log[s].saga = "ended" /\ run[s].at = 0 /\ receipt[s].reclaimed,
                      NEW s \in Subjects, log[s].saga = "none"
               PROVE  s \in Served
    BY DEF OthersServed
  <2>1. ASSUME NEW t \in Subjects PROVE ~Owes(t)
    BY <1>2, <2>1 DEF IndInv, Logged, Owes
  <2>2. s \in weights[shard_for(s)] /\ Trained \subseteq serving
    BY <1>2, <2>1 DEF IndInv, Owed
  <2>3. shard_for(s) \in Trained
    BY <2>2, ShardFacts DEF Trained
  <2> QED
    BY <2>2, <2>3 DEF Served
<1>3. IndInv => OthersUnharmed
  BY <1>1, <1>2 DEF OthersUnharmed
<1> QED
  BY <1>3, AlwaysInv, PTL
=============================================================================
