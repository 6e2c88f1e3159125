---------------------------- MODULE StatusLattice ----------------------------
(***************************************************************************)
(* How one artifact gets its status: the probes that a saga journals, the   *)
(* facts that saga.py draws from those records, the lattice of levels.py,   *)
(* and replay.py, which draws the facts from the same records again.        *)
(* The saga may be killed between any two records and resumed, its steps    *)
(* may raise, `dlq retry` starts a second saga of the trace, and other      *)
(* subjects' artifacts with the same bytes come and go.  Two commands look  *)
(* again at what a receipt says: the audit, and the independent verifier.   *)
(*                                                                         *)
(* A measurement is kept as what the rules compare it with: hits or none,   *)
(* above or within.  Stores are not trusted: a suppression or a reclaim     *)
(* that returns may have left anything behind.                              *)
(***************************************************************************)
EXTENDS Naturals, Sequences

CONSTANTS
    MaxSagas,   \* sagas of the trace: the first and its retries
    MaxFaults,  \* bound on kills and raising steps
    MaxMoves    \* bound on what other subjects do

ASSUME LatticeAssumption == MaxSagas \in Nat /\ MaxFaults \in Nat /\ MaxMoves \in Nat

VARIABLES
    cfg,      \* the store, and how it is configured
    env,      \* what is really there
    journal,  \* the records about the artifact, in order
    saga,     \* the current saga: its number, and is it open?
    run,      \* the run of the saga: where it is, and what it remembers
    receipt,  \* what the last receipt says
    history   \* what has gone wrong, for the properties

vars == <<cfg, env, journal, saga, run, receipt, history>>

\* model: the store is an adapter; sharded: it has the MODEL capability;
\* physical: the PHYSICAL capability; readable: its bytes can be read;
\* prompts, reference: there is something to extract with, and to compare with;
\* gap: the store has entries without lineage; semantic: --semantic.
Configs ==
    {c \in [model: BOOLEAN, sharded: BOOLEAN, physical: BOOLEAN, readable: BOOLEAN,
            prompts: BOOLEAN, reference: BOOLEAN, gap: BOOLEAN, semantic: BOOLEAN] :
        /\ ~c.model => ~c.sharded /\ c.prompts /\ ~c.reference
        /\ c.model => c.physical /\ c.readable /\ ~c.semantic
        /\ ~c.physical => c.readable}

\* live: retrievable or extractable; own: the record's own bytes (an adapter's
\* old weights); ghost: its content elsewhere in the store; leak: membership can be
\* inferred; dupes: another subject's artifact has the same content, and is live, or
\* hidden and not yet removed; drift: the neighbourhood moved.
Envs == [live: BOOLEAN, own: BOOLEAN, ghost: BOOLEAN, leak: BOOLEAN,
         dupes: {"none", "live", "hidden"}, drift: BOOLEAN]

Sagas == 1..MaxSagas
Records ==
    [type: {"baseline"}, saga: Sagas, dupes: BOOLEAN]
        \cup [type: {"logical"}, saga: Sagas, found: {"yes", "no", "none"}]
        \cup [type: {"unsupported"}, saga: Sagas]
        \cup [type: {"scan"}, saga: Sagas, own: BOOLEAN, content: BOOLEAN]
        \cup [type: {"model"}, saga: Sagas, canary: {"yes", "no", "none"},
              mia: {"yes", "no", "none"}]
        \cup [type: {"semantic"}, saga: Sagas, above: BOOLEAN]
        \cup [type: {"begin", "ok", "failed"}, saga: Sagas,
              step: {"suppress", "baseline", "reclaim", "verify"}]
        \cup [type: {"dlq"}, saga: Sagas]

PCs == {"down", "suppress", "baseline", "reclaim", "logical", "physical", "model",
        "semantic", "receipt"}

\* before: the neighbourhood that --semantic compares with, which only the run knows:
\* none was recorded, or the whole one, or one that lacks the artifact already.
Befores == {"none", "whole", "blind"}
Down == [pc |-> "down", begun |-> FALSE, reclaim |-> FALSE, dlq |-> FALSE, before |-> "none"]

Rules == {"dlq", "lineage_gap", "logical_fail", "logical_unprobed", "physical_unsupported",
          "physical_fail", "physical_unprobed", "model_unprobed", "model_residual",
          "semantic_residual", "verified"}
Levels == {"none", "logical", "physical", "model", "semantic"}
NoReceipt == [saga |-> 0, status |-> <<"dlq", "none">>]
Smooth == [raised |-> FALSE, late |-> FALSE, moves |-> 0, faults |-> 0]

Init ==
    /\ cfg \in Configs
    /\ env \in {e \in Envs : e.live /\ e.own /\ (e.leak => cfg.model)
                             /\ (cfg.model => e.dupes = "none") /\ ~e.drift /\ ~e.ghost}
    /\ journal = <<>>
    /\ saga = [id |-> 0, open |-> FALSE]
    /\ run = Down
    /\ receipt = NoReceipt
    /\ history = Smooth

----------------------------------------------------------------------------
(* Facts from records                                                      *)

Has(record) == \E i \in DOMAIN journal : journal[i] = record
YesNo(b) == IF b THEN "yes" ELSE "no"

\* What the saga knows before it reads its records, and what replay does.
Unread(dlq, gap, supported, model) ==
    [dlq |-> dlq, gap |-> gap, seen |-> FALSE, dupes |-> FALSE, logical |-> "none",
     supported |-> supported, physical |-> "none", model |-> model,
     canary |-> "none", mia |-> "none", above |-> "none"]

SagaFacts == Unread(run.dlq, cfg.gap, cfg.physical, cfg.sharded)

ReplayFacts(r) ==
    Unread(Has([type |-> "dlq", saga |-> r.saga]), r.status[1] = "lineage_gap", TRUE, FALSE)

\* The earliest baseline of any saga of the trace counts.
TakeBaseline(f, r) == IF f.seen THEN f ELSE [f EXCEPT !.seen = TRUE, !.dupes = r.dupes]

\* Whose bytes a scan found.
Attributed(f, r) ==
    IF r.own \/ (r.content /\ ~f.dupes) THEN [f EXCEPT !.physical = "yes"]
    ELSE IF r.content THEN [f EXCEPT !.physical = "none", !.supported = FALSE]
    ELSE [f EXCEPT !.physical = "no"]

\* Faulty variant: the first answer of a probe counts, as it does for the baseline.
FaultyLearn(id, f, r) ==
    CASE r.type = "baseline" -> TakeBaseline(f, r)
      [] r.type = "logical" /\ r.saga = id /\ f.logical = "none" ->
            [f EXCEPT !.logical = YesNo(r.found = "yes")]
      [] r.type = "unsupported" /\ r.saga = id -> [f EXCEPT !.supported = FALSE]
      [] r.type = "scan" /\ r.saga = id /\ f.physical = "none" -> Attributed(f, r)
      [] r.type = "model" /\ r.saga = id ->
            [f EXCEPT !.model = TRUE, !.canary = r.canary, !.mia = r.mia]
      [] r.type = "semantic" /\ r.saga = id -> [f EXCEPT !.above = YesNo(r.above)]
      [] OTHER -> f

\* _facts_from_journal, one record; a probe that could not run counts as no find.
Learn(id, f, r) ==
    CASE r.type = "baseline" -> TakeBaseline(f, r)
      [] r.type = "logical" /\ r.saga = id -> [f EXCEPT !.logical = YesNo(r.found = "yes")]
      [] r.type = "unsupported" /\ r.saga = id -> [f EXCEPT !.supported = FALSE]
      [] r.type = "scan" /\ r.saga = id -> Attributed(f, r)
      [] r.type = "model" /\ r.saga = id ->
            [f EXCEPT !.model = TRUE, !.canary = r.canary, !.mia = r.mia]
      [] r.type = "semantic" /\ r.saga = id -> [f EXCEPT !.above = YesNo(r.above)]
      [] OTHER -> f

\* Faulty variant: replay takes the content hits for the artifact's own.
FaultyRelearn(id, f, r) ==
    IF r.type = "scan" /\ r.saga = id
    THEN [f EXCEPT !.physical = YesNo(r.own \/ r.content)] ELSE Learn(id, f, r)

\* facts_from_records, one record: the same rule, written a second time.
Relearn(id, f, r) ==
    IF r.type = "baseline" THEN TakeBaseline(f, r)
    ELSE IF r.type \in {"ok", "dlq", "begin", "failed"} \/ r.saga # id THEN f
    ELSE CASE r.type = "logical" -> [f EXCEPT !.logical = YesNo(r.found = "yes")]
           [] r.type = "unsupported" -> [f EXCEPT !.supported = FALSE]
           [] r.type = "scan" -> Attributed(f, r)
           [] r.type = "model" ->
                [f EXCEPT !.model = TRUE, !.canary = r.canary, !.mia = r.mia]
           [] r.type = "semantic" -> [f EXCEPT !.above = YesNo(r.above)]

\* The facts after all the records, as the saga or replay reads them.
Reads(reader, id, f, r) == IF reader = "saga" THEN Learn(id, f, r) ELSE Relearn(id, f, r)
Told(reader, id, facts, records) ==
    LET told[n \in 0..Len(records)] ==
            IF n = 0 THEN facts ELSE Reads(reader, id, told[n - 1], records[n])
    IN  told[Len(records)]

----------------------------------------------------------------------------
(* The lattice                                                             *)

\* assign: rule, level and condition, in the order in which they are tried.
Lattice(f) ==
    << <<"dlq", "none", f.dlq>>,
       <<"lineage_gap", "none", f.gap>>,
       <<"logical_fail", "logical", f.logical = "yes">>,
       <<"logical_unprobed", "logical", f.logical = "none">>,
       <<"physical_unsupported", "physical", ~f.supported>>,
       <<"physical_fail", "physical", f.physical = "yes">>,
       <<"physical_unprobed", "physical", f.physical = "none">>,
       <<"model_unprobed", "model", f.model /\ f.canary = "none" /\ f.mia = "none">>,
       <<"model_residual", "model", f.model /\ (f.canary = "yes" \/ f.mia = "yes")>>,
       <<"semantic_residual", "semantic", f.above = "yes">>,
       <<"verified", IF f.model THEN "model" ELSE "physical", TRUE>> >>

\* The first that holds, as <<rule, level>>.
FirstOf(f) ==
    LET holds == {i \in DOMAIN Lattice(f) : Lattice(f)[i][3]}
        first == CHOOSE i \in holds : \A j \in holds : i <= j
    IN  <<Lattice(f)[first][1], Lattice(f)[first][2]>>

\* Faulty variants: the physical level is not asked for; a store is verified at the
\* last level that was measured.
FaultyStatusOf(f) ==
    IF f.logical = "no" /\ ~f.dlq /\ ~f.gap /\ f.physical # "none"
    THEN <<"verified", "physical">> ELSE FirstOf(f)
SemanticStatusOf(f) ==
    IF FirstOf(f)[1] = "verified" /\ f.above = "no" THEN <<"verified", "semantic">>
    ELSE FirstOf(f)

StatusOf(f) == FirstOf(f)

Facts(id) == Told("saga", id, SagaFacts, journal)

\* replay_receipt: what the journal says of a receipt.
Replayed(r) ==
    [r EXCEPT !.status = StatusOf(Told("replay", r.saga, ReplayFacts(r), journal))]

----------------------------------------------------------------------------
(* The saga                                                                *)

StepRecord(type, step) == [type |-> type, saga |-> saga.id, step |-> step]
Ok(step) == StepRecord("ok", step)
Done(step) == Has(Ok(step))
StepOf(pc) == IF pc \in {"logical", "physical", "model", "semantic"} THEN "verify" ELSE pc

After == [suppress |-> "baseline", baseline |-> "reclaim", reclaim |-> "logical",
          logical |-> "physical", physical |-> "model", model |-> "semantic",
          semantic |-> "receipt"]

\* The run is in this step, whose begin is in the journal.
At(pc) == run.pc = pc /\ run.begun

\* To the next part of the step, or out of it.
Goto(pc) == run' = [run EXCEPT !.pc = pc, !.begun = StepOf(pc) = StepOf(run.pc)]
Journal(records) == journal' = journal \o records

\* DriftProbe.record_before: the queries start from the stored vector, hidden or not.
Recorded ==
    IF ~cfg.semantic THEN {"none"}
    ELSE IF env.live THEN {"whole"}
    ELSE IF env.own THEN {"none", "blind"} ELSE {"none"}

\* DriftProbe.after: above the control?  Without the artifact in it, the control is the
\* neighbourhood itself, and anything may be above it or within.
Drifted(before) ==
    CASE before = "none" -> {}
      [] before = "whole" -> {env.drift}
      [] before = "blind" -> BOOLEAN

\* Each store's logical probe; an adapter without prompts has nothing to ask.
Retrieved == cfg.prompts /\ env.live

\* scan_files_for_patterns: the record's own patterns and those of its content.
Scanned == [own |-> env.own,
            content |-> ~cfg.model /\ (env.own \/ env.ghost \/ env.dupes # "none")]
Scannable == cfg.physical /\ cfg.readable

\* What the baseline and the probes of _verify_group have to say just now.
BaselineRecords ==
    IF env.dupes = "live" /\ ~cfg.readable THEN <<>>
    ELSE <<[type |-> "baseline", saga |-> saga.id, dupes |-> env.dupes = "live"]>>

LogicalRecords ==
    <<[type |-> "logical", saga |-> saga.id,
       found |-> IF cfg.prompts THEN YesNo(Retrieved) ELSE "none"]>>

PhysicalRecords ==
    IF Scannable
    THEN <<[type |-> "scan", saga |-> saga.id, own |-> Scanned.own,
            content |-> Scanned.content]>>
    ELSE <<[type |-> "unsupported", saga |-> saga.id]>>

ModelRecords ==
    IF ~cfg.model THEN <<>>
    ELSE <<[type |-> "model", saga |-> saga.id,
            canary |-> IF cfg.prompts THEN YesNo(env.live) ELSE "none",
            mia |-> IF cfg.prompts /\ cfg.reference THEN YesNo(env.leak) ELSE "none"]>>

SemanticRecord(above) == [type |-> "semantic", saga |-> saga.id, above |-> above]

\* run_erase: the first saga, the open one again, or a retry.  Before anything else
\* it records the neighbourhood, be the saga new or resumed.
Start ==
    /\ run.pc = "down"
    /\ \E reclaim \in BOOLEAN, before \in Recorded :
          /\ run' = [Down EXCEPT !.pc = "suppress", !.reclaim = reclaim, !.before = before]
          /\ \/ saga.open /\ UNCHANGED saga
             \/ /\ ~saga.open
                /\ saga.id < MaxSagas
                /\ saga.id = 0 \/ receipt.status[1] = "dlq"
                /\ saga' = [id |-> saga.id + 1, open |-> TRUE]
    /\ UNCHANGED <<cfg, env, journal, receipt, history>>

\* A step is in the journal, or its store is dead-lettered, or there is nothing to do.
Skipped(step) ==
    \/ Done(step)
    \/ run.dlq
    \/ step = "baseline" /\ ~cfg.physical
    \/ step = "reclaim" /\ ~run.reclaim

Begin ==
    /\ run.pc \in {"suppress", "baseline", "reclaim", "logical"}
    /\ ~run.begun /\ ~Skipped(StepOf(run.pc))
    /\ run' = [run EXCEPT !.begun = TRUE]
    /\ Journal(<<StepRecord("begin", StepOf(run.pc))>>)
    /\ UNCHANGED <<cfg, env, saga, receipt, history>>

PassOver ==
    /\ run.pc \in {"suppress", "baseline", "reclaim", "logical"}
    /\ ~run.begun /\ Skipped(StepOf(run.pc))
    /\ run' = [run EXCEPT !.pc = IF @ = "logical" THEN "receipt" ELSE After[@]]
    /\ UNCHANGED <<cfg, env, journal, saga, receipt, history>>

\* The store is asked to hide the artifact, or to remove it.  What it does, and how
\* much of it before the step ends, raises or is killed, is up to the store.  (A
\* resumed run reclaims even if an earlier one, without reclaim, has verified: late.)
Hiding ==
    /\ At("suppress")
    /\ env.live
    /\ env' = [env EXCEPT !.live = FALSE]
    /\ UNCHANGED <<cfg, journal, saga, run, receipt, history>>

Suppress ==
    /\ At("suppress")
    /\ Journal(<<Ok("suppress")>>)
    /\ Goto("baseline")
    /\ UNCHANGED <<cfg, env, saga, receipt, history>>

\* _baseline_group: nothing is recorded if there are duplicates and the bytes
\* cannot be read.
Baseline ==
    /\ At("baseline")
    /\ Journal(BaselineRecords \o <<Ok("baseline")>>)
    /\ Goto("reclaim")
    /\ UNCHANGED <<cfg, env, saga, receipt, history>>

Removing ==
    /\ At("reclaim")
    /\ \E live \in {FALSE, env.live}, own \in {FALSE, env.own}, leak \in {FALSE, env.leak},
          ghost \in BOOLEAN, drift \in BOOLEAN :
          /\ ghost => env.own /\ ~own /\ ~cfg.model
          /\ drift => cfg.semantic
          /\ env' = [env EXCEPT !.live = live, !.own = own, !.leak = leak,
                                !.ghost = env.ghost \/ ghost, !.drift = drift]
    /\ history' = [history EXCEPT !.late = @ \/ Done("verify")]
    /\ UNCHANGED <<cfg, journal, saga, run, receipt>>

Reclaim ==
    /\ At("reclaim")
    /\ Journal(<<Ok("reclaim")>>)
    /\ Goto("logical")
    /\ UNCHANGED <<cfg, env, saga, receipt, history>>

\* Every level's result is journaled as it comes, between the step's begin and end.
Probe(pc, records) ==
    /\ At(pc)
    /\ Journal(records)
    /\ Goto(After[pc])
    /\ UNCHANGED <<cfg, env, saga, receipt, history>>

ProbeLogical == Probe("logical", LogicalRecords)
ProbePhysical == Probe("physical", PhysicalRecords)
ProbeModel == Probe("model", ModelRecords)
EndVerify ==
    \/ Drifted(run.before) = {} /\ Probe("semantic", <<Ok("verify")>>)
    \/ \E above \in Drifted(run.before) :
          Probe("semantic", <<SemanticRecord(above), Ok("verify")>>)

\* Hard Rule 6: a step that an earlier run began has not ended, well or badly.
InProgress ==
    \E step \in {"suppress", "baseline", "reclaim", "verify"} :
        /\ Has(StepRecord("begin", step))
        /\ ~Done(step)
        /\ ~Has(StepRecord("failed", step))

RefuseReceipt ==
    /\ run.pc = "receipt"
    /\ InProgress
    /\ run' = Down
    /\ UNCHANGED <<cfg, env, journal, saga, receipt, history>>

WriteReceipt ==
    /\ run.pc = "receipt"
    /\ ~InProgress
    /\ receipt' = [saga |-> saga.id, status |-> StatusOf(Facts(saga.id))]
    /\ saga' = [saga EXCEPT !.open = FALSE]
    /\ run' = Down
    /\ UNCHANGED <<cfg, env, journal, history>>

\* A step raises: a store's suppress or reclaim is dead-lettered, a baseline or
\* a verification is just over.
Raise ==
    /\ run.pc \in DOMAIN After /\ run.begun
    /\ history.faults < MaxFaults
    /\ history' = [history EXCEPT !.faults = @ + 1, !.raised = TRUE]
    /\ LET step == StepOf(run.pc)
           dead == step \in {"suppress", "reclaim"}
       IN  /\ Journal(<<StepRecord("failed", step)>>
                        \o IF dead THEN <<[type |-> "dlq", saga |-> saga.id]>> ELSE <<>>)
           /\ run' = [run EXCEPT !.begun = FALSE, !.dlq = dead,
                                 !.pc = IF step = "verify" THEN "receipt" ELSE After[@]]
    /\ UNCHANGED <<cfg, env, saga, receipt>>

Kill ==
    /\ run.pc # "down"
    /\ history.faults < MaxFaults
    /\ history' = [history EXCEPT !.faults = @ + 1]
    /\ run' = Down
    /\ UNCHANGED <<cfg, env, journal, saga, receipt>>

\* Another subject's artifact with the same content is ingested, suppressed, reclaimed.
OtherSubject ==
    /\ ~cfg.model
    /\ history.moves < MaxMoves
    /\ history' = [history EXCEPT !.moves = @ + 1]
    /\ \E dupes \in CASE env.dupes = "none" -> {"live"}
                     [] env.dupes = "live" -> {"hidden", "none"}
                     [] env.dupes = "hidden" -> {"none"} :
          env' = [env EXCEPT !.dupes = dupes]
    /\ UNCHANGED <<cfg, journal, saga, run, receipt>>

----------------------------------------------------------------------------
(* Looking again                                                           *)

\* ArtifactAudit.state: what `tombstone verify` finds now, asking for no lineage.
AuditState ==
    IF Retrieved THEN "PRESENT"
    ELSE IF ~Scannable THEN "HIDDEN?"
    ELSE IF Scanned.own \/ Scanned.content THEN "HIDDEN" ELSE "GONE"

\* Faulty variant: content counts, whoever has it.
PlainObservation == Scannable /\ (Scanned.own \/ Scanned.content)

\* _physical_observation: content that a live record has, too, is that record's.
PhysicalObservation ==
    Scannable /\ (Scanned.own \/ (Scanned.content /\ env.dupes # "live"))

\* verify_receipt_independently: it has no prompts for adapters.
Disagrees ==
    /\ receipt.status[1] = "verified"
    /\ (~cfg.model /\ Retrieved) \/ PhysicalObservation

----------------------------------------------------------------------------
Next ==
    \/ Start \/ Begin \/ PassOver \/ Hiding \/ Suppress \/ Baseline \/ Removing \/ Reclaim
    \/ ProbeLogical \/ ProbePhysical \/ ProbeModel \/ EndVerify \/ WriteReceipt \/ RefuseReceipt
    \/ Raise \/ Kill \/ OtherSubject

Spec == Init /\ [][Next]_vars

----------------------------------------------------------------------------
(* Properties                                                              *)

\* The values of the variables; an artifact is VERIFIED at the
\* physical or the model level, whatever else was measured.
TypeOK ==
    /\ cfg \in Configs
    /\ env \in Envs
    /\ \A i \in DOMAIN journal : journal[i] \in Records
    /\ saga \in [id: 0..MaxSagas, open: BOOLEAN]
    /\ run \in [pc: PCs, begun: BOOLEAN, reclaim: BOOLEAN, dlq: BOOLEAN, before: Befores]
    /\ receipt \in [saga: 0..MaxSagas, status: Rules \X Levels]
    /\ receipt.status[1] = "verified" => receipt.status[2] \in {"physical", "model"}
    /\ history \in [raised: BOOLEAN, late: BOOLEAN, moves: 0..MaxMoves, faults: 0..MaxFaults]

\* VERIFIED is true: nothing retrievable, no byte of the record or of its content
\* left behind, and at the model level no membership to be inferred where there was
\* something to infer it with.  Whatever the stores did, wherever the saga was
\* killed, whatever others did.  (Left out: an adapter with no extraction prompt, one
\* of whose steps raised.  Its logical probe ran nothing, which the journal keeps as
\* None and bool() turns into "not found".)
VerifiedIsTrue ==
    receipt.status[1] = "verified" /\ (cfg.prompts \/ ~history.raised) =>
        /\ ~env.live /\ ~env.own /\ ~env.ghost
        /\ receipt.status[2] = "model" /\ cfg.reference => ~env.leak

\* The status does not depend on when the machine died: after any kills and
\* resumptions it is what an uninterrupted verification finds, unless a step raised,
\* other subjects' data moved, or the store was reclaimed after it was verified.  (Left
\* out: what --semantic finds after a kill, since the neighbourhood to compare with is
\* in the memory of the run that died.  The resumed one compares with another or none.)
FreshFacts ==
    Told("saga", saga.id, Unread(FALSE, cfg.gap, cfg.physical, cfg.sharded),
         (IF cfg.physical THEN BaselineRecords ELSE <<>>)
            \o LogicalRecords \o PhysicalRecords \o ModelRecords
            \o IF cfg.semantic THEN <<SemanticRecord(env.drift)>> ELSE <<>>)

KillsDoNotMatter ==
    saga.id > 0 /\ ~saga.open /\ ~history.raised /\ ~history.late /\ history.moves = 0 =>
        \E above \in IF cfg.semantic /\ history.faults > 0 THEN {"yes", "no"}
                     ELSE {FreshFacts.above} :
            receipt.status = StatusOf([FreshFacts EXCEPT !.above = above])

\* Replay derives the status that the receipt has, if no step of its saga raised.
ReplayAgreesUnlessRaised == receipt.saga > 0 /\ ~history.raised => Replayed(receipt) = receipt

\* Who looks again at a VERIFIED artifact agrees, whatever others do after the receipt:
\* the independent verifier does not see it, and the audit does not call it present,
\* nor hidden unless another's copy is there.  (Left out: adapters that were never
\* asked, as above; and, for the independent verifier, the time in which another
\* subject's copy is hidden and its bytes are still there: it takes them for this one's.)
SecondOpinionsAgree ==
    receipt.status[1] = "verified" /\ (cfg.prompts \/ ~history.raised) =>
        /\ env.dupes # "hidden" => ~Disagrees
        /\ AuditState # "PRESENT"
        /\ AuditState = "HIDDEN" => env.dupes # "none"
============================================================================
