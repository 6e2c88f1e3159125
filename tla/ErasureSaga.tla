---------------------------- MODULE ErasureSaga ----------------------------
(***************************************************************************)
(* The erasure saga of erase/saga.py over the traced set of ONE trace, run  *)
(* by operators (processes) that may fail, be killed and be started again. *)
(*                                                                         *)
(* Stores are numbered in name order, the order in which the saga visits   *)
(* its groups; number 0 is the lineage tombstone step.  The journal is kept *)
(* as its readers see it: every query of Journal asks whether a record     *)
(* exists, except saga_for_trace (the first saga_start: sagas are numbered *)
(* in start order) and the probes (the last one of a saga wins).           *)
(***************************************************************************)
EXTENDS Naturals, Sequences, FiniteSets

CONSTANTS
    Procs,        \* processes that may run `erase` or `dlq retry`
    N,            \* number of stores the trace reaches
    Physical,     \* stores with the PHYSICAL capability
    Pinned,       \* stores whose pin covers what suppress and reclaim rewrite
    Snapshots,    \* stores that keep the subject's texts while a saga runs
    Configs,      \* the sets of stores a run may find configured
    ReclaimOpts,  \* values of --no-reclaim that are tried
    MaxSagas, MaxReceipts, MaxCrashes, MaxFailures, MaxCaptures  \* bounds

Stores == 1..N
Lineage == 0
Phases == {"suppress", "baseline", "reclaim", "verify"}
Steps == Phases \X (0..N)
SagaIds == 1..MaxSagas
ReceiptIds == 1..MaxReceipts
Contents == {"live", "suppressed", "gone"}

\* the rules of the status lattice a whole store can end in
Rules == {"no_adapter", "dlq", "logical_unprobed", "logical_fail",
          "physical_unsupported", "physical_fail", "verified"}
NoRule == "none"

ASSUME StoresAssumption == N \in Nat \ {0}
ASSUME KindsAssumption ==
    /\ Physical \subseteq Stores
    /\ Pinned \subseteq Stores
    /\ Snapshots \subseteq Stores
    /\ Configs \subseteq SUBSET Stores
    /\ ReclaimOpts \subseteq BOOLEAN
ASSUME BoundsAssumption ==
    /\ MaxSagas \in Nat
    /\ MaxReceipts \in Nat
    /\ MaxCrashes \in Nat
    /\ MaxFailures \in Nat
    /\ MaxCaptures \in Nat

VARIABLES
    \* the journal
    sagas,       \* how many saga_start records the trace has
    begun,       \* step_begin records, as <<saga, step>>
    done,        \* step_end records with ok = True
    failed,      \* step_end records with ok = False
    dead,        \* dlq records, as <<saga, store>>
    probed,      \* what the last probe of a saga found in a store
    closed,      \* saga_end records, as <<saga, receipt id>>
    \* the receipts
    files,       \* how many receipt files are on disk (numbered in order)
    ledger,      \* the ledger's receipts
    \* the lineage database and the stores
    tombstoned,  \* the traced artifacts have tombstones in lineage
    content,     \* what each store still holds of the traced artifacts
    drifted,     \* stores that no longer match their pin
    held,        \* stores that hold a snapshot of the subject's texts
    stale,       \* the graph changed since the trace was taken
    \* the running processes
    proc,
    crashes, failures, captures,
    late         \* a run was killed between saga_end and finalize

journalVars == <<sagas, begun, done, failed, dead, probed, closed>>
receiptVars == <<files, ledger>>
storeVars == <<tombstoned, content, drifted, held>>
boundVars == <<crashes, failures, captures, late>>
vars == <<journalVars, receiptVars, storeVars, stale, proc, boundVars>>

PCs == {"idle", "choose", "start", "step", "begin", "work", "ok", "fail",
        "repin", "dlq", "judge", "receipt", "ledger", "close", "finalize"}

\* What a run of the saga keeps in memory, and loses when it is killed.
RunStates ==
    [pc: PCs, saga: 0..MaxSagas, step: Steps, dlq: SUBSET Stores,
     configured: SUBSET Stores, reclaim: BOOLEAN, retry: BOOLEAN,
     verdict: [Stores -> Rules \cup {NoRule}], receipt: 0..MaxReceipts]

Idle ==
    [pc |-> "idle", saga |-> 0, step |-> <<"suppress", Lineage>>, dlq |-> {},
     configured |-> {}, reclaim |-> TRUE, retry |-> FALSE,
     verdict |-> [st \in Stores |-> NoRule], receipt |-> 0]

Receipts == [id: ReceiptIds, saga: SagaIds, verdict: [Stores -> Rules \cup {NoRule}]]

Init ==
    /\ sagas = 0
    /\ begun = {}
    /\ done = {}
    /\ failed = {}
    /\ dead = {}
    /\ probed = [s \in SagaIds |-> [st \in Stores |-> NoRule]]
    /\ closed = {}
    /\ files = 0
    /\ ledger = <<>>
    /\ tombstoned = FALSE
    /\ content = [st \in Stores |-> "live"]
    /\ drifted = {}
    /\ held = {}
    /\ stale = FALSE
    /\ proc = [p \in Procs |-> Idle]
    /\ crashes = 0
    /\ failures = 0
    /\ captures = 0
    /\ late = FALSE

----------------------------------------------------------------------------
(* Reading the journal                                                     *)

Closed(s) == \E r \in ReceiptIds : <<s, r>> \in closed

\* Faulty variant: a saga is open whether or not it has a saga_end.
FaultyOpen(s) == s \in 1..sagas
Open(s) == s \in 1..sagas /\ ~Closed(s)

\* Faulty variant: a resumed saga is held to the pins it changed itself.
FaultyTouched == {}

\* Stores an open saga of the trace has begun to change: exempt from the pins.
Touched ==
    IF Open(1) THEN {st \in Stores : \E ph \in Phases : <<1, <<ph, st>>>> \in begun}
               ELSE {}

Goto(p, pc) == proc' = [proc EXCEPT ![p].pc = pc]
Exit(p) == proc' = [proc EXCEPT ![p] = Idle]

PhaseAfter == [suppress |-> "baseline", baseline |-> "reclaim", reclaim |-> "verify"]

\* Faulty variant: one group too many.
FaultyAdvanced(run) ==
    IF run.step[2] <= N
    THEN [run EXCEPT !.pc = "step", !.step = <<run.step[1], run.step[2] + 1>>]
    ELSE [run EXCEPT !.pc = "receipt"]

\* The control flow from one group of the traced set to the next, phase by phase.
Advanced(run) ==
    IF run.step[2] < N
    THEN [run EXCEPT !.pc = "step", !.step = <<run.step[1], run.step[2] + 1>>]
    ELSE IF run.step[1] # "verify"
         THEN [run EXCEPT !.pc = "step", !.step = <<PhaseAfter[run.step[1]], 1>>]
         ELSE [run EXCEPT !.pc = "receipt"]
Advance(p) == proc' = [proc EXCEPT ![p] = Advanced(proc[p])]

\* Faulty variant: a dead-lettered store is reclaimed all the same.
FaultyApplies(p) ==
    \/ proc[p].step[2] = Lineage
    \/ proc[p].step[2] \in proc[p].configured

\* Whether the saga calls _run_step for this phase and group.
Applies(p) ==
    LET phase == proc[p].step[1]
        at == proc[p].step[2]
    IN  \/ at = Lineage
        \/ /\ at \in proc[p].configured
           /\ phase # "suppress" => at \notin proc[p].dlq
           /\ phase = "baseline" => at \in Physical
           /\ phase = "reclaim" => proc[p].reclaim

IsDone(p) == <<proc[p].saga, proc[p].step>> \in done

\* Where a settled step leads: suppress and reclaim of a store are re-pinned.
AfterSuccess(p) ==
    IF proc[p].step[1] = "verify" THEN Goto(p, "judge")
    ELSE IF proc[p].step[2] # Lineage /\ proc[p].step[1] # "baseline"
         THEN Goto(p, "repin")
         ELSE Advance(p)

----------------------------------------------------------------------------
(* One action per step of Saga.run                                         *)

\* `erase --confirm` or `dlq retry`: _preflight passes and the run begins.
Launch(p) ==
    /\ proc[p].pc = "idle"
    /\ ~stale
    /\ \E c \in Configs, r \in ReclaimOpts, again \in BOOLEAN :
          /\ drifted \cap c \subseteq Touched
          /\ again => dead # {} /\ r /\ sagas < MaxSagas
          /\ proc' = [proc EXCEPT ![p] = [Idle EXCEPT !.pc = "choose", !.configured = c,
                                                      !.reclaim = r, !.retry = again]]
    /\ UNCHANGED <<journalVars, receiptVars, storeVars, stale, boundVars>>

\* saga_for_trace: resume the trace's first saga, start one, or refuse.
Choose(p) ==
    /\ proc[p].pc = "choose"
    /\ \/ /\ Open(1)
          /\ proc' = [proc EXCEPT ![p] = [@ EXCEPT !.pc = "step", !.saga = 1]]
       \/ /\ sagas = 0 \/ (~Open(1) /\ proc[p].retry)
          /\ Goto(p, "start")
       \/ /\ sagas > 0 /\ ~Open(1) /\ ~proc[p].retry
          /\ Exit(p)
    /\ UNCHANGED <<journalVars, receiptVars, storeVars, stale, boundVars>>

StartSaga(p) ==
    /\ proc[p].pc = "start"
    /\ sagas < MaxSagas
    /\ sagas' = sagas + 1
    /\ proc' = [proc EXCEPT ![p] = [@ EXCEPT !.pc = "step", !.saga = sagas + 1]]
    /\ UNCHANGED <<begun, done, failed, dead, probed, closed>>
    /\ UNCHANGED <<receiptVars, storeVars, stale, boundVars>>

\* The group takes no part in this phase.
PassOver(p) ==
    /\ proc[p].pc = "step"
    /\ ~Applies(p)
    /\ IF proc[p].step[1] = "verify" THEN Goto(p, "judge") ELSE Advance(p)
    /\ UNCHANGED <<journalVars, receiptVars, storeVars, stale, boundVars>>

\* Faulty variant: a step taken over from a killed run is not re-pinned.
FaultyTakeOver(p) ==
    /\ proc[p].pc = "step"
    /\ Applies(p)
    /\ IsDone(p)
    /\ IF proc[p].step[1] = "verify" THEN Goto(p, "judge") ELSE Advance(p)
    /\ UNCHANGED <<journalVars, receiptVars, storeVars, stale, boundVars>>

\* _done: a completed step is not run again, its result is taken over.
TakeOver(p) ==
    /\ proc[p].pc = "step"
    /\ Applies(p)
    /\ IsDone(p)
    /\ AfterSuccess(p)
    /\ UNCHANGED <<journalVars, receiptVars, storeVars, stale, boundVars>>

FindUndone(p) ==
    /\ proc[p].pc = "step"
    /\ Applies(p)
    /\ ~IsDone(p)
    /\ Goto(p, "begin")
    /\ UNCHANGED <<journalVars, receiptVars, storeVars, stale, boundVars>>

BeginStep(p) ==
    /\ proc[p].pc = "begin"
    /\ begun' = begun \cup {<<proc[p].saga, proc[p].step>>}
    /\ Goto(p, "work")
    /\ UNCHANGED <<sagas, done, failed, dead, probed, closed>>
    /\ UNCHANGED <<receiptVars, storeVars, stale, boundVars>>

\* A store's content after suppress or reclaim; both are idempotent.
ContentAfter(phase, c) ==
    CASE phase = "suppress" /\ c = "live" -> "suppressed"
      [] phase = "reclaim" -> "gone"
      [] OTHER -> c

\* What the step's function does to lineage, to the store and to the probes.
Apply(p) ==
    LET phase == proc[p].step[1]
        at == proc[p].step[2]
    IN  IF at = Lineage
        THEN /\ tombstoned' = TRUE
             /\ UNCHANGED <<content, drifted, held, probed>>
        ELSE /\ content' = [content EXCEPT ![at] = ContentAfter(phase, @)]
             /\ drifted' = drifted \cup {st \in Pinned : content'[st] # content[st]}
             /\ held' = IF phase = "suppress" THEN held \cup ({at} \cap Snapshots) ELSE held
             /\ probed' = IF phase = "verify"
                          THEN [probed EXCEPT ![proc[p].saga][at] = content[at]]
                          ELSE probed
             /\ UNCHANGED tombstoned

Work(p) ==
    /\ proc[p].pc = "work"
    /\ Apply(p)
    /\ Goto(p, "ok")
    /\ UNCHANGED <<sagas, begun, done, failed, dead, closed>>
    /\ UNCHANGED <<receiptVars, stale, boundVars>>

\* The function raises, or its step_end(ok) cannot be written: with or
\* without its effect on the store.
WorkFails(p) ==
    /\ proc[p].pc = "work"
    /\ failures < MaxFailures
    /\ Apply(p) \/ UNCHANGED <<storeVars, probed>>
    /\ failures' = failures + 1
    /\ Goto(p, "fail")
    /\ UNCHANGED <<sagas, begun, done, failed, dead, closed>>
    /\ UNCHANGED <<receiptVars, stale, crashes, captures, late>>

EndOk(p) ==
    /\ proc[p].pc = "ok"
    /\ done' = done \cup {<<proc[p].saga, proc[p].step>>}
    /\ AfterSuccess(p)
    /\ UNCHANGED <<sagas, begun, failed, dead, probed, closed>>
    /\ UNCHANGED <<receiptVars, storeVars, stale, boundVars>>

\* Faulty variant: a failed tombstone step does not stop the saga.
FaultyEndFailed(p) ==
    /\ proc[p].pc = "fail"
    /\ failed' = failed \cup {<<proc[p].saga, proc[p].step>>}
    /\ Advance(p)
    /\ UNCHANGED <<sagas, begun, done, dead, probed, closed>>
    /\ UNCHANGED <<receiptVars, storeVars, stale, boundVars>>

\* A failed tombstone step raises; a failed suppress or reclaim is dead-lettered.
EndFailed(p) ==
    LET phase == proc[p].step[1]
    IN  /\ proc[p].pc = "fail"
        /\ failed' = failed \cup {<<proc[p].saga, proc[p].step>>}
        /\ \/ proc[p].step[2] = Lineage /\ Exit(p)
           \/ proc[p].step[2] # Lineage /\ phase \in {"suppress", "reclaim"} /\ Goto(p, "dlq")
           \/ phase = "baseline" /\ Advance(p)
           \/ phase = "verify" /\ Goto(p, "judge")
        /\ UNCHANGED <<sagas, begun, done, dead, probed, closed>>
        /\ UNCHANGED <<receiptVars, storeVars, stale, boundVars>>

\* _repin_after_reclaim: the saga's own change is not a silent one.
Repin(p) ==
    /\ proc[p].pc = "repin"
    /\ drifted' = drifted \ {proc[p].step[2]}
    /\ Advance(p)
    /\ UNCHANGED <<journalVars, receiptVars, tombstoned, content, held, stale, boundVars>>

DeadLetter(p) ==
    LET at == proc[p].step[2]
    IN  /\ proc[p].pc = "dlq"
        /\ dead' = dead \cup {<<proc[p].saga, at>>}
        /\ proc' = [proc EXCEPT ![p] = Advanced([proc[p] EXCEPT !.dlq = @ \cup {at}])]
        /\ UNCHANGED <<sagas, begun, done, failed, probed, closed>>
        /\ UNCHANGED <<receiptVars, storeVars, stale, boundVars>>

\* Faulty variant: a store that was not probed passes.
FaultyRuleOfProbe(st, seen) ==
    CASE seen = "live" -> "logical_fail"
      [] seen = "suppressed" -> "physical_fail"
      [] OTHER -> "verified"

\* The status rules that read a store's last probe.
RuleOfProbe(st, seen) ==
    CASE seen = NoRule -> "logical_unprobed"
      [] seen = "live" -> "logical_fail"
      [] seen \in {"suppressed", "gone"} /\ st \notin Physical -> "physical_unsupported"
      [] seen = "suppressed" /\ st \in Physical -> "physical_fail"
      [] seen = "gone" /\ st \in Physical -> "verified"

\* The facts the saga collects about a store, and the rule assign fires on them.
Verdict(p, st) ==
    IF st \notin proc[p].configured THEN "no_adapter"
    ELSE IF st \in proc[p].dlq THEN "dlq"
    ELSE RuleOfProbe(st, probed[proc[p].saga][st])

Judge(p) ==
    LET st == proc[p].step[2]
    IN  /\ proc[p].pc = "judge"
        /\ proc' = [proc EXCEPT ![p] =
                       Advanced([proc[p] EXCEPT !.verdict[st] = Verdict(p, st)])]
        /\ UNCHANGED <<journalVars, receiptVars, storeVars, stale, boundVars>>

\* A step of the saga with a step_begin and no step_end (Hard Rule 6).
InProgress(s) == \E x \in begun : x[1] = s /\ x \notin done \cup failed

\* Faulty variant: no look at the journal for steps in progress.
FaultyWriteReceipt(p) ==
    /\ proc[p].pc = "receipt"
    /\ files < MaxReceipts
    /\ files' = files + 1
    /\ proc' = [proc EXCEPT ![p] = [@ EXCEPT !.pc = "ledger", !.receipt = files + 1]]
    /\ UNCHANGED <<journalVars, ledger, storeVars, stale, boundVars>>

\* Faulty variant: the saga is closed before the receipt is in the ledger.
FaultyReceiptOrder(p) ==
    /\ proc[p].pc = "receipt"
    /\ ~InProgress(proc[p].saga)
    /\ files < MaxReceipts
    /\ files' = files + 1
    /\ proc' = [proc EXCEPT ![p] = [@ EXCEPT !.pc = "close", !.receipt = files + 1]]
    /\ UNCHANGED <<journalVars, ledger, storeVars, stale, boundVars>>

WriteReceipt(p) ==
    /\ proc[p].pc = "receipt"
    /\ ~InProgress(proc[p].saga)
    /\ files < MaxReceipts
    /\ files' = files + 1
    /\ proc' = [proc EXCEPT ![p] = [@ EXCEPT !.pc = "ledger", !.receipt = files + 1]]
    /\ UNCHANGED <<journalVars, ledger, storeVars, stale, boundVars>>

RefuseReceipt(p) ==
    /\ proc[p].pc = "receipt"
    /\ InProgress(proc[p].saga)
    /\ Exit(p)
    /\ UNCHANGED <<journalVars, receiptVars, storeVars, stale, boundVars>>

AppendLedger(p) ==
    /\ proc[p].pc = "ledger"
    /\ ledger' = Append(ledger, [id |-> proc[p].receipt, saga |-> proc[p].saga,
                                 verdict |-> proc[p].verdict])
    /\ Goto(p, "close")
    /\ UNCHANGED <<journalVars, files, storeVars, stale, boundVars>>

CloseSaga(p) ==
    /\ proc[p].pc = "close"
    /\ closed' = closed \cup {<<proc[p].saga, proc[p].receipt>>}
    /\ Goto(p, "finalize")
    /\ UNCHANGED <<sagas, begun, done, failed, dead, probed>>
    /\ UNCHANGED <<receiptVars, storeVars, stale, boundVars>>

\* finalize of every configured store, after which the run returns.
Finalize(p) ==
    /\ proc[p].pc = "finalize"
    /\ held' = held \ proc[p].configured
    /\ Exit(p)
    /\ UNCHANGED <<journalVars, receiptVars, tombstoned, content, drifted, stale, boundVars>>

----------------------------------------------------------------------------
(* The environment                                                         *)

\* The process is killed, or an exception escapes run.
Crash(p) ==
    /\ proc[p].pc # "idle"
    /\ crashes < MaxCrashes
    /\ crashes' = crashes + 1
    /\ late' = (late \/ proc[p].pc = "finalize")
    /\ Exit(p)
    /\ UNCHANGED <<journalVars, receiptVars, storeVars, stale, failures, captures>>

\* The application captures lineage: the trace's snapshot hash no longer holds.
CaptureLineage ==
    /\ captures < MaxCaptures
    /\ captures' = captures + 1
    /\ stale' = TRUE
    /\ UNCHANGED <<journalVars, receiptVars, storeVars, proc, crashes, failures, late>>

\* A step of a run in progress that neither fails nor is interrupted.
Run(p) ==
    \/ Choose(p) \/ StartSaga(p)
    \/ PassOver(p) \/ TakeOver(p) \/ FindUndone(p)
    \/ BeginStep(p) \/ Work(p) \/ EndOk(p) \/ EndFailed(p) \/ Repin(p) \/ DeadLetter(p)
    \/ Judge(p) \/ WriteReceipt(p) \/ RefuseReceipt(p)
    \/ AppendLedger(p) \/ CloseSaga(p) \/ Finalize(p)

Next ==
    \/ \E p \in Procs : Launch(p) \/ Run(p) \/ WorkFails(p) \/ Crash(p)
    \/ CaptureLineage

Spec == Init /\ [][Next]_vars

\* A run that is not killed goes on, and the operator runs the command again.
Fairness == \A p \in Procs : WF_vars(Run(p)) /\ WF_vars(Launch(p))
FairSpec == Spec /\ Fairness

----------------------------------------------------------------------------
(* Properties                                                              *)

TypeOK ==
    /\ sagas \in 0..MaxSagas
    /\ begun \subseteq SagaIds \X Steps
    /\ done \subseteq SagaIds \X Steps
    /\ failed \subseteq SagaIds \X Steps
    /\ dead \subseteq SagaIds \X Stores
    /\ probed \in [SagaIds -> [Stores -> Contents \cup {NoRule}]]
    /\ closed \subseteq SagaIds \X ReceiptIds
    /\ files \in 0..MaxReceipts
    /\ ledger \in Seq(Receipts)
    /\ tombstoned \in BOOLEAN
    /\ content \in [Stores -> Contents]
    /\ drifted \subseteq Stores
    /\ held \subseteq Stores
    /\ stale \in BOOLEAN
    /\ proc \in [Procs -> RunStates]
    /\ crashes \in 0..MaxCrashes
    /\ failures \in 0..MaxFailures
    /\ captures \in 0..MaxCaptures
    /\ late \in BOOLEAN

\* Suppression before reclaim (Hard Rule 5): no saga begins to reclaim a store
\* before its lineage tombstones and the suppression of that store are durable,
\* in whatever order steps failed, runs were killed and operators resumed.
SuppressBeforeReclaim ==
    \A s \in SagaIds, st \in Stores :
        <<s, <<"reclaim", st>>>> \in begun =>
            /\ <<s, <<"suppress", Lineage>>>> \in done
            /\ <<s, <<"suppress", st>>>> \in done

\* A saga that counts as ended has its receipt in the ledger and on disk: this
\* is what lets `erase` answer "already erased (saga has a receipt)".
ClosedHasReceipt ==
    \A x \in closed :
        /\ x[2] \in 1..files
        /\ \E i \in DOMAIN ledger : ledger[i].id = x[2] /\ ledger[i].saga = x[1]

\* The receipt a saga ended with is the last of that saga in the ledger: a run killed
\* between the ledger append and the saga_end leaves a receipt that is superseded by
\* the one its saga ends with, and an ended saga is never taken up again to issue more.
EndedByLastReceipt ==
    \A x \in closed :
        /\ x[2] \in 1..files
        /\ \E i \in DOMAIN ledger :
              /\ ledger[i].id = x[2]
              /\ ledger[i].saga = x[1]
              /\ \A j \in DOMAIN ledger : ledger[j].saga = x[1] => j <= i

\* A receipt that says VERIFIED of a store is right: the saga suppressed the
\* store, nothing of the traced artifacts is left in it, and it can be looked into.
VerifiedIsErased ==
    \A i \in DOMAIN ledger, st \in Stores :
        ledger[i].verdict[st] = "verified" =>
            /\ content[st] = "gone"
            /\ st \in Physical
            /\ <<ledger[i].saga, <<"suppress", st>>>> \in done

\* A run has journaled the beginning of a step of the saga and not its end.
MidStep(s) ==
    InProgress(s) \/ \E p \in Procs : proc[p].saga = s /\ proc[p].pc \in {"work", "ok", "fail"}

\* No receipt is written while a step of its saga is in progress (Hard Rule 6),
\* whether its run was killed in that step or is still in it.
NoReceiptMidStep ==
    [][\A p \in Procs : AppendLedger(p) => ~MidStep(proc[p].saga)]_vars

Quiet == \A p \in Procs : proc[p].pc = "idle"

\* A saga that has ended leaves nothing of its own behind, however often it was killed:
\* as long as no step fails, the stores it changed match their pins again, so that no
\* later run takes its changes for silent ones; and no store keeps the subject's texts
\* once every saga of the trace has ended, unless a run was killed in the one window
\* that nothing resumes, between its saga_end and finalize.
EndedSagasLeaveNothing ==
    /\ failures = 0 /\ Quiet /\ sagas > 0 /\ Closed(1) => drifted = {}
    /\ ~late /\ Quiet /\ (\A s \in 1..sagas : Closed(s)) => held = {}

\* The first saga of the trace, once started, eventually ends with a receipt.
FirstSagaEnds == sagas >= 1 ~> Closed(1)

\* The saga implements the erasure it promises: marker, suppression, reclaim, and
\* certificates only for stores in which nothing is left.
Certified == {st \in Stores : \E i \in DOMAIN ledger : ledger[i].verdict[st] = "verified"}
Promise == INSTANCE Erasure WITH marked <- tombstoned, certified <- Certified
ImplementsErasure == Promise!Spec
============================================================================
