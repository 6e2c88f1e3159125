------------------------- MODULE ErasureSagaProofs -------------------------
(***************************************************************************)
(* What ErasureSaga guarantees for every set of processes, every number of *)
(* stores and every bound, proved with TLAPS.                              *)
(***************************************************************************)
EXTENDS ErasureSaga, TLAPS

----------------------------------------------------------------------------
(* The inductive invariant                                                 *)

Outside == {"idle", "choose", "start"}   \* the run has no saga yet
Working == {"begin", "work", "ok", "fail"}

\* A run that has no saga yet has nothing in its memory either.
Fresh(run) ==
    /\ run.step = <<"suppress", Lineage>>
    /\ run.dlq = {}
    /\ \A st \in Stores : run.verdict[st] = NoRule

\* Where a run can be, whatever the journal says.
Placed(p) ==
    /\ proc[p].pc \in Outside => Fresh(proc[p])
    /\ proc[p].pc \notin Outside => proc[p].saga \in 1..sagas
    /\ proc[p].pc \in {"ledger", "close"} => proc[p].receipt \in 1..files
    /\ proc[p].pc \in {"repin", "dlq", "judge"} => proc[p].step[2] \in Stores
    /\ proc[p].pc = "judge" => proc[p].step[1] = "verify"
    /\ proc[p].step[2] = Lineage => proc[p].step[1] = "suppress"
    /\ proc[p].pc \in Working => Applies(p)

\* The run has left the suppression of a store behind.
PastSuppress(run, st) == run.step[1] # "suppress" \/ st < run.step[2]

Suppressed(s, st) == <<s, <<"suppress", st>>>> \in done

\* What a run has left behind is in the journal: the tombstone step is done, and
\* each configured store is dead-lettered or its suppression is done.
Behind(p) ==
    /\ proc[p].step # <<"suppress", Lineage>> => Suppressed(proc[p].saga, Lineage)
    /\ \A st \in proc[p].configured : PastSuppress(proc[p], st) =>
          st \in proc[p].dlq \/ Suppressed(proc[p].saga, st)
    /\ proc[p].pc = "repin" => IsDone(p)

\* A suppression that a run is about to journal as done has had its effect.
Worked(p) ==
    proc[p].pc = "ok" /\ proc[p].step[1] = "suppress" =>
        /\ proc[p].step[2] = Lineage => tombstoned
        /\ proc[p].step[2] \in Stores => content[proc[p].step[2]] # "live"

\* A verdict of a run is right when it is given.
Judged(p) ==
    \A st \in Stores : proc[p].verdict[st] = "verified" =>
        /\ content[st] = "gone"
        /\ st \in Physical
        /\ Suppressed(proc[p].saga, st)

\* A run that is about to end its saga has its receipt in the ledger.
InLedger(id, s) == \E i \in DOMAIN ledger : ledger[i].id = id /\ ledger[i].saga = s
Recorded(p) == proc[p].pc = "close" => InLedger(proc[p].receipt, proc[p].saga)

Local(p) == Placed(p) /\ Behind(p) /\ Worked(p) /\ Judged(p) /\ Recorded(p)

\* What the journal says was done was done, and what a probe found gone is gone.
Journaled ==
    /\ \A s \in SagaIds : Suppressed(s, Lineage) => tombstoned
    /\ \A s \in SagaIds, st \in Stores :
          /\ Suppressed(s, st) => content[st] # "live"
          /\ probed[s][st] = "gone" => content[st] = "gone"

IndInv ==
    /\ TypeOK
    /\ \A p \in Procs : Local(p)
    /\ Journaled
    /\ SuppressBeforeReclaim
    /\ ClosedHasReceipt
    /\ VerifiedIsErased

----------------------------------------------------------------------------
(* What a step leaves alone                                                *)

\* Nothing a property relies on is ever taken back.
Grows ==
    /\ sagas <= sagas'
    /\ files <= files'
    /\ done \subseteq done'
    /\ tombstoned => tombstoned'
    /\ \A st \in Stores :
          /\ content[st] # "live" => content'[st] # "live"
          /\ content[st] = "gone" => content'[st] = "gone"
    /\ \A i \in DOMAIN ledger : i \in DOMAIN ledger' /\ ledger'[i] = ledger[i]

\* The memory of a run, without the place where it is and its receipt.
Keeps(run, old) ==
    /\ run.saga = old.saga
    /\ run.dlq = old.dlq
    /\ run.configured = old.configured
    /\ run.reclaim = old.reclaim
    /\ run.verdict = old.verdict
SameMemory(run, old) == Keeps(run, old) /\ run.step = old.step

\* A step that takes nothing back leaves every other run's part of the
\* invariant alone.
LEMMA OtherRuns ==
    ASSUME TypeOK, TypeOK', Grows, NEW q \in Procs, proc'[q] = proc[q], Local(q)
    PROVE  Local(q)'
<1>1. Placed(q)'
  BY SMTT(30) DEF Local, Placed, TypeOK, Grows, Applies, Fresh
<1>2. Behind(q)'
  BY DEF Local, Behind, Suppressed, IsDone, Grows, PastSuppress
<1>3. Worked(q)'
  BY DEF Local, Worked, Grows
<1>4. Judged(q)'
  BY DEF Local, Judged, Suppressed, Grows
<1>5. Recorded(q)'
  BY DEF Local, Recorded, InLedger, Grows
<1> QED
  BY <1>1, <1>2, <1>3, <1>4, <1>5 DEF Local

\* An update of one run's memory changes no other run's.
LEMMA ProcFacts ==
    ASSUME TypeOK, NEW p \in Procs, NEW run \in RunStates, proc' = [proc EXCEPT ![p] = run]
    PROVE  /\ proc' \in [Procs -> RunStates]
           /\ \A q \in Procs \ {p} : proc'[q] = proc[q]
           /\ proc'[p] = run
  BY DEF TypeOK

\* Going to another place changes nothing else in a run's memory.
LEMMA GotoFacts ==
    ASSUME TypeOK, NEW p \in Procs, NEW pc \in PCs, Goto(p, pc)
    PROVE  /\ proc' \in [Procs -> RunStates]
           /\ \A q \in Procs \ {p} : proc'[q] = proc[q]
           /\ proc'[p].pc = pc
           /\ proc'[p].receipt = proc[p].receipt
           /\ SameMemory(proc'[p], proc[p])
  BY DEF TypeOK, Goto, SameMemory, Keeps, RunStates

\* The memory of a process that runs nothing.
LEMMA IdleFacts ==
    Idle \in RunStates /\ Fresh(Idle) /\ Idle.pc = "idle" /\ Idle.configured = {}
  BY StoresAssumption, BoundsAssumption
  DEF Idle, RunStates, PCs, Fresh, Steps, Phases, Lineage, Rules, NoRule

\* A run that returns or is killed leaves a fresh process.
LEMMA ExitFacts ==
    ASSUME TypeOK, NEW p \in Procs, Exit(p)
    PROVE  /\ proc' \in [Procs -> RunStates]
           /\ \A q \in Procs \ {p} : proc'[q] = proc[q]
           /\ proc'[p].pc = "idle"
           /\ Fresh(proc'[p])
           /\ proc'[p].configured = {}
  BY IdleFacts DEF TypeOK, Exit

\* Where the control flow goes after a group: to a store, or to the receipt.
LEMMA AdvancedFacts ==
    ASSUME NEW run \in RunStates
    PROVE  /\ Advanced(run) \in RunStates
           /\ Advanced(run).pc \in {"step", "receipt"}
           /\ Advanced(run).step[2] \in Stores
           /\ Keeps(Advanced(run), run)
           /\ \A st \in Stores : PastSuppress(Advanced(run), st) =>
                 PastSuppress(run, st) \/ run.step = <<"suppress", st>>
<1>1. /\ run.step \in Phases \X (0..N)
      /\ run.step = <<run.step[1], run.step[2]>>
      /\ run.step[1] \in Phases
      /\ run.step[2] \in 0..N
      /\ N \in Nat \ {0}
  BY StoresAssumption DEF RunStates, Steps
<1>2. CASE run.step[2] < N
  <2>1. Advanced(run) = [run EXCEPT !.pc = "step", !.step = <<run.step[1], run.step[2] + 1>>]
    BY <1>2 DEF Advanced
  <2>2. <<run.step[1], run.step[2] + 1>> \in Steps /\ run.step[2] + 1 \in Stores
    BY <1>1, <1>2 DEF Steps, Stores
  <2>3. /\ Advanced(run) \in RunStates
        /\ Advanced(run).pc = "step"
        /\ Advanced(run).step = <<run.step[1], run.step[2] + 1>>
        /\ Keeps(Advanced(run), run)
    BY <2>1, <2>2 DEF RunStates, Keeps, PCs
  <2>4. ASSUME NEW st \in Stores, PastSuppress(Advanced(run), st)
        PROVE  PastSuppress(run, st) \/ run.step = <<"suppress", st>>
    BY <2>3, <2>4, <1>1 DEF PastSuppress, Stores
  <2> QED
    BY <2>2, <2>3, <2>4
<1>3. CASE ~(run.step[2] < N) /\ run.step[1] # "verify"
  <2>1. Advanced(run) = [run EXCEPT !.pc = "step", !.step = <<PhaseAfter[run.step[1]], 1>>]
    BY <1>3 DEF Advanced
  <2>2. <<PhaseAfter[run.step[1]], 1>> \in Steps /\ 1 \in Stores
    BY <1>1, <1>3 DEF Steps, Stores, PhaseAfter, Phases
  <2>3. /\ Advanced(run) \in RunStates
        /\ Advanced(run).pc = "step"
        /\ Advanced(run).step = <<PhaseAfter[run.step[1]], 1>>
        /\ Keeps(Advanced(run), run)
    BY <2>1, <2>2 DEF RunStates, Keeps, PCs
  <2>4. ASSUME NEW st \in Stores, PastSuppress(Advanced(run), st)
        PROVE  PastSuppress(run, st) \/ run.step = <<"suppress", st>>
    BY <1>1, <1>3 DEF PastSuppress, Stores
  <2> QED
    BY <2>2, <2>3, <2>4
<1>4. CASE ~(run.step[2] < N) /\ run.step[1] = "verify"
  <2>1. Advanced(run) = [run EXCEPT !.pc = "receipt"]
    BY <1>4 DEF Advanced
  <2>2. /\ Advanced(run) \in RunStates
        /\ Advanced(run).pc = "receipt"
        /\ Advanced(run).step = run.step
        /\ Keeps(Advanced(run), run)
    BY <2>1 DEF RunStates, Keeps, PCs
  <2> QED
    BY <1>1, <1>4, <2>2 DEF Stores, PastSuppress
<1> QED
  BY <1>2, <1>3, <1>4

----------------------------------------------------------------------------
(* One run's part of the invariant after a move of its own                 *)

\* A run with nothing in its memory satisfies its part.
LEMMA FreshLocal ==
    ASSUME TypeOK', NEW p \in Procs, Fresh(proc'[p]),
           proc'[p].pc \in Outside \cup {"step"},
           proc'[p].pc = "step" => proc'[p].saga \in 1..sagas'
    PROVE  Local(p)'
<1>1. /\ proc'[p].step[1] = "suppress"
      /\ proc'[p].step[2] = 0
      /\ proc'[p].step = <<"suppress", Lineage>>
      /\ proc'[p].configured \subseteq 1..N
      /\ \A st \in Stores : proc'[p].verdict[st] = NoRule
  BY DEF Fresh, Lineage, TypeOK, RunStates, Stores
<1>2. Placed(p)'
  BY <1>1 DEF Placed, Outside, Working, Lineage, Stores
<1>3. Behind(p)'
  BY <1>1, StoresAssumption DEF Behind, PastSuppress, Outside
<1>4. Worked(p)' /\ Recorded(p)'
  BY DEF Worked, Recorded, Outside
<1>5. Judged(p)'
  BY <1>1 DEF Judged, NoRule
<1> QED
  BY <1>2, <1>3, <1>4, <1>5 DEF Local

\* What a step must leave behind for a run that goes on to the next group.
Settles(run) ==
    /\ run.saga \in 1..sagas'
    /\ <<run.saga, <<"suppress", Lineage>>>> \in done'
    /\ \A st \in run.configured : PastSuppress(run, st) \/ run.step = <<"suppress", st>> =>
          st \in run.dlq \/ <<run.saga, <<"suppress", st>>>> \in done'
    /\ \A st \in Stores : run.verdict[st] = "verified" =>
          /\ content'[st] = "gone"
          /\ st \in Physical
          /\ <<run.saga, <<"suppress", st>>>> \in done'

LEMMA AdvanceLocal ==
    ASSUME TypeOK', NEW p \in Procs, NEW run \in RunStates, Settles(run),
           proc'[p] = Advanced(run)
    PROVE  Local(p)'
<1>1. /\ proc'[p].pc \in {"step", "receipt"}
      /\ proc'[p].step[2] \in Stores
      /\ Keeps(proc'[p], run)
      /\ \A st \in Stores : PastSuppress(proc'[p], st) =>
            PastSuppress(run, st) \/ run.step = <<"suppress", st>>
  BY AdvancedFacts
<1>2. Placed(p)'
  BY <1>1, StoresAssumption DEF Placed, Outside, Working, Keeps, Settles, Lineage, Stores
<1>3. Behind(p)'
  <2>1. proc'[p].configured \subseteq Stores
    BY DEF TypeOK, RunStates
  <2> QED
    BY <1>1, <2>1 DEF Behind, Keeps, Settles, Suppressed
<1>4. Worked(p)' /\ Recorded(p)'
  BY <1>1 DEF Worked, Recorded
<1>5. Judged(p)'
  BY <1>1 DEF Judged, Keeps, Settles, Suppressed
<1> QED
  BY <1>2, <1>3, <1>4, <1>5 DEF Local

\* A run that only goes to another place keeps what it has left behind.
LEMMA GotoLocal ==
    ASSUME TypeOK, TypeOK', Grows, NEW p \in Procs, Local(p),
           SameMemory(proc'[p], proc[p]),
           Placed(p)', Worked(p)', Recorded(p)', proc'[p].pc = "repin" => IsDone(p)'
    PROVE  Local(p)'
<1>1. Behind(p)'
  BY DEF Local, Behind, SameMemory, Keeps, PastSuppress, Suppressed, Grows
<1>2. Judged(p)'
  BY DEF Local, Judged, SameMemory, Keeps, Suppressed, Grows
<1> QED
  BY <1>1, <1>2 DEF Local

\* The parts of the invariant put together again.
LEMMA Together ==
    ASSUME IndInv, TypeOK', Grows, NEW p \in Procs,
           \A q \in Procs \ {p} : proc'[q] = proc[q], Local(p)',
           Journaled', SuppressBeforeReclaim', ClosedHasReceipt', VerifiedIsErased'
    PROVE  IndInv'
<1>1. ASSUME NEW q \in Procs PROVE Local(q)'
  <2>1. CASE q = p
    BY <2>1
  <2>2. CASE q # p
    BY <2>2, OtherRuns DEF IndInv
  <2> QED
    BY <2>1, <2>2
<1> QED
  BY <1>1 DEF IndInv

\* Steps that write neither a step_begin, a receipt nor a saga_end.
LEMMA Kept ==
    ASSUME IndInv, TypeOK', Grows, begun' = begun, closed' = closed, ledger' = ledger
    PROVE  SuppressBeforeReclaim' /\ ClosedHasReceipt' /\ VerifiedIsErased'
<1>1. SuppressBeforeReclaim'
  BY DEF IndInv, SuppressBeforeReclaim, Grows
<1>2. ClosedHasReceipt'
  BY SMTT(30) DEF IndInv, ClosedHasReceipt, Grows, TypeOK
<1>3. VerifiedIsErased'
  <2>1. ASSUME NEW i \in DOMAIN ledger', NEW st \in Stores, ledger'[i].verdict[st] = "verified"
        PROVE  /\ content'[st] = "gone"
               /\ st \in Physical
               /\ <<ledger'[i].saga, <<"suppress", st>>>> \in done'
    BY <2>1 DEF IndInv, VerifiedIsErased, Grows
  <2> QED
    BY <2>1 DEF VerifiedIsErased
<1> QED
  BY <1>1, <1>2, <1>3

\* Steps that write nothing the invariant reads but the memory of their run.
LEMMA UnreadOnly ==
    ASSUME IndInv, NEW p \in Procs, TypeOK',
           \A q \in Procs \ {p} : proc'[q] = proc[q],
           UNCHANGED <<sagas, begun, done, probed, closed, receiptVars, tombstoned, content>>,
           Local(p)'
    PROVE  IndInv'
<1>1. Grows
  BY DEF IndInv, TypeOK, Grows, receiptVars
<1>2. Journaled'
  BY DEF IndInv, Journaled, Suppressed
<1> QED
  BY <1>1, <1>2, Kept, Together DEF receiptVars

LEMMA MemoryOnly ==
    ASSUME IndInv, NEW p \in Procs, proc' \in [Procs -> RunStates],
           \A q \in Procs \ {p} : proc'[q] = proc[q],
           UNCHANGED <<journalVars, receiptVars, storeVars, stale, boundVars>>,
           Local(p)'
    PROVE  IndInv'
<1> USE DEF journalVars, receiptVars, storeVars, boundVars
<1>1. TypeOK'
  BY DEF IndInv, TypeOK
<1> QED
  BY <1>1, UnreadOnly

----------------------------------------------------------------------------
(* Every action preserves the invariant                                    *)

LEMMA LaunchKeeps ==
    ASSUME IndInv, NEW p \in Procs, Launch(p)
    PROVE  IndInv'
<1>1. PICK c \in Configs, r \in ReclaimOpts, again \in BOOLEAN :
        proc' = [proc EXCEPT ![p] = [Idle EXCEPT !.pc = "choose", !.configured = c,
                                                 !.reclaim = r, !.retry = again]]
  BY DEF Launch
<1> DEFINE run == [Idle EXCEPT !.pc = "choose", !.configured = c,
                               !.reclaim = r, !.retry = again]
<1>2. /\ run \in RunStates
      /\ Fresh(run)
      /\ run.pc = "choose"
  <2>1. c \subseteq Stores /\ r \in BOOLEAN
    BY KindsAssumption
  <2>2. run \in RunStates
    BY <2>1, IdleFacts DEF RunStates, PCs
  <2>3. run.step = Idle.step /\ run.dlq = Idle.dlq /\ run.verdict = Idle.verdict
    BY IdleFacts DEF RunStates
  <2> QED
    BY <2>2, <2>3, IdleFacts DEF Fresh
<1>3. /\ proc' \in [Procs -> RunStates]
      /\ \A q \in Procs \ {p} : proc'[q] = proc[q]
      /\ proc'[p] = run
  BY <1>1, <1>2, ProcFacts DEF IndInv
<1>4. UNCHANGED <<journalVars, receiptVars, storeVars, stale, boundVars>>
  BY DEF Launch
<1>5. TypeOK'
  BY <1>3, <1>4 DEF IndInv, TypeOK, journalVars, receiptVars, storeVars, boundVars
<1>6. Local(p)'
  BY <1>2, <1>3, <1>5, FreshLocal DEF Outside
<1> QED
  BY <1>3, <1>4, <1>6, MemoryOnly

LEMMA ChooseKeeps ==
    ASSUME IndInv, NEW p \in Procs, Choose(p)
    PROVE  IndInv'
<1>1. UNCHANGED <<journalVars, receiptVars, storeVars, stale, boundVars>>
  BY DEF Choose
<1>2. Fresh(proc[p]) /\ proc[p].pc = "choose" /\ TypeOK
  BY DEF Choose, IndInv, Local, Placed, Outside
<1>3. /\ proc' \in [Procs -> RunStates]
      /\ \A q \in Procs \ {p} : proc'[q] = proc[q]
      /\ Fresh(proc'[p])
      /\ proc'[p].pc \in {"idle", "start", "step"}
      /\ proc'[p].pc = "step" => proc'[p].saga \in 1..sagas
  <2>1. CASE Open(1) /\ proc' = [proc EXCEPT ![p] = [@ EXCEPT !.pc = "step", !.saga = 1]]
    <3>1. 1 \in 1..sagas /\ 1 \in 0..MaxSagas
      BY <1>2, <2>1, BoundsAssumption DEF Open, TypeOK
    <3> DEFINE run == [proc[p] EXCEPT !.pc = "step", !.saga = 1]
    <3>2. proc[p] \in RunStates
      BY <1>2 DEF TypeOK
    <3>3. run \in RunStates /\ run.pc = "step" /\ run.saga = 1
      BY <3>1, <3>2 DEF RunStates, PCs
    <3>4. run.step = proc[p].step /\ run.dlq = proc[p].dlq /\ run.verdict = proc[p].verdict
      BY <3>2 DEF RunStates
    <3>5. Fresh(run)
      BY <1>2, <3>4 DEF Fresh
    <3>6. proc' = [proc EXCEPT ![p] = run]
      BY <2>1
    <3> HIDE DEF run
    <3> QED
      BY <1>2, <3>1, <3>3, <3>5, <3>6, ProcFacts
  <2>2. CASE Goto(p, "start")
    BY <1>2, <2>2, GotoFacts DEF PCs, Fresh, SameMemory, Keeps
  <2>3. CASE Exit(p)
    BY <1>2, <2>3, ExitFacts
  <2> QED
    BY <2>1, <2>2, <2>3 DEF Choose
<1>4. TypeOK'
  BY <1>1, <1>2, <1>3 DEF TypeOK, journalVars, receiptVars, storeVars, boundVars
<1>5. Local(p)'
  BY <1>1, <1>3, <1>4, FreshLocal DEF Outside, journalVars
<1> QED
  BY <1>1, <1>3, <1>5, MemoryOnly

LEMMA StartSagaKeeps ==
    ASSUME IndInv, NEW p \in Procs, StartSaga(p)
    PROVE  IndInv'
<1>1. Fresh(proc[p]) /\ TypeOK
  BY DEF StartSaga, IndInv, Local, Placed, Outside
<1>2. sagas + 1 \in 1..MaxSagas
  BY <1>1, BoundsAssumption DEF StartSaga, TypeOK
<1>3. /\ proc' \in [Procs -> RunStates]
      /\ \A q \in Procs \ {p} : proc'[q] = proc[q]
      /\ Fresh(proc'[p])
      /\ proc'[p].pc = "step"
      /\ proc'[p].saga = sagas + 1
  <2> DEFINE run == [proc[p] EXCEPT !.pc = "step", !.saga = sagas + 1]
  <2>1. proc[p] \in RunStates /\ sagas + 1 \in 0..MaxSagas
    BY <1>1, <1>2 DEF TypeOK
  <2>2. run \in RunStates /\ run.pc = "step" /\ run.saga = sagas + 1
    BY <2>1 DEF RunStates, PCs
  <2>3. run.step = proc[p].step /\ run.dlq = proc[p].dlq /\ run.verdict = proc[p].verdict
    BY <2>1 DEF RunStates
  <2>4. Fresh(run)
    BY <1>1, <2>3 DEF Fresh
  <2>5. proc' = [proc EXCEPT ![p] = run]
    BY DEF StartSaga
  <2> HIDE DEF run
  <2> QED
    BY <1>1, <2>2, <2>4, <2>5, ProcFacts
<1>4. TypeOK'
  BY <1>1, <1>2, <1>3 DEF StartSaga, TypeOK, receiptVars, storeVars, boundVars
<1>5. Grows
  BY <1>1 DEF StartSaga, Grows, TypeOK, receiptVars, storeVars
<1>6. Local(p)'
  <2>1. proc'[p].saga \in 1..sagas'
    BY <1>2, <1>3 DEF StartSaga
  <2> QED
    BY <1>3, <1>4, <2>1, FreshLocal
<1>7. Journaled'
  BY DEF StartSaga, IndInv, Journaled, Suppressed, storeVars
<1>8. SuppressBeforeReclaim' /\ ClosedHasReceipt' /\ VerifiedIsErased'
  BY <1>4, <1>5, Kept DEF StartSaga, receiptVars
<1> QED
  BY <1>3, <1>4, <1>5, <1>6, <1>7, <1>8, Together

LEMMA PassOverKeeps ==
    ASSUME IndInv, NEW p \in Procs, PassOver(p)
    PROVE  IndInv'
<1>1. /\ UNCHANGED <<journalVars, receiptVars, storeVars, stale, boundVars>>
      /\ proc[p].pc = "step" /\ ~Applies(p)
      /\ TypeOK /\ Local(p)
      /\ proc[p] \in RunStates
  BY DEF PassOver, IndInv, TypeOK
<1>2. proc[p].step[2] \in Stores
  BY <1>1 DEF Applies, RunStates, Steps, Stores, Lineage
<1>3. CASE proc[p].step[1] = "verify" /\ Goto(p, "judge")
  <2>1. /\ proc' \in [Procs -> RunStates]
        /\ \A q \in Procs \ {p} : proc'[q] = proc[q]
        /\ proc'[p].pc = "judge"
        /\ SameMemory(proc'[p], proc[p])
    BY <1>1, <1>3, GotoFacts DEF PCs
  <2>2. TypeOK' /\ Grows
    BY <1>1, <2>1 DEF TypeOK, Grows, journalVars, receiptVars, storeVars, boundVars
  <2>3. Placed(p)'
    BY <1>1, <1>2, <1>3, <2>1, StoresAssumption
    DEF Local, Placed, Outside, Working, SameMemory, Keeps, Lineage, Stores, journalVars
  <2>4. Worked(p)' /\ Recorded(p)'
    BY <2>1 DEF Worked, Recorded
  <2>5. Local(p)'
    BY <1>1, <2>1, <2>2, <2>3, <2>4, GotoLocal
  <2> QED
    BY <1>1, <2>1, <2>5, MemoryOnly
<1>4. CASE Advance(p)
  <2>1. Settles(proc[p])
    <3>1. \A st \in Stores : proc[p].step = <<"suppress", st>> => st \notin proc[p].configured
      BY <1>1 DEF Applies
    <3>2. proc[p].configured \subseteq Stores
      BY <1>1 DEF RunStates
    <3>3. proc[p].step # <<"suppress", Lineage>>
      BY <1>2 DEF Stores, Lineage
    <3> QED
      BY <1>1, <3>1, <3>2, <3>3
      DEF Local, Placed, Behind, Judged, Settles, Suppressed, Outside, journalVars, storeVars
  <2>2. /\ proc' \in [Procs -> RunStates]
        /\ \A q \in Procs \ {p} : proc'[q] = proc[q]
        /\ proc'[p] = Advanced(proc[p])
    BY <1>1, <1>4, AdvancedFacts DEF Advance, TypeOK
  <2>3. TypeOK'
    BY <1>1, <2>2 DEF TypeOK, journalVars, receiptVars, storeVars, boundVars
  <2>4. Local(p)'
    BY <1>1, <2>1, <2>2, <2>3, AdvanceLocal
  <2> QED
    BY <1>1, <2>2, <2>4, MemoryOnly
<1> QED
  BY <1>3, <1>4 DEF PassOver

\* A settled step: what its run may say of itself, wherever it goes on.
LEMMA AfterSuccessFacts ==
    ASSUME TypeOK, NEW p \in Procs, Local(p), AfterSuccess(p)
    PROVE  /\ proc' \in [Procs -> RunStates]
           /\ \A q \in Procs \ {p} : proc'[q] = proc[q]
           /\ \/ /\ proc'[p].pc = "judge" /\ proc[p].step[1] = "verify"
                 /\ proc[p].step[2] \in Stores
                 /\ SameMemory(proc'[p], proc[p])
              \/ /\ proc'[p].pc = "repin" /\ proc[p].step[2] \in Stores
                 /\ SameMemory(proc'[p], proc[p])
              \/ proc'[p] = Advanced(proc[p])
<1>1. proc[p] \in RunStates /\ proc[p].step[1] \in Phases /\ proc[p].step[2] \in 0..N
  BY DEF TypeOK, RunStates, Steps
<1>2. proc[p].step[2] # Lineage => proc[p].step[2] \in Stores
  BY <1>1, StoresAssumption DEF Lineage, Stores
<1>3. CASE proc[p].step[1] = "verify" /\ Goto(p, "judge")
  BY <1>2, <1>3, GotoFacts DEF PCs, Local, Placed, Lineage
<1>4. CASE proc[p].step[2] # Lineage /\ Goto(p, "repin")
  BY <1>2, <1>4, GotoFacts DEF PCs
<1>5. CASE Advance(p)
  BY <1>1, <1>5, AdvancedFacts DEF Advance, TypeOK
<1> QED
  BY <1>3, <1>4, <1>5 DEF AfterSuccess

LEMMA AfterSuccessLocal ==
    ASSUME TypeOK, TypeOK', Grows, NEW p \in Procs, Local(p), AfterSuccess(p),
           proc[p].pc \notin Outside, <<proc[p].saga, proc[p].step>> \in done'
    PROVE  Local(p)'
<1>1. proc[p] \in RunStates /\ proc[p].saga \in 1..sagas'
  BY DEF TypeOK, Local, Placed, Grows
<1>2. CASE /\ proc'[p].pc \in {"judge", "repin"}
           /\ proc'[p].pc = "judge" => proc[p].step[1] = "verify"
           /\ proc[p].step[2] \in Stores
           /\ SameMemory(proc'[p], proc[p])
  <2>1. Placed(p)'
    BY <1>1, <1>2, StoresAssumption
    DEF Placed, Outside, Working, SameMemory, Keeps, Lineage, Stores
  <2>2. Worked(p)' /\ Recorded(p)'
    BY <1>2 DEF Worked, Recorded
  <2>3. IsDone(p)'
    BY <1>2 DEF IsDone, SameMemory, Keeps
  <2> QED
    BY <1>2, <2>1, <2>2, <2>3, GotoLocal
<1>3. CASE proc'[p] = Advanced(proc[p])
  <2>1. Settles(proc[p])
    <3>1. <<proc[p].saga, <<"suppress", Lineage>>>> \in done'
      BY DEF Local, Behind, Suppressed, Grows
    <3>2. ASSUME NEW st \in proc[p].configured,
                 PastSuppress(proc[p], st) \/ proc[p].step = <<"suppress", st>>
          PROVE  st \in proc[p].dlq \/ <<proc[p].saga, <<"suppress", st>>>> \in done'
      BY <3>2 DEF Local, Behind, Suppressed, Grows
    <3>3. ASSUME NEW st \in Stores, proc[p].verdict[st] = "verified"
          PROVE  /\ content'[st] = "gone"
                 /\ st \in Physical
                 /\ <<proc[p].saga, <<"suppress", st>>>> \in done'
      BY <3>3 DEF Local, Judged, Suppressed, Grows
    <3> QED
      BY <1>1, <3>1, <3>2, <3>3 DEF Settles
  <2> QED
    BY <1>1, <1>3, <2>1, AdvanceLocal
<1> QED
  BY <1>2, <1>3, AfterSuccessFacts

LEMMA TakeOverKeeps ==
    ASSUME IndInv, NEW p \in Procs, TakeOver(p)
    PROVE  IndInv'
<1>1. /\ UNCHANGED <<journalVars, receiptVars, storeVars, stale, boundVars>>
      /\ proc[p].pc = "step" /\ IsDone(p) /\ AfterSuccess(p)
      /\ TypeOK /\ Local(p)
  BY DEF TakeOver, IndInv
<1>2. proc' \in [Procs -> RunStates] /\ \A q \in Procs \ {p} : proc'[q] = proc[q]
  BY <1>1, AfterSuccessFacts
<1>3. TypeOK' /\ Grows
  BY <1>1, <1>2 DEF TypeOK, Grows, journalVars, receiptVars, storeVars, boundVars
<1>4. <<proc[p].saga, proc[p].step>> \in done'
  BY <1>1 DEF IsDone, journalVars
<1>5. Local(p)'
  BY <1>1, <1>3, <1>4, AfterSuccessLocal DEF Outside
<1> QED
  BY <1>1, <1>2, <1>5, MemoryOnly

LEMMA FindUndoneKeeps ==
    ASSUME IndInv, NEW p \in Procs, FindUndone(p)
    PROVE  IndInv'
<1>1. /\ UNCHANGED <<journalVars, receiptVars, storeVars, stale, boundVars>>
      /\ proc[p].pc = "step" /\ Applies(p) /\ Goto(p, "begin")
      /\ TypeOK /\ Local(p)
  BY DEF FindUndone, IndInv
<1>2. /\ proc' \in [Procs -> RunStates]
      /\ \A q \in Procs \ {p} : proc'[q] = proc[q]
      /\ proc'[p].pc = "begin"
      /\ SameMemory(proc'[p], proc[p])
  BY <1>1, GotoFacts DEF PCs
<1>3. TypeOK' /\ Grows
  BY <1>1, <1>2 DEF TypeOK, Grows, journalVars, receiptVars, storeVars, boundVars
<1>4. Applies(p)'
  BY <1>1, <1>2 DEF Applies, SameMemory, Keeps
<1>5. Placed(p)'
  BY <1>1, <1>2, <1>4 DEF Local, Placed, Outside, SameMemory, Keeps, journalVars
<1>6. Worked(p)' /\ Recorded(p)'
  BY <1>2 DEF Worked, Recorded
<1>7. Local(p)'
  BY <1>1, <1>2, <1>3, <1>5, <1>6, GotoLocal
<1> QED
  BY <1>1, <1>2, <1>7, MemoryOnly

LEMMA BeginStepKeeps ==
    ASSUME IndInv, NEW p \in Procs, BeginStep(p)
    PROVE  IndInv'
<1>1. /\ UNCHANGED <<sagas, done, failed, dead, probed, closed>>
      /\ UNCHANGED <<receiptVars, storeVars, stale, boundVars>>
      /\ begun' = begun \cup {<<proc[p].saga, proc[p].step>>}
      /\ proc[p].pc = "begin" /\ Goto(p, "work")
      /\ TypeOK /\ Local(p) /\ Applies(p)
      /\ proc[p].saga \in 1..sagas /\ proc[p].step \in Steps
  BY DEF BeginStep, IndInv, Local, Placed, Outside, Working, TypeOK, RunStates
<1>2. /\ proc' \in [Procs -> RunStates]
      /\ \A q \in Procs \ {p} : proc'[q] = proc[q]
      /\ proc'[p].pc = "work"
      /\ SameMemory(proc'[p], proc[p])
  BY <1>1, GotoFacts DEF PCs
<1>3. TypeOK'
  <2>1. proc[p].saga \in SagaIds
    BY <1>1, BoundsAssumption DEF TypeOK, SagaIds
  <2> QED
    BY <1>1, <1>2, <2>1 DEF TypeOK, receiptVars, storeVars, boundVars
<1>4. Grows
  BY <1>1 DEF TypeOK, Grows, receiptVars, storeVars
<1>5. Placed(p)'
  <2>1. Applies(p)'
    BY <1>1, <1>2 DEF Applies, SameMemory, Keeps
  <2> QED
    BY <1>1, <1>2, <2>1 DEF Local, Placed, Outside, SameMemory, Keeps
<1>6. Worked(p)' /\ Recorded(p)'
  BY <1>2 DEF Worked, Recorded
<1>7. Local(p)'
  BY <1>1, <1>2, <1>3, <1>4, <1>5, <1>6, GotoLocal
<1>8. Journaled'
  BY <1>1 DEF IndInv, Journaled, Suppressed, storeVars
<1>9. SuppressBeforeReclaim'
  <2>1. ASSUME NEW s \in SagaIds, NEW st \in Stores, <<s, <<"reclaim", st>>>> \in begun'
        PROVE  <<s, <<"suppress", Lineage>>>> \in done /\ <<s, <<"suppress", st>>>> \in done
    <3>1. CASE <<s, <<"reclaim", st>>>> \in begun
      BY <3>1 DEF IndInv, SuppressBeforeReclaim
    <3>2. CASE proc[p].saga = s /\ proc[p].step = <<"reclaim", st>>
      <4>1. st \in proc[p].configured /\ st \notin proc[p].dlq
        BY <1>1, <3>2 DEF Applies, Stores, Lineage
      <4>2. PastSuppress(proc[p], st) /\ proc[p].step # <<"suppress", Lineage>>
        BY <3>2 DEF PastSuppress
      <4> QED
        BY <1>1, <3>2, <4>1, <4>2 DEF Local, Behind, Suppressed
    <3> QED
      BY <1>1, <2>1, <3>1, <3>2
  <2> QED
    BY <1>1, <2>1 DEF SuppressBeforeReclaim
<1>10. ClosedHasReceipt' /\ VerifiedIsErased'
  BY <1>1 DEF IndInv, ClosedHasReceipt, VerifiedIsErased, receiptVars, storeVars
<1> QED
  BY <1>2, <1>3, <1>4, <1>7, <1>8, <1>9, <1>10, Together

\* The function of a step brings nothing back, and what a probe finds gone is gone.
LEMMA ApplyFacts ==
    ASSUME TypeOK, Journaled, NEW p \in Procs, Local(p), proc[p].pc \in Working,
           Apply(p), done' = done
    PROVE  /\ tombstoned' \in BOOLEAN /\ (tombstoned => tombstoned')
           /\ content' \in [Stores -> Contents]
           /\ drifted' \subseteq Stores /\ held' \subseteq Stores
           /\ probed' \in [SagaIds -> [Stores -> Contents \cup {NoRule}]]
           /\ \A st \in Stores : content[st] # "live" => content'[st] # "live"
           /\ \A st \in Stores : content[st] = "gone" => content'[st] = "gone"
           /\ Journaled'
           /\ proc[p].step[1] = "suppress" =>
                 /\ proc[p].step[2] = Lineage => tombstoned'
                 /\ proc[p].step[2] \in Stores => content'[proc[p].step[2]] # "live"
<1>1. /\ proc[p].step[1] \in Phases /\ proc[p].step[2] \in 0..N
      /\ proc[p].saga \in SagaIds
  <2>1. proc[p].saga \in 1..sagas
    BY DEF Local, Placed, Outside, Working
  <2> QED
    BY <2>1, BoundsAssumption DEF TypeOK, RunStates, Steps, SagaIds
<1>2. CASE proc[p].step[2] = Lineage
  <2>1. tombstoned' = TRUE /\ UNCHANGED <<content, drifted, held, probed>>
    BY <1>2 DEF Apply
  <2>2. Journaled'
    BY <2>1 DEF Journaled, Suppressed
  <2>3. proc[p].step[2] \notin Stores
    BY <1>2 DEF Stores, Lineage
  <2> QED
    BY <2>1, <2>2, <2>3 DEF TypeOK
<1>3. CASE proc[p].step[2] # Lineage
  <2> DEFINE at == proc[p].step[2]
             phase == proc[p].step[1]
             into == ContentAfter(phase, content[at])
  <2>1. at \in Stores
    BY <1>1, <1>3, StoresAssumption DEF Lineage, Stores
  <2>2. /\ content' = [content EXCEPT ![at] = into]
        /\ drifted' = drifted \cup {st \in Pinned : content'[st] # content[st]}
        /\ held' = IF phase = "suppress" THEN held \cup ({at} \cap Snapshots) ELSE held
        /\ probed' = IF phase = "verify"
                     THEN [probed EXCEPT ![proc[p].saga][at] = content[at]]
                     ELSE probed
        /\ tombstoned' = tombstoned
    BY <1>3 DEF Apply
  <2>3. /\ content[at] \in Contents
        /\ into \in Contents
        /\ content[at] # "live" => into # "live"
        /\ content[at] = "gone" => into = "gone"
        /\ phase = "suppress" => into # "live"
        /\ phase = "verify" => into = content[at]
    BY <1>1, <2>1 DEF TypeOK, ContentAfter, Contents
  <2> HIDE DEF into
  <2>4. /\ content' \in [Stores -> Contents]
        /\ content'[at] = into
        /\ \A st \in Stores : st # at => content'[st] = content[st]
    BY <2>1, <2>2, <2>3 DEF TypeOK
  <2>5. drifted' \subseteq Stores /\ held' \subseteq Stores
    BY <2>1, <2>2, KindsAssumption DEF TypeOK
  <2>6. /\ probed' \in [SagaIds -> [Stores -> Contents \cup {NoRule}]]
        /\ \A s \in SagaIds, st \in Stores :
              probed'[s][st] = probed[s][st] \/ (st = at /\ phase = "verify" /\ probed'[s][st] = content[at])
    <3>1. CASE phase = "verify"
      <4>1. probed' = [probed EXCEPT ![proc[p].saga][at] = content[at]]
        BY <2>2, <3>1
      <4> QED
        BY <1>1, <2>1, <2>3, <3>1, <4>1 DEF TypeOK
    <3>2. CASE phase # "verify"
      BY <2>2, <3>2 DEF TypeOK
    <3> QED
      BY <3>1, <3>2
  <2>7. /\ \A st \in Stores : content[st] # "live" => content'[st] # "live"
        /\ \A st \in Stores : content[st] = "gone" => content'[st] = "gone"
    BY <2>1, <2>3, <2>4
  <2>8. Journaled'
    <3>1. \A s \in SagaIds : Suppressed(s, Lineage)' => tombstoned'
      BY <2>2 DEF Journaled, Suppressed
    <3>2. ASSUME NEW s \in SagaIds, NEW st \in Stores
          PROVE  /\ Suppressed(s, st)' => content'[st] # "live"
                 /\ probed'[s][st] = "gone" => content'[st] = "gone"
      BY <2>1, <2>3, <2>4, <2>6, <2>7 DEF Journaled, Suppressed
    <3> QED
      BY <3>1, <3>2 DEF Journaled
  <2>9. tombstoned' \in BOOLEAN /\ (tombstoned => tombstoned')
    BY <2>2 DEF TypeOK
  <2> QED
    BY <1>3, <2>3, <2>4, <2>5, <2>6, <2>7, <2>8, <2>9
<1> QED
  BY <1>2, <1>3

LEMMA WorkKeeps ==
    ASSUME IndInv, NEW p \in Procs, Work(p)
    PROVE  IndInv'
<1>1. /\ UNCHANGED <<sagas, begun, done, failed, dead, closed>>
      /\ UNCHANGED <<receiptVars, stale, boundVars>>
      /\ proc[p].pc = "work" /\ Apply(p) /\ Goto(p, "ok")
      /\ TypeOK /\ Local(p) /\ Applies(p) /\ Journaled
  BY DEF Work, IndInv, Local, Placed, Working
<1>2. /\ proc' \in [Procs -> RunStates]
      /\ \A q \in Procs \ {p} : proc'[q] = proc[q]
      /\ proc'[p].pc = "ok"
      /\ SameMemory(proc'[p], proc[p])
  BY <1>1, GotoFacts DEF PCs
<1>3. /\ tombstoned' \in BOOLEAN /\ (tombstoned => tombstoned')
      /\ content' \in [Stores -> Contents]
      /\ drifted' \subseteq Stores /\ held' \subseteq Stores
      /\ probed' \in [SagaIds -> [Stores -> Contents \cup {NoRule}]]
      /\ \A st \in Stores : content[st] # "live" => content'[st] # "live"
      /\ \A st \in Stores : content[st] = "gone" => content'[st] = "gone"
      /\ Journaled'
      /\ proc[p].step[1] = "suppress" =>
            /\ proc[p].step[2] = Lineage => tombstoned'
            /\ proc[p].step[2] \in Stores => content'[proc[p].step[2]] # "live"
  BY <1>1, ApplyFacts DEF Working
<1>4. TypeOK'
  BY <1>1, <1>2, <1>3 DEF TypeOK, receiptVars, boundVars
<1>5. Grows
  BY <1>1, <1>3 DEF TypeOK, Grows, receiptVars
<1>6. Placed(p)'
  <2>1. Applies(p)'
    BY <1>1, <1>2 DEF Applies, SameMemory, Keeps
  <2> QED
    BY <1>1, <1>2, <2>1 DEF Local, Placed, Outside, SameMemory, Keeps
<1>7. Worked(p)' /\ Recorded(p)'
  BY <1>2, <1>3 DEF Worked, Recorded, SameMemory
<1>8. Local(p)'
  BY <1>1, <1>2, <1>4, <1>5, <1>6, <1>7, GotoLocal
<1>9. SuppressBeforeReclaim' /\ ClosedHasReceipt' /\ VerifiedIsErased'
  BY <1>1, <1>4, <1>5, Kept DEF receiptVars
<1> QED
  BY <1>2, <1>3, <1>4, <1>5, <1>8, <1>9, Together

LEMMA WorkFailsKeeps ==
    ASSUME IndInv, NEW p \in Procs, WorkFails(p)
    PROVE  IndInv'
<1>1. /\ UNCHANGED <<sagas, begun, done, failed, dead, closed>>
      /\ UNCHANGED <<receiptVars, stale, crashes, captures, late>>
      /\ proc[p].pc = "work" /\ Goto(p, "fail")
      /\ Apply(p) \/ UNCHANGED <<storeVars, probed>>
      /\ TypeOK /\ Local(p) /\ Applies(p) /\ Journaled
  BY DEF WorkFails, IndInv, Local, Placed, Working
<1>2. /\ proc' \in [Procs -> RunStates]
      /\ \A q \in Procs \ {p} : proc'[q] = proc[q]
      /\ proc'[p].pc = "fail"
      /\ SameMemory(proc'[p], proc[p])
  BY <1>1, GotoFacts DEF PCs
<1>3. /\ tombstoned' \in BOOLEAN /\ (tombstoned => tombstoned')
      /\ content' \in [Stores -> Contents]
      /\ drifted' \subseteq Stores /\ held' \subseteq Stores
      /\ probed' \in [SagaIds -> [Stores -> Contents \cup {NoRule}]]
      /\ \A st \in Stores : content[st] # "live" => content'[st] # "live"
      /\ \A st \in Stores : content[st] = "gone" => content'[st] = "gone"
      /\ Journaled'
  <2>1. CASE Apply(p)
    BY <1>1, <2>1, ApplyFacts DEF Working
  <2>2. CASE UNCHANGED <<storeVars, probed>>
    BY <1>1, <2>2 DEF TypeOK, Journaled, Suppressed, storeVars
  <2> QED
    BY <1>1, <2>1, <2>2
<1>4. TypeOK'
  <2>1. failures' \in 0..MaxFailures
    BY <1>1, BoundsAssumption DEF WorkFails, TypeOK
  <2> QED
    BY <1>1, <1>2, <1>3, <2>1 DEF TypeOK, receiptVars
<1>5. Grows
  BY <1>1, <1>3 DEF TypeOK, Grows, receiptVars
<1>6. Placed(p)'
  <2>1. Applies(p)'
    BY <1>1, <1>2 DEF Applies, SameMemory, Keeps
  <2> QED
    BY <1>1, <1>2, <2>1 DEF Local, Placed, Outside, SameMemory, Keeps
<1>7. Worked(p)' /\ Recorded(p)'
  BY <1>2 DEF Worked, Recorded
<1>8. Local(p)'
  BY <1>1, <1>2, <1>4, <1>5, <1>6, <1>7, GotoLocal
<1>9. SuppressBeforeReclaim' /\ ClosedHasReceipt' /\ VerifiedIsErased'
  BY <1>1, <1>4, <1>5, Kept DEF receiptVars
<1> QED
  BY <1>2, <1>3, <1>4, <1>5, <1>8, <1>9, Together

LEMMA EndOkKeeps ==
    ASSUME IndInv, NEW p \in Procs, EndOk(p)
    PROVE  IndInv'
<1>1. /\ UNCHANGED <<sagas, begun, failed, dead, probed, closed>>
      /\ UNCHANGED <<receiptVars, storeVars, stale, boundVars>>
      /\ done' = done \cup {<<proc[p].saga, proc[p].step>>}
      /\ proc[p].pc = "ok" /\ AfterSuccess(p)
      /\ TypeOK /\ Local(p) /\ Journaled
      /\ proc[p].saga \in 1..sagas /\ proc[p].step \in Steps
  BY DEF EndOk, IndInv, Local, Placed, Outside, TypeOK, RunStates
<1>2. proc' \in [Procs -> RunStates] /\ \A q \in Procs \ {p} : proc'[q] = proc[q]
  BY <1>1, AfterSuccessFacts
<1>3. TypeOK'
  <2>1. proc[p].saga \in SagaIds
    BY <1>1, BoundsAssumption DEF TypeOK, SagaIds
  <2> QED
    BY <1>1, <1>2, <2>1 DEF TypeOK, receiptVars, storeVars, boundVars
<1>4. Grows
  BY <1>1 DEF TypeOK, Grows, receiptVars, storeVars
<1>5. Local(p)'
  BY <1>1, <1>3, <1>4, AfterSuccessLocal DEF Outside
<1>6. Journaled'
  <2>1. ASSUME NEW s \in SagaIds, Suppressed(s, Lineage)'
        PROVE  tombstoned'
    <3>1. tombstoned
      <4>1. CASE Suppressed(s, Lineage)
        BY <1>1, <4>1 DEF Journaled
      <4>2. CASE proc[p].step = <<"suppress", Lineage>>
        BY <1>1, <4>2 DEF Local, Worked
      <4> QED
        BY <1>1, <2>1, <4>1, <4>2 DEF Suppressed
    <3> QED
      BY <1>1, <3>1 DEF storeVars
  <2>2. ASSUME NEW s \in SagaIds, NEW st \in Stores, Suppressed(s, st)'
        PROVE  content'[st] # "live"
    BY <1>1, <2>2 DEF Journaled, Suppressed, Local, Worked, storeVars
  <2> QED
    BY <1>1, <2>1, <2>2 DEF Journaled, storeVars
<1>7. SuppressBeforeReclaim' /\ ClosedHasReceipt' /\ VerifiedIsErased'
  BY <1>1, <1>3, <1>4, Kept DEF receiptVars
<1> QED
  BY <1>2, <1>3, <1>4, <1>5, <1>6, <1>7, Together

LEMMA EndFailedKeeps ==
    ASSUME IndInv, NEW p \in Procs, EndFailed(p)
    PROVE  IndInv'
<1>1. /\ UNCHANGED <<sagas, begun, done, dead, probed, closed>>
      /\ UNCHANGED <<receiptVars, storeVars, stale, boundVars>>
      /\ failed' = failed \cup {<<proc[p].saga, proc[p].step>>}
      /\ proc[p].pc = "fail"
      /\ TypeOK /\ Local(p)
      /\ proc[p].saga \in 1..sagas /\ proc[p].step \in Steps
      /\ proc[p] \in RunStates
  BY DEF EndFailed, IndInv, Local, Placed, Outside, TypeOK, RunStates
<1>2. failed' \subseteq SagaIds \X Steps
  BY <1>1, BoundsAssumption DEF TypeOK, SagaIds
<1>3. proc[p].step[2] # Lineage => proc[p].step[2] \in Stores
  BY <1>1, StoresAssumption DEF Steps, Stores, Lineage
<1>4. CASE Exit(p)
  <2>1. /\ proc' \in [Procs -> RunStates]
        /\ \A q \in Procs \ {p} : proc'[q] = proc[q]
        /\ proc'[p].pc = "idle" /\ Fresh(proc'[p])
    BY <1>1, <1>4, ExitFacts
  <2>2. TypeOK'
    BY <1>1, <1>2, <2>1 DEF TypeOK, receiptVars, storeVars, boundVars
  <2>3. Local(p)'
    BY <2>1, <2>2, FreshLocal DEF Outside
  <2> QED
    BY <1>1, <2>1, <2>2, <2>3, UnreadOnly DEF storeVars
<1>5. ASSUME NEW pc \in {"dlq", "judge"}, Goto(p, pc), proc[p].step[2] # Lineage,
             pc = "judge" => proc[p].step[1] = "verify"
      PROVE  IndInv'
  <2>1. /\ proc' \in [Procs -> RunStates]
        /\ \A q \in Procs \ {p} : proc'[q] = proc[q]
        /\ proc'[p].pc = pc
        /\ SameMemory(proc'[p], proc[p])
    BY <1>1, <1>5, GotoFacts DEF PCs
  <2>2. TypeOK' /\ Grows
    BY <1>1, <1>2, <2>1 DEF TypeOK, Grows, receiptVars, storeVars, boundVars
  <2>3. Placed(p)'
    BY <1>1, <1>3, <1>5, <2>1, StoresAssumption
    DEF Placed, Outside, Working, SameMemory, Keeps, Lineage, Stores
  <2>4. Worked(p)' /\ Recorded(p)'
    BY <1>5, <2>1 DEF Worked, Recorded
  <2>5. Local(p)'
    BY <1>1, <1>5, <2>1, <2>2, <2>3, <2>4, GotoLocal
  <2> QED
    BY <1>1, <2>1, <2>2, <2>5, UnreadOnly DEF storeVars
<1>6. CASE proc[p].step[1] = "baseline" /\ Advance(p)
  <2>1. Settles(proc[p])
    BY <1>1, <1>6 DEF Local, Behind, Judged, Settles, Suppressed, storeVars
  <2>2. /\ proc' \in [Procs -> RunStates]
        /\ \A q \in Procs \ {p} : proc'[q] = proc[q]
        /\ proc'[p] = Advanced(proc[p])
    BY <1>1, <1>6, AdvancedFacts DEF Advance, TypeOK
  <2>3. TypeOK'
    BY <1>1, <1>2, <2>2 DEF TypeOK, receiptVars, storeVars, boundVars
  <2>4. Local(p)'
    BY <1>1, <2>1, <2>2, <2>3, AdvanceLocal
  <2> QED
    BY <1>1, <2>2, <2>3, <2>4, UnreadOnly DEF storeVars
<1>7. \/ Exit(p)
      \/ proc[p].step[2] # Lineage /\ Goto(p, "dlq")
      \/ proc[p].step[1] = "baseline" /\ Advance(p)
      \/ proc[p].step[1] = "verify" /\ proc[p].step[2] # Lineage /\ Goto(p, "judge")
  BY <1>1 DEF EndFailed, Local, Placed
<1>8. CASE proc[p].step[2] # Lineage /\ Goto(p, "dlq")
  BY <1>5, <1>8
<1>9. CASE proc[p].step[1] = "verify" /\ proc[p].step[2] # Lineage /\ Goto(p, "judge")
  BY <1>5, <1>9
<1> QED
  BY <1>4, <1>6, <1>7, <1>8, <1>9

LEMMA RepinKeeps ==
    ASSUME IndInv, NEW p \in Procs, Repin(p)
    PROVE  IndInv'
<1>1. /\ UNCHANGED <<journalVars, receiptVars, tombstoned, content, held, stale, boundVars>>
      /\ drifted' = drifted \ {proc[p].step[2]}
      /\ proc[p].pc = "repin" /\ Advance(p)
      /\ TypeOK /\ Local(p) /\ IsDone(p)
      /\ proc[p] \in RunStates
  BY DEF Repin, IndInv, Local, Behind, TypeOK
<1>2. Settles(proc[p])
  <2>1. proc[p].step # <<"suppress", Lineage>>
    BY <1>1 DEF Local, Placed, Stores, Lineage
  <2> QED
    BY <1>1, <2>1
    DEF Local, Placed, Behind, Judged, Settles, Suppressed, IsDone, Outside, journalVars
<1>3. /\ proc' \in [Procs -> RunStates]
      /\ \A q \in Procs \ {p} : proc'[q] = proc[q]
      /\ proc'[p] = Advanced(proc[p])
  BY <1>1, AdvancedFacts DEF Advance, TypeOK
<1>4. TypeOK'
  BY <1>1, <1>3 DEF TypeOK, journalVars, receiptVars, boundVars
<1>5. Local(p)'
  BY <1>1, <1>2, <1>3, <1>4, AdvanceLocal
<1> QED
  BY <1>1, <1>3, <1>4, <1>5, UnreadOnly DEF journalVars

LEMMA DeadLetterKeeps ==
    ASSUME IndInv, NEW p \in Procs, DeadLetter(p)
    PROVE  IndInv'
<1> DEFINE at == proc[p].step[2]
           run == [proc[p] EXCEPT !.dlq = @ \cup {at}]
<1>1. /\ UNCHANGED <<sagas, begun, done, failed, probed, closed>>
      /\ UNCHANGED <<receiptVars, storeVars, stale, boundVars>>
      /\ dead' = dead \cup {<<proc[p].saga, at>>}
      /\ proc' = [proc EXCEPT ![p] = Advanced(run)]
      /\ proc[p].pc = "dlq"
      /\ TypeOK /\ Local(p)
      /\ proc[p] \in RunStates /\ at \in Stores /\ proc[p].saga \in 1..sagas
  BY DEF DeadLetter, IndInv, TypeOK, Local, Placed, Outside
<1>2. /\ run \in RunStates
      /\ run.dlq = proc[p].dlq \cup {at}
      /\ run.saga = proc[p].saga /\ run.configured = proc[p].configured
      /\ run.step = proc[p].step /\ run.verdict = proc[p].verdict
  BY <1>1 DEF RunStates
<1> HIDE DEF run
<1>3. Settles(run)
  <2>1. /\ proc[p].step # <<"suppress", Lineage>>
        /\ \A st : proc[p].step = <<"suppress", st>> => st = at
    BY <1>1 DEF Stores, Lineage
  <2> QED
    BY <1>1, <1>2, <2>1
    DEF Local, Behind, Judged, Settles, Suppressed, PastSuppress, storeVars
<1>4. /\ proc' \in [Procs -> RunStates]
      /\ \A q \in Procs \ {p} : proc'[q] = proc[q]
      /\ proc'[p] = Advanced(run)
  BY <1>1, <1>2, AdvancedFacts DEF TypeOK
<1>5. TypeOK'
  <2>1. proc[p].saga \in SagaIds
    BY <1>1, BoundsAssumption DEF TypeOK, SagaIds
  <2> QED
    BY <1>1, <1>4, <2>1 DEF TypeOK, receiptVars, storeVars, boundVars
<1>6. Local(p)'
  BY <1>2, <1>3, <1>4, <1>5, AdvanceLocal
<1> QED
  BY <1>1, <1>4, <1>5, <1>6, UnreadOnly DEF storeVars

LEMMA JudgeKeeps ==
    ASSUME IndInv, NEW p \in Procs, Judge(p)
    PROVE  IndInv'
<1> DEFINE at == proc[p].step[2]
           run == [proc[p] EXCEPT !.verdict[at] = Verdict(p, at)]
<1>1. /\ UNCHANGED <<journalVars, receiptVars, storeVars, stale, boundVars>>
      /\ proc' = [proc EXCEPT ![p] = Advanced(run)]
      /\ proc[p].pc = "judge"
      /\ TypeOK /\ Local(p) /\ Journaled
      /\ proc[p] \in RunStates /\ at \in Stores
      /\ proc[p].saga \in 1..sagas /\ proc[p].saga \in SagaIds
      /\ proc[p].step[1] = "verify"
  <2>1. proc[p].saga \in 1..sagas
    BY DEF Judge, IndInv, Local, Placed, Outside
  <2>2. TypeOK /\ Local(p) /\ Journaled
    BY DEF IndInv
  <2>3. /\ UNCHANGED <<journalVars, receiptVars, storeVars, stale, boundVars>>
        /\ proc' = [proc EXCEPT ![p] = Advanced(run)]
        /\ proc[p].pc = "judge"
    BY DEF Judge
  <2>4. at \in Stores /\ proc[p].step[1] = "verify"
    BY <2>2, <2>3 DEF Local, Placed
  <2>5. proc[p] \in RunStates
    BY <2>2 DEF TypeOK
  <2>6. proc[p].saga \in SagaIds
    BY <2>1, <2>2, BoundsAssumption DEF TypeOK, SagaIds
  <2> QED
    BY <2>1, <2>2, <2>3, <2>4, <2>5, <2>6
<1>2. /\ Verdict(p, at) \in Rules
      /\ Verdict(p, at) = "verified" =>
            /\ at \in proc[p].configured /\ at \notin proc[p].dlq
            /\ at \in Physical /\ probed[proc[p].saga][at] = "gone"
  <2>1. probed[proc[p].saga][at] \in Contents \cup {NoRule}
    BY <1>1 DEF TypeOK
  <2> QED
    BY <2>1 DEF Verdict, RuleOfProbe, Rules, Contents, NoRule
<1>3. Verdict(p, at) = "verified" =>
        content[at] = "gone" /\ at \in Physical /\ Suppressed(proc[p].saga, at)
  BY <1>1, <1>2 DEF Journaled, Local, Behind, PastSuppress
<1>4. /\ run \in RunStates
      /\ run.verdict[at] = Verdict(p, at)
      /\ \A st \in Stores : st # at => run.verdict[st] = proc[p].verdict[st]
      /\ run.saga = proc[p].saga /\ run.configured = proc[p].configured
      /\ run.step = proc[p].step /\ run.dlq = proc[p].dlq
  BY <1>1, <1>2 DEF RunStates
<1> HIDE DEF run
<1>5. Settles(run)
  <2>1. proc[p].step # <<"suppress", Lineage>> /\ PastSuppress(run, at)
    BY <1>1, <1>4 DEF PastSuppress
  <2>2. \A st \in proc[p].configured : st \in proc[p].dlq \/ Suppressed(proc[p].saga, st)
    BY <1>1 DEF Local, Behind, PastSuppress
  <2>3. ASSUME NEW st \in Stores, run.verdict[st] = "verified"
        PROVE  content[st] = "gone" /\ st \in Physical /\ Suppressed(proc[p].saga, st)
    BY <1>1, <1>3, <1>4, <2>3 DEF Local, Judged
  <2> QED
    BY <1>1, <1>4, <2>1, <2>2, <2>3
    DEF Local, Behind, Settles, Suppressed, journalVars, storeVars
<1>6. /\ proc' \in [Procs -> RunStates]
      /\ \A q \in Procs \ {p} : proc'[q] = proc[q]
      /\ proc'[p] = Advanced(run)
  BY <1>1, <1>4, AdvancedFacts DEF TypeOK
<1>7. TypeOK'
  BY <1>1, <1>6 DEF TypeOK, journalVars, receiptVars, storeVars, boundVars
<1>8. Local(p)'
  BY <1>4, <1>5, <1>6, <1>7, AdvanceLocal
<1> QED
  BY <1>1, <1>6, <1>8, MemoryOnly

LEMMA WriteReceiptKeeps ==
    ASSUME IndInv, NEW p \in Procs, WriteReceipt(p)
    PROVE  IndInv'
<1> DEFINE run == [proc[p] EXCEPT !.pc = "ledger", !.receipt = files + 1]
<1>1. /\ UNCHANGED <<journalVars, ledger, storeVars, stale, boundVars>>
      /\ proc[p].pc = "receipt" /\ files < MaxReceipts
      /\ files' = files + 1
      /\ proc' = [proc EXCEPT ![p] = run]
      /\ TypeOK /\ Local(p)
      /\ proc[p] \in RunStates
  BY DEF WriteReceipt, IndInv, TypeOK
<1>2. files + 1 \in 1..MaxReceipts /\ files \in Nat
  BY <1>1, BoundsAssumption DEF TypeOK
<1>3. /\ run \in RunStates
      /\ run.pc = "ledger" /\ run.receipt = files + 1
      /\ SameMemory(run, proc[p])
  <2>1. files + 1 \in 0..MaxReceipts
    BY <1>2, BoundsAssumption
  <2> QED
    BY <1>1, <2>1 DEF RunStates, PCs, SameMemory, Keeps
<1> HIDE DEF run
<1>4. /\ proc' \in [Procs -> RunStates]
      /\ \A q \in Procs \ {p} : proc'[q] = proc[q]
      /\ proc'[p] = run
  BY <1>1, <1>3, ProcFacts
<1>5. TypeOK'
  BY <1>1, <1>2, <1>4 DEF TypeOK, journalVars, storeVars, boundVars
<1>6. Grows
  BY <1>1, <1>2 DEF TypeOK, Grows, journalVars, storeVars
<1>7. Placed(p)'
  BY <1>1, <1>2, <1>3, <1>4 DEF Local, Placed, Outside, Working, SameMemory, Keeps, journalVars
<1>8. Worked(p)' /\ Recorded(p)'
  BY <1>3, <1>4 DEF Worked, Recorded
<1>9. Local(p)'
  BY <1>1, <1>3, <1>4, <1>5, <1>6, <1>7, <1>8, GotoLocal
<1>10. Journaled'
  BY <1>1 DEF IndInv, Journaled, Suppressed, journalVars, storeVars
<1>11. SuppressBeforeReclaim' /\ ClosedHasReceipt' /\ VerifiedIsErased'
  BY <1>1, <1>5, <1>6, Kept DEF journalVars
<1> QED
  BY <1>4, <1>5, <1>6, <1>9, <1>10, <1>11, Together

LEMMA RefuseReceiptKeeps ==
    ASSUME IndInv, NEW p \in Procs, RefuseReceipt(p)
    PROVE  IndInv'
<1>1. /\ UNCHANGED <<journalVars, receiptVars, storeVars, stale, boundVars>>
      /\ Exit(p) /\ TypeOK
  BY DEF RefuseReceipt, IndInv
<1>2. /\ proc' \in [Procs -> RunStates]
      /\ \A q \in Procs \ {p} : proc'[q] = proc[q]
      /\ proc'[p].pc = "idle" /\ Fresh(proc'[p])
  BY <1>1, ExitFacts
<1>3. TypeOK'
  BY <1>1, <1>2 DEF TypeOK, journalVars, receiptVars, storeVars, boundVars
<1>4. Local(p)'
  BY <1>2, <1>3, FreshLocal DEF Outside
<1> QED
  BY <1>1, <1>2, <1>4, MemoryOnly

LEMMA AppendLedgerKeeps ==
    ASSUME IndInv, NEW p \in Procs, AppendLedger(p)
    PROVE  IndInv'
<1> DEFINE new == [id |-> proc[p].receipt, saga |-> proc[p].saga, verdict |-> proc[p].verdict]
<1>1. /\ UNCHANGED <<journalVars, files, storeVars, stale, boundVars>>
      /\ ledger' = Append(ledger, new)
      /\ proc[p].pc = "ledger" /\ Goto(p, "close")
      /\ TypeOK /\ Local(p)
      /\ proc[p].receipt \in 1..files /\ proc[p].saga \in 1..sagas
      /\ proc[p] \in RunStates
  BY DEF AppendLedger, IndInv, TypeOK, Local, Placed, Outside
<1>2. new \in Receipts
  BY <1>1, BoundsAssumption DEF Receipts, ReceiptIds, SagaIds, RunStates, TypeOK
<1>3. /\ ledger' \in Seq(Receipts)
      /\ DOMAIN ledger' = DOMAIN ledger \cup {Len(ledger) + 1}
      /\ ledger'[Len(ledger) + 1] = new
      /\ \A i \in DOMAIN ledger : ledger'[i] = ledger[i]
  BY <1>1, <1>2 DEF TypeOK
<1>4. new.id = proc[p].receipt /\ new.saga = proc[p].saga /\ new.verdict = proc[p].verdict
  OBVIOUS
<1> HIDE DEF new
<1>5. /\ proc' \in [Procs -> RunStates]
      /\ \A q \in Procs \ {p} : proc'[q] = proc[q]
      /\ proc'[p].pc = "close" /\ proc'[p].receipt = proc[p].receipt
      /\ SameMemory(proc'[p], proc[p])
  BY <1>1, GotoFacts DEF PCs
<1>6. TypeOK'
  BY <1>1, <1>3, <1>5 DEF TypeOK, journalVars, storeVars, boundVars
<1>7. Grows
  BY <1>1, <1>3 DEF TypeOK, Grows, journalVars, storeVars
<1>8. Placed(p)'
  BY <1>1, <1>5 DEF Local, Placed, Outside, Working, SameMemory, Keeps, journalVars
<1>9. Worked(p)' /\ Recorded(p)'
  <2>1. InLedger(proc[p].receipt, proc[p].saga)'
    BY <1>3, <1>4, <1>5 DEF InLedger, SameMemory, Keeps
  <2> QED
    BY <1>5, <2>1 DEF Worked, Recorded, SameMemory, Keeps
<1>10. Local(p)'
  BY <1>1, <1>5, <1>6, <1>7, <1>8, <1>9, GotoLocal
<1>11. Journaled'
  BY <1>1 DEF IndInv, Journaled, Suppressed, journalVars, storeVars
<1>12. SuppressBeforeReclaim'
  BY <1>1 DEF IndInv, SuppressBeforeReclaim, journalVars
<1>13. ClosedHasReceipt'
  BY <1>1, <1>3 DEF IndInv, ClosedHasReceipt, journalVars
<1>14. VerifiedIsErased'
  <2>1. ASSUME NEW i \in DOMAIN ledger', NEW st \in Stores, ledger'[i].verdict[st] = "verified"
        PROVE  /\ content'[st] = "gone"
               /\ st \in Physical
               /\ <<ledger'[i].saga, <<"suppress", st>>>> \in done'
    <3>1. CASE i \in DOMAIN ledger
      BY <1>1, <1>3, <2>1, <3>1 DEF IndInv, VerifiedIsErased, journalVars, storeVars
    <3>2. CASE i = Len(ledger) + 1
      BY <1>1, <1>3, <1>4, <2>1, <3>2 DEF Local, Judged, Suppressed, journalVars, storeVars
    <3> QED
      BY <1>3, <3>1, <3>2
  <2> QED
    BY <2>1 DEF VerifiedIsErased
<1> QED
  BY <1>5, <1>6, <1>7, <1>10, <1>11, <1>12, <1>13, <1>14, Together

LEMMA CloseSagaKeeps ==
    ASSUME IndInv, NEW p \in Procs, CloseSaga(p)
    PROVE  IndInv'
<1>1. /\ UNCHANGED <<sagas, begun, done, failed, dead, probed>>
      /\ UNCHANGED <<receiptVars, storeVars, stale, boundVars>>
      /\ closed' = closed \cup {<<proc[p].saga, proc[p].receipt>>}
      /\ proc[p].pc = "close" /\ Goto(p, "finalize")
      /\ TypeOK /\ Local(p) /\ InLedger(proc[p].receipt, proc[p].saga)
      /\ proc[p].receipt \in 1..files /\ proc[p].saga \in 1..sagas
  BY DEF CloseSaga, IndInv, TypeOK, Local, Placed, Recorded, Outside
<1>2. /\ proc' \in [Procs -> RunStates]
      /\ \A q \in Procs \ {p} : proc'[q] = proc[q]
      /\ proc'[p].pc = "finalize"
      /\ SameMemory(proc'[p], proc[p])
  BY <1>1, GotoFacts DEF PCs
<1>3. TypeOK'
  <2>1. proc[p].saga \in SagaIds /\ proc[p].receipt \in ReceiptIds
    BY <1>1, BoundsAssumption DEF TypeOK, SagaIds, ReceiptIds
  <2> QED
    BY <1>1, <1>2, <2>1 DEF TypeOK, receiptVars, storeVars, boundVars
<1>4. Grows
  BY <1>1 DEF TypeOK, Grows, receiptVars, storeVars
<1>5. Placed(p)'
  BY <1>1, <1>2 DEF Local, Placed, Outside, Working, SameMemory, Keeps
<1>6. Worked(p)' /\ Recorded(p)'
  BY <1>2 DEF Worked, Recorded
<1>7. Local(p)'
  BY <1>1, <1>2, <1>3, <1>4, <1>5, <1>6, GotoLocal
<1>8. Journaled'
  BY <1>1 DEF IndInv, Journaled, Suppressed, storeVars
<1>9. SuppressBeforeReclaim' /\ VerifiedIsErased'
  BY <1>1 DEF IndInv, SuppressBeforeReclaim, VerifiedIsErased, receiptVars, storeVars
<1>10. ClosedHasReceipt'
  <2>1. ASSUME NEW x \in closed'
        PROVE  x[2] \in 1..files' /\ InLedger(x[2], x[1])'
    <3>1. CASE x \in closed
      BY <1>1, <3>1 DEF IndInv, ClosedHasReceipt, InLedger, receiptVars
    <3>2. CASE x = <<proc[p].saga, proc[p].receipt>>
      BY <1>1, <3>2 DEF InLedger, receiptVars
    <3> QED
      BY <1>1, <3>1, <3>2
  <2> QED
    BY <2>1 DEF ClosedHasReceipt, InLedger
<1> QED
  BY <1>2, <1>3, <1>4, <1>7, <1>8, <1>9, <1>10, Together

LEMMA FinalizeKeeps ==
    ASSUME IndInv, NEW p \in Procs, Finalize(p)
    PROVE  IndInv'
<1>1. /\ UNCHANGED <<journalVars, receiptVars, tombstoned, content, drifted, stale, boundVars>>
      /\ held' = held \ proc[p].configured
      /\ Exit(p) /\ TypeOK
  BY DEF Finalize, IndInv
<1>2. /\ proc' \in [Procs -> RunStates]
      /\ \A q \in Procs \ {p} : proc'[q] = proc[q]
      /\ proc'[p].pc = "idle" /\ Fresh(proc'[p])
  BY <1>1, ExitFacts
<1>3. TypeOK'
  BY <1>1, <1>2 DEF TypeOK, journalVars, receiptVars, boundVars
<1>4. Local(p)'
  BY <1>2, <1>3, FreshLocal DEF Outside
<1> QED
  BY <1>1, <1>2, <1>3, <1>4, UnreadOnly DEF journalVars

LEMMA CrashKeeps ==
    ASSUME IndInv, NEW p \in Procs, Crash(p)
    PROVE  IndInv'
<1>1. /\ UNCHANGED <<journalVars, receiptVars, storeVars, stale, failures, captures>>
      /\ crashes < MaxCrashes /\ crashes' = crashes + 1 /\ late' \in BOOLEAN
      /\ Exit(p) /\ TypeOK
  BY DEF Crash, IndInv, TypeOK
<1>2. /\ proc' \in [Procs -> RunStates]
      /\ \A q \in Procs \ {p} : proc'[q] = proc[q]
      /\ proc'[p].pc = "idle" /\ Fresh(proc'[p])
  BY <1>1, ExitFacts
<1>3. TypeOK'
  <2>1. crashes' \in 0..MaxCrashes
    BY <1>1, BoundsAssumption DEF TypeOK
  <2> QED
    BY <1>1, <1>2, <2>1 DEF TypeOK, journalVars, receiptVars, storeVars
<1>4. Local(p)'
  BY <1>2, <1>3, FreshLocal DEF Outside
<1> QED
  BY <1>1, <1>2, <1>3, <1>4, UnreadOnly DEF journalVars, storeVars

\* Steps that touch nothing the invariant reads, in no run at all.
LEMMA NothingRead ==
    ASSUME IndInv, TypeOK', proc' = proc,
           UNCHANGED <<sagas, begun, done, probed, closed, receiptVars, tombstoned, content>>
    PROVE  IndInv'
<1>1. Grows
  BY DEF IndInv, TypeOK, Grows, receiptVars
<1>2. Journaled'
  BY DEF IndInv, Journaled, Suppressed
<1>3. \A q \in Procs : Local(q)'
  BY <1>1, OtherRuns DEF IndInv
<1> QED
  BY <1>1, <1>2, <1>3, Kept DEF IndInv, receiptVars

----------------------------------------------------------------------------
(* The theorems                                                            *)

LEMMA InitInv == Init => IndInv
<1> SUFFICES ASSUME Init PROVE IndInv
  OBVIOUS
<1>1. \A p \in Procs : proc[p] = Idle
  BY DEF Init
<1>2. TypeOK
  <2>1. /\ 0 \in 0..MaxSagas /\ 0 \in 0..MaxReceipts
        /\ 0 \in 0..MaxCrashes /\ 0 \in 0..MaxFailures /\ 0 \in 0..MaxCaptures
    BY BoundsAssumption
  <2>2. proc \in [Procs -> RunStates]
    BY IdleFacts DEF Init
  <2>3. /\ probed \in [SagaIds -> [Stores -> Contents \cup {NoRule}]]
        /\ content \in [Stores -> Contents]
    BY DEF Init, Contents
  <2>4. ledger \in Seq(Receipts)
    BY DEF Init
  <2> QED
    BY <2>1, <2>2, <2>3, <2>4 DEF Init, TypeOK
<1>3. \A p \in Procs : Local(p)
  <2> TAKE p \in Procs
  <2>1. /\ proc[p].step = <<"suppress", Lineage>>
        /\ proc[p].step[1] = "suppress" /\ proc[p].step[2] = 0
        /\ proc[p].pc = "idle" /\ proc[p].configured = {}
        /\ Fresh(proc[p])
    BY <1>1, IdleFacts DEF Fresh, Lineage
  <2>2. Placed(p)
    BY <2>1 DEF Placed, Outside, Working
  <2>3. Behind(p) /\ Worked(p) /\ Recorded(p)
    BY <2>1 DEF Behind, Worked, Recorded
  <2>4. Judged(p)
    BY <2>1 DEF Fresh, Judged, NoRule
  <2> QED
    BY <2>2, <2>3, <2>4 DEF Local
<1>4. Journaled
  BY DEF Init, Journaled, Suppressed, NoRule
<1>5. SuppressBeforeReclaim /\ ClosedHasReceipt /\ VerifiedIsErased
  BY DEF Init, SuppressBeforeReclaim, ClosedHasReceipt, VerifiedIsErased
<1> QED
  BY <1>2, <1>3, <1>4, <1>5 DEF IndInv

LEMMA NextInv == IndInv /\ [Next]_vars => IndInv'
<1> SUFFICES ASSUME IndInv, [Next]_vars PROVE IndInv'
  OBVIOUS
<1>1. ASSUME NEW p \in Procs, Run(p) PROVE IndInv'
  BY <1>1, ChooseKeeps, StartSagaKeeps, PassOverKeeps, TakeOverKeeps, FindUndoneKeeps,
     BeginStepKeeps, WorkKeeps, EndOkKeeps, EndFailedKeeps, RepinKeeps, DeadLetterKeeps,
     JudgeKeeps, WriteReceiptKeeps, RefuseReceiptKeeps, AppendLedgerKeeps, CloseSagaKeeps,
     FinalizeKeeps
  DEF Run
<1>2. ASSUME NEW p \in Procs, Launch(p) \/ WorkFails(p) \/ Crash(p) PROVE IndInv'
  BY <1>2, LaunchKeeps, WorkFailsKeeps, CrashKeeps
<1>3. CASE CaptureLineage
  <2>1. /\ UNCHANGED <<journalVars, receiptVars, storeVars, proc, crashes, failures, late>>
        /\ captures < MaxCaptures /\ captures' = captures + 1 /\ stale' = TRUE
    BY <1>3 DEF CaptureLineage
  <2>2. TypeOK'
    BY <2>1, BoundsAssumption DEF IndInv, TypeOK, journalVars, receiptVars, storeVars
  <2> QED
    BY <2>1, <2>2, NothingRead DEF journalVars, storeVars
<1>4. CASE UNCHANGED vars
  <2>1. TypeOK'
    BY <1>4 DEF IndInv, TypeOK, vars, journalVars, receiptVars, storeVars, boundVars
  <2> QED
    BY <1>4, <2>1, NothingRead DEF vars, journalVars, storeVars
<1> QED
  BY <1>1, <1>2, <1>3, <1>4 DEF Next

\* The saga's state is always one the code can write down: no run ever stands at a
\* group, a saga or a receipt that does not exist.
THEOREM TypeCorrect == Spec => []TypeOK
<1>1. IndInv => TypeOK
  BY DEF IndInv
<1> QED
  BY <1>1, InitInv, NextInv, PTL DEF Spec

\* Hard Rule 5, for any number of processes, stores, crashes and failures.
THEOREM SuppressionFirst == Spec => []SuppressBeforeReclaim
<1>1. IndInv => SuppressBeforeReclaim
  BY DEF IndInv
<1> QED
  BY <1>1, InitInv, NextInv, PTL DEF Spec

\* A saga that counts as ended has its receipt, whenever its run is killed.
THEOREM ReceiptBeforeEnd == Spec => []ClosedHasReceipt
<1>1. IndInv => ClosedHasReceipt
  BY DEF IndInv
<1> QED
  BY <1>1, InitInv, NextInv, PTL DEF Spec

\* No receipt says VERIFIED of a store that still holds something.
THEOREM VerifiedIsRight == Spec => []VerifiedIsErased
<1>1. IndInv => VerifiedIsErased
  BY DEF IndInv
<1> QED
  BY <1>1, InitInv, NextInv, PTL DEF Spec

----------------------------------------------------------------------------
(* The saga implements the erasure it promises                             *)

\* The function of a step is a step of the abstract erasure, or changes nothing in it.
LEMMA ApplyRefines ==
    ASSUME IndInv, NEW p \in Procs, proc[p].pc = "work", Apply(p), UNCHANGED ledger
    PROVE  Promise!Next \/ UNCHANGED Promise!vars
<1>1. /\ TypeOK /\ Local(p) /\ Journaled /\ Applies(p)
      /\ proc[p].step[1] \in Phases /\ proc[p].step[2] \in 0..N
      /\ proc[p].saga \in SagaIds
  <2>1. proc[p].saga \in 1..sagas
    BY DEF IndInv, Local, Placed, Outside
  <2> QED
    BY <2>1, BoundsAssumption DEF IndInv, TypeOK, Local, Placed, RunStates, Steps, SagaIds, Working
<1>2. Certified' = Certified
  BY DEF Certified
<1>3. CASE proc[p].step[2] = Lineage
  BY <1>2, <1>3 DEF Apply, Promise!Next, Promise!Mark
<1>4. CASE proc[p].step[2] # Lineage
  <2> DEFINE at == proc[p].step[2]
             phase == proc[p].step[1]
  <2>1. /\ at \in Stores
        /\ tombstoned' = tombstoned
        /\ content' = [content EXCEPT ![at] = ContentAfter(phase, content[at])]
    BY <1>1, <1>4, StoresAssumption DEF Apply, Stores, Lineage
  <2>2. content[at] \in Contents
    BY <1>1, <2>1 DEF TypeOK
  <2>3. CASE phase = "suppress" /\ content[at] = "live"
    <3>1. tombstoned
      BY <1>1, <1>4 DEF Local, Behind, Journaled
    <3>2. Promise!Suppress(at)
      BY <1>2, <2>1, <2>3, <3>1 DEF Promise!Suppress, ContentAfter
    <3> QED
      BY <2>1, <3>2 DEF Promise!Next
  <2>4. CASE phase = "reclaim" /\ content[at] = "suppressed"
    <3>1. Promise!Reclaim(at)
      BY <1>2, <2>1, <2>4 DEF Promise!Reclaim, ContentAfter
    <3> QED
      BY <2>1, <3>1 DEF Promise!Next
  <2>5. ~(phase = "reclaim" /\ content[at] = "live")
    <3>1. SUFFICES ASSUME phase = "reclaim" PROVE content[at] # "live"
      OBVIOUS
    <3>2. at \in proc[p].configured /\ at \notin proc[p].dlq
      BY <1>1, <1>4, <3>1 DEF Applies
    <3>3. Suppressed(proc[p].saga, at)
      BY <1>1, <3>1, <3>2 DEF Local, Behind, PastSuppress
    <3> QED
      BY <1>1, <2>1, <3>3 DEF Journaled
  <2>6. CASE ContentAfter(phase, content[at]) = content[at]
    <3>1. content' = content
      BY <2>1, <2>6, <1>1 DEF TypeOK
    <3> QED
      BY <1>2, <2>1, <3>1 DEF Promise!vars
  <2>7. \/ phase = "suppress" /\ content[at] = "live"
        \/ phase = "reclaim" /\ content[at] = "suppressed"
        \/ ContentAfter(phase, content[at]) = content[at]
    BY <2>2, <2>5 DEF ContentAfter, Contents
  <2> QED
    BY <2>3, <2>4, <2>6, <2>7
<1> QED
  BY <1>3, <1>4

\* The receipt of a run certifies stores in which nothing is left.
LEMMA AppendLedgerRefines ==
    ASSUME IndInv, NEW p \in Procs, AppendLedger(p)
    PROVE  Promise!Next
<1> DEFINE new == [id |-> proc[p].receipt, saga |-> proc[p].saga, verdict |-> proc[p].verdict]
           S == {st \in Stores : proc[p].verdict[st] = "verified"}
<1>1. /\ ledger' = Append(ledger, new)
      /\ UNCHANGED <<content, tombstoned>>
      /\ TypeOK /\ Judged(p)
  BY DEF AppendLedger, storeVars, IndInv, Local
<1>2. /\ DOMAIN ledger' = DOMAIN ledger \cup {Len(ledger) + 1}
      /\ ledger'[Len(ledger) + 1] = new
      /\ \A i \in DOMAIN ledger : ledger'[i] = ledger[i]
  BY <1>1 DEF TypeOK
<1>3. Certified' = Certified \cup S
  BY <1>2 DEF Certified
<1>4. S \in SUBSET {st \in Stores : content[st] = "gone"}
  BY <1>1 DEF Judged
<1>5. Promise!Certify
  BY <1>1, <1>3, <1>4 DEF Promise!Certify
<1> QED
  BY <1>5 DEF Promise!Next

\* Every other step changes nothing of what the abstract erasure speaks about.
LEMMA StepRefines ==
    ASSUME IndInv, [Next]_vars
    PROVE  Promise!Next \/ UNCHANGED Promise!vars
<1>1. ASSUME UNCHANGED <<tombstoned, content, ledger>>
      PROVE  UNCHANGED Promise!vars
  BY <1>1 DEF Promise!vars, Certified
<1>2. ASSUME NEW p \in Procs, Work(p) \/ WorkFails(p)
      PROVE  Promise!Next \/ UNCHANGED Promise!vars
  <2>1. proc[p].pc = "work" /\ UNCHANGED ledger
    BY <1>2 DEF Work, WorkFails, receiptVars
  <2>2. Apply(p) \/ UNCHANGED <<tombstoned, content>>
    BY <1>2 DEF Work, WorkFails, storeVars
  <2> QED
    BY <1>1, <2>1, <2>2, ApplyRefines
<1>3. ASSUME NEW p \in Procs, AppendLedger(p)
      PROVE  Promise!Next
  BY <1>3, AppendLedgerRefines
<1>4. ASSUME NEW p \in Procs,
             \/ Launch(p) \/ Choose(p) \/ StartSaga(p) \/ PassOver(p) \/ TakeOver(p)
             \/ FindUndone(p) \/ BeginStep(p) \/ EndOk(p) \/ EndFailed(p) \/ Repin(p)
             \/ DeadLetter(p) \/ Judge(p) \/ WriteReceipt(p) \/ RefuseReceipt(p)
             \/ CloseSaga(p) \/ Finalize(p) \/ Crash(p)
      PROVE  UNCHANGED <<tombstoned, content, ledger>>
  BY <1>4
  DEF Launch, Choose, StartSaga, PassOver, TakeOver, FindUndone, BeginStep, EndOk, EndFailed,
      Repin, DeadLetter, Judge, WriteReceipt, RefuseReceipt, CloseSaga, Finalize, Crash,
      receiptVars, storeVars
<1>5. CASE CaptureLineage \/ UNCHANGED vars
  BY <1>1, <1>5 DEF CaptureLineage, vars, receiptVars, storeVars
<1> QED
  BY <1>1, <1>2, <1>3, <1>4, <1>5 DEF Next, Run

\* The refinement: for every number of processes, stores, crashes and failures the
\* saga only ever marks, then suppresses, then reclaims, and certifies what is gone.
THEOREM SagaImplementsErasure == Spec => ImplementsErasure
<1>1. Init => Promise!Init
  BY DEF Init, Promise!Init, Certified
<1>2. IndInv /\ [Next]_vars => [Promise!Next]_(Promise!vars)
  BY StepRefines
<1> QED
  BY <1>1, <1>2, InitInv, NextInv, PTL DEF Spec, ImplementsErasure, Promise!Spec

----------------------------------------------------------------------------
(* How a run comes to where it is                                          *)

\* Where a run goes on in the saga it is in.
SameRun(p) ==
    /\ proc[p].pc \notin Outside \cup {"finalize"}
    /\ proc'[p].saga = proc[p].saga
    /\ proc'[p].configured = proc[p].configured

Ends == {"ledger", "close", "finalize"}   \* a receipt is on disk

LEMMA GotoMoves ==
    ASSUME TypeOK, NEW p \in Procs, NEW pc \in PCs \ Ends, Goto(p, pc),
           proc[p].pc \notin Outside \cup {"finalize"}
    PROVE  SameRun(p) /\ proc'[p].pc \notin Ends
BY GotoFacts DEF SameRun, SameMemory, Keeps

LEMMA AdvancedMoves ==
    ASSUME TypeOK, NEW p \in Procs, NEW run \in RunStates, proc' = [proc EXCEPT ![p] = Advanced(run)],
           run.saga = proc[p].saga, run.configured = proc[p].configured,
           proc[p].pc \notin Outside \cup {"finalize"}
    PROVE  SameRun(p) /\ proc'[p].pc \notin Ends
<1>1. proc'[p] = Advanced(run)
  BY AdvancedFacts, ProcFacts
<1> QED
  BY <1>1, AdvancedFacts DEF SameRun, Keeps, Ends

\* A run comes to one of its last three places by the action that leads there.
LEMMA RunMoves ==
    ASSUME IndInv, NEW p \in Procs, Run(p) \/ WorkFails(p) \/ Crash(p)
    PROVE  \/ proc'[p].pc = "idle"
           \/ Choose(p) /\ proc'[p].pc \notin Ends
           \/ StartSaga(p) /\ proc'[p].pc \notin Ends
           \/ SameRun(p) /\ proc'[p].pc \notin Ends
           \/ SameRun(p) /\ proc'[p].pc = "ledger" /\ WriteReceipt(p)
           \/ SameRun(p) /\ proc'[p].pc = "close" /\ AppendLedger(p)
           \/ SameRun(p) /\ proc'[p].pc = "finalize" /\ CloseSaga(p)
<1>1. TypeOK /\ proc[p] \in RunStates
  BY DEF IndInv, TypeOK
<1> DEFINE Goal == \/ proc'[p].pc = "idle"
                   \/ SameRun(p) /\ proc'[p].pc \notin Ends
<1>2. ASSUME Exit(p) PROVE Goal
  BY <1>1, <1>2, ExitFacts
<1>3. ASSUME Advance(p), proc[p].pc \notin Outside \cup {"finalize"} PROVE Goal
  BY <1>1, <1>3, AdvancedMoves DEF Advance
<1>4. CASE Choose(p)
  <2>1. CASE Goto(p, "start")
    BY <1>1, <1>4, <2>1, GotoFacts DEF PCs, Ends
  <2>2. CASE Exit(p)
    BY <1>2, <2>2
  <2>3. CASE proc' = [proc EXCEPT ![p] = [@ EXCEPT !.pc = "step", !.saga = 1]]
    BY <1>1, <1>4, <2>3 DEF TypeOK, RunStates, Ends
  <2> QED
    BY <1>4, <2>1, <2>2, <2>3 DEF Choose
<1>5. CASE StartSaga(p)
  BY <1>1, <1>5 DEF StartSaga, TypeOK, RunStates, Ends
<1>6. CASE PassOver(p) \/ TakeOver(p) \/ FindUndone(p) \/ Repin(p) \/ EndOk(p)
  <2>1. proc[p].pc \notin Outside \cup {"finalize"}
    BY <1>6 DEF PassOver, TakeOver, FindUndone, Repin, EndOk, Outside
  <2>2. Goto(p, "judge") \/ Goto(p, "repin") \/ Goto(p, "begin") \/ Advance(p)
    BY <1>6 DEF PassOver, TakeOver, FindUndone, Repin, EndOk, AfterSuccess
  <2> QED
    BY <1>1, <1>3, <2>1, <2>2, GotoMoves DEF PCs, Ends
<1>7. CASE BeginStep(p) \/ Work(p) \/ WorkFails(p) \/ EndFailed(p)
  <2>1. proc[p].pc \notin Outside \cup {"finalize"}
    BY <1>7 DEF BeginStep, Work, WorkFails, EndFailed, Outside
  <2>2. \/ Goto(p, "work") \/ Goto(p, "ok") \/ Goto(p, "fail") \/ Goto(p, "dlq")
        \/ Goto(p, "judge") \/ Advance(p) \/ Exit(p)
    BY <1>7 DEF BeginStep, Work, WorkFails, EndFailed
  <2> QED
    BY <1>1, <1>2, <1>3, <2>1, <2>2, GotoMoves DEF PCs, Ends
<1>8. CASE Crash(p) \/ RefuseReceipt(p) \/ Finalize(p)
  BY <1>2, <1>8 DEF Crash, RefuseReceipt, Finalize
<1>9. CASE AppendLedger(p) \/ CloseSaga(p)
  BY <1>1, <1>9, GotoFacts DEF AppendLedger, CloseSaga, PCs, SameRun, SameMemory, Keeps, Outside
<1>10. CASE WriteReceipt(p)
  BY <1>1, <1>10 DEF WriteReceipt, TypeOK, RunStates, SameRun, Outside
<1>11. CASE DeadLetter(p)
  <2> PICK at : at = proc[p].step[2]
    OBVIOUS
  <2> DEFINE run == [proc[p] EXCEPT !.dlq = @ \cup {at}]
  <2>1. at \in Stores /\ proc[p].pc = "dlq"
    BY <1>11 DEF DeadLetter, IndInv, Local, Placed
  <2>2. run \in RunStates /\ run.saga = proc[p].saga /\ run.configured = proc[p].configured
    BY <1>1, <2>1 DEF RunStates
  <2>3. proc' = [proc EXCEPT ![p] = Advanced(run)]
    BY <1>11 DEF DeadLetter
  <2> HIDE DEF run
  <2> QED
    BY <1>1, <2>1, <2>2, <2>3, AdvancedMoves DEF Outside
<1>12. CASE Judge(p)
  <2> PICK st : st = proc[p].step[2]
    OBVIOUS
  <2> PICK v : v = Verdict(p, st)
    OBVIOUS
  <2> DEFINE run == [proc[p] EXCEPT !.verdict[st] = v]
  <2>1. st \in Stores /\ proc[p].pc = "judge" /\ proc[p].saga \in 1..sagas
    BY <1>12 DEF Judge, IndInv, Local, Placed, Outside
  <2>2. v \in Rules \cup {NoRule}
    <3>1. proc[p].saga \in SagaIds
      BY <1>1, <2>1, BoundsAssumption DEF TypeOK, SagaIds
    <3>2. probed[proc[p].saga][st] \in Contents \cup {NoRule}
      BY <1>1, <2>1, <3>1 DEF TypeOK
    <3> QED
      BY <3>2 DEF Verdict, RuleOfProbe, Rules, NoRule, Contents
  <2>3. run \in RunStates /\ run.saga = proc[p].saga /\ run.configured = proc[p].configured
    BY <1>1, <2>1, <2>2 DEF RunStates
  <2>4. proc' = [proc EXCEPT ![p] = Advanced(run)]
    BY <1>12 DEF Judge
  <2> HIDE DEF run
  <2> QED
    BY <1>1, <2>1, <2>3, <2>4, AdvancedMoves DEF Outside
<1> QED
  BY <1>4, <1>5, <1>6, <1>7, <1>8, <1>9, <1>10, <1>11, <1>12 DEF Run

\* A run that is launched has one of the configurations, and no saga yet.
LEMMA LaunchMoves ==
    ASSUME IndInv, NEW p \in Procs, Launch(p)
    PROVE  proc'[p].pc = "choose" /\ proc'[p].configured \in Configs
<1>1. PICK c \in Configs, r \in ReclaimOpts, again \in BOOLEAN :
        proc' = [proc EXCEPT ![p] = [Idle EXCEPT !.pc = "choose", !.configured = c,
                                                 !.reclaim = r, !.retry = again]]
  BY DEF Launch
<1> QED
  BY <1>1 DEF IndInv, TypeOK, Idle

----------------------------------------------------------------------------
(* The receipt a saga ends with                                            *)

\* One process runs the command, and finds the same stores configured every time.
OneOperator == \A p, q \in Procs : p = q
SameStores == \A c, d \in Configs : c = d

\* The last receipt of the ledger.
LastIs(id, s) ==
    /\ Len(ledger) \in DOMAIN ledger
    /\ ledger[Len(ledger)].id = id
    /\ ledger[Len(ledger)].saga = s

\* A run is in an open saga until it has written its saga_end, and what it is about to
\* write there is the last receipt of the ledger.
Opened(p) ==
    /\ proc[p].pc # "idle" => proc[p].configured \in Configs
    /\ proc[p].pc \notin Outside \cup {"finalize"} => ~Closed(proc[p].saga)
    /\ proc[p].pc = "close" => LastIs(proc[p].receipt, proc[p].saga)
Ending ==
    /\ \A x \in closed : x[1] \in 1..sagas
    /\ \A p \in Procs : Opened(p)
    /\ EndedByLastReceipt

\* Only a saga_end ends a saga, only AppendLedger writes the ledger, and nothing else
\* of what the invariant reads is taken back.
LEMMA Writes ==
    ASSUME IndInv, [Next]_vars
    PROVE  /\ \/ closed' = closed
              \/ \E p \in Procs : CloseSaga(p)
           /\ \/ ledger' = ledger
              \/ \E p \in Procs : AppendLedger(p)
           /\ \/ files' = files
              \/ \E p \in Procs : WriteReceipt(p)
           /\ 1..sagas \subseteq 1..sagas'
<1>1. CASE \E p \in Procs : Launch(p) \/ Run(p) \/ WorkFails(p) \/ Crash(p)
  <2> USE DEF Run, Launch, Choose, StartSaga, PassOver, TakeOver, FindUndone, BeginStep, Work,
          WorkFails, EndOk, EndFailed, Repin, DeadLetter, Judge, WriteReceipt, RefuseReceipt,
          AppendLedger, CloseSaga, Finalize, Crash, journalVars, receiptVars
  <2>1. closed' = closed \/ \E p \in Procs : CloseSaga(p)
    BY <1>1
  <2>2. ledger' = ledger \/ \E p \in Procs : AppendLedger(p)
    BY <1>1
  <2>3. files' = files \/ \E p \in Procs : WriteReceipt(p)
    BY <1>1
  <2>4. sagas' = sagas \/ sagas' = sagas + 1
    BY <1>1
  <2>5. sagas \in Nat
    BY BoundsAssumption DEF IndInv, TypeOK
  <2> HIDE DEF Run, Launch, Choose, StartSaga, PassOver, TakeOver, FindUndone, BeginStep, Work,
          WorkFails, EndOk, EndFailed, Repin, DeadLetter, Judge, WriteReceipt, RefuseReceipt,
          AppendLedger, CloseSaga, Finalize, Crash, journalVars, receiptVars
  <2>6. 1..sagas \subseteq 1..sagas'
    BY <2>4, <2>5
  <2> QED
    BY <2>1, <2>2, <2>3, <2>6
<1>2. CASE CaptureLineage \/ UNCHANGED vars
  BY <1>2 DEF CaptureLineage, vars, journalVars, receiptVars
<1> QED
  BY <1>1, <1>2 DEF Next

\* What the saga_end of the one running saga says.
LEMMA CloseFacts ==
    ASSUME IndInv, NEW p \in Procs, CloseSaga(p)
    PROVE  /\ closed' = closed \cup {<<proc[p].saga, proc[p].receipt>>}
           /\ proc[p].pc = "close" /\ proc[p].saga \in 1..sagas
           /\ proc[p].receipt \in 1..files
           /\ proc'[p].pc = "finalize"
           /\ ledger' = ledger /\ files' = files
<1>1. TypeOK /\ Placed(p) /\ proc[p].pc = "close"
  BY DEF IndInv, Local, CloseSaga
<1> QED
  BY <1>1, GotoFacts DEF CloseSaga, Placed, Outside, PCs, receiptVars

\* What an append leaves alone, and what it adds.
LEMMA AppendFacts ==
    ASSUME NEW S, NEW q \in Seq(S), NEW e \in S
    PROVE  /\ Len(Append(q, e)) = Len(q) + 1
           /\ DOMAIN q = 1..Len(q)
           /\ DOMAIN Append(q, e) = 1..(Len(q) + 1)
           /\ Append(q, e)[Len(q) + 1] = e
           /\ \A i \in DOMAIN q : i \in DOMAIN Append(q, e) /\ Append(q, e)[i] = q[i]
OBVIOUS

LEMMA AppendLedgerFacts ==
    ASSUME IndInv, NEW p \in Procs, AppendLedger(p)
    PROVE  /\ Len(ledger') = Len(ledger) + 1 /\ Len(ledger') \in DOMAIN ledger'
           /\ DOMAIN ledger' = DOMAIN ledger \cup {Len(ledger')}
           /\ \A i \in DOMAIN ledger : i \in DOMAIN ledger' /\ ledger'[i] = ledger[i]
           /\ ledger'[Len(ledger')].id = proc[p].receipt
           /\ ledger'[Len(ledger')].saga = proc[p].saga
<1> DEFINE new == [id |-> proc[p].receipt, saga |-> proc[p].saga, verdict |-> proc[p].verdict]
<1>1. ledger' = Append(ledger, new)
  BY DEF AppendLedger
<1>2. ledger \in Seq(Receipts) /\ Len(ledger) \in Nat
  BY DEF IndInv, TypeOK
<1>3. new \in Receipts
  <2>1. /\ TypeOK /\ proc[p].saga \in 1..sagas /\ proc[p].receipt \in 1..files
        /\ proc[p].verdict \in [Stores -> Rules \cup {NoRule}]
    BY DEF AppendLedger, IndInv, Local, Placed, Outside, TypeOK, RunStates
  <2> QED
    BY <2>1, BoundsAssumption DEF TypeOK, Receipts, SagaIds, ReceiptIds
<1>4. new.id = proc[p].receipt /\ new.saga = proc[p].saga
  OBVIOUS
<1> HIDE DEF new
<1>5. /\ Len(ledger') = Len(ledger) + 1
      /\ DOMAIN ledger = 1..Len(ledger)
      /\ DOMAIN ledger' = 1..(Len(ledger) + 1)
      /\ ledger'[Len(ledger) + 1] = new
      /\ \A i \in DOMAIN ledger : i \in DOMAIN ledger' /\ ledger'[i] = ledger[i]
  BY <1>1, <1>2, <1>3, AppendFacts
<1> QED
  BY <1>2, <1>4, <1>5

\* A run stays in an open saga until it ends it.
LEMMA OpenedStep ==
    ASSUME OneOperator, IndInv, Ending, NEW p \in Procs,
           Launch(p) \/ Run(p) \/ WorkFails(p) \/ Crash(p)
    PROVE  Opened(p)'
<1>1. Opened(p) /\ TypeOK
  BY DEF Ending, IndInv
<1>2. CASE Launch(p)
  BY <1>2, LaunchMoves DEF Opened, Outside
<1>3. CASE proc'[p].pc = "idle"
  BY <1>3 DEF Opened, Outside
<1>4. CASE Choose(p) /\ proc'[p].pc \notin Ends /\ proc'[p].pc # "idle"
  <2>1. proc[p].pc = "choose" /\ closed' = closed /\ proc[p] \in RunStates
    BY <1>1, <1>4 DEF Choose, journalVars, TypeOK
  <2>2. CASE Open(1) /\ proc' = [proc EXCEPT ![p] = [@ EXCEPT !.pc = "step", !.saga = 1]]
    <3>1. /\ proc'[p].pc = "step" /\ proc'[p].saga = 1
          /\ proc'[p].configured = proc[p].configured
      BY <1>1, <2>1, <2>2 DEF TypeOK, RunStates
    <3> QED
      BY <1>1, <2>1, <2>2, <3>1 DEF Opened, Open, Closed
  <2>3. CASE Goto(p, "start")
    <3>1. proc'[p].pc = "start" /\ proc'[p].configured = proc[p].configured
      BY <1>1, <2>3, GotoFacts DEF PCs, SameMemory, Keeps
    <3> QED
      BY <1>1, <2>1, <3>1 DEF Opened, Outside
  <2>4. CASE Exit(p)
    BY <1>1, <1>4, <2>4, ExitFacts
  <2> QED
    BY <1>4, <2>2, <2>3, <2>4 DEF Choose
<1>5. CASE StartSaga(p)
  <2>1. /\ proc[p].pc = "start" /\ closed' = closed /\ proc'[p].saga = sagas + 1
        /\ proc'[p].configured = proc[p].configured /\ proc'[p].pc = "step"
        /\ sagas \in Nat
    BY <1>1, <1>5, BoundsAssumption DEF StartSaga, TypeOK, RunStates
  <2>2. \A r : <<sagas + 1, r>> \notin closed
    BY <2>1 DEF Ending
  <2> QED
    BY <1>1, <2>1, <2>2 DEF Opened, Closed
<1>6. CASE SameRun(p) /\ proc'[p].pc = "finalize"
  BY <1>1, <1>6 DEF Opened, SameRun, Outside
<1>7. CASE SameRun(p) /\ proc'[p].pc \notin {"finalize", "close"}
  <2>1. ~Closed(proc[p].saga) /\ proc[p].configured \in Configs
    BY <1>1, <1>7 DEF Opened, SameRun, Outside
  <2>2. \A q \in Procs : ~CloseSaga(q)
    BY <1>7, CloseFacts DEF OneOperator
  <2>3. closed' = closed
    BY <2>2, Writes DEF Next
  <2> QED
    BY <1>7, <2>1, <2>3 DEF Opened, SameRun, Closed
<1>8. CASE SameRun(p) /\ proc'[p].pc = "close" /\ AppendLedger(p)
  <2>1. closed' = closed /\ proc'[p].receipt = proc[p].receipt
    BY <1>1, <1>8, GotoFacts DEF AppendLedger, PCs, journalVars
  <2>2. /\ Len(ledger') \in DOMAIN ledger'
        /\ ledger'[Len(ledger')].id = proc'[p].receipt
        /\ ledger'[Len(ledger')].saga = proc'[p].saga
    BY <1>8, <2>1, AppendLedgerFacts DEF SameRun
  <2>3. ~Closed(proc[p].saga) /\ proc[p].configured \in Configs
    BY <1>1, <1>8 DEF Opened, SameRun, Outside
  <2> QED
    BY <1>8, <2>1, <2>2, <2>3 DEF Opened, SameRun, Closed, LastIs
<1> QED
  BY <1>2, <1>3, <1>4, <1>5, <1>6, <1>7, <1>8, RunMoves DEF Ends

\* No receipt of an ended saga is appended behind the one it ended with.
LEMMA LastReceiptStep ==
    ASSUME OneOperator, IndInv, IndInv', Ending, [Next]_vars
    PROVE  EndedByLastReceipt'
<1> SUFFICES ASSUME NEW x \in closed'
             PROVE  /\ x[2] \in 1..files'
                    /\ \E i \in DOMAIN ledger' :
                          /\ ledger'[i].id = x[2]
                          /\ ledger'[i].saga = x[1]
                          /\ \A j \in DOMAIN ledger' : ledger'[j].saga = x[1] => j <= i
  BY DEF EndedByLastReceipt
<1>1. /\ TypeOK /\ TypeOK' /\ ledger \in Seq(Receipts) /\ \A p \in Procs : Opened(p)
  BY DEF IndInv, TypeOK, Ending
<1>2. CASE \E p \in Procs : CloseSaga(p)
  <2> PICK p \in Procs : CloseSaga(p)
    BY <1>2
  <2>1. LastIs(proc[p].receipt, proc[p].saga)
    BY <1>1, CloseFacts DEF Opened
  <2>2. \A j \in DOMAIN ledger : j <= Len(ledger)
    BY <1>1
  <2>3. CASE x = <<proc[p].saga, proc[p].receipt>>
    BY <2>1, <2>2, <2>3, CloseFacts DEF LastIs
  <2>4. CASE x \in closed
    BY <2>4, CloseFacts DEF Ending, EndedByLastReceipt
  <2> QED
    BY <2>3, <2>4, CloseFacts
<1>3. CASE \E p \in Procs : AppendLedger(p)
  <2> PICK p \in Procs : AppendLedger(p)
    BY <1>3
  <2>1. closed' = closed /\ files' = files /\ proc[p].pc = "ledger"
    BY DEF AppendLedger, journalVars
  <2>2. ~Closed(proc[p].saga)
    BY <1>1, <2>1 DEF Opened, Outside
  <2>3. x[1] # proc[p].saga
    <3>1. x \in SagaIds \X ReceiptIds
      BY <1>1 DEF TypeOK
    <3>2. x = <<x[1], x[2]>> /\ x[2] \in ReceiptIds
      BY <3>1
    <3> QED
      BY <2>1, <2>2, <3>2 DEF Closed
  <2>4. PICK i \in DOMAIN ledger :
          /\ ledger[i].id = x[2]
          /\ ledger[i].saga = x[1]
          /\ \A j \in DOMAIN ledger : ledger[j].saga = x[1] => j <= i
    BY <2>1 DEF Ending, EndedByLastReceipt
  <2>5. i \in DOMAIN ledger' /\ ledger'[i] = ledger[i]
    BY AppendLedgerFacts
  <2>6. ASSUME NEW j \in DOMAIN ledger', ledger'[j].saga = x[1] PROVE j <= i
    BY <2>3, <2>4, <2>6, AppendLedgerFacts
  <2>7. x[2] \in 1..files'
    BY <2>1 DEF Ending, EndedByLastReceipt
  <2> QED
    BY <2>4, <2>5, <2>6, <2>7
<1>4. CASE (\A p \in Procs : ~CloseSaga(p)) /\ (\A p \in Procs : ~AppendLedger(p))
  <2>1. closed' = closed /\ ledger' = ledger
    BY <1>4, Writes
  <2>2. 1..files \subseteq 1..files'
    <3>1. CASE files' = files
      BY <3>1
    <3>2. CASE \E p \in Procs : WriteReceipt(p)
      BY <1>1, <3>2, BoundsAssumption DEF WriteReceipt, TypeOK
    <3> QED
      BY <3>1, <3>2, Writes
  <2> QED
    BY <2>1, <2>2 DEF Ending, EndedByLastReceipt
<1> QED
  BY <1>2, <1>3, <1>4

LEMMA EndingStep ==
    ASSUME OneOperator, IndInv, IndInv', Ending, [Next]_vars
    PROVE  Ending'
<1>1. ASSUME NEW x \in closed' PROVE x[1] \in 1..sagas'
  <2>1. CASE x \in closed
    BY <2>1, Writes DEF Ending
  <2>2. CASE x \notin closed
    BY <1>1, <2>2, Writes, CloseFacts
  <2> QED
    BY <2>1, <2>2
<1>2. ASSUME NEW p \in Procs PROVE Opened(p)'
  <2>1. CASE \E q \in Procs : Launch(q) \/ Run(q) \/ WorkFails(q) \/ Crash(q)
    BY <2>1, OpenedStep DEF OneOperator
  <2>2. CASE CaptureLineage \/ UNCHANGED vars
    <3>1. UNCHANGED <<closed, ledger, proc>> /\ Opened(p)
      BY <2>2 DEF CaptureLineage, vars, journalVars, receiptVars, Ending
    <3> QED
      BY <3>1 DEF Opened, Closed, LastIs
  <2> QED
    BY <2>1, <2>2 DEF Next
<1> QED
  BY <1>1, <1>2, LastReceiptStep DEF Ending

LEMMA InitEnding == Init => Ending
  BY IdleFacts DEF Init, Ending, Opened, EndedByLastReceipt, Outside

\* A saga ends with its last receipt: for one operator, whatever fails and however often
\* it is killed, the receipt that the saga_end names is the last one of its saga in the
\* ledger, then and for ever after (saga.py:212, 426-429).
THEOREM OneOperatorEndsOnce ==
    ASSUME OneOperator
    PROVE  Spec => []EndedByLastReceipt
<1>1. Ending => EndedByLastReceipt
  BY DEF Ending
<1>2. IndInv /\ IndInv' /\ Ending /\ [Next]_vars => Ending'
  BY EndingStep
<1> QED
  BY <1>1, <1>2, InitInv, NextInv, InitEnding, PTL DEF Spec

----------------------------------------------------------------------------
(* What a saga leaves behind when one operator runs it                     *)

\* The run will pin st again: it has its suppress, or its reclaim, still ahead.
Pending(run, st) ==
    \/ run.step[1] = "suppress" /\ (run.reclaim \/ run.step[2] <= st)
    \/ run.step[1] = "baseline" /\ run.reclaim
    \/ run.step[1] = "reclaim" /\ run.reclaim /\ run.step[2] <= st

\* As long as no step fails there is one saga, and every run of it pins all it changed.
Unfailed(p) ==
    /\ proc[p].pc \notin {"fail", "dlq"} /\ proc[p].dlq = {}
    /\ proc[p].pc = "choose" => ~proc[p].retry
    /\ proc[p].pc = "start" => sagas = 0
    /\ proc[p].pc # "idle" => proc[p].configured \in Configs
    /\ proc[p].pc \notin Outside \cup {"finalize"} => ~Closed(1)
    /\ proc[p].pc \in {"receipt", "ledger", "close"} => proc[p].step[1] = "verify"
    /\ \A st \in drifted : Pending(proc[p], st)
Pinning ==
    failures = 0 =>
      /\ dead = {} /\ sagas <= 1
      /\ sagas = 0 => ~Closed(1)
      /\ \A c \in Configs : drifted \subseteq c
      /\ drifted # {} => ~Closed(1)
      /\ \A p \in Procs : Unfailed(p)

LEMMA PendingAdvanced ==
    ASSUME NEW run \in RunStates, NEW st \in Stores, Pending(run, st),
           \/ st # run.step[2] \/ run.step[1] = "baseline"
           \/ run.step[1] = "suppress" /\ run.reclaim
    PROVE  Pending(Advanced(run), st)
<1>1. /\ run.step = <<run.step[1], run.step[2]>> /\ run.step[2] \in 0..N
      /\ N \in Nat /\ st \in 1..N
  BY StoresAssumption DEF RunStates, Steps, Stores
<1>2. run.step[1] \in {"suppress", "baseline", "reclaim"}
  BY DEF Pending
<1>3. CASE run.step[2] < N
  <2>1. /\ Advanced(run).step = <<run.step[1], run.step[2] + 1>>
        /\ Advanced(run).reclaim = run.reclaim
    BY <1>3 DEF Advanced, RunStates
  <2> QED
    BY <1>1, <1>3, <2>1 DEF Pending
<1>4. CASE ~(run.step[2] < N)
  <2>1. /\ Advanced(run).step = <<PhaseAfter[run.step[1]], 1>>
        /\ Advanced(run).reclaim = run.reclaim
    BY <1>2, <1>4 DEF Advanced, RunStates
  <2> QED
    BY <1>1, <1>2, <1>4, <2>1 DEF Pending, PhaseAfter
<1> QED
  BY <1>3, <1>4

LEMMA ReceiptAfterVerify ==
    ASSUME NEW run \in RunStates, Advanced(run).pc = "receipt"
    PROVE  Advanced(run).step[1] = "verify"
BY DEF Advanced, RunStates

LEMMA AdvanceUnfailed ==
    ASSUME TypeOK, NEW p \in Procs, NEW run \in RunStates, proc'[p] = Advanced(run),
           run.dlq = {}, run.configured \in Configs, ~Closed(1), closed' = closed,
           drifted' \subseteq Stores,
           \A st \in drifted' : /\ Pending(run, st)
                                /\ \/ st # run.step[2] \/ run.step[1] = "baseline"
                                   \/ run.step[1] = "suppress" /\ run.reclaim
    PROVE  Unfailed(p)'
<1>1. \A st \in drifted' : Pending(proc'[p], st)
  BY PendingAdvanced
<1>2. /\ proc'[p].pc \in {"step", "receipt"} /\ proc'[p].dlq = {}
      /\ proc'[p].configured \in Configs
      /\ proc'[p].pc = "receipt" => proc'[p].step[1] = "verify"
  BY AdvancedFacts, ReceiptAfterVerify DEF Keeps
<1>3. ~Closed(1)'
  BY DEF Closed
<1> QED
  BY <1>1, <1>2, <1>3 DEF Unfailed, Outside

LEMMA GotoUnfailed ==
    ASSUME TypeOK, NEW p \in Procs, Unfailed(p), proc[p].pc \notin Outside \cup {"finalize"},
           NEW pc \in {"begin", "work", "ok", "repin", "judge", "ledger", "close"},
           pc \in {"ledger", "close"} => proc[p].pc \in {"receipt", "ledger"},
           Goto(p, pc), drifted' \subseteq drifted, closed' = closed
    PROVE  Unfailed(p)'
<1>1. /\ proc'[p].pc = pc /\ SameMemory(proc'[p], proc[p])
  BY GotoFacts DEF PCs
<1>2. ~Closed(1)'
  BY DEF Closed, Unfailed
<1> QED
  BY <1>1, <1>2 DEF Unfailed, SameMemory, Keeps, Outside, Pending

LEMMA FreshUnfailed ==
    ASSUME TypeOK', NEW p \in Procs, Fresh(proc'[p]), proc'[p].pc \in {"idle", "choose", "start", "step"},
           proc'[p].pc = "choose" => ~proc'[p].retry,
           proc'[p].pc = "start" => sagas' = 0,
           proc'[p].pc = "step" => ~Closed(1)',
           proc'[p].pc # "idle" => proc'[p].configured \in Configs
    PROVE  Unfailed(p)'
<1>1. \A st \in drifted' : st \in Stores /\ st > 0
  BY DEF TypeOK, Stores
<1>2. proc'[p].step[1] = "suppress" /\ proc'[p].step[2] = 0 /\ proc'[p].dlq = {}
  BY DEF Fresh, Lineage
<1>3. \A st \in drifted' : Pending(proc'[p], st)
  BY <1>1, <1>2, StoresAssumption DEF Pending, Stores
<1> QED
  BY <1>2, <1>3 DEF Unfailed, Outside

\* A step that ends no saga and pins what it pins.
LEMMA PinningMoves ==
    ASSUME OneOperator, Pinning, failures = 0, NEW p \in Procs, Unfailed(p)',
           UNCHANGED <<dead, sagas, closed>>, drifted' \subseteq drifted
    PROVE  Pinning'
<1>1. Closed(1)' <=> Closed(1)
  BY DEF Closed
<1> QED
  BY <1>1 DEF Pinning, OneOperator

\* Before the first failure nothing is dead-lettered, so that nothing is retried.
LEMMA LaunchPins ==
    ASSUME OneOperator, IndInv, TypeOK', Pinning, failures = 0, NEW p \in Procs, Launch(p)
    PROVE  Pinning'
<1>1. PICK c \in Configs, r \in ReclaimOpts, again \in BOOLEAN :
        /\ again => dead # {} /\ r /\ sagas < MaxSagas
        /\ proc' = [proc EXCEPT ![p] = [Idle EXCEPT !.pc = "choose", !.configured = c,
                                                    !.reclaim = r, !.retry = again]]
  BY DEF Launch
<1>2. again = FALSE
  BY <1>1 DEF Pinning
<1> DEFINE run == [Idle EXCEPT !.pc = "choose", !.configured = c,
                               !.reclaim = r, !.retry = again]
<1>3. proc'[p] = run
  BY <1>1 DEF IndInv, TypeOK
<1>4. run.pc = "choose" /\ run.configured = c /\ run.retry = again /\ Fresh(run)
  BY IdleFacts DEF Idle, Fresh
<1>5. Unfailed(p)'
  BY <1>2, <1>3, <1>4, FreshUnfailed
<1> QED
  BY <1>5, PinningMoves DEF Launch, journalVars, storeVars

LEMMA ChoosePins ==
    ASSUME OneOperator, IndInv, TypeOK', Pinning, failures = 0, NEW p \in Procs, Choose(p)
    PROVE  Pinning'
<1>1. /\ Fresh(proc[p]) /\ proc[p].pc = "choose" /\ proc[p] \in RunStates
      /\ ~proc[p].retry /\ proc[p].configured \in Configs
      /\ UNCHANGED <<dead, sagas, closed, drifted>>
  BY DEF Choose, IndInv, Local, Placed, Outside, TypeOK, Pinning, Unfailed,
         journalVars, storeVars
<1>2. CASE Open(1) /\ proc' = [proc EXCEPT ![p] = [@ EXCEPT !.pc = "step", !.saga = 1]]
  <2> DEFINE run == [proc[p] EXCEPT !.pc = "step", !.saga = 1]
  <2>1. proc'[p] = run
    BY <1>2 DEF IndInv, TypeOK
  <2>2. /\ run.pc = "step" /\ run.configured = proc[p].configured
        /\ run.step = proc[p].step /\ run.dlq = proc[p].dlq /\ run.verdict = proc[p].verdict
    BY <1>1 DEF RunStates
  <2>3. Fresh(run)
    BY <1>1, <2>2 DEF Fresh
  <2>4. ~Closed(1)'
    BY <1>1, <1>2 DEF Open, Closed
  <2> HIDE DEF run
  <2> QED
    BY <1>1, <2>1, <2>2, <2>3, <2>4, FreshUnfailed, PinningMoves
<1>3. CASE (sagas = 0 \/ (~Open(1) /\ proc[p].retry)) /\ Goto(p, "start")
  <2>1. /\ proc'[p].pc = "start" /\ SameMemory(proc'[p], proc[p])
    BY <1>3, GotoFacts DEF PCs, IndInv
  <2>2. Fresh(proc'[p]) /\ sagas' = 0 /\ proc'[p].configured \in Configs
    BY <1>1, <1>3, <2>1 DEF Fresh, SameMemory, Keeps
  <2> QED
    BY <1>1, <2>1, <2>2, FreshUnfailed, PinningMoves
<1>4. CASE Exit(p)
  BY <1>1, <1>4, ExitFacts, FreshUnfailed, PinningMoves DEF IndInv
<1> QED
  BY <1>2, <1>3, <1>4 DEF Choose

LEMMA StartSagaPins ==
    ASSUME OneOperator, IndInv, TypeOK', Pinning, failures = 0, NEW p \in Procs, StartSaga(p)
    PROVE  Pinning'
<1>1. /\ Fresh(proc[p]) /\ proc[p].pc = "start" /\ proc[p] \in RunStates
      /\ proc[p].configured \in Configs /\ sagas = 0 /\ ~Closed(1)
      /\ sagas' = 1 /\ UNCHANGED <<dead, closed, drifted>>
  BY DEF StartSaga, IndInv, Local, Placed, Outside, TypeOK, Pinning, Unfailed,
         storeVars
<1> DEFINE run == [proc[p] EXCEPT !.pc = "step", !.saga = sagas + 1]
<1>2. proc'[p] = run
  BY DEF StartSaga, IndInv, TypeOK
<1>3. /\ run.pc = "step" /\ run.configured = proc[p].configured
      /\ run.step = proc[p].step /\ run.dlq = proc[p].dlq /\ run.verdict = proc[p].verdict
  BY <1>1 DEF RunStates
<1>4. Fresh(run)
  BY <1>1, <1>3 DEF Fresh
<1>5. ~Closed(1)'
  BY <1>1 DEF Closed
<1> HIDE DEF run
<1>6. Unfailed(p)'
  BY <1>1, <1>2, <1>3, <1>4, <1>5, FreshUnfailed
<1> QED
  BY <1>1, <1>5, <1>6 DEF Pinning, OneOperator

\* The run moves inside a saga that has not ended, and pins all it has changed.
LEMMA PassOverPins ==
    ASSUME OneOperator, IndInv, TypeOK', Pinning, failures = 0, NEW p \in Procs, PassOver(p)
    PROVE  Pinning'
<1>1. /\ proc[p].pc = "step" /\ ~Applies(p) /\ proc[p] \in RunStates
      /\ Unfailed(p) /\ TypeOK
      /\ UNCHANGED <<dead, sagas, closed, drifted>>
  BY DEF PassOver, IndInv, TypeOK, Pinning, journalVars, storeVars
<1>2. CASE Goto(p, "judge")
  <2>1. Unfailed(p)'
    BY <1>1, <1>2, GotoUnfailed DEF Outside
  <2> QED
    BY <1>1, <2>1, PinningMoves
<1>3. CASE proc[p].step[1] # "verify" /\ Advance(p)
  <2>1. proc'[p] = Advanced(proc[p])
    BY <1>1, <1>3, AdvancedFacts DEF Advance, TypeOK
  <2>2. /\ proc[p].dlq = {} /\ proc[p].configured \in Configs /\ ~Closed(1)
        /\ drifted \subseteq proc[p].configured
    BY <1>1 DEF Unfailed, Outside, Pinning
  <2>3. ASSUME NEW st \in drifted
        PROVE  /\ Pending(proc[p], st)
               /\ st # proc[p].step[2] \/ proc[p].step[1] = "baseline"
    BY <1>1, <2>2 DEF Unfailed, Applies, Pending
  <2>4. Unfailed(p)'
    BY <1>1, <2>1, <2>2, <2>3, AdvanceUnfailed DEF TypeOK
  <2> QED
    BY <1>1, <2>4, PinningMoves
<1> QED
  BY <1>2, <1>3 DEF PassOver

\* A settled step that changed a store is pinned again next.
LEMMA AfterSuccessUnfailed ==
    ASSUME IndInv, Pinning, failures = 0, NEW p \in Procs, AfterSuccess(p),
           proc[p].pc \notin Outside \cup {"finalize"},
           UNCHANGED <<dead, sagas, closed, drifted>>
    PROVE  Unfailed(p)'
<1>1. proc[p] \in RunStates /\ Unfailed(p) /\ TypeOK
  BY DEF IndInv, TypeOK, Pinning
<1>2. CASE Goto(p, "judge") \/ Goto(p, "repin")
  BY <1>1, <1>2, GotoUnfailed
<1>3. CASE /\ proc[p].step[2] = Lineage \/ proc[p].step[1] = "baseline"
           /\ Advance(p)
  <2>1. proc'[p] = Advanced(proc[p])
    BY <1>1, <1>3, AdvancedFacts DEF Advance, TypeOK
  <2>2. /\ proc[p].dlq = {} /\ proc[p].configured \in Configs /\ ~Closed(1)
    BY <1>1 DEF Unfailed, Outside
  <2>3. ASSUME NEW st \in drifted
        PROVE  /\ Pending(proc[p], st)
               /\ st # proc[p].step[2] \/ proc[p].step[1] = "baseline"
    BY <1>1, <1>3 DEF Unfailed, TypeOK, Stores, Lineage
  <2> QED
    BY <1>1, <2>1, <2>2, <2>3, AdvanceUnfailed DEF TypeOK
<1> QED
  BY <1>2, <1>3 DEF AfterSuccess

LEMMA TakeOverPins ==
    ASSUME OneOperator, IndInv, TypeOK', Pinning, failures = 0, NEW p \in Procs, TakeOver(p)
    PROVE  Pinning'
<1>1. AfterSuccess(p) /\ proc[p].pc = "step" /\ UNCHANGED <<dead, sagas, closed, drifted>>
  BY DEF TakeOver, journalVars, storeVars
<1>2. Unfailed(p)'
  BY <1>1, AfterSuccessUnfailed DEF Outside
<1> QED
  BY <1>1, <1>2, PinningMoves

LEMMA EndOkPins ==
    ASSUME OneOperator, IndInv, TypeOK', Pinning, failures = 0, NEW p \in Procs, EndOk(p)
    PROVE  Pinning'
<1>1. AfterSuccess(p) /\ proc[p].pc = "ok" /\ UNCHANGED <<dead, sagas, closed, drifted>>
  BY DEF EndOk, storeVars
<1>2. Unfailed(p)'
  BY <1>1, AfterSuccessUnfailed DEF Outside
<1> QED
  BY <1>1, <1>2, PinningMoves

LEMMA StaysPins ==
    ASSUME OneOperator, IndInv, TypeOK', Pinning, failures = 0, NEW p \in Procs,
           FindUndone(p) \/ BeginStep(p) \/ AppendLedger(p)
    PROVE  Pinning'
<1>1. Unfailed(p) /\ TypeOK
  BY DEF IndInv, Pinning
<1>2. UNCHANGED <<dead, sagas, closed, drifted>>
  BY DEF FindUndone, BeginStep, AppendLedger, journalVars, storeVars
<1>3. CASE FindUndone(p)
  BY <1>1, <1>2, <1>3, GotoUnfailed, PinningMoves DEF FindUndone, Outside
<1>4. CASE BeginStep(p)
  BY <1>1, <1>2, <1>4, GotoUnfailed, PinningMoves DEF BeginStep, Outside
<1>5. CASE AppendLedger(p)
  BY <1>1, <1>2, <1>5, GotoUnfailed, PinningMoves DEF AppendLedger, Outside
<1> QED
  BY <1>3, <1>4, <1>5

LEMMA WriteReceiptPins ==
    ASSUME OneOperator, IndInv, TypeOK', Pinning, failures = 0, NEW p \in Procs,
           WriteReceipt(p)
    PROVE  Pinning'
<1>1. /\ proc[p].pc = "receipt" /\ proc[p] \in RunStates /\ Unfailed(p)
      /\ UNCHANGED <<dead, sagas, closed, drifted>>
  BY DEF WriteReceipt, IndInv, TypeOK, Pinning, journalVars, storeVars
<1> DEFINE run == [proc[p] EXCEPT !.pc = "ledger", !.receipt = files + 1]
<1>2. proc'[p] = run
  BY DEF WriteReceipt, IndInv, TypeOK
<1>3. run.pc = "ledger" /\ SameMemory(run, proc[p])
  BY <1>1 DEF RunStates, SameMemory, Keeps
<1>4. ~Closed(1)'
  BY <1>1 DEF Closed, Unfailed, Outside
<1> HIDE DEF run
<1>5. Unfailed(p)'
  BY <1>1, <1>2, <1>3, <1>4 DEF Unfailed, SameMemory, Keeps, Pending, Outside
<1> QED
  BY <1>1, <1>5, PinningMoves

\* What a step changes it will pin again: its suppress or its reclaim is at that store.
LEMMA WorkPins ==
    ASSUME OneOperator, SameStores, IndInv, TypeOK', Pinning, failures = 0,
           NEW p \in Procs, Work(p)
    PROVE  Pinning'
<1>1. /\ proc[p].pc = "work" /\ proc[p] \in RunStates /\ Unfailed(p) /\ TypeOK /\ Applies(p)
      /\ Apply(p) /\ Goto(p, "ok") /\ UNCHANGED <<dead, sagas, closed>>
  BY DEF Work, IndInv, Local, Placed, Working, TypeOK, Pinning
<1> PICK phase \in Phases : phase = proc[p].step[1]
  BY <1>1 DEF RunStates, Steps
<1> PICK at \in 0..N : at = proc[p].step[2]
  BY <1>1 DEF RunStates, Steps
<1>2. /\ proc'[p].pc = "ok" /\ SameMemory(proc'[p], proc[p])
  BY <1>1, GotoFacts DEF PCs
<1>3. ASSUME NEW st \in drifted', st \notin drifted
      PROVE  st = at /\ at \in proc[p].configured /\ Pending(proc[p], st)
  <2>1. at # Lineage /\ st \in Stores /\ content'[st] # content[st]
    BY <1>1, <1>3, KindsAssumption DEF Apply
  <2>2. content' = [content EXCEPT ![at] = ContentAfter(phase, @)]
    BY <1>1, <2>1 DEF Apply
  <2>3. at \in Stores /\ content \in [Stores -> Contents]
    <3>1. at # 0 /\ content \in [Stores -> Contents]
      BY <1>1, <2>1 DEF TypeOK, Lineage
    <3> QED
      BY <3>1, StoresAssumption DEF Stores
  <2>4. st = at /\ ContentAfter(phase, content[at]) # content[at]
    BY <2>1, <2>2, <2>3
  <2>5. phase \in {"suppress", "reclaim"}
    BY <2>4 DEF ContentAfter
  <2>6. at \in proc[p].configured /\ (phase = "reclaim" => proc[p].reclaim)
    BY <1>1, <2>1 DEF Applies
  <2> QED
    BY <2>3, <2>4, <2>5, <2>6 DEF Pending, Stores
<1>4. ~Closed(1) /\ ~Closed(1)' /\ proc[p].configured \in Configs
  BY <1>1 DEF Unfailed, Closed, Outside
<1>5. ASSUME NEW st \in drifted' PROVE Pending(proc'[p], st)
  <2>1. Pending(proc[p], st)
    BY <1>1, <1>3 DEF Unfailed
  <2> QED
    BY <1>2, <2>1 DEF SameMemory, Keeps, Pending
<1>6. Unfailed(p)'
  BY <1>1, <1>2, <1>4, <1>5 DEF Unfailed, SameMemory, Keeps, Outside
<1>7. \A c \in Configs : drifted' \subseteq c
  BY <1>3, <1>4 DEF Pinning, SameStores
<1> QED
  BY <1>1, <1>4, <1>6, <1>7 DEF Pinning, OneOperator

\* The store is pinned again, and with --no-reclaim it is not changed any more.
LEMMA RepinPins ==
    ASSUME OneOperator, IndInv, TypeOK', Pinning, failures = 0, NEW p \in Procs, Repin(p)
    PROVE  Pinning'
<1>1. /\ proc[p].pc = "repin" /\ proc[p] \in RunStates /\ Unfailed(p) /\ TypeOK
      /\ Advance(p) /\ drifted' = drifted \ {proc[p].step[2]}
      /\ UNCHANGED <<dead, sagas, closed>>
  BY DEF Repin, IndInv, TypeOK, Pinning, journalVars
<1>2. proc'[p] = Advanced(proc[p])
  BY <1>1, AdvancedFacts DEF Advance, TypeOK
<1>3. proc[p].dlq = {} /\ proc[p].configured \in Configs /\ ~Closed(1)
  BY <1>1 DEF Unfailed, Outside
<1>4. ASSUME NEW st \in drifted'
      PROVE  Pending(proc[p], st) /\ st # proc[p].step[2]
  BY <1>1 DEF Unfailed
<1>5. Unfailed(p)'
  BY <1>1, <1>2, <1>3, <1>4, AdvanceUnfailed DEF TypeOK
<1> QED
  BY <1>1, <1>5, PinningMoves

\* When stores are judged every one of them is pinned again.
LEMMA JudgePins ==
    ASSUME OneOperator, IndInv, TypeOK', Pinning, failures = 0, NEW p \in Procs, Judge(p)
    PROVE  Pinning'
<1>1. /\ proc[p].pc = "judge" /\ proc[p] \in RunStates /\ Unfailed(p) /\ TypeOK
      /\ proc[p].step[1] = "verify" /\ proc[p].step[2] \in Stores
      /\ UNCHANGED <<dead, sagas, closed, drifted>>
  BY DEF Judge, IndInv, Local, Placed, TypeOK, Pinning, journalVars, storeVars
<1> PICK st \in Stores : st = proc[p].step[2]
  BY <1>1
<1> PICK v : v = Verdict(p, st)
  OBVIOUS
<1> DEFINE run == [proc[p] EXCEPT !.verdict[st] = v]
<1>2. v \in Rules \cup {NoRule}
  <2>1. proc[p].saga \in SagaIds
    <3>1. proc[p].saga \in 1..sagas
      BY <1>1 DEF IndInv, Local, Placed, Outside
    <3>2. sagas \in 0..MaxSagas
      BY <1>1 DEF TypeOK
    <3> QED
      BY <3>1, <3>2, BoundsAssumption DEF SagaIds
  <2>2. probed[proc[p].saga][st] \in Contents \cup {NoRule}
    BY <1>1, <2>1 DEF TypeOK
  <2> QED
    BY <2>2 DEF Verdict, RuleOfProbe, Rules, NoRule, Contents
<1>3. /\ run \in RunStates /\ run.dlq = proc[p].dlq
      /\ run.configured = proc[p].configured
  BY <1>1, <1>2 DEF RunStates
<1>4. proc' = [proc EXCEPT ![p] = Advanced(run)]
  BY DEF Judge
<1> HIDE DEF run
<1>5. proc'[p] = Advanced(run)
  BY <1>1, <1>3, <1>4, AdvancedFacts DEF TypeOK
<1>6. drifted = {}
  BY <1>1 DEF Unfailed, Pending
<1>7. run.dlq = {} /\ run.configured \in Configs /\ ~Closed(1)
  BY <1>1, <1>3 DEF Unfailed, Outside
<1>8. Unfailed(p)'
  BY <1>1, <1>3, <1>5, <1>6, <1>7, AdvanceUnfailed
<1> QED
  BY <1>1, <1>8, PinningMoves

LEMMA ExitPins ==
    ASSUME OneOperator, IndInv, TypeOK', Pinning, failures = 0, NEW p \in Procs,
           RefuseReceipt(p) \/ Crash(p) \/ Finalize(p)
    PROVE  Pinning'
<1>1. Exit(p) /\ TypeOK /\ UNCHANGED <<dead, sagas, closed, drifted>>
  BY DEF RefuseReceipt, Crash, Finalize, IndInv, journalVars, storeVars
<1>2. Unfailed(p)'
  BY <1>1, ExitFacts, FreshUnfailed
<1> QED
  BY <1>1, <1>2, PinningMoves

\* A saga ends after its last verification, with nothing left to pin.
LEMMA CloseSagaPins ==
    ASSUME OneOperator, IndInv, TypeOK', Pinning, failures = 0, NEW p \in Procs, CloseSaga(p)
    PROVE  Pinning'
<1>1. /\ proc[p].pc = "close" /\ Unfailed(p) /\ TypeOK /\ Goto(p, "finalize")
      /\ proc[p].saga \in 1..sagas
      /\ UNCHANGED <<dead, sagas, drifted>>
  BY DEF CloseSaga, IndInv, Local, Placed, Outside, Pinning, storeVars
<1>2. drifted = {}
  BY <1>1 DEF Unfailed, Pending
<1>3. /\ proc'[p].pc = "finalize" /\ SameMemory(proc'[p], proc[p])
  BY <1>1, GotoFacts DEF PCs
<1>4. sagas \in Nat /\ sagas # 0
  BY <1>1, BoundsAssumption DEF TypeOK
<1>5. Unfailed(p)'
  BY <1>1, <1>2, <1>3 DEF Unfailed, SameMemory, Keeps
<1> QED
  BY <1>1, <1>2, <1>4, <1>5 DEF Pinning, OneOperator

LEMMA UnfailedOnly ==
    ASSUME IndInv, Pinning, failures = 0, NEW p \in Procs
    PROVE  ~EndFailed(p) /\ ~DeadLetter(p)
BY DEF EndFailed, DeadLetter, Pinning, Unfailed

\* A step that changes nothing that the invariant reads.
LEMMA NothingPins ==
    ASSUME Pinning, CaptureLineage \/ UNCHANGED vars, failures' = failures
    PROVE  Pinning'
<1>1. UNCHANGED <<dead, sagas, closed, drifted, proc>>
  BY DEF CaptureLineage, vars, journalVars, storeVars
<1>2. \A s : Closed(s)' <=> Closed(s)
  BY <1>1 DEF Closed
<1>3. \A p \in Procs : Unfailed(p)' <=> Unfailed(p)
  BY <1>1, <1>2 DEF Unfailed
<1> QED
  BY <1>1, <1>2, <1>3 DEF Pinning

LEMMA PinningStep ==
    ASSUME OneOperator, SameStores, IndInv, TypeOK', Pinning, [Next]_vars
    PROVE  Pinning'
<1> SUFFICES ASSUME failures' = 0 PROVE Pinning'
  BY DEF Pinning
<1>1. ASSUME NEW p \in Procs, WorkFails(p) PROVE FALSE
  BY <1>1, BoundsAssumption DEF WorkFails, IndInv, TypeOK
<1>2. ASSUME NEW p \in Procs, Launch(p) \/ Run(p) \/ Crash(p) PROVE failures = 0
  BY <1>2 DEF Launch, Run, Crash, Choose, StartSaga, PassOver, TakeOver, FindUndone, BeginStep,
     Work, EndOk, EndFailed, Repin, DeadLetter, Judge, WriteReceipt, RefuseReceipt,
     AppendLedger, CloseSaga, Finalize, boundVars
<1>3. ASSUME NEW p \in Procs, Launch(p) \/ Run(p) \/ Crash(p) PROVE Pinning'
  BY <1>2, <1>3, LaunchPins, ChoosePins, StartSagaPins, PassOverPins, TakeOverPins, StaysPins,
     WorkPins, EndOkPins, RepinPins, JudgePins, WriteReceiptPins, ExitPins, CloseSagaPins,
     UnfailedOnly DEF Run
<1>4. CASE CaptureLineage \/ UNCHANGED vars
  BY <1>4, NothingPins DEF CaptureLineage, vars, boundVars
<1> QED
  BY <1>1, <1>3, <1>4 DEF Next

\* The snapshots are of configured stores, and unless a run was killed before finalize
\* they belong to a saga that has not ended or to a run that is about to drop them.
Releasing ==
    /\ \A c \in Configs : held \subseteq c
    /\ ~late /\ held # {} /\ (\A p \in Procs : proc[p].pc # "finalize") =>
          \E s \in 1..sagas : ~Closed(s)

\* A saga that has not ended stays so until its saga_end is written.
LEMMA StaysOpen ==
    ASSUME IndInv, [Next]_vars, closed' = closed, \E s \in 1..sagas : ~Closed(s)
    PROVE  (\E s \in 1..sagas : ~Closed(s))'
BY Writes DEF Closed

LEMMA ReleasingStep ==
    ASSUME OneOperator, SameStores, IndInv, Ending, Releasing, [Next]_vars
    PROVE  Releasing'
<1>1. TypeOK
  BY DEF IndInv
<1>2. CASE \E p \in Procs : Work(p) \/ WorkFails(p)
  <2> PICK p \in Procs : Work(p) \/ WorkFails(p)
    BY <1>2
  <2>1. /\ proc[p].pc = "work" /\ Applies(p) /\ closed' = closed /\ sagas' = sagas
        /\ proc[p].saga \in 1..sagas /\ ~Closed(proc[p].saga) /\ proc[p].configured \in Configs
    BY DEF Work, WorkFails, IndInv, Local, Placed, Working, Outside, Ending, Opened
  <2>2. held' \subseteq held \cup proc[p].configured
    BY <2>1 DEF Work, WorkFails, Apply, Applies, storeVars
  <2> QED
    BY <2>1, <2>2 DEF Releasing, SameStores, Closed
<1>3. CASE \E p \in Procs : Finalize(p)
  <2> PICK p \in Procs : Finalize(p)
    BY <1>3
  <2>1. proc[p].configured \in Configs /\ held' = held \ proc[p].configured
    BY DEF Finalize, Ending, Opened
  <2>2. held' = {}
    BY <2>1 DEF Releasing
  <2> QED
    BY <2>2 DEF Releasing
<1>4. CASE \E p \in Procs : CloseSaga(p)
  <2> PICK p \in Procs : CloseSaga(p)
    BY <1>4
  <2>1. proc'[p].pc = "finalize" /\ held' = held
    BY CloseFacts DEF CloseSaga, storeVars
  <2> QED
    BY <2>1 DEF Releasing
<1>5. CASE \E p \in Procs : Crash(p)
  <2> PICK p \in Procs : Crash(p)
    BY <1>5
  <2>1. /\ held' = held /\ sagas' = sagas /\ closed' = closed
        /\ late' = (late \/ proc[p].pc = "finalize")
    BY DEF Crash, storeVars, journalVars
  <2>2. ASSUME ~late', held' # {} PROVE (\E s \in 1..sagas : ~Closed(s))'
    <3>1. ~late /\ proc[p].pc # "finalize"
      BY <1>1, <2>1, <2>2 DEF TypeOK
    <3> QED
      BY <2>1, <2>2, <3>1, StaysOpen DEF Releasing, OneOperator
  <2> QED
    BY <2>1, <2>2 DEF Releasing
<1>6. CASE \E p \in Procs : \/ Launch(p) \/ Choose(p) \/ StartSaga(p) \/ PassOver(p)
                            \/ TakeOver(p) \/ FindUndone(p) \/ BeginStep(p) \/ EndOk(p)
                            \/ EndFailed(p) \/ Repin(p) \/ DeadLetter(p) \/ Judge(p)
                            \/ WriteReceipt(p) \/ RefuseReceipt(p) \/ AppendLedger(p)
  <2> PICK p \in Procs : \/ Launch(p) \/ Choose(p) \/ StartSaga(p) \/ PassOver(p)
                         \/ TakeOver(p) \/ FindUndone(p) \/ BeginStep(p) \/ EndOk(p)
                         \/ EndFailed(p) \/ Repin(p) \/ DeadLetter(p) \/ Judge(p)
                         \/ WriteReceipt(p) \/ RefuseReceipt(p) \/ AppendLedger(p)
    BY <1>6
  <2>1. /\ UNCHANGED <<held, late, closed>> /\ proc[p].pc # "finalize"
    BY DEF Launch, Choose, StartSaga, PassOver, TakeOver, FindUndone, BeginStep, EndOk,
       EndFailed, Repin, DeadLetter, Judge, WriteReceipt, RefuseReceipt, AppendLedger,
       storeVars, boundVars, journalVars
  <2> QED
    BY <2>1, StaysOpen DEF Releasing, OneOperator
<1>7. CASE CaptureLineage \/ UNCHANGED vars
  <2>1. UNCHANGED <<held, late, closed, proc>>
    BY <1>7 DEF CaptureLineage, vars, storeVars, boundVars, journalVars
  <2> QED
    BY <2>1, StaysOpen DEF Releasing
<1> QED
  BY <1>2, <1>3, <1>4, <1>5, <1>6, <1>7 DEF Next, Run

LEMMA InitLeaves == Init => Pinning /\ Releasing
<1> SUFFICES ASSUME Init PROVE Pinning /\ Releasing
  OBVIOUS
<1>1. \A p \in Procs : proc[p] = Idle
  BY DEF Init
<1>2. ~Closed(1)
  BY DEF Init, Closed
<1>3. ASSUME NEW p \in Procs PROVE Unfailed(p)
  BY <1>1 DEF Init, Idle, Unfailed, Outside
<1>4. Pinning
  BY <1>2, <1>3 DEF Init, Pinning
<1>5. Releasing
  BY DEF Init, Releasing
<1> QED
  BY <1>4, <1>5

\* For one operator with a fixed configuration, however often it was killed: while no step
\* has failed, an ended saga leaves no store that differs from its pin; and once every saga
\* has ended no store keeps a snapshot, whatever failed, but for a run killed between
\* saga_end and finalize (saga.py:429-432).
THEOREM OneOperatorLeavesNothing ==
    ASSUME OneOperator, SameStores
    PROVE  Spec => []EndedSagasLeaveNothing
<1>1. IndInv /\ Pinning /\ Releasing => EndedSagasLeaveNothing
  <2> SUFFICES ASSUME IndInv, Pinning, Releasing PROVE EndedSagasLeaveNothing
    OBVIOUS
  <2>1. ASSUME ~late, Quiet, \A s \in 1..sagas : Closed(s) PROVE held = {}
    BY <2>1 DEF Quiet, Releasing
  <2> QED
    BY <2>1 DEF EndedSagasLeaveNothing, Pinning
<1>2. IndInv /\ IndInv' /\ Ending /\ Pinning /\ Releasing /\ [Next]_vars => (Pinning /\ Releasing)'
  <2> SUFFICES ASSUME IndInv, IndInv', Ending, Pinning, Releasing, [Next]_vars
               PROVE (Pinning /\ Releasing)'
    OBVIOUS
  <2>1. TypeOK'
    BY DEF IndInv
  <2> QED
    BY <2>1, PinningStep, ReleasingStep
<1>3. IndInv /\ IndInv' /\ Ending /\ [Next]_vars => Ending'
  BY EndingStep
<1> QED
  BY <1>1, <1>2, <1>3, InitInv, NextInv, InitEnding, InitLeaves, PTL DEF Spec
-----------------------------------------------------------------------------
(* No receipt in the middle of a step                                      *)

\* While a receipt waits for the ledger nothing of its saga is in progress.
Settled == \A p \in Procs : proc[p].pc = "ledger" => ~InProgress(proc[p].saga)

LEMMA SettledStep ==
    ASSUME OneOperator, IndInv, Settled, [Next]_vars
    PROVE  Settled'
<1> SUFFICES ASSUME NEW p \in Procs, proc'[p].pc = "ledger"
             PROVE  ~\E x \in begun' : x[1] = proc'[p].saga /\ x \notin done' \cup failed'
  BY DEF Settled, InProgress
<1>1. CASE \E q \in Procs : Launch(q) \/ Run(q) \/ WorkFails(q) \/ Crash(q)
  <2>1. WriteReceipt(p)
    <3>1. PICK q \in Procs : Launch(q) \/ Run(q) \/ WorkFails(q) \/ Crash(q)
      BY <1>1
    <3>2. q = p
      BY DEF OneOperator
    <3> QED
      BY <3>1, <3>2, RunMoves, LaunchMoves DEF Ends
  <2>2. /\ UNCHANGED <<begun, done, failed>> /\ ~InProgress(proc[p].saga)
        /\ proc'[p].saga = proc[p].saga
    BY <2>1 DEF WriteReceipt, journalVars, IndInv, TypeOK, RunStates
  <2> QED
    BY <2>2 DEF InProgress
<1>2. CASE CaptureLineage \/ UNCHANGED vars
  <2>1. UNCHANGED <<begun, done, failed, proc>>
    BY <1>2 DEF CaptureLineage, vars, journalVars
  <2> QED
    BY <2>1 DEF InProgress, Settled
<1> QED
  BY <1>1, <1>2 DEF Next

\* Hard Rule 6 for one operator, however often it is killed or a step fails: no receipt
\* is appended while a step of its saga has begun and not ended (saga.py:383).
THEOREM NoStepIsCutByAReceipt ==
    ASSUME OneOperator
    PROVE  Spec => NoReceiptMidStep
<1>1. IndInv /\ Settled /\ [Next]_vars =>
        [\A p \in Procs : AppendLedger(p) => ~MidStep(proc[p].saga)]_vars
  <2> SUFFICES ASSUME Settled, NEW p \in Procs, AppendLedger(p) PROVE ~MidStep(proc[p].saga)
    OBVIOUS
  <2>1. proc[p].pc = "ledger" /\ ~InProgress(proc[p].saga)
    BY DEF AppendLedger, Settled
  <2> QED
    BY <2>1 DEF MidStep, OneOperator
<1>2. Init => Settled
  BY IdleFacts DEF Init, Settled
<1>3. IndInv /\ Settled /\ [Next]_vars => Settled'
  BY SettledStep
<1> QED
  BY <1>1, <1>2, <1>3, InitInv, NextInv, PTL DEF Spec, NoReceiptMidStep
=============================================================================
