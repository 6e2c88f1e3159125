------------------------ MODULE ReceiptLedgerProofs ------------------------
(***************************************************************************)
(* What the hash chain guarantees for every set of processes and however    *)
(* often a write is cut off, proved with TLAPS.                            *)
(***************************************************************************)
EXTENDS ReceiptLedger, FiniteSetTheorems, TLAPS

----------------------------------------------------------------------------
(* The inductive invariant                                                 *)

Holding == {"held", "write", "prefix", "record", "line"}
Lines == Records \cup {Torn}

\* One process at most is between taking the lock and releasing it.
Exclusive ==
    /\ \A p \in Procs : p \in holders <=> proc[p].pc \in Holding
    /\ \A p, q \in holders : p = q

\* A record at this place of the file is linked to the one before it.
LinkedAt(records, i) ==
    /\ records[i] # Torn
    /\ records[i].seq = i - 1
    /\ records[i].prev = IF i = 1 THEN Genesis ELSE records[i - 1].id

Extends(rec) ==
    /\ rec # Torn
    /\ rec.seq = Len(lines)
    /\ rec.prev = HeadOf(lines)

\* The file: every line but the last is linked; nothing follows a torn line; what
\* stands behind the last newline is torn, or linked to it.
FileLinked ==
    /\ \A i \in DOMAIN lines : \/ LinkedAt(lines, i)
                               \/ lines[i] = Torn /\ i = Len(lines) /\ tail = <<>>
    /\ Len(tail) = 1 => tail[1] = Torn \/ Extends(tail[1])

\* The record a writer holds fits the file it is about to be written to.
Fits(p) ==
    /\ proc[p].pc # "idle" => proc[p].receipt \in Ids
    /\ proc[p].pc \in {"write", "prefix", "record"} => proc[p].rec.id = proc[p].receipt
    /\ proc[p].pc = "write" => ~BrokenLast(Contents)
    /\ proc[p].pc = "write" /\ tail = <<>> => Extends(proc[p].rec)
    /\ proc[p].pc \in {"prefix", "record"} => tail # <<>>
    /\ proc[p].pc = "prefix" /\ Len(tail) = 1 => tail[1] = Torn /\ Extends(proc[p].rec)
    /\ proc[p].pc = "record" /\ Len(tail) = 1 => tail[1] = proc[p].rec

\* An acknowledged record is in the file, unless a write was cut off.
InFile(r) == \E i \in DOMAIN Contents : Contents[i].id = r
Kept ==
    ~Damaged =>
        /\ \A r \in acked : InFile(r)
        /\ \A p \in Procs : proc[p].pc = "line" => InFile(proc[p].receipt)

\* An audit is about an acknowledged record.
Audited(p) == proc[p].pc # "idle" /\ proc[p].op \in {"verify", "records"} => proc[p].receipt \in acked

IndInv ==
    /\ TypeOK
    /\ Exclusive
    /\ FileLinked
    /\ \A p \in Procs : Fits(p) /\ Audited(p)
    /\ Kept
    /\ NoFalseAlarm

----------------------------------------------------------------------------
(* The file                                                                *)

LEMMA ContentsFacts ==
    ASSUME TypeOK
    PROVE  /\ Contents \in Seq(Lines)
           /\ tail = <<>> => Contents = lines
           /\ tail # <<>> => /\ Len(Contents) = Len(lines) + 1
                            /\ Contents[Len(lines) + 1] = LineOf(tail)
                            /\ \A i \in DOMAIN lines : Contents[i] = lines[i]
                            /\ LineOf(tail) \in Lines
<1>1. lines \in Seq(Lines) /\ tail \in Seq(Lines) /\ Torn \in Lines
  BY DEF TypeOK, Lines
<1>2. LineOf(tail) \in Lines
  BY <1>1 DEF LineOf
<1> QED
  BY <1>1, <1>2 DEF Contents

\* What FileLinked says of the file, Linked says of its lines as readers see them.
LEMMA FileIsLinked ==
    ASSUME TypeOK, FileLinked
    PROVE  Linked
<1>1. lines \in Seq(Lines) /\ tail \in Seq(Lines)
  BY DEF TypeOK, Lines
<1>2. CASE tail = <<>>
  BY <1>1, <1>2 DEF FileLinked, Linked, LinkedAt, Contents
<1>3. CASE tail # <<>>
  <2>1. \A i \in DOMAIN lines : LinkedAt(lines, i)
    BY <1>3 DEF FileLinked
  <2>2. LineOf(tail) = Torn \/ Extends(LineOf(tail))
    BY <1>1 DEF FileLinked, LineOf
  <2>3. LineOf(tail) = Torn \/
          /\ LineOf(tail) # Torn
          /\ LineOf(tail).seq = Len(lines)
          /\ LineOf(tail).prev = IF Len(lines) = 0 THEN Genesis ELSE lines[Len(lines)].id
    BY <2>2, <1>1 DEF Extends, HeadOf
  <2>4. ASSUME NEW i \in DOMAIN Contents
        PROVE  \/ Contents[i] = Torn /\ i = Len(Contents)
               \/ LinkedAt(Contents, i)
    <3>1. CASE i \in DOMAIN lines
      <4>1. Contents[i] = lines[i] /\ LinkedAt(lines, i)
        BY <3>1, <2>1, <1>3, ContentsFacts
      <4>2. i # 1 => i - 1 \in DOMAIN lines
        BY <3>1, <1>1
      <4>3. i # 1 => Contents[i - 1] = lines[i - 1]
        BY <4>2, <1>3, ContentsFacts
      <4> QED
        BY <4>1, <4>3 DEF LinkedAt
    <3>2. CASE i = Len(lines) + 1
      BY <3>2, <2>3, <1>1, <1>3, ContentsFacts DEF LinkedAt
    <3> QED
      BY <3>1, <3>2, <1>1, <1>3, ContentsFacts
  <2> QED
    BY <2>4 DEF Linked, LinkedAt
<1> QED
  BY <1>2, <1>3

\* The record that append composes under the lock continues the chain.
LEMMA ComposedFits ==
    ASSUME TypeOK, FileLinked, ~BrokenLast(Contents), NEW r \in Ids, NEW a \in Hashes
    PROVE  /\ NextRecord(Contents, r, a) \in Records
           /\ NextRecord(Contents, r, a).id = r
           /\ tail = <<>> => Extends(NextRecord(Contents, r, a))
<1> DEFINE rec == NextRecord(Contents, r, a)
<1>1. Contents \in Seq(Lines) /\ Linked
  BY ContentsFacts, FileIsLinked
<1>2. Contents # <<>> => /\ Contents[Len(Contents)] \in Records
                         /\ Contents[Len(Contents)].seq = Len(Contents) - 1
  BY <1>1 DEF BrokenLast, Lines, Linked
<1>3. HeadOf(Contents) \in Hashes
  BY <1>1, <1>2, BoundsAssumption DEF HeadOf, Records, Hashes, Ids, Genesis
<1>4. rec = [id |-> r, prev |-> HeadOf(Contents), after |-> a, seq |-> Len(Contents)]
  BY <1>1, <1>2 DEF NextRecord
<1>5. rec \in Records
  BY <1>1, <1>3, <1>4 DEF Records
<1>6. rec # Torn
  BY <1>4, BoundsAssumption DEF Torn, Ids
<1> QED
  BY <1>4, <1>5, <1>6 DEF Extends, Contents

\* Whoever holds the lock and is not writing knows that nobody is.
LEMMA NobodyWrites ==
    ASSUME Exclusive, NEW p \in Procs, proc[p].pc \in {"held", "write", "line"}
    PROVE  \A q \in Procs : proc[q].pc \notin {"prefix", "record"}
  BY DEF Exclusive, Holding

\* A line that is no record was cut off, when nobody is writing.
LEMMA TornIsDamage ==
    ASSUME TypeOK, FileLinked, ~Whole(Contents),
           \A q \in Procs : proc[q].pc \notin {"prefix", "record"}
    PROVE  Damaged
  BY DEF Whole, Damaged, Contents

\* A chain that is not intact has a line that is no record.
LEMMA NotIntactIsTorn ==
    ASSUME TypeOK, FileLinked, ~Intact(Contents)
    PROVE  ~Whole(Contents)
  BY FileIsLinked DEF Linked, Intact, Whole

----------------------------------------------------------------------------
(* Steps that leave the file alone                                         *)

\* What it takes for such a step to preserve the invariant.
LEMMA FileUntouched ==
    ASSUME IndInv, TypeOK', Exclusive', UNCHANGED <<lines, tail, acked>>, NEW p \in Procs,
           \A q \in Procs \ {p} : proc'[q] = proc[q] /\ told'[q] = told[q],
           proc'[p].pc \notin {"prefix", "record", "line"},
           Fits(p)', Audited(p)',
           told'[p] \in {"broken", "missing"} => Damaged
    PROVE  IndInv'
<1>1. Contents' = Contents
  BY DEF Contents, LineOf
<1>2. Damaged => Damaged'
  BY DEF Damaged, Whole
<1>3. FileLinked'
  BY DEF IndInv, FileLinked, LinkedAt, Extends, HeadOf
<1>4. \A q \in Procs : Fits(q)' /\ Audited(q)'
  <2>1. ASSUME NEW q \in Procs \ {p}
        PROVE  Fits(q)' /\ Audited(q)'
    <3>1. Fits(q) /\ Audited(q) /\ proc'[q] = proc[q]
      BY DEF IndInv
    <3> QED
      BY <3>1, <1>1 DEF Fits, Audited, BrokenLast, Extends, HeadOf
  <2> QED
    BY <2>1
<1>5. Kept'
  BY <1>1, <1>2 DEF IndInv, Kept, InFile
<1>6. NoFalseAlarm'
  BY <1>2 DEF IndInv, NoFalseAlarm
<1> QED
  BY <1>3, <1>4, <1>5, <1>6 DEF IndInv

\* An operation that returns or raises leaves an idle process without the lock.
LEMMA AnswerFacts ==
    ASSUME IndInv, NEW p \in Procs, NEW answer \in Answers, Answer(p, answer),
           UNCHANGED <<lines, tail, issued, acked>>, cuts' \in 0..MaxCuts
    PROVE  /\ TypeOK'
           /\ Exclusive'
           /\ \A q \in Procs \ {p} : proc'[q] = proc[q] /\ told'[q] = told[q]
           /\ proc'[p] = Idle
           /\ told'[p] = answer
           /\ Fits(p)' /\ Audited(p)'
<1>1. Idle \in RunStates /\ Idle.pc = "idle"
  BY BoundsAssumption DEF Idle, RunStates, PCs, Ops, Hashes, Genesis
<1>2. /\ proc' = [proc EXCEPT ![p] = Idle]
      /\ told' = [told EXCEPT ![p] = answer]
      /\ holders' = holders \ {p}
      /\ TypeOK
      /\ Exclusive
  BY DEF Answer, IndInv
<1>3. TypeOK'
  BY <1>1, <1>2 DEF TypeOK
<1>4. /\ proc'[p] = Idle
      /\ told'[p] = answer
      /\ \A q \in Procs \ {p} : proc'[q] = proc[q] /\ told'[q] = told[q]
  BY <1>2 DEF TypeOK
<1>5. Exclusive'
  BY <1>1, <1>2, <1>4 DEF Exclusive, Holding
<1> QED
  BY <1>1, <1>3, <1>4, <1>5 DEF Fits, Audited

LEMMA AnswerStep ==
    ASSUME IndInv, NEW p \in Procs, NEW answer \in Answers, Answer(p, answer),
           UNCHANGED <<lines, tail, issued, acked>>, cuts' \in 0..MaxCuts,
           answer \in {"broken", "missing"} => Damaged
    PROVE  IndInv'
<1>1. proc'[p].pc \notin {"prefix", "record", "line"}
  BY AnswerFacts DEF Idle
<1> QED
  BY <1>1, AnswerFacts, FileUntouched

\* The first half of an operation is over, and the process waits again.
LEMMA ThenStep ==
    ASSUME IndInv, NEW p \in Procs, NEW run \in RunStates, Then(p, run),
           UNCHANGED <<lines, tail, issued, acked, cuts>>,
           run.pc = "wait", run.receipt = proc[p].receipt, proc[p].pc # "idle",
           run.op = "records" => proc[p].op = "verify",
           run.op # "verify"
    PROVE  IndInv'
<1>1. /\ proc' = [proc EXCEPT ![p] = run]
      /\ UNCHANGED told
      /\ holders' = holders \ {p}
      /\ TypeOK
      /\ Exclusive
      /\ Fits(p) /\ Audited(p)
  BY DEF Then, IndInv
<1>2. TypeOK'
  BY <1>1 DEF TypeOK
<1>3. /\ proc'[p] = run
      /\ told'[p] = told[p]
      /\ \A q \in Procs \ {p} : proc'[q] = proc[q] /\ told'[q] = told[q]
  BY <1>1 DEF TypeOK
<1>4. Exclusive'
  BY <1>1, <1>3 DEF Exclusive, Holding
<1>5. Fits(p)' /\ Audited(p)'
  BY <1>1, <1>3 DEF Fits, Audited
<1>6. told'[p] \in {"broken", "missing"} => Damaged
  BY <1>3 DEF IndInv, NoFalseAlarm
<1> QED
  BY <1>2, <1>3, <1>4, <1>5, <1>6, FileUntouched

LEMMA WaitingFacts ==
    ASSUME NEW op \in Ops, NEW r \in Hashes
    PROVE  /\ Waiting(op, r) \in RunStates
           /\ Waiting(op, r).pc = "wait"
           /\ Waiting(op, r).op = op
           /\ Waiting(op, r).receipt = r
  BY BoundsAssumption DEF Waiting, RunStates, PCs, Hashes, Genesis

LEMMA BeginStep ==
    ASSUME IndInv, NEW p \in Procs, Begin(p)
    PROVE  IndInv'
<1>1. PICK run \in RunStates :
          /\ proc' = [proc EXCEPT ![p] = run]
          /\ run.pc = "wait"
          /\ run.receipt \in Ids
          /\ run.op \in {"verify", "records"} => run.receipt \in acked
          /\ issued' \in Hashes
  <2>1. CASE /\ issued < MaxReceipts
             /\ issued' = issued + 1
             /\ proc' = [proc EXCEPT ![p] = Waiting("prev", issued + 1)]
    <3>1. issued + 1 \in Ids /\ Ids \subseteq Hashes
      BY <2>1, BoundsAssumption DEF IndInv, TypeOK, Hashes, Ids
    <3>2. "prev" \in Ops
      BY DEF Ops
    <3>3. /\ Waiting("prev", issued + 1) \in RunStates
          /\ Waiting("prev", issued + 1).pc = "wait"
          /\ Waiting("prev", issued + 1).op = "prev"
          /\ Waiting("prev", issued + 1).receipt \in Ids
      BY <3>1, <3>2, WaitingFacts
    <3>4. issued' \in Hashes
      BY <2>1, <3>1
    <3> QED
      BY <2>1, <3>3, <3>4
  <2>2. CASE \E r \in acked :
                /\ proc' = [proc EXCEPT ![p] = Waiting("verify", r)]
                /\ UNCHANGED issued
    <3>1. PICK r \in acked :
             /\ proc' = [proc EXCEPT ![p] = Waiting("verify", r)]
             /\ UNCHANGED issued
      BY <2>2
    <3>2. r \in Ids /\ Ids \subseteq Hashes /\ issued' \in Hashes
      BY <3>1, BoundsAssumption DEF IndInv, TypeOK, Hashes, Ids
    <3>3. "verify" \in Ops
      BY DEF Ops
    <3>4. /\ Waiting("verify", r) \in RunStates
          /\ Waiting("verify", r).pc = "wait"
          /\ Waiting("verify", r).receipt \in Ids
          /\ Waiting("verify", r).receipt \in acked
      BY <3>1, <3>2, <3>3, WaitingFacts
    <3> QED
      BY <3>1, <3>2, <3>4
  <2> QED
    BY <2>1, <2>2 DEF Begin
<1>2. /\ TypeOK
      /\ Exclusive
      /\ proc[p].pc = "idle"
      /\ told' = [told EXCEPT ![p] = "none"]
      /\ UNCHANGED <<lines, tail, holders, acked, cuts>>
  BY DEF IndInv, Begin, fileVars
<1>3. TypeOK'
  BY <1>1, <1>2 DEF TypeOK, Answers
<1>4. /\ proc'[p] = run
      /\ told'[p] = "none"
      /\ \A q \in Procs \ {p} : proc'[q] = proc[q] /\ told'[q] = told[q]
  BY <1>1, <1>2 DEF TypeOK
<1>5. Exclusive'
  BY <1>1, <1>2, <1>4 DEF Exclusive, Holding
<1>6. Fits(p)' /\ Audited(p)'
  BY <1>1, <1>2, <1>4 DEF Fits, Audited
<1> QED
  BY <1>1, <1>2, <1>3, <1>4, <1>5, <1>6, FileUntouched

LEMMA AcquireStep ==
    ASSUME IndInv, NEW p \in Procs, Acquire(p)
    PROVE  IndInv'
<1>1. /\ TypeOK
      /\ Exclusive
      /\ Fits(p) /\ Audited(p)
      /\ proc[p].pc = "wait"
      /\ holders = {}
      /\ holders' = {p}
      /\ proc' = [proc EXCEPT ![p].pc = "held"]
      /\ UNCHANGED <<lines, tail, issued, acked, told, cuts>>
  BY DEF IndInv, Acquire, Goto, fileVars
<1>2. TypeOK'
  BY <1>1 DEF TypeOK, RunStates, PCs
<1>3. /\ proc'[p] = [proc[p] EXCEPT !.pc = "held"]
      /\ proc'[p].pc = "held"
      /\ proc'[p].op = proc[p].op
      /\ proc'[p].receipt = proc[p].receipt
      /\ \A q \in Procs \ {p} : proc'[q] = proc[q] /\ told'[q] = told[q]
  BY <1>1 DEF TypeOK, RunStates
<1>4. Exclusive'
  BY <1>1, <1>3 DEF Exclusive, Holding
<1>5. Fits(p)' /\ Audited(p)'
  BY <1>1, <1>3 DEF Fits, Audited
<1>6. told'[p] \in {"broken", "missing"} => Damaged
  BY <1>1 DEF IndInv, NoFalseAlarm
<1> QED
  BY <1>1, <1>2, <1>3, <1>4, <1>5, <1>6, FileUntouched

\* A reader holds the lock, or there is nothing to read.
LEMMA ReaderSeesDamage ==
    ASSUME IndInv, NEW p \in Procs, MayRead(p), ~Whole(Contents)
    PROVE  Damaged
<1>1. Contents # <<>>
  BY DEF Whole
<1>2. proc[p].pc = "held"
  BY <1>1 DEF MayRead
<1> QED
  BY <1>2, NobodyWrites, TornIsDamage DEF IndInv

LEMMA ReadPrevStep ==
    ASSUME IndInv, NEW p \in Procs, ReadPrev(p)
    PROVE  IndInv'
<1>1. /\ TypeOK
      /\ MayRead(p)
      /\ proc[p].op = "prev"
      /\ proc[p] \in RunStates
      /\ UNCHANGED <<lines, tail, issued, acked, cuts>>
      /\ cuts' \in 0..MaxCuts
  BY DEF IndInv, ReadPrev, TypeOK, fileVars
<1>2. CASE ~Whole(Contents)
  <2>1. Answer(p, "broken")
    BY <1>2 DEF ReadPrev
  <2> QED
    BY <1>1, <1>2, <2>1, ReaderSeesDamage, AnswerStep DEF Answers
<1>3. CASE Whole(Contents)
  <2> DEFINE run == [proc[p] EXCEPT !.pc = "wait", !.op = "append", !.after = HeadOf(Contents)]
  <2>1. Then(p, run)
    BY <1>3 DEF ReadPrev
  <2>2. HeadOf(Contents) \in Hashes
    <3>1. Contents \in Seq(Lines)
      BY <1>1, ContentsFacts
    <3> QED
      BY <3>1, BoundsAssumption DEF HeadOf, Lines, Records, Torn, Hashes, Ids, Genesis
  <2>3. run \in RunStates
    BY <1>1, <2>2 DEF RunStates, PCs, Ops
  <2>4. run.pc = "wait" /\ run.receipt = proc[p].receipt /\ run.op = "append"
    BY <1>1 DEF RunStates
  <2> QED
    BY <1>1, <2>1, <2>3, <2>4, ThenStep DEF MayRead
<1> QED
  BY <1>2, <1>3

LEMMA VerifyStep ==
    ASSUME IndInv, NEW p \in Procs, Verify(p)
    PROVE  IndInv'
<1>1. /\ TypeOK
      /\ MayRead(p)
      /\ proc[p].op = "verify"
      /\ proc[p] \in RunStates
      /\ UNCHANGED <<lines, tail, issued, acked, cuts>>
      /\ cuts' \in 0..MaxCuts
  BY DEF IndInv, Verify, TypeOK, fileVars
<1>2. CASE ~Intact(Contents)
  <2>1. Answer(p, "broken")
    BY <1>2 DEF Verify
  <2>2. Damaged
    BY <1>1, <1>2, NotIntactIsTorn, ReaderSeesDamage DEF IndInv
  <2> QED
    BY <1>1, <2>1, <2>2, AnswerStep DEF Answers
<1>3. CASE Intact(Contents)
  <2> DEFINE run == [proc[p] EXCEPT !.pc = "wait", !.op = "records"]
  <2>1. Then(p, run)
    BY <1>3 DEF Verify
  <2>2. run \in RunStates
    BY <1>1 DEF RunStates, PCs, Ops
  <2>3. run.pc = "wait" /\ run.receipt = proc[p].receipt /\ run.op = "records"
    BY <1>1 DEF RunStates
  <2> QED
    BY <1>1, <2>1, <2>2, <2>3, ThenStep DEF MayRead
<1> QED
  BY <1>2, <1>3

LEMMA AuditStep ==
    ASSUME IndInv, NEW p \in Procs, Audit(p)
    PROVE  IndInv'
<1> DEFINE answer == Judgement(Contents, proc[p].receipt)
<1>1. /\ TypeOK
      /\ MayRead(p)
      /\ proc[p].op = "records"
      /\ Answer(p, answer)
      /\ UNCHANGED <<lines, tail, issued, acked, cuts>>
      /\ cuts' \in 0..MaxCuts
  BY DEF IndInv, Audit, TypeOK, fileVars
<1>2. answer \in Answers
  BY DEF Judgement, Answers
<1>3. CASE ~Whole(Contents)
  BY <1>1, <1>2, <1>3, ReaderSeesDamage, AnswerStep
<1>4. CASE Whole(Contents)
  <2>1. answer # "broken"
    BY <1>4 DEF Judgement
  <2>2. answer = "missing" => ~InFile(proc[p].receipt)
    BY <1>4 DEF Judgement, InFile
  <2>3. proc[p].receipt \in acked
    BY <1>1 DEF IndInv, Audited, MayRead
  <2>4. answer = "missing" => Damaged
    BY <2>2, <2>3 DEF IndInv, Kept
  <2> QED
    BY <1>1, <1>2, <2>1, <2>4, AnswerStep
<1> QED
  BY <1>3, <1>4

LEMMA TimeoutStep ==
    ASSUME IndInv, NEW p \in Procs, Timeout(p)
    PROVE  IndInv'
  BY AnswerStep DEF Timeout, Answers, IndInv, TypeOK, fileVars

LEMMA CutStep ==
    ASSUME IndInv, NEW p \in Procs, Cut(p)
    PROVE  IndInv'
<1>1. cuts' \in 0..MaxCuts
  BY BoundsAssumption DEF Cut, IndInv, TypeOK
<1> QED
  BY <1>1, AnswerStep DEF Cut, Answers, fileVars

LEMMA ComposeStep ==
    ASSUME IndInv, NEW p \in Procs, Compose(p)
    PROVE  IndInv'
<1>1. /\ TypeOK
      /\ Exclusive
      /\ FileLinked
      /\ Fits(p) /\ Audited(p)
      /\ proc[p].pc = "held"
      /\ proc[p].op = "append"
      /\ proc[p] \in RunStates
      /\ UNCHANGED <<lines, tail, issued, acked, cuts>>
      /\ cuts' \in 0..MaxCuts
  BY DEF IndInv, Compose, TypeOK, fileVars
<1>2. CASE BrokenLast(Contents)
  <2>1. Answer(p, "broken")
    BY <1>2 DEF Compose
  <2>2. ~Whole(Contents)
    BY <1>1, <1>2, ContentsFacts DEF BrokenLast, Whole
  <2>3. Damaged
    BY <1>1, <2>2, NobodyWrites, TornIsDamage
  <2> QED
    BY <1>1, <2>1, <2>3, AnswerStep DEF Answers
<1>3. CASE ~BrokenLast(Contents)
  <2> DEFINE rec == NextRecord(Contents, proc[p].receipt, proc[p].after)
  <2>1. proc' = [proc EXCEPT ![p] = [proc[p] EXCEPT !.pc = "write", !.rec = rec]]
    BY <1>3 DEF Compose
  <2>2. UNCHANGED <<holders, told>>
    BY <1>3 DEF Compose
  <2>3. proc[p].receipt \in Ids /\ proc[p].after \in Hashes
    BY <1>1 DEF Fits, RunStates
  <2>4. rec \in Records /\ rec.id = proc[p].receipt /\ (tail = <<>> => Extends(rec))
    BY <1>1, <1>3, <2>3, ComposedFits
  <2> HIDE DEF rec
  <2>5. [proc[p] EXCEPT !.pc = "write", !.rec = rec] \in RunStates
    BY <1>1, <2>4 DEF RunStates, PCs
  <2>6. TypeOK'
    BY <1>1, <2>1, <2>2, <2>5 DEF TypeOK
  <2>7. /\ proc'[p].pc = "write"
        /\ proc'[p].op = "append"
        /\ proc'[p].receipt = proc[p].receipt
        /\ proc'[p].rec = rec
        /\ \A q \in Procs \ {p} : proc'[q] = proc[q] /\ told'[q] = told[q]
    BY <1>1, <2>1, <2>2 DEF TypeOK, RunStates
  <2>8. Exclusive'
    BY <1>1, <2>2, <2>7 DEF Exclusive, Holding
  <2>9. Contents' = Contents
    BY <1>1 DEF Contents, LineOf
  <2>10. Fits(p)'
    BY <1>1, <1>3, <2>3, <2>4, <2>7, <2>9 DEF Fits, BrokenLast, Extends, HeadOf
  <2>11. Audited(p)'
    BY <2>7 DEF Audited
  <2>12. told'[p] \in {"broken", "missing"} => Damaged
    BY <2>2 DEF IndInv, NoFalseAlarm
  <2> QED
    BY <1>1, <2>6, <2>7, <2>8, <2>10, <2>11, <2>12, FileUntouched
<1> QED
  BY <1>2, <1>3

----------------------------------------------------------------------------
(* Steps that write                                                        *)

\* A step of the process that writes: nobody else's part of the invariant changes.
LEMMA WriterFacts ==
    ASSUME IndInv, NEW p \in Procs, proc[p].pc \in {"write", "prefix", "record"},
           NEW pc \in {"prefix", "record", "line"}, Goto(p, pc),
           UNCHANGED <<holders, issued, acked, told, cuts>>,
           lines' \in Seq(Lines), tail' \in Seq(Lines)
    PROVE  /\ TypeOK' /\ Exclusive' /\ Audited(p)'
           /\ \A q \in Procs \ {p} : Fits(q)' /\ Audited(q)'
           /\ \A q \in Procs \ {p} : proc'[q] = proc[q] /\ proc[q].pc \notin Holding
           /\ proc'[p].pc = pc
           /\ proc'[p].receipt = proc[p].receipt
           /\ proc'[p].rec = proc[p].rec
           /\ proc[p].receipt \in Ids /\ proc[p].rec.id = proc[p].receipt
<1>1. /\ TypeOK
      /\ Exclusive
      /\ Fits(p) /\ Audited(p)
      /\ proc' = [proc EXCEPT ![p].pc = pc]
      /\ pc \in PCs
  BY DEF IndInv, Goto, PCs
<1>2. TypeOK'
  BY <1>1 DEF TypeOK, RunStates, Lines
<1>3. /\ proc'[p].pc = pc
      /\ proc'[p].op = proc[p].op
      /\ proc'[p].receipt = proc[p].receipt
      /\ proc'[p].rec = proc[p].rec
      /\ \A q \in Procs \ {p} : proc'[q] = proc[q]
  BY <1>1 DEF TypeOK, RunStates
<1>4. Exclusive'
  BY <1>1, <1>3 DEF Exclusive, Holding
<1>5. \A q \in Procs \ {p} : proc[q].pc \notin Holding
  BY <1>1 DEF Exclusive, Holding
<1>6. ASSUME NEW q \in Procs \ {p}
      PROVE  Fits(q)' /\ Audited(q)'
  <2>1. Fits(q) /\ Audited(q) /\ proc'[q] = proc[q] /\ proc[q].pc \notin Holding
    BY <1>3, <1>5 DEF IndInv
  <2> QED
    BY <2>1 DEF Fits, Audited, Holding
<1> QED
  BY <1>1, <1>2, <1>3, <1>4, <1>5, <1>6 DEF Fits, Audited

\* What is left to show of a step of the process that writes.
LEMMA WriterStep ==
    ASSUME IndInv, NEW p \in Procs, proc[p].pc \in {"write", "prefix", "record"},
           NEW pc \in {"prefix", "record", "line"}, Goto(p, pc),
           UNCHANGED <<holders, issued, acked, told, cuts>>,
           lines' \in Seq(Lines), tail' \in Seq(Lines),
           FileLinked', Fits(p)', Damaged => Damaged',
           ~Damaged' => /\ \A r \in Ids : InFile(r) => InFile(r)'
                        /\ pc = "line" => InFile(proc[p].receipt)'
    PROVE  IndInv'
<1>1. Kept'
  <2>1. SUFFICES ASSUME ~Damaged'
                 PROVE  /\ \A r \in acked : InFile(r)'
                        /\ \A q \in Procs : (proc[q].pc = "line" => InFile(proc[q].receipt))'
    BY DEF Kept, InFile
  <2>2. \A r \in acked : r \in Ids /\ InFile(r)
    BY <2>1 DEF IndInv, Kept, TypeOK
  <2>3. \A q \in Procs \ {p} : proc'[q].pc # "line"
    BY WriterFacts DEF Holding
  <2> QED
    BY <2>1, <2>2, <2>3, WriterFacts DEF InFile
<1>2. NoFalseAlarm'
  BY DEF IndInv, NoFalseAlarm
<1> QED
  BY <1>1, <1>2, WriterFacts DEF IndInv

LEMMA WritePartStep ==
    ASSUME IndInv, NEW p \in Procs, WritePart(p)
    PROVE  IndInv'
<1>1. /\ TypeOK
      /\ FileLinked
      /\ Fits(p)
      /\ proc[p].pc = "write"
      /\ Goto(p, "prefix")
      /\ tail' = Append(tail, Torn)
      /\ UNCHANGED <<lines, holders, issued, acked, told, cuts>>
      /\ lines \in Seq(Lines) /\ tail \in Seq(Lines) /\ Torn \in Lines
  BY DEF IndInv, WritePart, TypeOK, Lines
<1>2. tail' \in Seq(Lines) /\ Len(tail') = Len(tail) + 1 /\ tail' # <<>>
  BY <1>1
<1>3. /\ proc'[p].pc = "prefix"
      /\ proc'[p].receipt = proc[p].receipt
      /\ proc'[p].rec = proc[p].rec
      /\ proc[p].receipt \in Ids /\ proc[p].rec.id = proc[p].receipt
  BY <1>1, <1>2, WriterFacts
<1>4. \A i \in DOMAIN lines : LinkedAt(lines, i)
  <2>1. lines # <<>> /\ tail = <<>> => lines[Len(lines)] # Torn
    BY <1>1 DEF Fits, BrokenLast, Contents
  <2> QED
    BY <1>1, <2>1 DEF FileLinked
<1>5. Len(tail') = 1 => tail = <<>> /\ tail'[1] = Torn
  BY <1>1, <1>2
<1>6. FileLinked'
  BY <1>1, <1>4, <1>5 DEF FileLinked, LinkedAt
<1>7. Fits(p)'
  BY <1>1, <1>2, <1>3, <1>5 DEF Fits, Extends, HeadOf
<1>8. Damaged => Damaged'
  BY <1>1, <1>2 DEF Damaged
<1>9. ASSUME ~Damaged', NEW r \in Ids, InFile(r)
      PROVE  InFile(r)'
  <2>1. tail = <<>>
    BY <1>1, <1>2, <1>9 DEF Damaged
  <2>2. Contents' = Append(lines, Torn) /\ Contents = lines
    BY <1>1, <1>2, <2>1 DEF Contents, LineOf
  <2>3. PICK j \in DOMAIN lines : lines[j].id = r
    BY <1>9, <2>2 DEF InFile
  <2>4. j \in DOMAIN Contents' /\ Contents'[j] = lines[j]
    BY <1>1, <2>2, <2>3
  <2> QED
    BY <2>3, <2>4 DEF InFile
<1> QED
  BY <1>1, <1>2, <1>6, <1>7, <1>8, <1>9, WriterStep

LEMMA WriteRestStep ==
    ASSUME IndInv, NEW p \in Procs, WriteRest(p)
    PROVE  IndInv'
<1> DEFINE rec == proc[p].rec
<1>1. /\ TypeOK
      /\ FileLinked
      /\ Fits(p)
      /\ proc[p].pc = "prefix"
      /\ Goto(p, "record")
      /\ tail' = [tail EXCEPT ![Len(tail)] = rec]
      /\ UNCHANGED <<lines, holders, issued, acked, told, cuts>>
      /\ lines \in Seq(Lines) /\ tail \in Seq(Lines) /\ rec \in Lines
      /\ tail # <<>>
  BY DEF IndInv, WriteRest, TypeOK, Lines, RunStates, Fits
<1>2. tail' \in Seq(Lines) /\ Len(tail') = Len(tail) /\ tail' # <<>>
  BY <1>1
<1>3. /\ proc'[p].pc = "record"
      /\ proc'[p].receipt = proc[p].receipt
      /\ proc'[p].rec = rec
      /\ proc[p].receipt \in Ids /\ rec.id = proc[p].receipt
  BY <1>1, <1>2, WriterFacts
<1>4. Len(tail') = 1 => tail'[1] = rec /\ tail[1] = Torn /\ Extends(rec)
  BY <1>1, <1>2 DEF Fits
<1>5. FileLinked'
  BY <1>1, <1>2, <1>4 DEF FileLinked, LinkedAt, Extends, HeadOf
<1>6. Fits(p)'
  BY <1>2, <1>3, <1>4 DEF Fits
<1>7. Damaged => Damaged'
  BY <1>1, <1>2 DEF Damaged
<1>8. ASSUME ~Damaged', NEW r \in Ids, InFile(r)
      PROVE  InFile(r)'
  <2>1. Len(tail) = 1
    BY <1>1, <1>2, <1>8 DEF Damaged
  <2>2. Contents = Append(lines, Torn) /\ Contents' = Append(lines, rec)
    BY <1>1, <1>2, <1>4, <2>1 DEF Contents, LineOf
  <2>3. PICK i \in DOMAIN Contents : Contents[i].id = r
    BY <1>8 DEF InFile
  <2>4. Torn.id # r
    BY BoundsAssumption DEF Torn, Ids
  <2>5. i \in DOMAIN lines
    BY <1>1, <2>2, <2>3, <2>4
  <2> QED
    BY <1>1, <2>2, <2>3, <2>5 DEF InFile
<1> QED
  BY <1>1, <1>2, <1>5, <1>6, <1>7, <1>8, WriterStep

LEMMA WriteNewlineStep ==
    ASSUME IndInv, NEW p \in Procs, WriteNewline(p)
    PROVE  IndInv'
<1>1. /\ TypeOK
      /\ FileLinked
      /\ Fits(p)
      /\ proc[p].pc = "record"
      /\ Goto(p, "line")
      /\ lines' = Append(lines, LineOf(tail))
      /\ tail' = <<>>
      /\ UNCHANGED <<holders, issued, acked, told, cuts>>
      /\ lines \in Seq(Lines) /\ tail \in Seq(Lines)
      /\ tail # <<>>
  BY DEF IndInv, WriteNewline, TypeOK, Lines, Fits
<1>2. LineOf(tail) \in Lines /\ Contents = lines'
  BY <1>1, ContentsFacts DEF Contents
<1>3. lines' \in Seq(Lines) /\ tail' \in Seq(Lines) /\ Contents' = lines'
  BY <1>1, <1>2 DEF Contents
<1>4. /\ proc'[p].pc = "line"
      /\ proc'[p].receipt = proc[p].receipt
      /\ proc[p].receipt \in Ids /\ proc[p].rec.id = proc[p].receipt
  BY <1>1, <1>3, WriterFacts
<1>5. FileLinked'
  BY <1>1, <1>2, <1>3, FileIsLinked DEF FileLinked, Linked, LinkedAt
<1>6. Fits(p)'
  BY <1>4 DEF Fits
<1>7. Damaged => Damaged'
  <2>1. CASE ~Whole(lines)
    <3>1. PICK i \in DOMAIN lines : lines[i] = Torn
      BY <2>1 DEF Whole
    <3>2. i \in DOMAIN lines' /\ lines'[i] = Torn
      BY <1>1, <1>2, <3>1
    <3> QED
      BY <3>2 DEF Damaged, Whole
  <2>2. CASE Len(tail) > 1
    <3>0. tail \in Seq(Lines)
      BY <1>1
    <3>1. LineOf(tail) = Torn
      BY <2>2, <3>0 DEF LineOf
    <3>2. Len(lines) + 1 \in DOMAIN lines' /\ lines'[Len(lines) + 1] = Torn
      BY <1>1, <1>2, <3>1
    <3> QED
      BY <3>2 DEF Damaged, Whole
  <2> QED
    BY <1>1, <2>1, <2>2 DEF Damaged
<1>8. ASSUME ~Damaged'
      PROVE  InFile(proc[p].receipt)'
  <2>1. Len(tail) = 1
    <3>1. ~(Len(tail) > 1)
      BY <1>7, <1>8 DEF Damaged
    <3>2. tail \in Seq(Lines) /\ tail # <<>>
      BY <1>1
    <3>3. Len(tail) \in Nat /\ Len(tail) # 0
      BY <3>2
    <3> QED
      BY <3>1, <3>3
  <2>2. LineOf(tail) = proc[p].rec
    BY <1>1, <2>1 DEF Fits, LineOf
  <2>3. Len(lines) + 1 \in DOMAIN Contents' /\ Contents'[Len(lines) + 1] = proc[p].rec
    BY <1>1, <1>2, <1>3, <2>2
  <2> QED
    BY <1>4, <2>3 DEF InFile
<1>9. \A r \in Ids : InFile(r) => InFile(r)'
  BY <1>2, <1>3 DEF InFile
<1> QED
  BY <1>1, <1>3, <1>5, <1>6, <1>7, <1>8, <1>9, WriterStep

LEMMA AcknowledgeStep ==
    ASSUME IndInv, NEW p \in Procs, Acknowledge(p)
    PROVE  IndInv'
<1>1. /\ TypeOK
      /\ Exclusive
      /\ Fits(p)
      /\ proc[p].pc = "line"
      /\ acked' = acked \cup {proc[p].receipt}
      /\ proc[p].receipt \in Ids
      /\ proc' = [proc EXCEPT ![p] = Idle]
      /\ told' = [told EXCEPT ![p] = "issued"]
      /\ holders' = holders \ {p}
      /\ UNCHANGED <<lines, tail, issued, cuts>>
  BY DEF IndInv, Acknowledge, Answer, Fits, fileVars
<1>2. Idle \in RunStates /\ Idle.pc = "idle"
  BY BoundsAssumption DEF Idle, RunStates, PCs, Ops, Hashes, Genesis
<1>3. TypeOK'
  BY <1>1, <1>2 DEF TypeOK, Answers
<1>4. /\ proc'[p] = Idle
      /\ told'[p] = "issued"
      /\ \A q \in Procs \ {p} : proc'[q] = proc[q] /\ told'[q] = told[q]
  BY <1>1 DEF TypeOK
<1>5. Exclusive'
  BY <1>1, <1>2, <1>4 DEF Exclusive, Holding
<1>6. Contents' = Contents
  BY <1>1 DEF Contents, LineOf
<1>7. FileLinked'
  BY <1>1 DEF IndInv, FileLinked, LinkedAt, Extends, HeadOf
<1>8. Damaged <=> Damaged'
  BY <1>1, <1>2, <1>4 DEF Damaged, Whole
<1>9. \A q \in Procs : Fits(q)' /\ Audited(q)'
  <2>1. ASSUME NEW q \in Procs \ {p}
        PROVE  Fits(q)' /\ Audited(q)'
    <3>1. Fits(q) /\ Audited(q) /\ proc'[q] = proc[q]
      BY <1>4 DEF IndInv
    <3> QED
      BY <1>1, <1>6, <3>1 DEF Fits, Audited, BrokenLast, Extends, HeadOf
  <2>2. Fits(p)' /\ Audited(p)'
    BY <1>2, <1>4 DEF Fits, Audited
  <2> QED
    BY <2>1, <2>2
<1>10. Kept'
  <2>1. \A q \in Procs : proc'[q].pc = "line" => proc'[q] = proc[q] /\ proc[q].pc = "line"
    BY <1>2, <1>4
  <2> QED
    BY <1>1, <1>6, <1>8, <2>1 DEF IndInv, Kept, InFile
<1>11. NoFalseAlarm'
  BY <1>4, <1>8 DEF IndInv, NoFalseAlarm
<1> QED
  BY <1>3, <1>5, <1>7, <1>9, <1>10, <1>11 DEF IndInv

----------------------------------------------------------------------------
(* The theorems                                                            *)

LEMMA InitIndInv == Init => IndInv
<1> SUFFICES ASSUME Init PROVE IndInv
  OBVIOUS
<1>1. /\ lines = <<>> /\ tail = <<>> /\ holders = {} /\ issued = 0 /\ acked = {} /\ cuts = 0
      /\ proc = [p \in Procs |-> Idle]
      /\ told = [p \in Procs |-> "none"]
  BY DEF Init
<1>2. Idle \in RunStates /\ Idle.pc = "idle"
  BY BoundsAssumption DEF Idle, RunStates, PCs, Ops, Hashes, Genesis
<1>3. TypeOK
  BY <1>1, <1>2, BoundsAssumption DEF TypeOK, Hashes, Answers
<1>4. Exclusive /\ FileLinked /\ NoFalseAlarm /\ Kept
  BY <1>1, <1>2 DEF Exclusive, Holding, FileLinked, NoFalseAlarm, Kept
<1>5. \A p \in Procs : Fits(p) /\ Audited(p)
  BY <1>1, <1>2 DEF Fits, Audited
<1> QED
  BY <1>3, <1>4, <1>5 DEF IndInv

LEMMA NextIndInv == IndInv /\ [Next]_vars => IndInv'
<1> SUFFICES ASSUME IndInv, [Next]_vars PROVE IndInv'
  OBVIOUS
<1>1. CASE UNCHANGED vars
  BY <1>1 DEF vars, IndInv, TypeOK, Exclusive, FileLinked, LinkedAt, Extends, HeadOf, Fits,
      Audited, Kept, InFile, NoFalseAlarm, Damaged, Whole, BrokenLast, Contents, LineOf
<1>2. ASSUME NEW p \in Procs, Begin(p) \/ Step(p) \/ Cut(p)
      PROVE  IndInv'
  BY <1>2, BeginStep, AcquireStep, TimeoutStep, ReadPrevStep, VerifyStep, AuditStep, ComposeStep,
      WritePartStep, WriteRestStep, WriteNewlineStep, AcknowledgeStep, CutStep DEF Step
<1> QED
  BY <1>1, <1>2 DEF Next

LEMMA Invariance == Spec => []IndInv
  BY InitIndInv, NextIndInv, PTL DEF Spec

\* The file, the lock and what every process keeps stay well-formed (chain.py).
THEOREM LedgerTypeCorrect == Spec => []TypeOK
<1>1. IndInv => TypeOK
  BY DEF IndInv
<1> QED
  BY <1>1, Invariance, PTL

\* The hash chain is unbroken up to its last line: appends of any number of
\* processes, cut off anywhere, never fork it, reorder it or leave a gap in it.
THEOREM ChainIsLinked == Spec => []Linked
<1>1. IndInv => Linked
  BY FileIsLinked DEF IndInv
<1> QED
  BY <1>1, Invariance, PTL

\* A reader or a writer that is told of a broken ledger, or of a missing receipt, is
\* told the truth: some write was cut off in the middle of its line.
THEOREM AlarmsAreTrue == Spec => []NoFalseAlarm
<1>1. IndInv => NoFalseAlarm
  BY DEF IndInv
<1> QED
  BY <1>1, Invariance, PTL

----------------------------------------------------------------------------
(* How much an undetected cut may cost: one record                         *)

\* A record with its newline in the file, and the records whose writers count on it.
Saved(r) == \E i \in DOMAIN lines : lines[i].id = r
Claimed == acked \cup {proc[p].receipt : p \in {p \in Procs : proc[p].pc = "line"}}

\* A claimed record is saved, unless it was glued to the one before it: that leaves
\* a line that is no record, behind which nobody writes.
AllButOne ==
    /\ Whole(lines) => \A r \in Claimed : Saved(r)
    /\ \A r, q \in Claimed : ~Saved(r) /\ ~Saved(q) => r = q

\* Behind a line that is no record nobody is about to write.
LEMMA WritersSeeRecords ==
    ASSUME IndInv, NEW p \in Procs, proc[p].pc \in {"write", "prefix", "record"}
    PROVE  Whole(lines)
<1>1. TypeOK /\ FileLinked /\ Fits(p) /\ lines \in Seq(Lines)
  BY DEF IndInv, TypeOK, Lines
<1>2. CASE tail # <<>>
  BY <1>1, <1>2 DEF FileLinked, LinkedAt, Whole
<1>3. CASE tail = <<>>
  <2>1. Contents = lines /\ ~BrokenLast(lines)
    BY <1>1, <1>3, ContentsFacts DEF Fits
  <2> QED
    BY <1>1, <2>1 DEF FileLinked, LinkedAt, Whole, BrokenLast
<1> QED
  BY <1>2, <1>3

LEMMA ClaimsKept ==
    ASSUME AllButOne, UNCHANGED lines, Claimed' \subseteq Claimed
    PROVE  AllButOne'
BY DEF AllButOne, Whole, Saved

\* Steps of a process that does not stand behind its newline afterwards.
LEMMA NoNewClaim ==
    ASSUME AllButOne, UNCHANGED <<lines, acked>>, NEW p \in Procs, proc'[p].pc # "line",
           \A q \in Procs \ {p} : proc'[q] = proc[q]
    PROVE  AllButOne'
<1>1. Claimed' \subseteq Claimed
  BY DEF Claimed
<1> QED
  BY <1>1, ClaimsKept

LEMMA NewlineClaims ==
    ASSUME IndInv, AllButOne, NEW p \in Procs, WriteNewline(p)
    PROVE  AllButOne'
<1>1. /\ TypeOK /\ FileLinked /\ Fits(p) /\ proc[p].pc = "record"
      /\ lines' = Append(lines, LineOf(tail)) /\ lines \in Seq(Lines) /\ tail \in Seq(Lines)
      /\ proc' = [proc EXCEPT ![p].pc = "line"] /\ acked' = acked /\ tail # <<>>
  BY DEF IndInv, WriteNewline, Goto, TypeOK, Lines, Fits
<1>2. Whole(lines) /\ LineOf(tail) \in Lines
  BY <1>1, WritersSeeRecords, ContentsFacts
<1>3. /\ proc'[p].receipt = proc[p].receipt
      /\ \A q \in Procs \ {p} : proc'[q] = proc[q]
  BY <1>1 DEF TypeOK, RunStates
<1>4. \A r \in Claimed' : r \in Claimed \/ r = proc[p].receipt
  BY <1>1, <1>3 DEF Claimed
<1>5. \A r \in Claimed : Saved(r)
  BY <1>2 DEF AllButOne
<1>6. \A i \in DOMAIN lines : i \in DOMAIN lines' /\ lines'[i] = lines[i]
  BY <1>1, <1>2
<1>7. \A r \in Claimed : Saved(r)'
  BY <1>5, <1>6 DEF Saved
<1>8. Len(lines) + 1 \in DOMAIN lines' /\ lines'[Len(lines) + 1] = LineOf(tail)
  BY <1>1, <1>2
<1>9. Whole(lines)' => Saved(proc[p].receipt)'
  <2> SUFFICES ASSUME Whole(lines)' PROVE Saved(proc[p].receipt)'
    OBVIOUS
  <2>1. LineOf(tail) # Torn
    BY <1>8 DEF Whole
  <2>2. Len(tail) = 1
    BY <2>1 DEF LineOf
  <2>3. LineOf(tail) = proc[p].rec /\ proc[p].rec.id = proc[p].receipt
    BY <1>1, <2>2 DEF LineOf, Fits
  <2> QED
    BY <1>3, <1>8, <2>3 DEF Saved
<1> QED
  BY <1>3, <1>4, <1>7, <1>9 DEF AllButOne

LEMMA AllButOneStep == IndInv /\ AllButOne /\ [Next]_vars => AllButOne'
<1> SUFFICES ASSUME IndInv, AllButOne, [Next]_vars PROVE AllButOne'
  OBVIOUS
<1>1. CASE UNCHANGED vars
  BY <1>1, ClaimsKept DEF vars, Claimed
<1>2. ASSUME NEW p \in Procs, Begin(p) \/ Step(p) \/ Cut(p) PROVE AllButOne'
  <2>0. /\ proc \in [Procs -> RunStates] /\ Idle.pc = "idle"
        /\ \A op, r : Waiting(op, r).pc = "wait"
    BY DEF IndInv, TypeOK, Idle, Waiting
  <2>1. CASE Begin(p)
    BY <2>0, <2>1, NoNewClaim DEF Begin, fileVars
  <2>2. CASE Acquire(p)
    BY <2>0, <2>2, NoNewClaim DEF Acquire, Goto, fileVars, RunStates
  <2>3. CASE Timeout(p) \/ Audit(p) \/ Cut(p)
    BY <2>0, <2>3, NoNewClaim DEF Timeout, Audit, Cut, Answer, fileVars
  <2>4. CASE ReadPrev(p) \/ Verify(p)
    <3>1. CASE Answer(p, "broken")
      BY <2>0, <2>4, <3>1, NoNewClaim DEF ReadPrev, Verify, Answer, fileVars
    <3>2. CASE Then(p, [proc[p] EXCEPT !.pc = "wait", !.op = "append", !.after = HeadOf(Contents)])
      BY <2>0, <2>4, <3>2, NoNewClaim DEF ReadPrev, Verify, Then, fileVars, RunStates
    <3>3. CASE Then(p, [proc[p] EXCEPT !.pc = "wait", !.op = "records"])
      BY <2>0, <2>4, <3>3, NoNewClaim DEF ReadPrev, Verify, Then, fileVars, RunStates
    <3> QED
      BY <2>4, <3>1, <3>2, <3>3 DEF ReadPrev, Verify
  <2>5. CASE Compose(p)
    <3> DEFINE rec == NextRecord(Contents, proc[p].receipt, proc[p].after)
    <3>1. CASE Answer(p, "broken")
      BY <2>0, <2>5, <3>1, NoNewClaim DEF Compose, Answer, fileVars
    <3>2. CASE proc' = [proc EXCEPT ![p] = [proc[p] EXCEPT !.pc = "write", !.rec = rec]]
      <4> HIDE DEF rec
      <4> QED
        BY <2>0, <2>5, <3>2, NoNewClaim DEF Compose, fileVars, RunStates
    <3> QED
      BY <2>5, <3>1, <3>2 DEF Compose
  <2>6. CASE WritePart(p) \/ WriteRest(p)
    BY <2>0, <2>6, NoNewClaim DEF WritePart, WriteRest, Goto, RunStates
  <2>7. CASE WriteNewline(p)
    BY <2>7, NewlineClaims
  <2>8. CASE Acknowledge(p)
    <3>1. UNCHANGED lines /\ Claimed' \subseteq Claimed
      BY <2>0, <2>8 DEF Acknowledge, Answer, Claimed, fileVars
    <3> QED
      BY <3>1, ClaimsKept
  <2> QED
    BY <1>2, <2>1, <2>2, <2>3, <2>4, <2>5, <2>6, <2>7, <2>8 DEF Step
<1> QED
  BY <1>1, <1>2 DEF Next

\* A record whose append has returned is lost only when it was written behind a line
\* whose newline a kill cut off, and the ledger loses no second one that way.
THEOREM AtMostOneIsLost == Spec => []AckedKept
<1>1. Init => AllButOne
  BY DEF Init, AllButOne, Claimed, Saved, Idle
<1>2. ASSUME IndInv, AllButOne PROVE AckedKept
  <2> DEFINE lost == acked \ {Contents[i].id : i \in DOMAIN Contents}
  <2> SUFFICES ASSUME lost # {} PROVE Damaged /\ Cardinality(lost) = 1
    BY DEF AckedKept
  <2>1. \A r \in lost : r \in Claimed /\ ~Saved(r)
    <3>1. lines \in Seq(Lines) /\ TypeOK
      BY <1>2 DEF IndInv, TypeOK, Lines
    <3>2. \A i \in DOMAIN lines : i \in DOMAIN Contents /\ Contents[i] = lines[i]
      BY <3>1, ContentsFacts
    <3> QED
      BY <3>2 DEF Saved, Claimed
  <2>2. Damaged
    BY <1>2, <2>1 DEF AllButOne, Damaged
  <2>3. PICK r \in lost : TRUE
    OBVIOUS
  <2>4. lost = {r}
    BY <1>2, <2>1, <2>3 DEF AllButOne
  <2> QED
    BY <2>2, <2>4, FS_Singleton
<1> QED
  BY <1>1, <1>2, AllButOneStep, Invariance, PTL DEF Spec
=============================================================================
