--------------------------- MODULE ReceiptLedger ---------------------------
(***************************************************************************)
(* The hash chain of chain.py with the receipt ledger on top of it: several *)
(* processes issue receipts and audit them at the same time, a write may be *)
(* cut off at any point (a kill, a full disk), and waiting for the file    *)
(* lock may time out.                                                      *)
(*                                                                         *)
(* A record's hash is its number: hashes are taken to be collision-free.   *)
(* What fsync has returned for is taken to survive.                        *)
(***************************************************************************)
EXTENDS Naturals, Sequences, FiniteSets

CONSTANTS
    Procs,        \* processes that issue or audit receipts
    MaxReceipts,  \* bound on the records written
    MaxCuts       \* bound on the operations cut off

ASSUME BoundsAssumption == MaxReceipts \in Nat /\ MaxCuts \in Nat

Genesis == 0
Ids == 1..MaxReceipts
Hashes == 0..MaxReceipts

\* A record of the ledger: `after` is the prev_receipt_hash in the receipt it holds.
Records == [id: Ids, seq: Nat, prev: Hashes, after: Hashes]

\* A line, or a part of one, that is not a record.
Torn == [id |-> 0, seq |-> 0, prev |-> 0, after |-> 0]

VARIABLES
    lines,    \* the lines of the file that end in a newline
    tail,     \* what was written after the last newline
    holders,  \* who holds the lock file
    issued,   \* how many receipts were begun; they are numbered in that order
    acked,    \* records whose append has returned
    proc,     \* what each process is doing
    told,     \* what its last operation ended with
    cuts

vars == <<lines, tail, holders, issued, acked, proc, told, cuts>>
fileVars == <<lines, tail>>

PCs == {"idle", "wait", "held", "write", "prefix", "record", "line"}
Ops == {"prev", "append", "verify", "records"}
Answers == {"none", "issued", "ok", "broken", "missing", "mismatch", "timeout"}
Idle == [pc |-> "idle", op |-> "prev", after |-> Genesis, receipt |-> 0, rec |-> Torn]
Waiting(op, r) == [pc |-> "wait", op |-> op, after |-> Genesis, receipt |-> r, rec |-> Torn]

Init ==
    /\ lines = <<>>
    /\ tail = <<>>
    /\ holders = {}
    /\ issued = 0
    /\ acked = {}
    /\ proc = [p \in Procs |-> Idle]
    /\ told = [p \in Procs |-> "none"]
    /\ cuts = 0

----------------------------------------------------------------------------
(* Reading the file                                                        *)

\* The last line as readers see it: two records without a newline between
\* them are not valid JSON.
LineOf(parts) == IF Len(parts) = 1 THEN parts[1] ELSE Torn
Contents == IF tail = <<>> THEN lines ELSE Append(lines, LineOf(tail))

Whole(records) == \A i \in DOMAIN records : records[i] # Torn

\* HashChain.verify.
Intact(records) ==
    /\ Whole(records)
    /\ \A i \in DOMAIN records :
          /\ records[i].seq = i - 1
          /\ records[i].prev = IF i = 1 THEN Genesis ELSE records[i - 1].id

\* Ledger.prev_receipt_hash (the ledger holds receipts only).
HeadOf(records) == IF records = <<>> THEN Genesis ELSE records[Len(records)].id

\* _last_unlocked cannot parse the last line.
BrokenLast(records) == records # <<>> /\ records[Len(records)] = Torn

\* Faulty variant: the record's own hash and its predecessor's are swapped.
FaultyNextRecord(records, r, after) ==
    [id |-> HeadOf(records), prev |-> r, after |-> after,
     seq |-> IF records = <<>> THEN 0 ELSE records[Len(records)].seq + 1]

\* append's record: it links to the last one, or is the first.
NextRecord(records, r, after) ==
    [id |-> r, prev |-> HeadOf(records), after |-> after,
     seq |-> IF records = <<>> THEN 0 ELSE records[Len(records)].seq + 1]

Goto(p, pc) == proc' = [proc EXCEPT ![p].pc = pc]

\* The operation returns or raises, and lets go of the lock if it has it.
Answer(p, answer) ==
    /\ proc' = [proc EXCEPT ![p] = Idle]
    /\ told' = [told EXCEPT ![p] = answer]
    /\ holders' = holders \ {p}

\* The first half of an operation is over: the lock is released and taken again.
Then(p, run) ==
    /\ proc' = [proc EXCEPT ![p] = run]
    /\ holders' = holders \ {p}
    /\ UNCHANGED told

----------------------------------------------------------------------------
(* Actions                                                                 *)

\* A saga is about to compose its receipt, or somebody verifies a receipt.
Begin(p) ==
    /\ proc[p].pc = "idle"
    /\ \/ /\ issued < MaxReceipts
          /\ issued' = issued + 1
          /\ proc' = [proc EXCEPT ![p] = Waiting("prev", issued + 1)]
       \/ \E r \in acked :
             /\ proc' = [proc EXCEPT ![p] = Waiting("verify", r)]
             /\ UNCHANGED issued
    /\ told' = [told EXCEPT ![p] = "none"]
    /\ UNCHANGED <<fileVars, holders, acked, cuts>>

\* Faulty variant: the lock does not exclude others.
FaultyAcquire(p) ==
    /\ proc[p].pc = "wait"
    /\ holders' = holders \cup {p}
    /\ Goto(p, "held")
    /\ UNCHANGED <<fileVars, issued, acked, told, cuts>>

\* file_lock.
Acquire(p) ==
    /\ proc[p].pc = "wait"
    /\ holders = {}
    /\ holders' = {p}
    /\ Goto(p, "held")
    /\ UNCHANGED <<fileVars, issued, acked, told, cuts>>

\* Faulty variant: the lock is tried again for as long as it takes.
FaultyTimeout(p) ==
    /\ proc[p].pc = "wait"
    /\ holders # {}
    /\ UNCHANGED vars

\* The deadline passes while somebody else holds the lock.
Timeout(p) ==
    /\ proc[p].pc = "wait"
    /\ holders # {}
    /\ Answer(p, "timeout")
    /\ UNCHANGED <<fileVars, issued, acked, cuts>>

\* Faulty variant: the tail is read without the lock.
FaultyMayRead(p) == proc[p].pc \in {"wait", "held"}

\* read takes the lock, unless there is no file yet.
MayRead(p) == proc[p].pc = "held" \/ (proc[p].pc = "wait" /\ Contents = <<>>)

\* The saga asks for the hash of the last receipt, which it puts into its own.
ReadPrev(p) ==
    /\ proc[p].op = "prev"
    /\ MayRead(p)
    /\ \/ /\ Whole(Contents)
          /\ Then(p, [proc[p] EXCEPT !.pc = "wait", !.op = "append",
                                     !.after = HeadOf(Contents)])
       \/ /\ ~Whole(Contents)
          /\ Answer(p, "broken")
    /\ UNCHANGED <<fileVars, issued, acked, cuts>>

\* _check_chain, first half: every hash and every link.
Verify(p) ==
    /\ proc[p].op = "verify"
    /\ MayRead(p)
    /\ \/ /\ Intact(Contents)
          /\ Then(p, [proc[p] EXCEPT !.pc = "wait", !.op = "records"])
       \/ /\ ~Intact(Contents)
          /\ Answer(p, "broken")
    /\ UNCHANGED <<fileVars, issued, acked, cuts>>

\* _check_chain, second half: where the receipt is, and what it comes after.
Judgement(records, r) ==
    IF ~Whole(records) THEN "broken"
    ELSE IF \A i \in DOMAIN records : records[i].id # r THEN "missing"
    ELSE IF \A i \in DOMAIN records :
               records[i].id = r => records[i].after = HeadOf(SubSeq(records, 1, i - 1))
         THEN "ok" ELSE "mismatch"

Audit(p) ==
    /\ proc[p].op = "records"
    /\ MayRead(p)
    /\ Answer(p, Judgement(Contents, proc[p].receipt))
    /\ UNCHANGED <<fileVars, issued, acked, cuts>>

\* append, under the lock: the last line is read, and the new record linked to it.
Compose(p) ==
    /\ proc[p].op = "append"
    /\ proc[p].pc = "held"
    /\ \/ /\ BrokenLast(Contents)
          /\ Answer(p, "broken")
       \/ /\ ~BrokenLast(Contents)
          /\ proc' = [proc EXCEPT ![p] =
               [@ EXCEPT !.pc = "write",
                         !.rec = NextRecord(Contents, proc[p].receipt, proc[p].after)]]
          /\ UNCHANGED <<holders, told>>
    /\ UNCHANGED <<fileVars, issued, acked, cuts>>

\* Faulty variant: the file is rewritten, not appended to.
FaultyWritePart(p) ==
    /\ proc[p].pc = "write"
    /\ lines' = <<>>
    /\ tail' = <<Torn>>
    /\ Goto(p, "prefix")
    /\ UNCHANGED <<holders, issued, acked, told, cuts>>

\* The line reaches the file: a part of the record, the record, its newline.
WritePart(p) ==
    /\ proc[p].pc = "write"
    /\ tail' = Append(tail, Torn)
    /\ Goto(p, "prefix")
    /\ UNCHANGED <<lines, holders, issued, acked, told, cuts>>

WriteRest(p) ==
    /\ proc[p].pc = "prefix"
    /\ tail' = [tail EXCEPT ![Len(tail)] = proc[p].rec]
    /\ Goto(p, "record")
    /\ UNCHANGED <<lines, holders, issued, acked, told, cuts>>

WriteNewline(p) ==
    /\ proc[p].pc = "record"
    /\ lines' = Append(lines, LineOf(tail))
    /\ tail' = <<>>
    /\ Goto(p, "line")
    /\ UNCHANGED <<holders, issued, acked, told, cuts>>

\* fsync has returned: the record is acknowledged and the lock released.
Acknowledge(p) ==
    /\ proc[p].pc = "line"
    /\ acked' = acked \cup {proc[p].receipt}
    /\ Answer(p, "issued")
    /\ UNCHANGED <<fileVars, issued, cuts>>

\* The process is killed, or the write raises: flock and the file descriptor
\* are released, what was written stays written.
Cut(p) ==
    /\ proc[p].pc # "idle"
    /\ cuts < MaxCuts
    /\ cuts' = cuts + 1
    /\ Answer(p, "none")
    /\ UNCHANGED <<fileVars, issued, acked>>

\* What a process that has begun goes on to do.
Step(p) ==
    \/ Acquire(p) \/ Timeout(p)
    \/ ReadPrev(p) \/ Verify(p) \/ Audit(p)
    \/ Compose(p) \/ WritePart(p) \/ WriteRest(p) \/ WriteNewline(p) \/ Acknowledge(p)

Next == \E p \in Procs : Begin(p) \/ Step(p) \/ Cut(p)

Spec == Init /\ [][Next]_vars
FairSpec == Spec /\ \A p \in Procs : WF_vars(Step(p))

----------------------------------------------------------------------------
(* Properties                                                              *)

RunStates ==
    [pc: PCs, op: Ops, after: Hashes, receipt: Hashes, rec: Records \cup {Torn}]

TypeOK ==
    /\ lines \in Seq(Records \cup {Torn})
    /\ tail \in Seq(Records \cup {Torn})
    /\ holders \subseteq Procs
    /\ issued \in Hashes
    /\ acked \subseteq Ids
    /\ proc \in [Procs -> RunStates]
    /\ told \in [Procs -> Answers]
    /\ cuts \in 0..MaxCuts

\* Every record links to the one before it, whoever wrote the two and whatever
\* was cut off in between: only the last line can fail to be a record.
Linked ==
    \A i \in DOMAIN Contents :
        \/ Contents[i] = Torn /\ i = Len(Contents)
        \/ /\ Contents[i] # Torn
           /\ Contents[i].seq = i - 1
           /\ Contents[i].prev = IF i = 1 THEN Genesis ELSE Contents[i - 1].id

\* A write was cut off in the middle of its line (once so, always so).
Damaged ==
    \/ ~Whole(lines)
    \/ Len(tail) > 1
    \/ tail # <<>> /\ \A p \in Procs : proc[p].pc \notin {"prefix", "record"}

\* Nobody is told that the ledger is broken, or that an acknowledged receipt is
\* not in it, because somebody else was in the middle of a write (chain.py:131-139).
NoFalseAlarm ==
    \A p \in Procs : told[p] \in {"broken", "missing"} => Damaged

\* Every acknowledged record stays in the file, but for at most one: a record
\* written behind a line whose newline was cut off.
AckedKept ==
    LET lost == acked \ {Contents[i].id : i \in DOMAIN Contents}
    IN  lost # {} => Damaged /\ Cardinality(lost) = 1

\* Every call comes back, with its answer, ChainBroken or LockTimeout, however
\* unfair the lock is and whoever is killed while holding it.
CallsReturn == \A p \in Procs : proc[p].pc # "idle" ~> proc[p].pc = "idle"
============================================================================
