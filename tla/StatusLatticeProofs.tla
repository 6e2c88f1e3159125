------------------------ MODULE StatusLatticeProofs ------------------------
(***************************************************************************)
(* What StatusLattice guarantees for any number of sagas, kills, raising     *)
(* steps and changes of other subjects' data, and whatever the stores do,    *)
(* proved with TLAPS.                                                        *)
(***************************************************************************)
EXTENDS StatusLattice, FiniteSetTheorems, WellFoundedInduction, TLAPS

----------------------------------------------------------------------------
(* Reading the journal, one record after the other                         *)

\* Every non-empty set of numbers has a least one.
LEMMA LeastNumber ==
    ASSUME NEW S \in SUBSET Nat, S # {}
    PROVE  \E n \in S : \A m \in S : n <= m
<1> DEFINE T == {1..n : n \in S}
<1>1. T \subseteq FiniteSubsetsOf(Nat) /\ T # {}
  <2>1. \A n \in Nat : IsFiniteSet(1..n) /\ 1..n \subseteq Nat
    BY FS_Interval
  <2> QED
    BY <2>1 DEF FiniteSubsetsOf
<1>2. PICK X \in T : \A Y \in T : ~(<<Y, X>> \in StrictSubsetOrdering(Nat))
  <2> HIDE DEF T
  <2> QED
    BY <1>1, FS_StrictSubsetOrderingWellFounded, WFMin
<1>3. PICK n \in S : X = 1..n
  OBVIOUS
<1>4. ASSUME NEW m \in S, ~(n <= m) PROVE FALSE
  <2>1. 1..m \subseteq 1..n /\ n \in 1..n /\ n \notin 1..m
    BY <1>4
  <2>2. <<1..m, X>> \in StrictSubsetOrdering(Nat)
    BY <1>1, <1>3, <2>1 DEF StrictSubsetOrdering
  <2> QED
    BY <1>2, <2>2
<1> QED
  BY <1>4

\* What is known after n records, from what told says is known after fewer.
Stage(reader, id, facts, records, told, n) ==
    IF n = 0 THEN facts ELSE Reads(reader, id, told[n - 1], records[n])

\* The recursive definition defines a function, for every number of records.
LEMMA ToldStages ==
    ASSUME NEW reader, NEW id, NEW facts, NEW records, Len(records) \in Nat
    PROVE  \E told : /\ \A n \in 0..Len(records) :
                           told[n] = Stage(reader, id, facts, records, told, n)
                     /\ Told(reader, id, facts, records) = told[Len(records)]
<1> PICK count \in Nat : count = Len(records)
  OBVIOUS
<1> DEFINE Entry(f, n) == IF n = 0 THEN facts ELSE Reads(reader, id, f[n - 1], records[n])
<1> DEFINE Body(f) == [n \in 0..count |-> Entry(f, n)]
<1> DEFINE P(d) == \E f : f = [n \in 0..d |-> Entry(f, n)]
<1> DEFINE S == {d \in Nat : ~P(d)}
<1>1. P(0)
  <2> DEFINE f == [n \in 0..0 |-> facts]
  <2>1. f = [n \in 0..0 |-> Entry(f, n)]
    OBVIOUS
  <2> QED
    BY <2>1
<1>2. ASSUME NEW d \in Nat, P(d) PROVE P(d + 1)
  <2> HIDE DEF Entry
  <2>1. PICK f : f = [n \in 0..d |-> Entry(f, n)]
    BY <1>2
  <2> DEFINE g == [n \in 0..(d + 1) |-> IF n = d + 1 THEN Entry(f, n) ELSE f[n]]
  <2>2. ASSUME NEW n \in 0..(d + 1) PROVE g[n] = Entry(g, n)
    <3>1. CASE n = 0
      BY <2>1, <3>1 DEF Entry
    <3>2. CASE n # 0
      <4>1. n - 1 \in 0..d /\ g[n - 1] = f[n - 1]
        BY <3>2
      <4>2. Entry(g, n) = Entry(f, n)
        BY <3>2, <4>1 DEF Entry
      <4>3. g[n] = Entry(f, n)
        BY <2>1
      <4> QED
        BY <4>2, <4>3
    <3> QED
      BY <3>1, <3>2
  <2>3. g = [n \in 0..(d + 1) |-> Entry(g, n)]
    BY <2>2
  <2> HIDE DEF g
  <2> QED
    BY <2>3
<1>3. ASSUME S # {} PROVE FALSE
  <2> HIDE DEF P
  <2>1. PICK d \in S : \A m \in S : d <= m
    BY <1>3, LeastNumber
  <2>2. d # 0 /\ d \in Nat
    BY <1>1
  <2>3. d - 1 \in Nat /\ d - 1 \notin S
    BY <2>1, <2>2
  <2> QED
    BY <1>2, <2>1, <2>2, <2>3
<1>4. \E f : f = Body(f)
  <2>1. P(count)
    BY <1>3
  <2> HIDE DEF Entry
  <2> QED
    BY <2>1
<1> DEFINE g == CHOOSE f : f = Body(f)
<1>5. Told(reader, id, facts, records) = g[count]
  BY DEF Told
<1>6. g = Body(g)
  <2> HIDE DEF Body
  <2> QED
    BY <1>4
<1>7. \A n \in 0..count : g[n] = Entry(g, n)
  <2> HIDE DEF Entry, g
  <2> QED
    BY <1>6
<1>8. \A n \in 0..count : g[n] = Stage(reader, id, facts, records, g, n)
  <2> HIDE DEF g
  <2> QED
    BY <1>7 DEF Stage
<1> QED
  <2> HIDE DEF g
  <2> QED
    BY <1>5, <1>8

LEMMA ToldNothing ==
    \A reader, id, facts : Told(reader, id, facts, <<>>) = facts
<1> TAKE reader, id, facts
<1>1. Len(<<>>) = 0
  OBVIOUS
<1>2. PICK told : /\ \A n \in 0..Len(<<>>) : told[n] = Stage(reader, id, facts, <<>>, told, n)
                  /\ Told(reader, id, facts, <<>>) = told[Len(<<>>)]
  BY <1>1, ToldStages
<1> QED
  BY <1>1, <1>2 DEF Stage

\* One more record is read with what was known before it.
LEMMA ToldOnce ==
    ASSUME NEW reader, NEW id, NEW facts, NEW T, NEW records \in Seq(T), NEW r \in T
    PROVE  Told(reader, id, facts, Append(records, r))
             = Reads(reader, id, Told(reader, id, facts, records), r)
<1>a. PICK more : more = Append(records, r)
  OBVIOUS
<1>b. PICK count : count = Len(records)
  OBVIOUS
<1>1. /\ count \in Nat /\ Len(more) = count + 1 /\ more[count + 1] = r
      /\ \A n \in 1..count : more[n] = records[n]
  BY <1>a, <1>b
<1>2. PICK f : /\ \A n \in 0..count : f[n] = Stage(reader, id, facts, records, f, n)
               /\ Told(reader, id, facts, records) = f[count]
  BY <1>1, <1>b, ToldStages
<1>3. PICK g : /\ \A n \in 0..(count + 1) : g[n] = Stage(reader, id, facts, more, g, n)
               /\ Told(reader, id, facts, more) = g[count + 1]
  <2>1. Len(more) \in Nat
    BY <1>1
  <2>2. PICK g : /\ \A n \in 0..Len(more) : g[n] = Stage(reader, id, facts, more, g, n)
                 /\ Told(reader, id, facts, more) = g[Len(more)]
    BY <2>1, ToldStages
  <2> QED
    BY <1>1, <2>2
<1> DEFINE S == {n \in 0..count : f[n] # g[n]}
<1>4. ASSUME S # {} PROVE FALSE
  <2>a. S \in SUBSET Nat
    BY <1>1
  <2>1. PICK n \in S : \A m \in S : n <= m
    <3> HIDE DEF S
    <3> QED
      BY <1>4, <2>a, LeastNumber
  <2>2. n # 0
    BY <1>1, <1>2, <1>3 DEF Stage
  <2>3. n - 1 \in 0..count /\ n - 1 \notin S
    BY <1>1, <2>1, <2>2
  <2>4. f[n - 1] = g[n - 1] /\ more[n] = records[n]
    BY <1>1, <2>1, <2>2, <2>3
  <2>5. /\ f[n] = Reads(reader, id, f[n - 1], records[n])
        /\ g[n] = Reads(reader, id, g[n - 1], more[n])
    BY <1>1, <1>2, <1>3, <2>1, <2>2 DEF Stage
  <2> QED
    BY <2>1, <2>4, <2>5
<1>5. f[count] = g[count]
  BY <1>1, <1>4
<1>6. g[count + 1] = Reads(reader, id, g[count], r)
  <2>1. count + 1 \in 0..(count + 1) /\ count + 1 # 0 /\ (count + 1) - 1 = count
    BY <1>1
  <2>2. g[count + 1] = Stage(reader, id, facts, more, g, count + 1)
    BY <1>3, <2>1
  <2> QED
    BY <1>1, <2>1, <2>2 DEF Stage
<1> QED
  BY <1>a, <1>2, <1>3, <1>5, <1>6

----------------------------------------------------------------------------
(* Records and facts                                                       *)

Answers == {"yes", "no", "none"}
FactSets ==
    [dlq: BOOLEAN, gap: BOOLEAN, seen: BOOLEAN, dupes: BOOLEAN, logical: Answers,
     supported: BOOLEAN, physical: Answers, model: BOOLEAN, canary: Answers, mia: Answers,
     above: Answers]
Steps == {"suppress", "baseline", "reclaim", "verify"}

LEMMA RecordFacts ==
    \A r \in Records :
       /\ r.saga \in Sagas
       /\ r.type \in {"baseline", "logical", "unsupported", "scan", "model", "semantic",
                      "begin", "ok", "failed", "dlq"}
       /\ r.type = "baseline" => r.dupes \in BOOLEAN
       /\ r.type = "logical" => r.found \in Answers
       /\ r.type = "scan" => r.own \in BOOLEAN /\ r.content \in BOOLEAN
       /\ r.type = "model" => r.canary \in Answers /\ r.mia \in Answers
       /\ r.type = "semantic" => r.above \in BOOLEAN
BY DEF Records, Answers

LEMMA YesNoFacts ==
    \A b \in BOOLEAN : YesNo(b) \in {"yes", "no"} /\ (YesNo(b) = "yes" <=> b)
BY DEF YesNo

LEMMA BaselineFacts ==
    ASSUME NEW f \in FactSets, NEW r \in Records, r.type = "baseline"
    PROVE  TakeBaseline(f, r) \in FactSets
BY RecordFacts DEF TakeBaseline, FactSets

LEMMA AttributedFacts ==
    ASSUME NEW f \in FactSets, NEW r \in Records, r.type = "scan"
    PROVE  Attributed(f, r) \in FactSets
BY RecordFacts DEF Attributed, FactSets, Answers

LEMMA LearnTyped ==
    ASSUME NEW id, NEW f \in FactSets, NEW r \in Records
    PROVE  Learn(id, f, r) \in FactSets
<1>1. CASE r.type = "baseline"
  BY <1>1, BaselineFacts DEF Learn
<1>2. CASE r.type = "scan"
  BY <1>2, AttributedFacts DEF Learn
<1>3. CASE r.type = "logical"
  <2>1. YesNo(r.found = "yes") \in Answers
    BY DEF YesNo, Answers
  <2>2. [f EXCEPT !.logical = YesNo(r.found = "yes")] \in FactSets
    BY <2>1 DEF FactSets
  <2> QED
    BY <1>3, <2>2 DEF Learn
<1>4. CASE r.type = "unsupported"
  <2>1. [f EXCEPT !.supported = FALSE] \in FactSets
    BY DEF FactSets
  <2> QED
    BY <1>4, <2>1 DEF Learn
<1>5. CASE r.type = "model"
  <2>1. [f EXCEPT !.model = TRUE, !.canary = r.canary, !.mia = r.mia] \in FactSets
    BY <1>5, RecordFacts DEF FactSets
  <2> QED
    BY <1>5, <2>1 DEF Learn
<1>6. CASE r.type = "semantic"
  <2>1. YesNo(r.above) \in Answers
    BY DEF YesNo, Answers
  <2>2. [f EXCEPT !.above = YesNo(r.above)] \in FactSets
    BY <2>1 DEF FactSets
  <2> QED
    BY <1>6, <2>2 DEF Learn
<1>7. CASE r.type \in {"begin", "ok", "failed", "dlq"}
  BY <1>7 DEF Learn
<1> QED
  BY <1>1, <1>2, <1>3, <1>4, <1>5, <1>6, <1>7, RecordFacts

\* The two readers of the journal draw the same from each record.
LEMMA ReadersAgree ==
    ASSUME NEW reader, NEW id, NEW f \in FactSets, NEW r \in Records
    PROVE  Reads(reader, id, f, r) = Learn(id, f, r)
<1>1. CASE r.type = "baseline"
  BY <1>1 DEF Learn, Relearn, Reads
<1>2. CASE r.type \in {"begin", "ok", "failed", "dlq"}
  BY <1>2 DEF Learn, Relearn, Reads
<1>3. CASE r.type = "logical"
  BY <1>3 DEF Learn, Relearn, Reads
<1>4. CASE r.type = "unsupported"
  BY <1>4 DEF Learn, Relearn, Reads
<1>5. CASE r.type = "scan"
  BY <1>5 DEF Learn, Relearn, Reads
<1>6. CASE r.type = "model"
  BY <1>6 DEF Learn, Relearn, Reads
<1>7. CASE r.type = "semantic"
  BY <1>7 DEF Learn, Relearn, Reads
<1> QED
  BY <1>1, <1>2, <1>3, <1>4, <1>5, <1>6, <1>7, RecordFacts

----------------------------------------------------------------------------
(* The lattice                                                             *)

\* Every rule but the last.
Objects(f) ==
    \/ f.dlq \/ f.gap
    \/ f.logical = "yes" \/ f.logical = "none"
    \/ ~f.supported \/ f.physical = "yes" \/ f.physical = "none"
    \/ f.model /\ f.canary = "none" /\ f.mia = "none"
    \/ f.model /\ (f.canary = "yes" \/ f.mia = "yes")
    \/ f.above = "yes"

LEMMA FirstHolds ==
    ASSUME NEW f
    PROVE  \E first \in 1..11 :
              /\ Lattice(f)[first][3] /\ \A j \in 1..11 : Lattice(f)[j][3] => first <= j
              /\ StatusOf(f) = <<Lattice(f)[first][1], Lattice(f)[first][2]>>
<1> DEFINE L == Lattice(f)
           holds == {i \in 1..11 : L[i][3]}
           first == CHOOSE i \in holds : \A j \in holds : i <= j
<1>1. DOMAIN L = 1..11 /\ L[11][3]
  BY DEF Lattice
<1>2. holds \in SUBSET Nat /\ holds # {}
  BY <1>1
<1>3. \E i \in holds : \A j \in holds : i <= j
  <2> HIDE DEF holds
  <2> QED
    BY <1>2, LeastNumber
<1>4. first \in holds /\ \A j \in holds : first <= j
  <2> HIDE DEF holds
  <2> QED
    BY <1>3
<1>5. StatusOf(f) = <<L[first][1], L[first][2]>>
  BY <1>1 DEF StatusOf, FirstOf
<1> QED
  <2> HIDE DEF first
  <2> QED
    BY <1>4, <1>5

LEMMA StatusFacts ==
    ASSUME NEW f
    PROVE  /\ StatusOf(f) \in Rules \X Levels
           /\ StatusOf(f)[1] = "verified" =>
                ~Objects(f) /\ StatusOf(f)[2] = IF f.model THEN "model" ELSE "physical"
           /\ f.dlq <=> StatusOf(f)[1] = "dlq"
           /\ ~f.dlq => (f.gap <=> StatusOf(f)[1] = "lineage_gap")
<1> DEFINE L == Lattice(f)
<1>1. PICK n \in 1..11 : /\ L[n][3] /\ \A j \in 1..11 : L[j][3] => n <= j
                         /\ StatusOf(f) = <<L[n][1], L[n][2]>>
  BY FirstHolds
<1>2. /\ L[1] = <<"dlq", "none", f.dlq>>
      /\ L[2] = <<"lineage_gap", "none", f.gap>>
      /\ L[3] = <<"logical_fail", "logical", f.logical = "yes">>
      /\ L[4] = <<"logical_unprobed", "logical", f.logical = "none">>
      /\ L[5] = <<"physical_unsupported", "physical", ~f.supported>>
      /\ L[6] = <<"physical_fail", "physical", f.physical = "yes">>
      /\ L[7] = <<"physical_unprobed", "physical", f.physical = "none">>
      /\ L[8] = <<"model_unprobed", "model", f.model /\ f.canary = "none" /\ f.mia = "none">>
      /\ L[9] = <<"model_residual", "model", f.model /\ (f.canary = "yes" \/ f.mia = "yes")>>
      /\ L[10] = <<"semantic_residual", "semantic", f.above = "yes">>
      /\ L[11] = <<"verified", IF f.model THEN "model" ELSE "physical", TRUE>>
  BY DEF Lattice
<1>c. /\ (L[1][3] <=> f.dlq) /\ (L[2][3] <=> f.gap)
      /\ (L[3][3] <=> f.logical = "yes") /\ (L[4][3] <=> f.logical = "none")
      /\ (L[5][3] <=> ~f.supported) /\ (L[6][3] <=> f.physical = "yes")
      /\ (L[7][3] <=> f.physical = "none") /\ (L[10][3] <=> f.above = "yes")
      /\ (L[8][3] <=> f.model /\ f.canary = "none" /\ f.mia = "none")
      /\ (L[9][3] <=> f.model /\ (f.canary = "yes" \/ f.mia = "yes"))
  BY DEF Lattice
<1> HIDE DEF L
<1>3. n \in {1, 2, 3, 4, 5, 6, 7, 8, 9, 10, 11}
  OBVIOUS
<1>4. StatusOf(f) \in Rules \X Levels
  <2>1. L[n][1] \in Rules /\ L[n][2] \in Levels
    BY <1>2, <1>3 DEF Rules, Levels
  <2> QED
    BY <1>1, <2>1
<1>5. StatusOf(f)[1] = L[n][1] /\ StatusOf(f)[2] = L[n][2]
  BY <1>1
<1>6. L[n][1] = "verified" => n = 11
  BY <1>2, <1>3
<1>7. L[n][1] = "verified" => ~Objects(f)
  <2>1. n = 11 => \A j \in 1..10 : ~L[j][3]
    BY <1>1
  <2>2. (\A j \in 1..10 : ~L[j][3]) =>
          ~L[1][3] /\ ~L[2][3] /\ ~L[3][3] /\ ~L[4][3] /\ ~L[5][3] /\ ~L[6][3] /\ ~L[7][3]
          /\ ~L[8][3] /\ ~L[9][3] /\ ~L[10][3]
    OBVIOUS
  <2>3. ~L[1][3] /\ ~L[2][3] /\ ~L[3][3] /\ ~L[4][3] /\ ~L[5][3] /\ ~L[6][3] /\ ~L[7][3]
          /\ ~L[8][3] /\ ~L[9][3] /\ ~L[10][3] => ~Objects(f)
    BY <1>c DEF Objects
  <2> QED
    BY <1>6, <2>1, <2>2, <2>3
<1>8. L[n][1] = "dlq" <=> n = 1
  BY <1>2, <1>3
<1>9. L[n][1] = "lineage_gap" <=> n = 2
  BY <1>2, <1>3
<1>11. L[1][3] <=> n = 1
  BY <1>1
<1>12. ~L[1][3] => (L[2][3] <=> n = 2)
  BY <1>1
<1>13. n = 11 => L[n][2] = IF f.model THEN "model" ELSE "physical"
  BY <1>2
<1> QED
  BY <1>4, <1>5, <1>6, <1>7, <1>8, <1>9, <1>c, <1>11, <1>12, <1>13

\* The status depends on no more than this.
SameToLattice(f, g) ==
    /\ f.dlq = g.dlq /\ f.gap = g.gap
    /\ f.logical = g.logical /\ f.supported = g.supported /\ f.physical = g.physical
    /\ f.model = g.model /\ f.canary = g.canary /\ f.mia = g.mia
    /\ (f.above = "yes") = (g.above = "yes")

LEMMA SameStatus ==
    ASSUME NEW f, NEW g, SameToLattice(f, g)
    PROVE  StatusOf(f) = StatusOf(g)
<1>1. Lattice(f) = Lattice(g)
  BY DEF SameToLattice, Lattice
<1> QED
  BY <1>1 DEF StatusOf, FirstOf

----------------------------------------------------------------------------
(* The journal grows                                                       *)

LEMMA AppendFacts ==
    ASSUME NEW j \in Seq(Records), NEW r \in Records
    PROVE  /\ Append(j, r) \in Seq(Records)
           /\ \A x : (\E i \in DOMAIN Append(j, r) : Append(j, r)[i] = x)
                       <=> (\E i \in DOMAIN j : j[i] = x) \/ x = r
<1>1. /\ Append(j, r) \in Seq(Records) /\ DOMAIN j = 1..Len(j) /\ Len(j) \in Nat
      /\ DOMAIN Append(j, r) = 1..(Len(j) + 1)
      /\ Append(j, r)[Len(j) + 1] = r
      /\ \A i \in 1..Len(j) : Append(j, r)[i] = j[i]
  OBVIOUS
<1> PICK k : k = Append(j, r)
  OBVIOUS
<1> PICK n : n = Len(j)
  OBVIOUS
<1>2. /\ n \in Nat /\ DOMAIN j = 1..n /\ DOMAIN k = 1..(n + 1) /\ k[n + 1] = r
      /\ \A i \in 1..n : k[i] = j[i]
  BY <1>1
<1>3. ASSUME NEW x PROVE (\E i \in DOMAIN k : k[i] = x) <=> (\E i \in DOMAIN j : j[i] = x) \/ x = r
  <2>1. ASSUME NEW i \in DOMAIN k, k[i] = x PROVE (\E m \in DOMAIN j : j[m] = x) \/ x = r
    <3>1. i \in 1..n \/ i = n + 1
      BY <1>2
    <3> QED
      BY <1>2, <2>1, <3>1
  <2>2. ASSUME NEW i \in DOMAIN j, j[i] = x PROVE \E m \in DOMAIN k : k[m] = x
    <3>1. i \in DOMAIN k /\ k[i] = x
      BY <1>2, <2>2
    <3> QED
      BY <3>1
  <2>3. n + 1 \in DOMAIN k
    BY <1>2
  <2> QED
    BY <1>2, <2>1, <2>2, <2>3
<1> QED
  BY <1>1, <1>3

LEMMA ConcatFacts ==
    ASSUME NEW j \in Seq(Records)
    PROVE  /\ j \o <<>> = j
           /\ \A a \in Records : j \o <<a>> = Append(j, a)
           /\ \A a, b \in Records : j \o <<a, b>> = Append(Append(j, a), b)
           /\ \A a, b \in Records : j \o (<<a>> \o <<b>>) = Append(Append(j, a), b)
OBVIOUS

----------------------------------------------------------------------------
(* Types                                                                   *)

Running == {"suppress", "baseline", "reclaim", "logical", "physical", "model", "semantic"}

\* A run is of an open saga; the parts of a verification follow within its step.
TypeInv ==
    /\ TypeOK
    /\ journal \in Seq(Records)
    /\ saga.open => saga.id \in Sagas
    /\ run.pc # "down" => saga.open
    /\ run.pc \in {"physical", "model", "semantic"} => run.begun
    /\ run.begun => run.pc \in Running
    /\ saga.id = 0 => journal = <<>> /\ run.pc = "down" /\ env.live
    /\ receipt.saga <= saga.id

LEMMA AfterFacts ==
    /\ DOMAIN After = Running
    /\ After["suppress"] = "baseline" /\ After["baseline"] = "reclaim"
    /\ After["reclaim"] = "logical" /\ After["logical"] = "physical"
    /\ After["physical"] = "model" /\ After["model"] = "semantic"
    /\ After["semantic"] = "receipt"
    /\ Running \subseteq PCs /\ "receipt" \in PCs /\ "down" \in PCs
    /\ \A pc \in Running : StepOf(pc) \in Steps /\ After[pc] \in PCs
    /\ StepOf("suppress") = "suppress" /\ StepOf("baseline") = "baseline"
    /\ StepOf("reclaim") = "reclaim" /\ StepOf("receipt") = "receipt"
    /\ \A pc \in {"logical", "physical", "model", "semantic"} : StepOf(pc) = "verify"
BY DEF After, Running, PCs, StepOf, Steps

LEMMA ConfigFacts ==
    \A c \in Configs :
       /\ c.model \in BOOLEAN /\ c.sharded \in BOOLEAN /\ c.physical \in BOOLEAN
       /\ c.readable \in BOOLEAN /\ c.prompts \in BOOLEAN /\ c.reference \in BOOLEAN
       /\ c.gap \in BOOLEAN /\ c.semantic \in BOOLEAN
       /\ ~c.model => ~c.sharded /\ c.prompts /\ ~c.reference
       /\ c.model => c.physical /\ c.readable /\ ~c.semantic
       /\ ~c.physical => c.readable
BY DEF Configs

LEMMA EnvFacts ==
    \A e \in Envs :
       /\ e.live \in BOOLEAN /\ e.own \in BOOLEAN /\ e.ghost \in BOOLEAN
       /\ e.leak \in BOOLEAN /\ e.dupes \in {"none", "live", "hidden"} /\ e.drift \in BOOLEAN
BY DEF Envs

\* What the steps and the probes write is of the current saga.
LEMMA RecordsTyped ==
    ASSUME TypeInv, saga.id \in Sagas
    PROVE  /\ \A type \in {"begin", "ok", "failed"}, step \in Steps :
                 StepRecord(type, step) \in Records
           /\ [type |-> "dlq", saga |-> saga.id] \in Records
           /\ \A b \in BOOLEAN : [type |-> "baseline", saga |-> saga.id, dupes |-> b] \in Records
           /\ \A a \in Answers : [type |-> "logical", saga |-> saga.id, found |-> a] \in Records
           /\ [type |-> "unsupported", saga |-> saga.id] \in Records
           /\ \A a, b \in BOOLEAN :
                 [type |-> "scan", saga |-> saga.id, own |-> a, content |-> b] \in Records
           /\ \A a, b \in Answers :
                 [type |-> "model", saga |-> saga.id, canary |-> a, mia |-> b] \in Records
           /\ \A b \in BOOLEAN : SemanticRecord(b) \in Records
<1>2. \A type \in {"begin", "ok", "failed"}, step \in Steps : StepRecord(type, step) \in Records
  BY DEF StepRecord, Steps, Records
<1>3. [type |-> "dlq", saga |-> saga.id] \in Records
  BY DEF Records
<1>4. \A b \in BOOLEAN : [type |-> "baseline", saga |-> saga.id, dupes |-> b] \in Records
  BY DEF Records
<1>5. \A a \in Answers : [type |-> "logical", saga |-> saga.id, found |-> a] \in Records
  BY DEF Records, Answers
<1>6. [type |-> "unsupported", saga |-> saga.id] \in Records
  BY DEF Records
<1>7. \A a, b \in BOOLEAN :
         [type |-> "scan", saga |-> saga.id, own |-> a, content |-> b] \in Records
  BY DEF Records
<1>8. \A a, b \in Answers :
         [type |-> "model", saga |-> saga.id, canary |-> a, mia |-> b] \in Records
  BY DEF Records, Answers
<1>9. \A b \in BOOLEAN : SemanticRecord(b) \in Records
  BY DEF Records, SemanticRecord
<1> QED
  BY <1>2, <1>3, <1>4, <1>5, <1>6, <1>7, <1>8, <1>9

\* The records of one probe, as the facts about the store that they are.
LogicalOne == [type |-> "logical", saga |-> saga.id,
               found |-> IF cfg.prompts THEN YesNo(Retrieved) ELSE "none"]
PhysicalOne == IF Scannable
               THEN [type |-> "scan", saga |-> saga.id, own |-> Scanned.own,
                     content |-> Scanned.content]
               ELSE [type |-> "unsupported", saga |-> saga.id]
ModelOne == [type |-> "model", saga |-> saga.id,
             canary |-> IF cfg.prompts THEN YesNo(env.live) ELSE "none",
             mia |-> IF cfg.prompts /\ cfg.reference THEN YesNo(env.leak) ELSE "none"]
BaselineOne == [type |-> "baseline", saga |-> saga.id, dupes |-> env.dupes = "live"]

LEMMA ProbeRecords ==
    ASSUME TypeInv, saga.id \in Sagas
    PROVE  /\ LogicalOne \in Records /\ LogicalRecords = <<LogicalOne>>
           /\ PhysicalOne \in Records /\ PhysicalRecords = <<PhysicalOne>>
           /\ ModelOne \in Records
           /\ ModelRecords = IF cfg.model THEN <<ModelOne>> ELSE <<>>
           /\ BaselineOne \in Records
           /\ BaselineRecords = IF env.dupes = "live" /\ ~cfg.readable THEN <<>>
                                ELSE <<BaselineOne>>
<1>1. cfg \in Configs /\ env \in Envs
  BY DEF TypeInv, TypeOK
<1>2. LogicalOne \in Records /\ LogicalRecords = <<LogicalOne>>
  <2>1. (IF cfg.prompts THEN YesNo(Retrieved) ELSE "none") \in Answers
    BY DEF YesNo, Answers
  <2> QED
    BY <2>1, RecordsTyped DEF LogicalOne, LogicalRecords
<1>3. PhysicalOne \in Records /\ PhysicalRecords = <<PhysicalOne>>
  <2>1. Scanned.own \in BOOLEAN /\ Scanned.content \in BOOLEAN
    BY <1>1, ConfigFacts, EnvFacts DEF Scanned
  <2> QED
    BY <2>1, RecordsTyped DEF PhysicalOne, PhysicalRecords
<1>4. ModelOne \in Records /\ ModelRecords = IF cfg.model THEN <<ModelOne>> ELSE <<>>
  <2>1. /\ (IF cfg.prompts THEN YesNo(env.live) ELSE "none") \in Answers
        /\ (IF cfg.prompts /\ cfg.reference THEN YesNo(env.leak) ELSE "none") \in Answers
    BY DEF YesNo, Answers
  <2> QED
    BY <2>1, RecordsTyped DEF ModelOne, ModelRecords
<1>5. BaselineOne \in Records
  <2>1. (env.dupes = "live") \in BOOLEAN
    OBVIOUS
  <2> QED
    BY <2>1, RecordsTyped DEF BaselineOne
<1> QED
  BY <1>2, <1>3, <1>4, <1>5 DEF BaselineRecords, BaselineOne

\* What each action writes into the journal.
LEMMA Written ==
    ASSUME TypeInv
    PROVE  /\ Begin => /\ saga.open /\ StepRecord("begin", StepOf(run.pc)) \in Records
                       /\ journal' = Append(journal, StepRecord("begin", StepOf(run.pc)))
           /\ Suppress => /\ saga.open /\ Ok("suppress") \in Records
                          /\ journal' = Append(journal, Ok("suppress"))
           /\ Baseline => /\ saga.open /\ Ok("baseline") \in Records /\ BaselineOne \in Records
                          /\ \/ env.dupes = "live" /\ ~cfg.readable
                                /\ journal' = Append(journal, Ok("baseline"))
                             \/ ~(env.dupes = "live" /\ ~cfg.readable)
                                /\ journal' = Append(Append(journal, BaselineOne), Ok("baseline"))
           /\ Reclaim => /\ saga.open /\ Ok("reclaim") \in Records
                         /\ journal' = Append(journal, Ok("reclaim"))
           /\ ProbeLogical => /\ saga.open /\ LogicalOne \in Records
                              /\ journal' = Append(journal, LogicalOne)
           /\ ProbePhysical => /\ saga.open /\ PhysicalOne \in Records
                               /\ journal' = Append(journal, PhysicalOne)
           /\ ProbeModel => /\ saga.open /\ ModelOne \in Records
                            /\ journal' = IF cfg.model THEN Append(journal, ModelOne)
                                          ELSE journal
           /\ EndVerify => /\ saga.open /\ Ok("verify") \in Records
                           /\ \/ /\ Drifted(run.before) = {}
                                 /\ journal' = Append(journal, Ok("verify"))
                              \/ \E above \in Drifted(run.before) :
                                   /\ SemanticRecord(above) \in Records
                                   /\ journal' = Append(Append(journal, SemanticRecord(above)),
                                                        Ok("verify"))
           /\ Raise => /\ saga.open /\ StepRecord("failed", StepOf(run.pc)) \in Records
                       /\ [type |-> "dlq", saga |-> saga.id] \in Records
                       /\ \/ journal' = Append(journal, StepRecord("failed", StepOf(run.pc)))
                          \/ journal' = Append(Append(journal, StepRecord("failed", StepOf(run.pc))),
                                               [type |-> "dlq", saga |-> saga.id])
<1>1. journal \in Seq(Records) /\ cfg \in Configs /\ env \in Envs
  BY DEF TypeInv, TypeOK
<1>o. saga.open => saga.id \in Sagas
  BY DEF TypeInv
<1>2. saga.open => \A step \in Steps : Ok(step) \in Records
  BY <1>o, RecordsTyped DEF Ok
<1>3. run.pc # "down" => saga.open
  BY DEF TypeInv
<1>4. ASSUME Begin
      PROVE  /\ saga.open /\ StepRecord("begin", StepOf(run.pc)) \in Records
             /\ journal' = Append(journal, StepRecord("begin", StepOf(run.pc)))
  <2>1. saga.open /\ StepOf(run.pc) \in Steps
    BY <1>3, <1>4, AfterFacts DEF Begin, Running
  <2>2. StepRecord("begin", StepOf(run.pc)) \in Records
    BY <1>o, <2>1, RecordsTyped
  <2> QED
    BY <1>1, <1>4, <2>1, <2>2, ConcatFacts DEF Begin, Journal
<1>5. Suppress => /\ saga.open /\ Ok("suppress") \in Records
                  /\ journal' = Append(journal, Ok("suppress"))
  BY <1>1, <1>2, <1>3, ConcatFacts DEF Suppress, At, Journal, Steps
<1>6. Reclaim => /\ saga.open /\ Ok("reclaim") \in Records
                 /\ journal' = Append(journal, Ok("reclaim"))
  BY <1>1, <1>2, <1>3, ConcatFacts DEF Reclaim, At, Journal, Steps
<1>7. ASSUME Baseline
      PROVE  /\ saga.open /\ Ok("baseline") \in Records /\ BaselineOne \in Records
             /\ \/ env.dupes = "live" /\ ~cfg.readable
                   /\ journal' = Append(journal, Ok("baseline"))
                \/ ~(env.dupes = "live" /\ ~cfg.readable)
                   /\ journal' = Append(Append(journal, BaselineOne), Ok("baseline"))
  <2>1. saga.open
    BY <1>3, <1>7 DEF Baseline, At
  <2>2. Ok("baseline") \in Records /\ BaselineOne \in Records
    BY <1>2, <1>o, <2>1, ProbeRecords DEF Steps
  <2>3. journal' = journal \o (BaselineRecords \o <<Ok("baseline")>>)
    BY <1>7 DEF Baseline, Journal
  <2>4. CASE env.dupes = "live" /\ ~cfg.readable
    <3>1. BaselineRecords = <<>>
      BY <2>4 DEF BaselineRecords
    <3>2. <<>> \o <<Ok("baseline")>> = <<Ok("baseline")>>
      OBVIOUS
    <3> QED
      BY <1>1, <2>1, <2>2, <2>3, <2>4, <3>1, <3>2, ConcatFacts
  <2>5. CASE ~(env.dupes = "live" /\ ~cfg.readable)
    <3>1. BaselineRecords = <<BaselineOne>>
      BY <2>5 DEF BaselineRecords, BaselineOne
    <3> QED
      BY <1>1, <2>1, <2>2, <2>3, <2>5, <3>1, ConcatFacts
  <2> QED
    BY <2>4, <2>5
<1>8. ASSUME ProbeLogical
      PROVE  saga.open /\ LogicalOne \in Records /\ journal' = Append(journal, LogicalOne)
  <2>1. saga.open /\ journal' = journal \o LogicalRecords
    BY <1>3, <1>8 DEF ProbeLogical, Probe, At, Journal
  <2>2. LogicalOne \in Records /\ LogicalRecords = <<LogicalOne>>
    BY <1>o, <2>1, ProbeRecords
  <2> QED
    BY <1>1, <2>1, <2>2, ConcatFacts
<1>9. ASSUME ProbePhysical
      PROVE  saga.open /\ PhysicalOne \in Records /\ journal' = Append(journal, PhysicalOne)
  <2>1. saga.open /\ journal' = journal \o PhysicalRecords
    BY <1>3, <1>9 DEF ProbePhysical, Probe, At, Journal
  <2>2. PhysicalOne \in Records /\ PhysicalRecords = <<PhysicalOne>>
    BY <1>o, <2>1, ProbeRecords
  <2> QED
    BY <1>1, <2>1, <2>2, ConcatFacts
<1>10. ASSUME ProbeModel
       PROVE  /\ saga.open /\ ModelOne \in Records
              /\ journal' = IF cfg.model THEN Append(journal, ModelOne) ELSE journal
  <2>2. saga.open /\ journal' = journal \o ModelRecords
    BY <1>3, <1>10 DEF ProbeModel, Probe, At, Journal
  <2>3. ModelOne \in Records /\ ModelRecords = IF cfg.model THEN <<ModelOne>> ELSE <<>>
    BY <1>o, <2>2, ProbeRecords
  <2> QED
    BY <1>1, <2>2, <2>3, ConcatFacts
<1>11. ASSUME EndVerify
       PROVE  /\ saga.open /\ Ok("verify") \in Records
              /\ \/ /\ Drifted(run.before) = {}
                    /\ journal' = Append(journal, Ok("verify"))
                 \/ \E above \in Drifted(run.before) :
                      /\ SemanticRecord(above) \in Records
                      /\ journal' = Append(Append(journal, SemanticRecord(above)), Ok("verify"))
  <2>1. saga.open
    BY <1>3, <1>11 DEF EndVerify, Probe, At
  <2>2. Ok("verify") \in Records
    BY <1>2, <2>1 DEF Steps
  <2>3. CASE Drifted(run.before) = {} /\ Probe("semantic", <<Ok("verify")>>)
    <3>1. journal' = journal \o <<Ok("verify")>>
      BY <2>3 DEF Probe, Journal
    <3> QED
      BY <1>1, <2>1, <2>2, <2>3, <3>1, ConcatFacts
  <2>4. CASE \E above \in Drifted(run.before) :
               Probe("semantic", <<SemanticRecord(above), Ok("verify")>>)
    <3>1. PICK above \in Drifted(run.before) :
                 Probe("semantic", <<SemanticRecord(above), Ok("verify")>>)
      BY <2>4
    <3>2. above \in BOOLEAN
      <4>1. run.before \in Befores /\ env.drift \in BOOLEAN
        BY <1>1, EnvFacts DEF TypeInv, TypeOK
      <4>2. CASE run.before = "none"
        BY <3>1, <4>2 DEF Drifted
      <4>3. CASE run.before = "whole"
        BY <3>1, <4>1, <4>3 DEF Drifted
      <4>4. CASE run.before = "blind"
        BY <3>1, <4>4 DEF Drifted
      <4> QED
        BY <4>1, <4>2, <4>3, <4>4 DEF Befores
    <3>3. SemanticRecord(above) \in Records
      BY <1>o, <2>1, <3>2, RecordsTyped
    <3>4. journal' = journal \o <<SemanticRecord(above), Ok("verify")>>
      BY <3>1 DEF Probe, Journal
    <3>5. journal' = Append(Append(journal, SemanticRecord(above)), Ok("verify"))
      BY <1>1, <2>2, <3>3, <3>4, ConcatFacts
    <3> QED
      BY <2>1, <2>2, <3>1, <3>3, <3>5
  <2> QED
    BY <1>11, <2>3, <2>4 DEF EndVerify
<1>12. ASSUME Raise
       PROVE  /\ saga.open /\ StepRecord("failed", StepOf(run.pc)) \in Records
              /\ [type |-> "dlq", saga |-> saga.id] \in Records
              /\ \/ journal' = Append(journal, StepRecord("failed", StepOf(run.pc)))
                 \/ journal' = Append(Append(journal, StepRecord("failed", StepOf(run.pc))),
                                      [type |-> "dlq", saga |-> saga.id])
  <2>1. saga.open /\ StepOf(run.pc) \in Steps
    BY <1>3, <1>12, AfterFacts DEF Raise, Running
  <2>2. /\ StepRecord("failed", StepOf(run.pc)) \in Records
        /\ [type |-> "dlq", saga |-> saga.id] \in Records
    BY <1>o, <2>1, RecordsTyped
  <2>3. journal' = journal \o (<<StepRecord("failed", StepOf(run.pc))>>
                       \o IF StepOf(run.pc) \in {"suppress", "reclaim"}
                          THEN <<[type |-> "dlq", saga |-> saga.id]>> ELSE <<>>)
    BY <1>12 DEF Raise, Journal
  <2>4. <<StepRecord("failed", StepOf(run.pc))>> \o <<>> = <<StepRecord("failed", StepOf(run.pc))>>
    OBVIOUS
  <2>5. CASE StepOf(run.pc) \in {"suppress", "reclaim"}
    BY <1>1, <2>1, <2>2, <2>3, <2>5, ConcatFacts
  <2>6. CASE StepOf(run.pc) \notin {"suppress", "reclaim"}
    BY <1>1, <2>1, <2>2, <2>3, <2>4, <2>6, ConcatFacts
  <2> QED
    BY <2>5, <2>6
<1> QED
  BY <1>4, <1>5, <1>6, <1>7, <1>8, <1>9, <1>10, <1>11, <1>12

Runs == [pc: PCs, begun: BOOLEAN, reclaim: BOOLEAN, dlq: BOOLEAN, before: Befores]

\* What a step leaves of the run.
LEMMA GotoFacts ==
    ASSUME TypeInv, NEW pc \in PCs, Goto(pc)
    PROVE  /\ run' \in Runs /\ run'.pc = pc /\ run'.begun = (StepOf(pc) = StepOf(run.pc))
           /\ run'.dlq = run.dlq /\ run'.before = run.before /\ run'.reclaim = run.reclaim
<1>1. run \in Runs
  BY DEF TypeInv, TypeOK, Runs
<1>2. run' = [run EXCEPT !.pc = pc, !.begun = (StepOf(pc) = StepOf(run.pc))]
  BY DEF Goto
<1> PICK same : same = (StepOf(pc) = StepOf(run.pc))
  OBVIOUS
<1>3. same \in BOOLEAN /\ run' = [run EXCEPT !.pc = pc, !.begun = same]
  BY <1>2
<1> QED
  BY <1>1, <1>3 DEF Runs

LEMMA DownFacts ==
    /\ Down \in Runs /\ Down.pc = "down" /\ ~Down.begun /\ ~Down.dlq /\ Down.before = "none"
BY DEF Down, Runs, PCs, Befores

LEMMA JournalTyped ==
    ASSUME TypeInv, [Next]_vars
    PROVE  journal' \in Seq(Records)
<1>1. journal \in Seq(Records)
  BY DEF TypeInv
<1>2. \A a \in Records : Append(journal, a) \in Seq(Records)
  BY <1>1
<1>3. \A a, b \in Records : Append(Append(journal, a), b) \in Seq(Records)
  BY <1>1
<1>4. Begin \/ Suppress \/ Reclaim \/ ProbeLogical \/ ProbePhysical \/ ProbeModel
        => journal' \in Seq(Records)
  BY <1>1, <1>2, Written
<1>5. Baseline => journal' \in Seq(Records)
  BY <1>2, <1>3, Written
<1>6. EndVerify => journal' \in Seq(Records)
  BY <1>2, <1>3, Written
<1>7. Raise => journal' \in Seq(Records)
  BY <1>2, <1>3, Written
<1>8. ~(Begin \/ Suppress \/ Reclaim \/ ProbeLogical \/ ProbePhysical \/ ProbeModel
          \/ Baseline \/ EndVerify \/ Raise) => journal' = journal
  BY DEF Next, vars, Start, PassOver, Hiding, Removing, WriteReceipt, RefuseReceipt, Kill,
         OtherSubject
<1> QED
  BY <1>1, <1>4, <1>5, <1>6, <1>7, <1>8

\* The parts of the invariant that are not about the journal.
RunShape ==
    /\ run \in Runs
    /\ run.pc # "down" => saga.open
    /\ run.pc \in {"physical", "model", "semantic"} => run.begun
    /\ run.begun => run.pc \in Running

LEMMA RunKept ==
    ASSUME TypeInv, [Next]_vars
    PROVE  RunShape'
<1>1. RunShape
  BY DEF TypeInv, TypeOK, RunShape, Runs
<1>2. CASE UNCHANGED <<run, saga>>
  BY <1>1, <1>2 DEF RunShape
<1>3. CASE run' = Down
  BY <1>3, DownFacts DEF RunShape
<1>4. CASE Start
  <2>1. PICK reclaim \in BOOLEAN, before \in Recorded :
             run' = [Down EXCEPT !.pc = "suppress", !.reclaim = reclaim, !.before = before]
    BY <1>4 DEF Start
  <2>2. before \in Befores
    BY DEF Recorded, Befores
  <2>3. run' \in Runs /\ run'.pc = "suppress" /\ ~run'.begun
    BY <2>1, <2>2 DEF Down, Runs, PCs
  <2>4. saga'.open
    BY <1>4 DEF Start
  <2> QED
    BY <2>3, <2>4 DEF RunShape
<1>5. CASE Begin
  <2>1. run' = [run EXCEPT !.begun = TRUE] /\ saga' = saga
    BY <1>5 DEF Begin
  <2>2. run.pc \in Running /\ saga.open
    BY <1>1, <1>5 DEF Begin, Running, RunShape
  <2> QED
    BY <1>1, <2>1, <2>2 DEF RunShape, Runs
<1>6. CASE PassOver
  <2>1. run.pc \in {"suppress", "baseline", "reclaim", "logical"} /\ ~run.begun
    BY <1>6 DEF PassOver
  <2> PICK pc : pc = IF run.pc = "logical" THEN "receipt" ELSE After[run.pc]
    OBVIOUS
  <2>2. run' = [run EXCEPT !.pc = pc] /\ saga' = saga
    BY <1>6 DEF PassOver
  <2>3. pc \in {"baseline", "reclaim", "logical", "receipt"} /\ pc \in PCs
    BY <2>1, AfterFacts DEF PCs
  <2> QED
    BY <1>1, <2>1, <2>2, <2>3 DEF RunShape, Runs
<1>7. ASSUME NEW pc \in {"baseline", "reclaim", "logical"}, Goto(pc), saga.open, saga' = saga
      PROVE  RunShape'
  <2>1. pc \in PCs /\ pc \in Running
    BY DEF PCs, Running
  <2> QED
    BY <1>7, <2>1, GotoFacts DEF RunShape
<1>8. ASSUME Suppress \/ Baseline \/ Reclaim PROVE RunShape'
  <2>1. saga.open /\ saga' = saga
    BY <1>1, <1>8 DEF Suppress, Baseline, Reclaim, At, RunShape
  <2> QED
    BY <1>7, <1>8, <2>1 DEF Suppress, Baseline, Reclaim
<1>9. ASSUME NEW pc \in {"logical", "physical", "model"}, NEW records, Probe(pc, records)
      PROVE  RunShape'
  <2>1. /\ run.pc = pc /\ run.begun /\ saga' = saga /\ saga.open /\ Goto(After[pc])
    BY <1>1, <1>9 DEF Probe, At, RunShape
  <2> PICK next : next = After[pc]
    OBVIOUS
  <2>2. next \in {"physical", "model", "semantic"} /\ next \in PCs /\ next \in Running
    BY AfterFacts DEF PCs, Running
  <2>3. StepOf(next) = "verify" /\ StepOf(pc) = "verify"
    BY <2>2, AfterFacts
  <2>4. run' \in Runs /\ run'.pc = next /\ run'.begun
    BY <2>1, <2>2, <2>3, GotoFacts
  <2> QED
    BY <2>1, <2>2, <2>4 DEF RunShape
<1>10. ASSUME NEW records, Probe("semantic", records) PROVE RunShape'
  <2>1. run.pc = "semantic" /\ saga' = saga /\ saga.open /\ Goto("receipt")
    BY <1>1, <1>10, AfterFacts DEF Probe, At, RunShape
  <2>2. "receipt" \in PCs /\ StepOf("receipt") # StepOf("semantic")
    BY AfterFacts
  <2>3. run' \in Runs /\ run'.pc = "receipt" /\ ~run'.begun
    BY <2>1, <2>2, GotoFacts
  <2> QED
    BY <2>1, <2>3 DEF RunShape
<1>11. CASE Raise
  <2>1. run.pc \in Running /\ run.begun /\ saga' = saga /\ saga.open
    <3>1. run.begun /\ saga' = saga
      BY <1>11 DEF Raise
    <3>2. run.pc \in Running /\ run.pc # "down"
      BY <1>1, <3>1 DEF RunShape, Running
    <3> QED
      BY <1>1, <3>1, <3>2 DEF RunShape
  <2> PICK pc : pc = IF StepOf(run.pc) = "verify" THEN "receipt" ELSE After[run.pc]
    OBVIOUS
  <2> PICK dead : dead = (StepOf(run.pc) \in {"suppress", "reclaim"})
    OBVIOUS
  <2>2. run' = [run EXCEPT !.begun = FALSE, !.dlq = dead, !.pc = pc]
    BY <1>11 DEF Raise
  <2>3. pc \in {"baseline", "reclaim", "logical", "receipt"} /\ pc \in PCs /\ dead \in BOOLEAN
    BY <2>1, AfterFacts DEF PCs, Running
  <2> QED
    BY <1>1, <2>1, <2>2, <2>3 DEF RunShape, Runs
<1>12. ASSUME EndVerify PROVE RunShape'
  BY <1>10, <1>12 DEF EndVerify
<1>13. ASSUME ProbeLogical \/ ProbePhysical \/ ProbeModel PROVE RunShape'
  BY <1>9, <1>13 DEF ProbeLogical, ProbePhysical, ProbeModel
<1>14. CASE Hiding \/ Removing \/ OtherSubject \/ UNCHANGED vars
  BY <1>2, <1>14 DEF Hiding, Removing, OtherSubject, vars
<1>15. CASE RefuseReceipt \/ Kill \/ WriteReceipt
  BY <1>3, <1>15 DEF RefuseReceipt, Kill, WriteReceipt
<1> QED
  BY <1>4, <1>5, <1>6, <1>8, <1>11, <1>12, <1>13, <1>14, <1>15 DEF Next

\* What every step changes of the world, and what it cannot change.
LEMMA WorldSteps ==
    ASSUME TypeInv, [Next]_vars
    PROVE  /\ cfg' = cfg /\ env' \in Envs
           /\ (env'.live => env.live) /\ (env'.own => env.own) /\ (env'.leak => env.leak)
           /\ (env'.ghost => env.ghost \/ (env.own /\ ~env'.own /\ ~cfg.model))
           /\ env'.live # env.live => run.pc \in {"suppress", "reclaim"}
<1>1. cfg \in Configs /\ env \in Envs
  BY DEF TypeInv, TypeOK
<1>2. CASE Hiding
  <2>1. env' = [env EXCEPT !.live = FALSE] /\ cfg' = cfg /\ run.pc = "suppress"
    BY <1>2 DEF Hiding, At
  <2> QED
    BY <1>1, <2>1 DEF Envs
<1>3. CASE Removing
  <2>1. PICK live \in {FALSE, env.live}, own \in {FALSE, env.own}, leak \in {FALSE, env.leak},
             ghost \in BOOLEAN, drift \in BOOLEAN :
             /\ ghost => env.own /\ ~own /\ ~cfg.model
             /\ drift => cfg.semantic
             /\ env' = [env EXCEPT !.live = live, !.own = own, !.leak = leak,
                                   !.ghost = env.ghost \/ ghost, !.drift = drift]
    BY <1>3 DEF Removing
  <2>2. cfg' = cfg /\ run.pc = "reclaim"
    BY <1>3 DEF Removing, At
  <2>3. live \in BOOLEAN /\ own \in BOOLEAN /\ leak \in BOOLEAN
    BY <1>1, EnvFacts
  <2> PICK both : both = (env.ghost \/ ghost)
    OBVIOUS
  <2>4. both \in BOOLEAN /\ env' = [env EXCEPT !.live = live, !.own = own, !.leak = leak,
                                               !.ghost = both, !.drift = drift]
    BY <2>1
  <2>5. env' = [live |-> live, own |-> own, ghost |-> both, leak |-> leak,
                dupes |-> env.dupes, drift |-> drift]
    BY <1>1, <2>4 DEF Envs
  <2>7. /\ env' \in Envs /\ env'.live = live /\ env'.own = own /\ env'.leak = leak
        /\ env'.ghost = both
    BY <1>1, <2>3, <2>4, <2>5, EnvFacts DEF Envs
  <2>6. both => env.ghost \/ (env.own /\ ~own /\ ~cfg.model)
    BY <2>1
  <2> QED
    BY <1>1, <2>2, <2>7, <2>6, EnvFacts
<1>4. CASE OtherSubject
  <2>1. PICK dupes \in CASE env.dupes = "none" -> {"live"}
                         [] env.dupes = "live" -> {"hidden", "none"}
                         [] env.dupes = "hidden" -> {"none"} :
             env' = [env EXCEPT !.dupes = dupes]
    BY <1>4 DEF OtherSubject
  <2>2. dupes \in {"none", "live", "hidden"}
    BY <1>1, EnvFacts
  <2> QED
    BY <1>1, <1>4, <2>1, <2>2 DEF Envs, OtherSubject
<1>5. CASE UNCHANGED <<cfg, env>>
  BY <1>1, <1>5
<1>6. ~(Hiding \/ Removing \/ OtherSubject) => UNCHANGED <<cfg, env>>
  <2>1. Start \/ Begin \/ PassOver \/ Suppress \/ Baseline \/ Reclaim => UNCHANGED <<cfg, env>>
    BY DEF Start, Begin, PassOver, Suppress, Baseline, Reclaim
  <2>2. ProbeLogical \/ ProbePhysical \/ ProbeModel \/ EndVerify => UNCHANGED <<cfg, env>>
    BY DEF ProbeLogical, ProbePhysical, ProbeModel, EndVerify, Probe
  <2>3. WriteReceipt \/ RefuseReceipt \/ Raise \/ Kill \/ UNCHANGED vars => UNCHANGED <<cfg, env>>
    BY DEF WriteReceipt, RefuseReceipt, Raise, Kill, vars
  <2> QED
    BY <2>1, <2>2, <2>3 DEF Next
<1> QED
  BY <1>2, <1>3, <1>4, <1>5, <1>6

Histories == [raised: BOOLEAN, late: BOOLEAN, moves: 0..MaxMoves, faults: 0..MaxFaults]

LEMMA HistorySteps ==
    ASSUME TypeInv, [Next]_vars
    PROVE  /\ history' \in Histories
           /\ history.raised => history'.raised
           /\ history.late => history'.late
           /\ history.moves <= history'.moves /\ history.faults <= history'.faults
<1>1. history \in Histories
  BY DEF TypeInv, TypeOK, Histories
<1>2. /\ history.raised \in BOOLEAN /\ history.late \in BOOLEAN
      /\ history.moves \in 0..MaxMoves /\ history.faults \in 0..MaxFaults
  BY <1>1 DEF Histories
<1>3. CASE history' = history
  BY <1>1, <1>2, <1>3
<1>4. CASE Removing
  <2> PICK late : late = (history.late \/ Done("verify"))
    OBVIOUS
  <2>1. history' = [history EXCEPT !.late = late]
    BY <1>4 DEF Removing
  <2>2. late \in BOOLEAN /\ (history.late => late)
    OBVIOUS
  <2>3. /\ history' \in Histories /\ history'.late = late /\ history'.moves = history.moves
        /\ history'.faults = history.faults /\ history'.raised = history.raised
    BY <1>1, <2>1, <2>2 DEF Histories
  <2> QED
    BY <1>2, <2>2, <2>3
<1>5. ASSUME history.faults < MaxFaults
      PROVE  history.faults + 1 \in 0..MaxFaults /\ history.faults <= history.faults + 1
  BY <1>2, <1>5, LatticeAssumption
<1>6. CASE Raise
  <2> PICK faults : faults = history.faults + 1
    OBVIOUS
  <2>1. history' = [history EXCEPT !.faults = faults, !.raised = TRUE]
    BY <1>6 DEF Raise
  <2>2. faults \in 0..MaxFaults /\ history.faults <= faults
    BY <1>5, <1>6 DEF Raise
  <2>3. /\ history' \in Histories /\ history'.faults = faults
        /\ history'.moves = history.moves /\ history'.late = history.late /\ history'.raised
    BY <1>1, <2>1, <2>2 DEF Histories
  <2> QED
    BY <1>2, <2>2, <2>3
<1>7. CASE Kill
  <2> PICK faults : faults = history.faults + 1
    OBVIOUS
  <2>1. history' = [history EXCEPT !.faults = faults]
    BY <1>7 DEF Kill
  <2>2. faults \in 0..MaxFaults /\ history.faults <= faults
    BY <1>5, <1>7 DEF Kill
  <2>3. /\ history' \in Histories /\ history'.faults = faults /\ history'.moves = history.moves
        /\ history'.late = history.late /\ history'.raised = history.raised
    BY <1>1, <2>1, <2>2 DEF Histories
  <2> QED
    BY <1>2, <2>2, <2>3
<1>8. CASE OtherSubject
  <2> PICK moves : moves = history.moves + 1
    OBVIOUS
  <2>1. history' = [history EXCEPT !.moves = moves]
    BY <1>8 DEF OtherSubject
  <2>2. moves \in 0..MaxMoves /\ history.moves <= moves
    BY <1>2, <1>8, LatticeAssumption DEF OtherSubject
  <2>3. /\ history' \in Histories /\ history'.moves = moves /\ history'.faults = history.faults
        /\ history'.late = history.late /\ history'.raised = history.raised
    BY <1>1, <2>1, <2>2 DEF Histories
  <2> QED
    BY <1>2, <2>2, <2>3
<1>9. ~(Removing \/ Raise \/ Kill \/ OtherSubject) => history' = history
  <2>1. Start \/ Begin \/ PassOver \/ Hiding \/ Suppress \/ Baseline \/ Reclaim
          => history' = history
    BY DEF Start, Begin, PassOver, Hiding, Suppress, Baseline, Reclaim
  <2>2. ProbeLogical \/ ProbePhysical \/ ProbeModel \/ EndVerify => history' = history
    BY DEF ProbeLogical, ProbePhysical, ProbeModel, EndVerify, Probe
  <2>3. WriteReceipt \/ RefuseReceipt \/ UNCHANGED vars => history' = history
    BY DEF WriteReceipt, RefuseReceipt, vars
  <2> QED
    BY <2>1, <2>2, <2>3 DEF Next
<1> QED
  BY <1>3, <1>4, <1>6, <1>7, <1>8, <1>9

Receipts == {r \in [saga: 0..MaxSagas, status: Rules \X Levels] :
                r.status[1] = "verified" => r.status[2] \in {"physical", "model"}}

LEMMA SagaSteps ==
    ASSUME TypeInv, [Next]_vars
    PROVE  /\ saga' \in [id: 0..MaxSagas, open: BOOLEAN] /\ saga.id <= saga'.id
           /\ saga'.open => saga'.id \in Sagas
           /\ receipt' \in Receipts /\ receipt'.saga <= saga'.id
           /\ saga'.id # saga.id => /\ Start /\ ~saga.open /\ saga'.id = saga.id + 1
                                    /\ saga.id = 0 \/ receipt.status[1] = "dlq"
           /\ receipt' # receipt => WriteReceipt
<1>1. /\ saga \in [id: 0..MaxSagas, open: BOOLEAN] /\ receipt \in Receipts
      /\ saga.id \in Nat /\ receipt.saga \in Nat /\ receipt.saga <= saga.id
      /\ saga.open => saga.id \in Sagas
  BY LatticeAssumption DEF TypeInv, TypeOK, Receipts
<1>2. CASE UNCHANGED <<saga, receipt>>
  BY <1>1, <1>2
<1>3. CASE Start /\ UNCHANGED receipt /\ ~UNCHANGED saga
  <2>1. /\ ~saga.open /\ saga.id < MaxSagas /\ (saga.id = 0 \/ receipt.status[1] = "dlq")
        /\ saga' = [id |-> saga.id + 1, open |-> TRUE] /\ receipt' = receipt
    BY <1>3 DEF Start
  <2> PICK id : id = saga.id + 1
    OBVIOUS
  <2>2. id \in Sagas /\ id \in 0..MaxSagas /\ saga.id <= id /\ receipt.saga <= id
    <3>1. saga.id \in Nat /\ MaxSagas \in Nat /\ saga.id < MaxSagas /\ receipt.saga \in Nat
          /\ receipt.saga <= saga.id
      BY <1>1, <2>1, LatticeAssumption
    <3> QED
      BY <3>1 DEF Sagas
  <2>3. saga' = [id |-> id, open |-> TRUE]
    BY <2>1
  <2>4. saga' \in [id: 0..MaxSagas, open: BOOLEAN] /\ saga'.id = id
    BY <2>2, <2>3
  <2> QED
    BY <1>1, <1>3, <2>1, <2>2, <2>4
<1>4. CASE WriteReceipt
  <2>1. /\ run.pc = "receipt" /\ saga' = [saga EXCEPT !.open = FALSE]
        /\ receipt' = [saga |-> saga.id, status |-> StatusOf(Facts(saga.id))]
    BY <1>4 DEF WriteReceipt
  <2> PICK status : status = StatusOf(Facts(saga.id))
    OBVIOUS
  <2>2. /\ status \in Rules \X Levels
        /\ status[1] = "verified" => status[2] \in {"physical", "model"}
    BY StatusFacts
  <2>3. receipt' = [saga |-> saga.id, status |-> status]
    BY <2>1
  <2>4. receipt' \in Receipts /\ receipt'.saga = saga.id
    BY <1>1, <2>2, <2>3 DEF Receipts
  <2>5. saga' \in [id: 0..MaxSagas, open: BOOLEAN] /\ saga'.id = saga.id /\ ~saga'.open
    BY <1>1, <2>1
  <2> QED
    BY <1>1, <1>4, <2>4, <2>5
<1>5. ~WriteReceipt => UNCHANGED receipt
  <2>1. Start \/ Begin \/ PassOver \/ Hiding \/ Suppress \/ Baseline \/ Removing \/ Reclaim
          => receipt' = receipt
    BY DEF Start, Begin, PassOver, Hiding, Suppress, Baseline, Removing, Reclaim
  <2>2. ProbeLogical \/ ProbePhysical \/ ProbeModel \/ EndVerify => receipt' = receipt
    BY DEF ProbeLogical, ProbePhysical, ProbeModel, EndVerify, Probe
  <2>3. RefuseReceipt \/ Raise \/ Kill \/ OtherSubject \/ UNCHANGED vars => receipt' = receipt
    BY DEF RefuseReceipt, Raise, Kill, OtherSubject, vars
  <2> QED
    BY <2>1, <2>2, <2>3 DEF Next
<1>6. ~(WriteReceipt \/ Start) => UNCHANGED saga
  <2>1. Begin \/ PassOver \/ Hiding \/ Suppress \/ Baseline \/ Removing \/ Reclaim
          => saga' = saga
    BY DEF Begin, PassOver, Hiding, Suppress, Baseline, Removing, Reclaim
  <2>2. ProbeLogical \/ ProbePhysical \/ ProbeModel \/ EndVerify => saga' = saga
    BY DEF ProbeLogical, ProbePhysical, ProbeModel, EndVerify, Probe
  <2>3. RefuseReceipt \/ Raise \/ Kill \/ OtherSubject \/ UNCHANGED vars => saga' = saga
    BY DEF RefuseReceipt, Raise, Kill, OtherSubject, vars
  <2> QED
    BY <2>1, <2>2, <2>3 DEF Next
<1>7. CASE Start /\ UNCHANGED saga
  BY <1>1, <1>7 DEF Start
<1> QED
  BY <1>2, <1>3, <1>4, <1>5, <1>6, <1>7 DEF Start

LEMMA TypeInit ==
    ASSUME Init
    PROVE  TypeInv
<1>1. cfg \in Configs /\ env \in Envs /\ env.live
  BY DEF Init
<1>2. journal = <<>> /\ journal \in Seq(Records) /\ \A i \in DOMAIN journal : journal[i] \in Records
  BY DEF Init
<1>3. run \in Runs /\ run.pc = "down" /\ ~run.begun
  BY DownFacts DEF Init
<1>4. /\ saga \in [id: 0..MaxSagas, open: BOOLEAN] /\ saga.id = 0 /\ ~saga.open
      /\ history \in [raised: BOOLEAN, late: BOOLEAN, moves: 0..MaxMoves, faults: 0..MaxFaults]
  BY LatticeAssumption DEF Init, Smooth
<1>5. /\ receipt \in [saga: 0..MaxSagas, status: Rules \X Levels]
      /\ receipt.saga = 0 /\ receipt.status[1] = "dlq"
  BY LatticeAssumption DEF Init, NoReceipt, Rules, Levels
<1> QED
  BY <1>1, <1>2, <1>3, <1>4, <1>5 DEF TypeInv, TypeOK, Runs

LEMMA TypeStep ==
    ASSUME TypeInv, [Next]_vars
    PROVE  TypeInv'
<1>1. cfg' \in Configs /\ env' \in Envs
  BY WorldSteps DEF TypeInv, TypeOK
<1>2. journal' \in Seq(Records) /\ \A i \in DOMAIN journal' : journal'[i] \in Records
  <2>1. journal' \in Seq(Records)
    BY JournalTyped
  <2> QED
    BY <2>1
<1>3. run' \in Runs /\ RunShape'
  BY RunKept DEF RunShape
<1>4. /\ saga' \in [id: 0..MaxSagas, open: BOOLEAN] /\ (saga'.open => saga'.id \in Sagas)
      /\ receipt' \in Receipts /\ receipt'.saga <= saga'.id /\ saga.id <= saga'.id
  BY SagaSteps
<1>5. history' \in Histories
  BY HistorySteps
<1>6. saga'.id = 0 => journal' = <<>> /\ run'.pc = "down" /\ env'.live
  <2>1. SUFFICES ASSUME saga'.id = 0 PROVE journal' = <<>> /\ run'.pc = "down" /\ env'.live
    OBVIOUS
  <2>2. saga.id = 0
    BY <1>4, <2>1, LatticeAssumption DEF TypeInv, TypeOK
  <2>3. journal = <<>> /\ run.pc = "down" /\ env.live /\ ~saga.open
    BY <2>2 DEF TypeInv, Sagas
  <2>4. journal' = <<>>
    <3>1. ~saga.open => ~(Begin \/ Suppress \/ Reclaim \/ ProbeLogical \/ ProbePhysical
                          \/ ProbeModel \/ Baseline \/ EndVerify \/ Raise)
      BY Written
    <3>2. Start \/ PassOver \/ Hiding \/ Removing \/ WriteReceipt \/ RefuseReceipt \/ Kill
            \/ OtherSubject \/ UNCHANGED vars => journal' = journal
      BY DEF Start, PassOver, Hiding, Removing, WriteReceipt, RefuseReceipt, Kill,
             OtherSubject, vars
    <3> QED
      BY <2>3, <3>1, <3>2 DEF Next
  <2>5. ~saga'.open
    BY <1>4, <2>1 DEF Sagas
  <2>6. run'.pc = "down"
    BY <1>3, <2>5 DEF RunShape
  <2>7. env'.live
    <3>1. env'.live = env.live
      BY <2>3, WorldSteps
    <3> QED
      BY <2>3, <3>1
  <2> QED
    BY <2>4, <2>6, <2>7
<1>7. TypeOK'
  BY <1>1, <1>2, <1>3, <1>4, <1>5 DEF TypeOK, Runs, Receipts, Histories
<1> QED
  BY <1>2, <1>3, <1>4, <1>6, <1>7 DEF TypeInv, RunShape

LEMMA Types == Spec => []TypeInv
<1>1. Init => TypeInv
  BY TypeInit
<1>2. TypeInv /\ [Next]_vars => TypeInv'
  BY TypeStep
<1> QED
  BY <1>1, <1>2, PTL DEF Spec

\* The values of the variables, for any bounds; an artifact is VERIFIED at the physical
\* or the model level, whatever else was measured (assign of levels.py).
THEOREM TypeCorrect == Spec => []TypeOK
<1>1. TypeInv => TypeOK
  BY DEF TypeInv
<1> QED
  BY <1>1, Types, PTL

----------------------------------------------------------------------------
(* The two readers, after any records                                      *)

\* What a run knows before it reads its records, what replay knows, and what a run with
\* a dead letter knows.
Bare == Unread(FALSE, cfg.gap, cfg.physical, cfg.sharded)
Blank == Unread(FALSE, cfg.gap, TRUE, FALSE)
Dead == Unread(TRUE, cfg.gap, cfg.physical, cfg.sharded)

\* The facts of a saga, to itself and to replay.
Known(id, j) == Told("saga", id, Bare, j)
Read(id, j) == Told("replay", id, Blank, j)

\* The readers differ in what the configuration alone tells the saga.
Alike(f, g) ==
    /\ f.dlq = FALSE /\ g.dlq = FALSE /\ f.gap = cfg.gap /\ g.gap = cfg.gap
    /\ f.dupes = g.dupes /\ f.seen = g.seen
    /\ f.logical = g.logical /\ f.physical = g.physical
    /\ f.canary = g.canary /\ f.mia = g.mia /\ f.above = g.above
    /\ IF cfg.physical THEN f.supported = g.supported ELSE f.supported = FALSE
    /\ IF cfg.sharded THEN f.model = TRUE ELSE f.model = g.model

Reading(j) ==
    \A id \in Nat :
       /\ Known(id, j) \in FactSets /\ Read(id, j) \in FactSets
       /\ Alike(Known(id, j), Read(id, j))
       /\ Told("saga", id, Dead, j) \in FactSets /\ Told("saga", id, Dead, j).dlq

LEMMA FirstFacts ==
    ASSUME cfg \in Configs
    PROVE  /\ Bare \in FactSets /\ Blank \in FactSets /\ Dead \in FactSets
           /\ Dead.dlq /\ Alike(Bare, Blank)
           /\ run.dlq = FALSE => SagaFacts = Bare
           /\ run.dlq = TRUE => SagaFacts = Dead
<1>1. /\ cfg.gap \in BOOLEAN /\ cfg.physical \in BOOLEAN /\ cfg.sharded \in BOOLEAN
  BY ConfigFacts
<1>2. Bare \in FactSets /\ Blank \in FactSets /\ Dead \in FactSets /\ Dead.dlq
  BY <1>1 DEF Bare, Blank, Dead, Unread, FactSets, Answers
<1>3. Alike(Bare, Blank)
  BY <1>1 DEF Alike, Bare, Blank, Unread
<1>4. run.dlq = FALSE => SagaFacts = Bare
  BY DEF SagaFacts, Bare
<1>5. run.dlq = TRUE => SagaFacts = Dead
  BY DEF SagaFacts, Dead
<1> QED
  BY <1>2, <1>3, <1>4, <1>5

\* The fields of what is learnt from a record.
LEMMA LearnFields ==
    ASSUME NEW id, NEW f \in FactSets, NEW r \in Records, NEW l, l = Learn(id, f, r)
    PROVE  /\ l \in FactSets /\ l.dlq = f.dlq /\ l.gap = f.gap
           /\ l.seen = (f.seen \/ r.type = "baseline")
           /\ l.dupes = IF r.type = "baseline" /\ ~f.seen THEN r.dupes ELSE f.dupes
           /\ l.logical = IF r.type = "logical" /\ r.saga = id THEN YesNo(r.found = "yes")
                          ELSE f.logical
           /\ l.supported = (f.supported /\ ~(r.type = "unsupported" /\ r.saga = id)
                                /\ ~(r.type = "scan" /\ r.saga = id /\ ~r.own /\ r.content
                                        /\ f.dupes))
           /\ l.physical = IF r.type = "scan" /\ r.saga = id
                           THEN IF r.own \/ (r.content /\ ~f.dupes) THEN "yes"
                                ELSE IF r.content THEN "none" ELSE "no"
                           ELSE f.physical
           /\ l.model = (f.model \/ (r.type = "model" /\ r.saga = id))
           /\ l.canary = IF r.type = "model" /\ r.saga = id THEN r.canary ELSE f.canary
           /\ l.mia = IF r.type = "model" /\ r.saga = id THEN r.mia ELSE f.mia
           /\ l.above = IF r.type = "semantic" /\ r.saga = id THEN YesNo(r.above) ELSE f.above
<1>1. l \in FactSets
  BY LearnTyped
<1>2. /\ f.seen \in BOOLEAN /\ f.dupes \in BOOLEAN /\ f.supported \in BOOLEAN
      /\ f.model \in BOOLEAN
      /\ DOMAIN f = {"dlq", "gap", "seen", "dupes", "logical", "supported", "physical",
                     "model", "canary", "mia", "above"}
  BY DEF FactSets
<1>3. CASE r.type = "baseline"
  <2>1. l = TakeBaseline(f, r)
    BY <1>3 DEF Learn
  <2> QED
    BY <1>1, <1>2, <1>3, <2>1 DEF TakeBaseline
<1>4. CASE r.saga # id /\ r.type # "baseline"
  <2>1. l = f
    BY <1>4, RecordFacts DEF Learn
  <2> QED
    BY <1>1, <1>2, <1>4, <2>1
<1>5. CASE r.saga = id /\ r.type = "logical"
  <2>1. l = [f EXCEPT !.logical = YesNo(r.found = "yes")]
    BY <1>5 DEF Learn
  <2> HIDE DEF YesNo
  <2> QED
    BY <1>1, <1>2, <1>5, <2>1
<1>6. CASE r.saga = id /\ r.type = "unsupported"
  <2>1. l = [f EXCEPT !.supported = FALSE]
    BY <1>6 DEF Learn
  <2> QED
    BY <1>1, <1>2, <1>6, <2>1
<1>7. CASE r.saga = id /\ r.type = "scan"
  <2>1. l = Attributed(f, r)
    BY <1>7 DEF Learn
  <2> QED
    BY <1>1, <1>2, <1>7, <2>1 DEF Attributed
<1>8. CASE r.saga = id /\ r.type = "model"
  <2>1. l = [f EXCEPT !.model = TRUE, !.canary = r.canary, !.mia = r.mia]
    BY <1>8 DEF Learn
  <2> QED
    BY <1>1, <1>2, <1>8, <2>1
<1>9. CASE r.saga = id /\ r.type = "semantic"
  <2>1. l = [f EXCEPT !.above = YesNo(r.above)]
    BY <1>9 DEF Learn
  <2> QED
    BY <1>1, <1>2, <1>9, <2>1
<1>10. CASE r.type \in {"begin", "ok", "failed", "dlq"}
  <2>1. l = f
    BY <1>10 DEF Learn
  <2> QED
    BY <1>1, <1>2, <1>10, <2>1
<1> QED
  BY <1>3, <1>4, <1>5, <1>6, <1>7, <1>8, <1>9, <1>10, RecordFacts

LEMMA LearnAlike ==
    ASSUME NEW id, NEW f \in FactSets, NEW g \in FactSets, Alike(f, g), NEW r \in Records
    PROVE  Alike(Learn(id, f, r), Learn(id, g, r))
<1> PICK k : k = Learn(id, f, r)
  OBVIOUS
<1> PICK l : l = Learn(id, g, r)
  OBVIOUS
<1>1. f.dupes = g.dupes /\ f.seen = g.seen
  BY DEF Alike
<1>2. k.dlq = FALSE /\ l.dlq = FALSE /\ k.gap = cfg.gap /\ l.gap = cfg.gap
  BY LearnFields DEF Alike
<1>3. k.dupes = l.dupes /\ k.seen = l.seen
  BY <1>1, LearnFields
<1>4. k.logical = l.logical
  BY LearnFields DEF Alike
<1>5. k.physical = l.physical
  BY <1>1, LearnFields DEF Alike
<1>6. k.canary = l.canary /\ k.mia = l.mia
  BY LearnFields DEF Alike
<1>7. k.above = l.above
  BY LearnFields DEF Alike
<1>8. IF cfg.physical THEN k.supported = l.supported ELSE k.supported = FALSE
  <2> DEFINE lost == \/ r.type = "unsupported" /\ r.saga = id
                     \/ r.type = "scan" /\ r.saga = id /\ ~r.own /\ r.content /\ f.dupes
  <2>1. k.supported = (f.supported /\ ~lost)
    BY LearnFields
  <2>2. l.supported = (g.supported /\ ~lost)
    BY <1>1, LearnFields
  <2> HIDE DEF lost
  <2>3. CASE cfg.physical
    BY <2>1, <2>2, <2>3 DEF Alike
  <2>4. CASE ~cfg.physical
    <3>1. f.supported = FALSE
      BY <2>4 DEF Alike
    <3> QED
      BY <2>1, <2>4, <3>1
  <2> QED
    BY <2>3, <2>4
<1>9. IF cfg.sharded THEN k.model = TRUE ELSE k.model = l.model
  <2> DEFINE heard == r.type = "model" /\ r.saga = id
  <2>1. k.model = (f.model \/ heard) /\ l.model = (g.model \/ heard)
    BY LearnFields
  <2> HIDE DEF heard
  <2>3. CASE cfg.sharded
    <3>1. f.model = TRUE
      BY <2>3 DEF Alike
    <3> QED
      BY <2>1, <2>3, <3>1
  <2>4. CASE ~cfg.sharded
    BY <2>1, <2>4 DEF Alike
  <2> QED
    BY <2>3, <2>4
<1> QED
  BY <1>2, <1>3, <1>4, <1>5, <1>6, <1>7, <1>8, <1>9 DEF Alike

LEMMA ReadingNothing ==
    ASSUME cfg \in Configs
    PROVE  Reading(<<>>) /\ \A id \in Nat : Known(id, <<>>) = Bare /\ Read(id, <<>>) = Blank
BY FirstFacts, ToldNothing DEF Reading, Known, Read

LEMMA ReadingOnce ==
    ASSUME NEW j \in Seq(Records), Reading(j), NEW r \in Records
    PROVE  /\ Reading(Append(j, r))
           /\ \A id \in Nat : /\ Known(id, Append(j, r)) = Learn(id, Known(id, j), r)
                              /\ Read(id, Append(j, r)) = Learn(id, Read(id, j), r)
<1> PICK bare : bare = Bare
  OBVIOUS
<1> PICK blank : blank = Blank
  OBVIOUS
<1> PICK dead : dead = Dead
  OBVIOUS
<1> SUFFICES ASSUME NEW id \in Nat
    PROVE  LET f == Known(id, j)
               g == Read(id, j)
               d == Told("saga", id, Dead, j)
           IN  /\ Known(id, Append(j, r)) = Learn(id, f, r)
               /\ Read(id, Append(j, r)) = Learn(id, g, r)
               /\ Learn(id, f, r) \in FactSets /\ Learn(id, g, r) \in FactSets
               /\ Alike(Learn(id, f, r), Learn(id, g, r))
               /\ Told("saga", id, Dead, Append(j, r)) \in FactSets
               /\ Told("saga", id, Dead, Append(j, r)).dlq
  BY DEF Reading
<1> PICK f : f = Known(id, j)
  OBVIOUS
<1> PICK g : g = Read(id, j)
  OBVIOUS
<1> PICK d : d = Told("saga", id, dead, j)
  OBVIOUS
<1>1. f \in FactSets /\ g \in FactSets /\ Alike(f, g) /\ d \in FactSets /\ d.dlq
  BY DEF Reading
<1>2. Told("saga", id, bare, Append(j, r)) = Reads("saga", id, Told("saga", id, bare, j), r)
  BY ToldOnce
<1>3. Known(id, Append(j, r)) = Learn(id, f, r)
  BY <1>1, <1>2, ReadersAgree DEF Known
<1>4. Told("replay", id, blank, Append(j, r)) = Reads("replay", id, Told("replay", id, blank, j), r)
  BY ToldOnce
<1>5. Read(id, Append(j, r)) = Learn(id, g, r)
  BY <1>1, <1>4, ReadersAgree DEF Read
<1>6. Told("saga", id, dead, Append(j, r)) = Reads("saga", id, d, r)
  BY ToldOnce
<1>7. Told("saga", id, dead, Append(j, r)) = Learn(id, d, r)
  BY <1>1, <1>6, ReadersAgree
<1>8. Learn(id, d, r) \in FactSets /\ Learn(id, d, r).dlq
  BY <1>1, LearnFields
<1>9. /\ Learn(id, f, r) \in FactSets /\ Learn(id, g, r) \in FactSets
      /\ Alike(Learn(id, f, r), Learn(id, g, r))
  BY <1>1, LearnTyped, LearnAlike
<1> QED
  BY <1>3, <1>5, <1>7, <1>8, <1>9

----------------------------------------------------------------------------
(* What was recorded is still true                                         *)

\* A record that says that something is gone is right.
Genuine(r) ==
    /\ r.type = "logical" /\ r.found # "yes" /\ cfg.prompts => ~env.live
    /\ r.type = "scan" /\ ~r.own /\ ~r.content => ~env.own /\ ~env.ghost
    /\ r.type = "model" =>
         /\ r.mia = "no" => ~env.leak
         /\ ~cfg.prompts => r.canary = "none" /\ r.mia = "none"
         /\ cfg.reference /\ r.canary # "none" => r.mia # "none"

Truthful(f) ==
    /\ f.logical = "no" /\ cfg.prompts => ~env.live
    /\ f.physical = "no" => ~env.own /\ ~env.ghost
    /\ f.mia = "no" => ~env.leak
    /\ ~cfg.prompts => f.canary = "none" /\ f.mia = "none"
    /\ cfg.reference /\ f.canary # "none" => f.mia # "none"

Truth(j) == \A id \in Nat : Truthful(Known(id, j))

\* Whatever an adapter retrains, no copy of a record's content is made elsewhere.
NoGhost == cfg.model => ~env.ghost

LEMMA TruthNothing ==
    ASSUME cfg \in Configs
    PROVE  Truth(<<>>)
<1>1. Truthful(Bare)
  BY DEF Truthful, Bare, Unread
<1> QED
  BY <1>1, ReadingNothing DEF Truth

LEMMA LearnTruthful ==
    ASSUME NEW id, NEW f \in FactSets, Truthful(f), NEW r \in Records, Genuine(r)
    PROVE  Truthful(Learn(id, f, r))
<1> PICK l : l = Learn(id, f, r)
  OBVIOUS
<1>1. l.logical = "no" /\ cfg.prompts => ~env.live
  <2>1. l.logical = IF r.type = "logical" /\ r.saga = id THEN YesNo(r.found = "yes")
                    ELSE f.logical
    BY LearnFields
  <2>2. YesNo(r.found = "yes") = "no" => r.found # "yes"
    BY DEF YesNo
  <2> QED
    BY <2>1, <2>2 DEF Truthful, Genuine
<1>2. l.physical = "no" => ~env.own /\ ~env.ghost
  <2>1. l.physical = IF r.type = "scan" /\ r.saga = id
                     THEN IF r.own \/ (r.content /\ ~f.dupes) THEN "yes"
                          ELSE IF r.content THEN "none" ELSE "no"
                     ELSE f.physical
    BY LearnFields
  <2> QED
    BY <2>1 DEF Truthful, Genuine
<1>3. /\ l.canary = IF r.type = "model" /\ r.saga = id THEN r.canary ELSE f.canary
      /\ l.mia = IF r.type = "model" /\ r.saga = id THEN r.mia ELSE f.mia
  BY LearnFields
<1>4. /\ l.mia = "no" => ~env.leak
      /\ ~cfg.prompts => l.canary = "none" /\ l.mia = "none"
      /\ cfg.reference /\ l.canary # "none" => l.mia # "none"
  BY <1>3 DEF Truthful, Genuine
<1> QED
  BY <1>1, <1>2, <1>4 DEF Truthful

LEMMA TruthOnce ==
    ASSUME NEW j \in Seq(Records), Reading(j), Truth(j), NEW r \in Records, Genuine(r)
    PROVE  Truth(Append(j, r))
<1> SUFFICES ASSUME NEW id \in Nat
    PROVE  Truthful(Known(id, Append(j, r)))
  BY DEF Truth
<1> PICK f : f = Known(id, j)
  OBVIOUS
<1>1. f \in FactSets /\ Truthful(f)
  BY DEF Reading, Truth
<1>2. Known(id, Append(j, r)) = Learn(id, f, r)
  BY ReadingOnce
<1> QED
  BY <1>1, <1>2, LearnTruthful

\* What the probes write is right when they write it.
LEMMA GenuineOnes ==
    ASSUME TypeInv, NoGhost
    PROVE  /\ Genuine(LogicalOne) /\ Genuine(PhysicalOne) /\ Genuine(ModelOne)
           /\ Genuine(BaselineOne)
           /\ \A type \in {"begin", "ok", "failed"} : \A step : Genuine(StepRecord(type, step))
           /\ Genuine([type |-> "dlq", saga |-> saga.id])
           /\ \A above : Genuine(SemanticRecord(above))
<1>1. cfg \in Configs /\ env \in Envs
  BY DEF TypeInv, TypeOK
<1>2. Genuine(LogicalOne)
  BY <1>1, EnvFacts DEF Genuine, LogicalOne, Retrieved, YesNo
<1>3. Genuine(PhysicalOne)
  <2>1. CASE Scannable
    <3>1. PhysicalOne.type = "scan" /\ PhysicalOne.own = Scanned.own
            /\ PhysicalOne.content = Scanned.content
      BY <2>1 DEF PhysicalOne
    <3>2. /\ Scanned.own = env.own
          /\ Scanned.content = (~cfg.model /\ (env.own \/ env.ghost \/ env.dupes # "none"))
      BY DEF Scanned
    <3>3. ~Scanned.own /\ ~Scanned.content => ~env.own /\ ~env.ghost
      BY <3>2 DEF NoGhost
    <3> QED
      BY <3>1, <3>3 DEF Genuine
  <2>2. CASE ~Scannable
    BY <2>2 DEF PhysicalOne, Genuine
  <2> QED
    BY <2>1, <2>2
<1>4. Genuine(ModelOne)
  BY <1>1, EnvFacts DEF Genuine, ModelOne, YesNo
<1>5. Genuine(BaselineOne)
  BY DEF Genuine, BaselineOne
<1>6. \A type \in {"begin", "ok", "failed"} : \A step : Genuine(StepRecord(type, step))
  BY DEF Genuine, StepRecord
<1>7. Genuine([type |-> "dlq", saga |-> saga.id])
  BY DEF Genuine
<1>8. \A above : Genuine(SemanticRecord(above))
  BY DEF Genuine, SemanticRecord
<1> QED
  BY <1>2, <1>3, <1>4, <1>5, <1>6, <1>7, <1>8

\* A step writes nothing, one record or two, of the open saga, and then changes nothing
\* of the world.
LEMMA WrittenTruly ==
    ASSUME TypeInv, NoGhost, [Next]_vars
    PROVE  \/ journal' = journal
           \/ saga.open /\ UNCHANGED <<cfg, env, saga, receipt>> /\ ~WriteReceipt
              /\ \/ \E a \in Records : Genuine(a) /\ journal' = Append(journal, a)
                 \/ \E a, b \in Records : Genuine(a) /\ Genuine(b)
                                          /\ journal' = Append(Append(journal, a), b)
<1>a. Begin \/ Suppress \/ Baseline \/ Reclaim \/ ProbeLogical \/ ProbePhysical \/ ProbeModel
        \/ EndVerify \/ Raise => UNCHANGED <<cfg, env, saga, receipt>>
  <2>1. Begin \/ Suppress \/ Baseline \/ Reclaim \/ Raise => UNCHANGED <<cfg, env, saga, receipt>>
    BY DEF Begin, Suppress, Baseline, Reclaim, Raise
  <2>2. ProbeLogical \/ ProbePhysical \/ ProbeModel \/ EndVerify
          => UNCHANGED <<cfg, env, saga, receipt>>
    BY DEF ProbeLogical, ProbePhysical, ProbeModel, EndVerify, Probe
  <2> QED
    BY <2>1, <2>2
<1>b. WriteReceipt => journal' = journal
  BY DEF WriteReceipt
<1>c. \A step : Genuine(Ok(step))
  BY GenuineOnes DEF Ok
<1>1. CASE Begin
  BY <1>1, <1>a, <1>b, Written, GenuineOnes
<1>2. CASE Suppress
  BY <1>2, <1>a, <1>b, <1>c, Written
<1>3. CASE Baseline
  <2>1. Genuine(BaselineOne) /\ Genuine(Ok("baseline"))
    BY <1>c, GenuineOnes
  <2> QED
    BY <1>3, <1>a, <1>b, <2>1, Written
<1>4. CASE Reclaim
  BY <1>4, <1>a, <1>b, <1>c, Written
<1>5. CASE ProbeLogical
  BY <1>5, <1>a, <1>b, Written, GenuineOnes
<1>6. CASE ProbePhysical
  BY <1>6, <1>a, <1>b, Written, GenuineOnes
<1>7. CASE ProbeModel
  BY <1>7, <1>a, <1>b, Written, GenuineOnes
<1>8. CASE EndVerify
  <2>1. Genuine(Ok("verify")) /\ \A above : Genuine(SemanticRecord(above))
    BY <1>c, GenuineOnes
  <2>2. CASE journal' = Append(journal, Ok("verify"))
    BY <1>8, <1>a, <1>b, <2>1, <2>2, Written
  <2>3. ASSUME NEW above \in Drifted(run.before), SemanticRecord(above) \in Records,
               journal' = Append(Append(journal, SemanticRecord(above)), Ok("verify"))
        PROVE  \E a, b \in Records : Genuine(a) /\ Genuine(b)
                                     /\ journal' = Append(Append(journal, a), b)
    <3>1. Ok("verify") \in Records
      BY <1>8, Written
    <3> QED
      BY <2>1, <2>3, <3>1
  <2> QED
    BY <1>8, <1>a, <1>b, <2>2, <2>3, Written
<1>9. CASE Raise
  <2>1. /\ Genuine(StepRecord("failed", StepOf(run.pc)))
        /\ Genuine([type |-> "dlq", saga |-> saga.id])
    BY GenuineOnes
  <2> QED
    BY <1>9, <1>a, <1>b, <2>1, Written
<1>10. ~(Begin \/ Suppress \/ Reclaim \/ ProbeLogical \/ ProbePhysical \/ ProbeModel
          \/ Baseline \/ EndVerify \/ Raise) => journal' = journal
  BY DEF Next, vars, Start, PassOver, Hiding, Removing, WriteReceipt, RefuseReceipt, Kill,
         OtherSubject
<1> QED
  BY <1>1, <1>2, <1>3, <1>4, <1>5, <1>6, <1>7, <1>8, <1>9, <1>10

----------------------------------------------------------------------------
(* From step to step                                                       *)

In(x, j) == \E i \in DOMAIN j : j[i] = x

LEMMA InAppend ==
    ASSUME NEW j \in Seq(Records), NEW r \in Records
    PROVE  /\ Append(j, r) \in Seq(Records)
           /\ \A x : In(x, Append(j, r)) <=> In(x, j) \/ x = r
BY AppendFacts DEF In

LEMMA DoneIsIn ==
    /\ \A x : Has(x) <=> In(x, journal)
    /\ \A x : Has(x)' <=> In(x, journal')
    /\ \A step : Done(step) <=> In(Ok(step), journal)
    /\ saga'.id = saga.id => \A step : Done(step)' <=> In(Ok(step), journal')
BY DEF In, Has, Done, Ok, StepRecord

\* Nothing is lost from j to k, and only these steps are newly over.
Gains(j, k, steps) ==
    /\ \A x : In(x, j) => In(x, k)
    /\ \A step : In(Ok(step), k) => In(Ok(step), j) \/ step \in steps

LEMMA OkFacts ==
    \A step, other : (Ok(step) = Ok(other) => step = other) /\ Ok(step).type = "ok"
BY DEF Ok, StepRecord

LEMMA GainsNone ==
    ASSUME NEW j \in Seq(Records), NEW r \in Records, r.type # "ok"
    PROVE  Gains(j, Append(j, r), {})
<1>1. \A x : In(x, Append(j, r)) <=> In(x, j) \/ x = r
  BY InAppend
<1>2. \A step : Ok(step) # r
  BY OkFacts
<1> QED
  BY <1>1, <1>2 DEF Gains

LEMMA GainsStep ==
    ASSUME NEW j \in Seq(Records), NEW step, Ok(step) \in Records
    PROVE  Gains(j, Append(j, Ok(step)), {step}) /\ In(Ok(step), Append(j, Ok(step)))
<1> PICK ok : ok = Ok(step)
  OBVIOUS
<1>1. \A x : In(x, Append(j, ok)) <=> In(x, j) \/ x = ok
  BY InAppend
<1>2. \A other : Ok(other) = ok => other = step
  BY OkFacts
<1> QED
  BY <1>1, <1>2 DEF Gains

LEMMA GainsTwo ==
    ASSUME NEW i, NEW j, NEW k, NEW steps, Gains(i, j, {}), Gains(j, k, steps)
    PROVE  Gains(i, k, steps)
BY DEF Gains

\* No record is lost, and a step is over when its action says so.
LEMMA DoneSteps ==
    ASSUME TypeInv, [Next]_vars, saga'.id = saga.id
    PROVE  /\ \A x : Has(x) => Has(x)'
           /\ \A step : Done(step) => Done(step)'
           /\ \A step \in Steps : Done(step)' =>
                 \/ Done(step)
                 \/ step = "suppress" /\ Suppress
                 \/ step = "baseline" /\ Baseline
                 \/ step = "reclaim" /\ Reclaim
                 \/ step = "verify" /\ EndVerify
           /\ Suppress => Done("suppress")'
           /\ Baseline => Done("baseline")'
           /\ EndVerify => Done("verify")'
<1> PICK k : k = journal'
  OBVIOUS
<1> PICK j : j = journal
  OBVIOUS
<1>a. j \in Seq(Records)
  BY DEF TypeInv
<1>1. ASSUME NEW r \in Records, r.type # "ok", k = Append(j, r) PROVE Gains(j, k, {})
  BY <1>a, <1>1, GainsNone
<1>2. ASSUME NEW r \in Records, NEW step, Ok(step) \in Records, r.type # "ok",
             k = Append(Append(j, r), Ok(step))
      PROVE  Gains(j, k, {step}) /\ In(Ok(step), k)
  <2>1. Append(j, r) \in Seq(Records) /\ Gains(j, Append(j, r), {})
    BY <1>a, <1>2, InAppend, GainsNone
  <2>2. Gains(Append(j, r), k, {step}) /\ In(Ok(step), k)
    BY <1>2, <2>1, GainsStep
  <2> QED
    BY <2>1, <2>2, GainsTwo
<1>3. ASSUME NEW a \in Records, NEW b \in Records, a.type # "ok", b.type # "ok",
             k = Append(Append(j, a), b)
      PROVE  Gains(j, k, {})
  <2>1. Append(j, a) \in Seq(Records) /\ Gains(j, Append(j, a), {})
    BY <1>a, <1>3, InAppend, GainsNone
  <2>2. Gains(Append(j, a), k, {})
    BY <1>3, <2>1, GainsNone
  <2> QED
    BY <2>1, <2>2, GainsTwo
<1>4. Begin => Gains(j, k, {})
  <2>1. StepRecord("begin", StepOf(run.pc)).type # "ok"
    BY DEF StepRecord
  <2> QED
    BY <1>1, <2>1, Written
<1>5. Suppress => Gains(j, k, {"suppress"}) /\ In(Ok("suppress"), k)
  BY <1>a, GainsStep, Written
<1>6. Reclaim => Gains(j, k, {"reclaim"})
  BY <1>a, GainsStep, Written
<1>7. Baseline => Gains(j, k, {"baseline"}) /\ In(Ok("baseline"), k)
  <2>1. BaselineOne.type # "ok"
    BY DEF BaselineOne
  <2> QED
    BY <1>a, <1>2, <2>1, GainsStep, Written
<1>8. ProbeLogical \/ ProbePhysical \/ ProbeModel => Gains(j, k, {})
  <2>1. LogicalOne.type # "ok" /\ PhysicalOne.type # "ok" /\ ModelOne.type # "ok"
    BY DEF LogicalOne, PhysicalOne, ModelOne
  <2>2. Gains(j, j, {})
    BY DEF Gains
  <2>3. ProbeLogical => Gains(j, k, {})
    BY <1>1, <2>1, Written
  <2>4. ProbePhysical => Gains(j, k, {})
    BY <1>1, <2>1, Written
  <2>5. ProbeModel => Gains(j, k, {})
    BY <1>1, <2>1, <2>2, Written
  <2> QED
    BY <2>3, <2>4, <2>5
<1>9. EndVerify => Gains(j, k, {"verify"}) /\ In(Ok("verify"), k)
  <2>1. \A above : SemanticRecord(above).type # "ok"
    BY DEF SemanticRecord
  <2>2. ASSUME Ok("verify") \in Records, k = Append(j, Ok("verify"))
        PROVE  Gains(j, k, {"verify"}) /\ In(Ok("verify"), k)
    BY <1>a, <2>2, GainsStep
  <2>3. ASSUME Ok("verify") \in Records, NEW above, SemanticRecord(above) \in Records,
               k = Append(Append(j, SemanticRecord(above)), Ok("verify"))
        PROVE  Gains(j, k, {"verify"}) /\ In(Ok("verify"), k)
    <3> PICK r : r = SemanticRecord(above)
      OBVIOUS
    <3>1. r \in Records /\ r.type # "ok" /\ k = Append(Append(j, r), Ok("verify"))
      BY <2>1, <2>3
    <3> QED
      BY <1>2, <2>3, <3>1
  <2> QED
    BY <2>2, <2>3, Written
<1>10. Raise => Gains(j, k, {})
  <2> PICK a : a = StepRecord("failed", StepOf(run.pc))
    OBVIOUS
  <2> PICK b : b = [type |-> "dlq", saga |-> saga.id]
    OBVIOUS
  <2>1. a.type # "ok" /\ b.type # "ok"
    BY DEF StepRecord
  <2>2. Raise => a \in Records /\ b \in Records
                   /\ (k = Append(j, a) \/ k = Append(Append(j, a), b))
    BY Written
  <2> QED
    BY <1>1, <1>3, <2>1, <2>2
<1>11. ~(Begin \/ Suppress \/ Reclaim \/ ProbeLogical \/ ProbePhysical \/ ProbeModel
          \/ Baseline \/ EndVerify \/ Raise) => Gains(j, k, {})
  <2>1. ~(Begin \/ Suppress \/ Reclaim \/ ProbeLogical \/ ProbePhysical \/ ProbeModel
            \/ Baseline \/ EndVerify \/ Raise) => journal' = journal
    BY DEF Next, vars, Start, PassOver, Hiding, Removing, WriteReceipt, RefuseReceipt, Kill,
           OtherSubject
  <2>2. Gains(j, j, {})
    BY DEF Gains
  <2> QED
    BY <2>1, <2>2
<1>12. \E steps : /\ Gains(j, k, steps)
                  /\ "suppress" \in steps => Suppress
                  /\ "baseline" \in steps => Baseline
                  /\ "reclaim" \in steps => Reclaim
                  /\ "verify" \in steps => EndVerify
  BY <1>4, <1>5, <1>6, <1>7, <1>8, <1>9, <1>10, <1>11
<1>13. PICK steps : /\ Gains(j, k, steps)
                    /\ "suppress" \in steps => Suppress
                    /\ "baseline" \in steps => Baseline
                    /\ "reclaim" \in steps => Reclaim
                    /\ "verify" \in steps => EndVerify
  BY <1>12
<1>14. \A step \in Steps : Done(step)' =>
                 \/ Done(step)
                 \/ step = "suppress" /\ Suppress
                 \/ step = "baseline" /\ Baseline
                 \/ step = "reclaim" /\ Reclaim
                 \/ step = "verify" /\ EndVerify
  BY <1>13, DoneIsIn DEF Gains, Steps
<1>15. (\A x : Has(x) => Has(x)') /\ \A step : Done(step) => Done(step)'
  BY <1>13, DoneIsIn DEF Gains
<1>16. /\ Suppress => Done("suppress")'
       /\ Baseline => Done("baseline")'
       /\ EndVerify => Done("verify")'
  BY <1>5, <1>7, <1>9, DoneIsIn
<1> QED
  BY <1>14, <1>15, <1>16

LEMMA NoGhostStep ==
    ASSUME TypeInv, NoGhost, [Next]_vars
    PROVE  NoGhost'
BY WorldSteps DEF NoGhost

LEMMA ReadingStep ==
    ASSUME TypeInv, NoGhost, Reading(journal), [Next]_vars
    PROVE  Reading(journal')
<1>1. journal \in Seq(Records)
  BY DEF TypeInv
<1>2. \A a \in Records : Reading(Append(journal, a))
  BY <1>1, ReadingOnce
<1>3. ASSUME NEW a \in Records, NEW b \in Records PROVE Reading(Append(Append(journal, a), b))
  <2>1. Append(journal, a) \in Seq(Records) /\ Reading(Append(journal, a))
    BY <1>1, <1>2, InAppend
  <2> QED
    BY <2>1, ReadingOnce
<1> QED
  BY <1>2, <1>3, WrittenTruly

\* The facts of a saga stay as they are as long as nothing is written, and a level that
\* was measured stays measured.
LEMMA ReadingGrows ==
    ASSUME TypeInv, NoGhost, Reading(journal), [Next]_vars, NEW id \in Nat
    PROVE  /\ Read(id, journal').supported = TRUE => Read(id, journal).supported = TRUE
           /\ Read(id, journal).model = TRUE => Read(id, journal').model = TRUE
<1>1. journal \in Seq(Records)
  BY DEF TypeInv
<1>2. ASSUME NEW j \in Seq(Records), Reading(j), NEW r \in Records
      PROVE  /\ Read(id, Append(j, r)).supported = TRUE => Read(id, j).supported = TRUE
             /\ Read(id, j).model = TRUE => Read(id, Append(j, r)).model = TRUE
             /\ Append(j, r) \in Seq(Records) /\ Reading(Append(j, r))
  <2> PICK f : f = Read(id, j)
    OBVIOUS
  <2> PICK l : l = Learn(id, f, r)
    OBVIOUS
  <2>1. Read(id, Append(j, r)) = l /\ f \in FactSets
    BY <1>2, ReadingOnce DEF Reading
  <2>2. f.supported \in BOOLEAN
    BY <2>1 DEF FactSets
  <2>3. l.supported = TRUE => f.supported = TRUE
    <3> DEFINE lost == \/ r.type = "unsupported" /\ r.saga = id
                       \/ r.type = "scan" /\ r.saga = id /\ ~r.own /\ r.content /\ f.dupes
    <3>1. l.supported = (f.supported /\ ~lost)
      BY <2>1, LearnFields
    <3> HIDE DEF lost
    <3> QED
      BY <2>2, <3>1
  <2>4. f.model = TRUE => l.model = TRUE
    <3> DEFINE heard == r.type = "model" /\ r.saga = id
    <3>1. l.model = (f.model \/ heard)
      BY <2>1, LearnFields
    <3> HIDE DEF heard
    <3> QED
      BY <3>1
  <2>5. Append(j, r) \in Seq(Records) /\ Reading(Append(j, r))
    BY <1>2, InAppend, ReadingOnce
  <2> QED
    BY <2>1, <2>3, <2>4, <2>5
<1>3. ASSUME NEW a \in Records, journal' = Append(journal, a)
      PROVE  /\ Read(id, journal').supported = TRUE => Read(id, journal).supported = TRUE
             /\ Read(id, journal).model = TRUE => Read(id, journal').model = TRUE
  BY <1>1, <1>2, <1>3
<1>4. ASSUME NEW a \in Records, NEW b \in Records, journal' = Append(Append(journal, a), b)
      PROVE  /\ Read(id, journal').supported = TRUE => Read(id, journal).supported = TRUE
             /\ Read(id, journal).model = TRUE => Read(id, journal').model = TRUE
  <2> PICK j : j = Append(journal, a)
    OBVIOUS
  <2>1. /\ j \in Seq(Records) /\ Reading(j)
        /\ Read(id, j).supported = TRUE => Read(id, journal).supported = TRUE
        /\ Read(id, journal).model = TRUE => Read(id, j).model = TRUE
    BY <1>1, <1>2
  <2>2. /\ Read(id, Append(j, b)).supported = TRUE => Read(id, j).supported = TRUE
        /\ Read(id, j).model = TRUE => Read(id, Append(j, b)).model = TRUE
    BY <1>2, <2>1
  <2> QED
    BY <1>4, <2>1, <2>2
<1> QED
  BY <1>3, <1>4, WrittenTruly

\* What was true of the world before a step that writes nothing is true after it.
LEMMA StillTrue ==
    ASSUME TypeInv, [Next]_vars, NEW f, Truthful(f)
    PROVE  Truthful(f)'
<1>1. cfg' = cfg /\ (env'.live => env.live) /\ (env'.own => env.own) /\ (env'.leak => env.leak)
        /\ (env'.ghost => env.ghost \/ env.own)
  BY WorldSteps
<1> QED
  BY <1>1 DEF Truthful

LEMMA TruthStep ==
    ASSUME TypeInv, NoGhost, Reading(journal), Truth(journal), [Next]_vars
    PROVE  Truth(journal)'
<1>1. journal \in Seq(Records) /\ cfg' = cfg
  BY WorldSteps DEF TypeInv
<1>2. ASSUME Truth(journal') PROVE Truth(journal)'
  <2>1. ASSUME NEW id \in Nat PROVE Truthful(Known(id, journal))'
    <3> PICK f : f = Known(id, journal')
      OBVIOUS
    <3>1. Truthful(f)
      BY <1>2 DEF Truth
    <3>2. Truthful(f)'
      BY <3>1, StillTrue
    <3>3. (Known(id, journal))' = f
      BY <1>1 DEF Known, Bare, Unread
    <3> QED
      BY <3>2, <3>3 DEF Truthful
  <2> QED
    BY <2>1 DEF Truth
<1>3. CASE journal' = journal
  BY <1>2, <1>3
<1>4. ASSUME NEW a \in Records, Genuine(a), journal' = Append(journal, a) PROVE Truth(journal')
  BY <1>1, <1>4, TruthOnce
<1>5. ASSUME NEW a \in Records, NEW b \in Records, Genuine(a), Genuine(b),
             journal' = Append(Append(journal, a), b)
      PROVE  Truth(journal')
  <2>1. Append(journal, a) \in Seq(Records) /\ Reading(Append(journal, a))
        /\ Truth(Append(journal, a))
    BY <1>1, <1>5, InAppend, ReadingOnce, TruthOnce
  <2> QED
    BY <1>5, <2>1, TruthOnce
<1> QED
  BY <1>2, <1>3, <1>4, <1>5, WrittenTruly

----------------------------------------------------------------------------
(* As long as no step raises                                               *)

\* There is one saga, and nothing in it is dead-lettered.  Its receipt is written when
\* everything has been verified, and says what the journal says.
GoodRun ==
    /\ run.dlq = FALSE /\ saga.id <= 1
    /\ \A x : In(x, journal) => x.type # "dlq"
    /\ run.pc = "receipt" => Done("verify")
    /\ receipt.saga > 0 => ~saga.open
    /\ saga.id > 0 /\ ~saga.open =>
         /\ receipt.saga = saga.id /\ receipt.status = StatusOf(Known(saga.id, journal))
         /\ Done("verify")

\* The levels that have been probed are in the journal.
Measured ==
    /\ ~cfg.physical /\ (run.pc \in {"model", "semantic"} \/ Done("verify")) =>
         Read(saga.id, journal).supported = FALSE
    /\ cfg.model /\ (run.pc = "semantic" \/ Done("verify")) =>
         Read(saga.id, journal).model = TRUE

Smoothly == ~history.raised => GoodRun /\ Measured

SLInv == TypeInv /\ NoGhost /\ Reading(journal) /\ Truth(journal) /\ Smoothly

LEMMA SLInit ==
    ASSUME Init
    PROVE  SLInv
<1>1. TypeInv /\ cfg \in Configs /\ journal = <<>>
  BY TypeInit DEF Init
<1>2. NoGhost
  BY DEF Init, NoGhost
<1>3. Reading(journal) /\ Truth(journal)
  BY <1>1, ReadingNothing, TruthNothing
<1>4. ~Done("verify") /\ \A x : ~In(x, journal)
  BY <1>1 DEF Done, Has, In
<1>5. /\ run.dlq = FALSE /\ run.pc = "down" /\ saga.id = 0 /\ receipt.saga = 0
  BY DEF Init, Down, NoReceipt
<1>6. GoodRun /\ Measured
  BY <1>4, <1>5 DEF GoodRun, Measured
<1> QED
  BY <1>1, <1>2, <1>3, <1>6 DEF SLInv, Smoothly

\* No second saga is started, since none of its artifacts is dead-lettered.
LEMMA OneSaga ==
    ASSUME SLInv, [Next]_vars, ~history'.raised
    PROVE  /\ ~history.raised /\ GoodRun /\ Measured /\ ~Raise
           /\ \/ saga'.id = saga.id
              \/ /\ Start /\ saga.id = 0 /\ saga'.id = 1 /\ journal = <<>> /\ journal' = <<>>
                 /\ receipt' = receipt /\ receipt.saga = 0 /\ saga'.open
<1>1. TypeInv /\ Reading(journal) /\ Smoothly
  BY DEF SLInv
<1>2. ~history.raised /\ GoodRun /\ Measured
  BY <1>1, HistorySteps DEF Smoothly
<1>3. ~Raise
  <2>1. ASSUME Raise PROVE history'.raised
    <3>1. history \in Histories
      BY <1>1 DEF TypeInv, TypeOK, Histories
    <3> PICK faults : faults = history.faults + 1
      OBVIOUS
    <3>2. history' = [history EXCEPT !.faults = faults, !.raised = TRUE]
      BY <2>1 DEF Raise
    <3> QED
      BY <3>1, <3>2 DEF Histories
  <2> QED
    BY <2>1
<1>4. ASSUME saga'.id # saga.id
      PROVE  /\ Start /\ saga.id = 0 /\ saga'.id = 1 /\ journal = <<>> /\ journal' = <<>>
             /\ receipt' = receipt /\ receipt.saga = 0 /\ saga'.open
  <2>1. /\ Start /\ ~saga.open /\ saga'.id = saga.id + 1
        /\ saga.id = 0 \/ receipt.status[1] = "dlq"
    BY <1>1, <1>4, SagaSteps
  <2>2. saga.id \in Nat /\ receipt.saga \in Nat /\ receipt.saga <= saga.id
    BY <1>1, LatticeAssumption DEF TypeInv, TypeOK
  <2>3. saga.id = 0
    <3>1. SUFFICES ASSUME saga.id > 0 PROVE FALSE
      BY <2>2
    <3>2. receipt.status = StatusOf(Known(saga.id, journal))
      BY <1>2, <2>1, <3>1 DEF GoodRun
    <3>3. Known(saga.id, journal).dlq = FALSE
      BY <1>1, <2>2 DEF Reading, Alike
    <3>4. receipt.status[1] # "dlq"
      BY <3>2, <3>3, StatusFacts
    <3> QED
      BY <2>1, <3>1, <3>4, <2>2
  <2>4. journal = <<>> /\ journal' = journal /\ receipt' = receipt
    BY <1>1, <2>1, <2>3 DEF TypeInv, Start
  <2>5. saga'.open
    BY <2>1 DEF Start
  <2> QED
    BY <2>1, <2>2, <2>3, <2>4, <2>5
<1> QED
  BY <1>2, <1>3, <1>4

\* Where each action takes the run.
LEMMA RunSteps ==
    ASSUME TypeInv, [Next]_vars
    PROVE  /\ Start => /\ run'.pc = "suppress" /\ run'.begun = FALSE /\ run'.dlq = FALSE
                       /\ run.pc = "down"
           /\ Begin => /\ run'.pc = run.pc /\ run'.begun = TRUE /\ run'.dlq = run.dlq
                       /\ run'.before = run.before
           /\ PassOver => /\ run'.begun = FALSE /\ run'.dlq = run.dlq /\ run.begun = FALSE
                          /\ run'.before = run.before
                          /\ \/ run.pc = "suppress" /\ run'.pc = "baseline"
                             \/ run.pc = "baseline" /\ run'.pc = "reclaim"
                             \/ run.pc = "reclaim" /\ run'.pc = "logical"
                             \/ run.pc = "logical" /\ run'.pc = "receipt"
           /\ Suppress => run.pc = "suppress" /\ run'.pc = "baseline" /\ run'.begun = FALSE
           /\ Baseline => run.pc = "baseline" /\ run'.pc = "reclaim" /\ run'.begun = FALSE
           /\ Reclaim => run.pc = "reclaim" /\ run'.pc = "logical" /\ run'.begun = FALSE
           /\ ProbeLogical => run.pc = "logical" /\ run'.pc = "physical" /\ run'.begun = TRUE
           /\ ProbePhysical => run.pc = "physical" /\ run'.pc = "model" /\ run'.begun = TRUE
           /\ ProbeModel => run.pc = "model" /\ run'.pc = "semantic" /\ run'.begun = TRUE
           /\ EndVerify => run.pc = "semantic" /\ run'.pc = "receipt" /\ run'.begun = FALSE
           /\ Suppress \/ Baseline \/ Reclaim \/ ProbeLogical \/ ProbePhysical \/ ProbeModel
                \/ EndVerify
                => run'.dlq = run.dlq /\ run'.before = run.before /\ run.begun = TRUE
           /\ Hiding \/ Removing \/ OtherSubject \/ UNCHANGED vars => run' = run
           /\ WriteReceipt \/ RefuseReceipt \/ Kill => run' = Down
<1>1. run \in Runs /\ run.begun \in BOOLEAN
  BY DEF TypeInv, TypeOK, Runs
<1>a. /\ "baseline" \in PCs /\ "reclaim" \in PCs /\ "logical" \in PCs /\ "physical" \in PCs
      /\ "model" \in PCs /\ "semantic" \in PCs /\ "receipt" \in PCs
  BY DEF PCs
<1>b. /\ StepOf("baseline") # StepOf("suppress") /\ StepOf("reclaim") # StepOf("baseline")
      /\ StepOf("logical") # StepOf("reclaim") /\ StepOf("physical") = StepOf("logical")
      /\ StepOf("model") = StepOf("physical") /\ StepOf("semantic") = StepOf("model")
      /\ StepOf("receipt") # StepOf("semantic")
  BY DEF StepOf
<1>2. Start => /\ run'.pc = "suppress" /\ run'.begun = FALSE /\ run'.dlq = FALSE
               /\ run.pc = "down"
  BY DEF Start, Down
<1>3. Begin => /\ run'.pc = run.pc /\ run'.begun = TRUE /\ run'.dlq = run.dlq
               /\ run'.before = run.before
  BY <1>1 DEF Begin, Runs
<1>4. ASSUME PassOver
      PROVE  /\ run'.begun = FALSE /\ run'.dlq = run.dlq /\ run.begun = FALSE
             /\ run'.before = run.before
             /\ \/ run.pc = "suppress" /\ run'.pc = "baseline"
                \/ run.pc = "baseline" /\ run'.pc = "reclaim"
                \/ run.pc = "reclaim" /\ run'.pc = "logical"
                \/ run.pc = "logical" /\ run'.pc = "receipt"
  <2> PICK pc : pc = IF run.pc = "logical" THEN "receipt" ELSE After[run.pc]
    OBVIOUS
  <2>1. run.pc \in {"suppress", "baseline", "reclaim", "logical"} /\ run.begun = FALSE
    BY <1>1, <1>4 DEF PassOver
  <2>2. run' = [run EXCEPT !.pc = pc]
    BY <1>4 DEF PassOver
  <2>3. /\ run'.begun = FALSE /\ run'.dlq = run.dlq /\ run'.before = run.before /\ run'.pc = pc
    BY <1>1, <2>1, <2>2 DEF Runs
  <2> QED
    BY <2>1, <2>3, AfterFacts
<1>5. ASSUME Suppress
      PROVE  /\ run.pc = "suppress" /\ run'.pc = "baseline" /\ run'.begun = FALSE
             /\ run'.dlq = run.dlq /\ run'.before = run.before
  <2>1. run.pc = "suppress" /\ Goto("baseline")
    BY <1>5, AfterFacts DEF Suppress, At
  <2> QED
    BY <1>a, <1>b, <2>1, GotoFacts
<1>6. ASSUME Baseline
      PROVE  /\ run.pc = "baseline" /\ run'.pc = "reclaim" /\ run'.begun = FALSE
             /\ run'.dlq = run.dlq /\ run'.before = run.before
  <2>1. run.pc = "baseline" /\ Goto("reclaim")
    BY <1>6, AfterFacts DEF Baseline, At
  <2> QED
    BY <1>a, <1>b, <2>1, GotoFacts
<1>7. ASSUME Reclaim
      PROVE  /\ run.pc = "reclaim" /\ run'.pc = "logical" /\ run'.begun = FALSE
             /\ run'.dlq = run.dlq /\ run'.before = run.before
  <2>1. run.pc = "reclaim" /\ Goto("logical")
    BY <1>7, AfterFacts DEF Reclaim, At
  <2> QED
    BY <1>a, <1>b, <2>1, GotoFacts
<1>8. ASSUME ProbeLogical
      PROVE  /\ run.pc = "logical" /\ run'.pc = "physical" /\ run'.begun = TRUE
             /\ run'.dlq = run.dlq /\ run'.before = run.before
  <2>1. run.pc = "logical" /\ Goto("physical")
    BY <1>8, AfterFacts DEF ProbeLogical, Probe, At
  <2> QED
    BY <1>a, <1>b, <2>1, GotoFacts
<1>9. ASSUME ProbePhysical
      PROVE  /\ run.pc = "physical" /\ run'.pc = "model" /\ run'.begun = TRUE
             /\ run'.dlq = run.dlq /\ run'.before = run.before
  <2>1. run.pc = "physical" /\ Goto("model")
    BY <1>9, AfterFacts DEF ProbePhysical, Probe, At
  <2> QED
    BY <1>a, <1>b, <2>1, GotoFacts
<1>10. ASSUME ProbeModel
      PROVE  /\ run.pc = "model" /\ run'.pc = "semantic" /\ run'.begun = TRUE
             /\ run'.dlq = run.dlq /\ run'.before = run.before
  <2>1. run.pc = "model" /\ Goto("semantic")
    BY <1>10, AfterFacts DEF ProbeModel, Probe, At
  <2> QED
    BY <1>a, <1>b, <2>1, GotoFacts
<1>11. ASSUME EndVerify
      PROVE  /\ run.pc = "semantic" /\ run'.pc = "receipt" /\ run'.begun = FALSE
             /\ run'.dlq = run.dlq /\ run'.before = run.before
  <2>1. run.pc = "semantic" /\ Goto("receipt")
    BY <1>11, AfterFacts DEF EndVerify, Probe, At
  <2> QED
    BY <1>a, <1>b, <2>1, GotoFacts
<1>12. Hiding \/ Removing \/ OtherSubject \/ UNCHANGED vars => run' = run
  BY DEF Hiding, Removing, OtherSubject, vars
<1>13. WriteReceipt \/ RefuseReceipt \/ Kill => run' = Down
  BY DEF WriteReceipt, RefuseReceipt, Kill
<1>14. Suppress \/ Baseline \/ Reclaim \/ ProbeLogical \/ ProbePhysical \/ ProbeModel
         \/ EndVerify => run.begun = TRUE
  BY <1>1 DEF Suppress, Baseline, Reclaim, ProbeLogical, ProbePhysical, ProbeModel, EndVerify,
              Probe, At
<1> QED
  BY <1>2, <1>3, <1>4, <1>5, <1>6, <1>7, <1>8, <1>9, <1>10, <1>11, <1>12, <1>13, <1>14

LEMMA ProbesRead ==
    ASSUME SLInv, NEW id \in Nat, id = saga.id
    PROVE  /\ ProbePhysical /\ ~cfg.physical => Read(id, journal').supported = FALSE
           /\ ProbeModel /\ cfg.model => Read(id, journal').model = TRUE
<1>1. TypeInv /\ Reading(journal) /\ journal \in Seq(Records) /\ Read(id, journal) \in FactSets
  BY DEF SLInv, TypeInv, Reading
<1> PICK f : f = Read(id, journal)
  OBVIOUS
<1>2. ASSUME NEW r \in Records, journal' = Append(journal, r), r.saga = id
      PROVE  /\ r.type = "unsupported" => Read(id, journal').supported = FALSE
             /\ r.type = "model" => Read(id, journal').model = TRUE
  <2> PICK l : l = Learn(id, f, r)
    OBVIOUS
  <2>1. Read(id, journal') = l
    BY <1>1, <1>2, ReadingOnce
  <2>2. r.type = "unsupported" => l.supported = FALSE
    <3>1. r.type = "unsupported" => l = [f EXCEPT !.supported = FALSE]
      BY <1>2 DEF Learn
    <3> QED
      BY <1>1, <3>1 DEF FactSets
  <2>3. r.type = "model" => l.model = TRUE
    <3>1. r.type = "model" => l = [f EXCEPT !.model = TRUE, !.canary = r.canary, !.mia = r.mia]
      BY <1>2 DEF Learn
    <3> QED
      BY <1>1, <3>1 DEF FactSets
  <2> QED
    BY <2>1, <2>2, <2>3
<1>3. ProbePhysical /\ ~cfg.physical => Read(id, journal').supported = FALSE
  <2>1. ~cfg.physical => PhysicalOne.type = "unsupported" /\ PhysicalOne.saga = id
    BY DEF PhysicalOne, Scannable
  <2> QED
    BY <1>1, <1>2, <2>1, Written
<1>4. ProbeModel /\ cfg.model => Read(id, journal').model = TRUE
  <2>1. ModelOne.type = "model" /\ ModelOne.saga = id
    BY DEF ModelOne
  <2> QED
    BY <1>1, <1>2, <2>1, Written
<1> QED
  BY <1>3, <1>4

LEMMA MeasuredStep ==
    ASSUME SLInv, [Next]_vars, ~history'.raised
    PROVE  Measured'
<1>1. /\ TypeInv /\ NoGhost /\ Reading(journal) /\ Measured /\ cfg' = cfg /\ cfg \in Configs
      /\ journal \in Seq(Records) /\ saga.id \in Nat
  BY OneSaga, WorldSteps, LatticeAssumption DEF SLInv, TypeInv, TypeOK
<1>2. ~Raise
  BY OneSaga
<1>3. CASE saga'.id # saga.id
  <2>1. Start /\ journal' = <<>>
    BY <1>3, OneSaga
  <2>2. run'.pc = "suppress"
    BY <2>1 DEF Start, Down
  <2>3. ~Done("verify")'
    BY <2>1 DEF Done, Has
  <2> QED
    BY <2>2, <2>3 DEF Measured
<1>4. CASE saga'.id = saga.id
  <2> PICK id \in Nat : id = saga.id
    BY <1>1
  <2> PICK k : k = journal'
    OBVIOUS
  <2>1. (Read(saga.id, journal))' = Read(id, k)
    BY <1>1, <1>4 DEF Read, Blank, Unread
  <2>2. Reading(k) /\ Read(id, k) \in FactSets /\ Read(id, journal) \in FactSets
    BY <1>1, ReadingStep DEF Reading
  <2>3. Done("verify")' => Done("verify") \/ run.pc = "semantic"
    <3>1. EndVerify => run.pc = "semantic"
      BY DEF EndVerify, Probe, At
    <3> QED
      BY <1>1, <1>4, <3>1, DoneSteps DEF Steps
  <2>4. /\ run'.pc = "model" => run.pc = "model" \/ ProbePhysical
        /\ run'.pc = "semantic" => run.pc = "semantic" \/ ProbeModel
        /\ ProbeModel => run.pc = "model"
    BY <1>1, <1>2, RunSteps, DownFacts DEF Next
  <2>5. ~cfg.physical /\ (run'.pc \in {"model", "semantic"} \/ Done("verify")')
           => Read(id, k).supported = FALSE
    <3>1. ~cfg.physical /\ (run'.pc \in {"model", "semantic"} \/ Done("verify")')
             => ProbePhysical \/ Read(id, journal).supported = FALSE
      BY <1>1, <2>3, <2>4 DEF Measured
    <3>2. Read(id, journal).supported = FALSE => Read(id, k).supported = FALSE
      <4>1. Read(id, k).supported \in BOOLEAN
        BY <2>2 DEF FactSets
      <4> QED
        BY <1>1, <4>1, ReadingGrows
    <3> QED
      BY <3>1, <3>2, ProbesRead
  <2>6. cfg.model /\ (run'.pc = "semantic" \/ Done("verify")') => Read(id, k).model = TRUE
    <3>1. cfg.model /\ (run'.pc = "semantic" \/ Done("verify")')
             => ProbeModel \/ Read(id, journal).model = TRUE
      BY <1>1, <2>3, <2>4 DEF Measured
    <3>2. Read(id, journal).model = TRUE => Read(id, k).model = TRUE
      BY <1>1, ReadingGrows
    <3> QED
      BY <3>1, <3>2, ProbesRead
  <2> QED
    BY <1>1, <2>1, <2>5, <2>6 DEF Measured
<1> QED
  BY <1>3, <1>4

\* The receipt says what the run has read.
LEMMA Receives ==
    ASSUME SLInv, WriteReceipt
    PROVE  /\ run.dlq = FALSE => receipt'.status = StatusOf(Known(saga.id, journal))
           /\ run.dlq = TRUE => receipt'.status[1] = "dlq"
           /\ receipt'.saga = saga.id /\ saga'.id = saga.id /\ journal' = journal
           /\ cfg' = cfg /\ env' = env /\ history' = history
<1>1. TypeInv /\ Reading(journal) /\ cfg \in Configs /\ saga.id \in Nat
  BY LatticeAssumption DEF SLInv, TypeInv, TypeOK
<1>2. /\ receipt' = [saga |-> saga.id, status |-> StatusOf(Facts(saga.id))]
      /\ saga' = [saga EXCEPT !.open = FALSE] /\ UNCHANGED <<cfg, env, journal, history>>
  BY DEF WriteReceipt
<1>3. run.dlq = FALSE => Facts(saga.id) = Known(saga.id, journal)
  BY <1>1, FirstFacts DEF Facts, Known
<1>4. run.dlq = TRUE => Facts(saga.id).dlq
  BY <1>1, FirstFacts DEF Facts, Reading
<1>5. saga'.id = saga.id
  BY <1>1, <1>2 DEF TypeInv, TypeOK
<1> QED
  BY <1>2, <1>3, <1>4, <1>5, StatusFacts

LEMMA NoDeadLetters ==
    ASSUME SLInv, [Next]_vars, ~history'.raised
    PROVE  \A x : In(x, journal') => x.type # "dlq"
<1> PICK j : j = journal
  OBVIOUS
<1> PICK k : k = journal'
  OBVIOUS
<1>1. TypeInv /\ j \in Seq(Records) /\ ~Raise /\ \A x : In(x, j) => x.type # "dlq"
  BY OneSaga DEF SLInv, TypeInv, GoodRun
<1>2. ASSUME NEW r \in Records, r.type # "dlq", k = Append(j, r)
      PROVE  \A x : In(x, k) => x.type # "dlq"
  <2>1. \A x : In(x, k) <=> In(x, j) \/ x = r
    BY <1>1, <1>2, InAppend
  <2> QED
    BY <1>1, <1>2, <2>1
<1>3. ASSUME NEW a \in Records, NEW b \in Records, a.type # "dlq", b.type # "dlq",
             k = Append(Append(j, a), b)
      PROVE  \A x : In(x, k) => x.type # "dlq"
  <2>a. PICK i : i = Append(j, a)
    OBVIOUS
  <2>1. i \in Seq(Records) /\ \A x : In(x, i) <=> In(x, j) \/ x = a
    BY <1>1, <2>a, InAppend
  <2>2. k = Append(i, b)
    BY <1>3, <2>a
  <2>3. \A x : In(x, k) <=> In(x, i) \/ x = b
    BY <2>1, <2>2, InAppend
  <2> QED
    BY <1>1, <1>3, <2>1, <2>3
<1>4. /\ \A step : StepRecord("begin", step).type # "dlq" /\ Ok(step).type # "dlq"
      /\ LogicalOne.type # "dlq" /\ PhysicalOne.type # "dlq" /\ ModelOne.type # "dlq"
      /\ BaselineOne.type # "dlq" /\ \A above : SemanticRecord(above).type # "dlq"
  BY DEF StepRecord, Ok, LogicalOne, PhysicalOne, ModelOne, BaselineOne, SemanticRecord
<1>5. Begin => \A x : In(x, k) => x.type # "dlq"
  BY <1>1, <1>2, <1>4, Written
<1>6. Suppress \/ Reclaim => \A x : In(x, k) => x.type # "dlq"
  BY <1>1, <1>2, <1>4, Written
<1>7. ProbeLogical \/ ProbePhysical \/ ProbeModel => \A x : In(x, k) => x.type # "dlq"
  BY <1>1, <1>2, <1>4, Written
<1>8. Baseline => \A x : In(x, k) => x.type # "dlq"
  BY <1>1, <1>2, <1>3, <1>4, Written
<1>9. EndVerify => \A x : In(x, k) => x.type # "dlq"
  <2>1. SUFFICES ASSUME EndVerify PROVE \A x : In(x, k) => x.type # "dlq"
    OBVIOUS
  <2>2. CASE k = Append(j, Ok("verify"))
    BY <1>1, <1>2, <1>4, <2>1, <2>2, Written
  <2>3. ASSUME NEW above, SemanticRecord(above) \in Records,
               k = Append(Append(j, SemanticRecord(above)), Ok("verify"))
        PROVE  \A x : In(x, k) => x.type # "dlq"
    <3> PICK a : a = SemanticRecord(above)
      OBVIOUS
    <3> PICK b : b = Ok("verify")
      OBVIOUS
    <3>1. a \in Records /\ b \in Records /\ a.type # "dlq" /\ b.type # "dlq"
      BY <1>1, <1>4, <2>1, <2>3, Written
    <3> QED
      BY <1>3, <2>3, <3>1
  <2> QED
    BY <1>1, <2>1, <2>2, <2>3, Written
<1>10. ~(Begin \/ Suppress \/ Reclaim \/ ProbeLogical \/ ProbePhysical \/ ProbeModel
          \/ Baseline \/ EndVerify \/ Raise) => journal' = journal
  BY DEF Next, vars, Start, PassOver, Hiding, Removing, WriteReceipt, RefuseReceipt, Kill,
         OtherSubject
<1> QED
  BY <1>1, <1>5, <1>6, <1>7, <1>8, <1>9, <1>10

LEMMA GoodRunStep ==
    ASSUME SLInv, [Next]_vars, ~history'.raised
    PROVE  GoodRun'
<1>1. /\ TypeInv /\ GoodRun /\ ~Raise /\ cfg' = cfg /\ saga.id \in Nat /\ receipt.saga \in Nat
      /\ receipt.saga <= saga.id
  BY OneSaga, WorldSteps, LatticeAssumption DEF SLInv, TypeInv, TypeOK
<1>2. run'.dlq = FALSE
  <2>1. run.dlq = FALSE /\ Down.dlq = FALSE
    BY <1>1 DEF GoodRun, Down
  <2>2. run'.dlq = run.dlq \/ run'.dlq = FALSE \/ run' = Down
    BY <1>1, RunSteps DEF Next
  <2> QED
    BY <2>1, <2>2
<1>3. saga'.id <= 1
  <2>1. saga.id <= 1
    BY <1>1 DEF GoodRun
  <2>2. saga'.id = saga.id \/ saga'.id = 1
    BY OneSaga
  <2> QED
    BY <2>1, <2>2
<1>4. (\A x : In(x, journal) => x.type # "dlq")'
  BY NoDeadLetters DEF In
<1>5. run'.pc = "receipt" => Done("verify")'
  <2>1. SUFFICES ASSUME run'.pc = "receipt" PROVE Done("verify")'
    OBVIOUS
  <2>2. saga'.id = saga.id
    <3>1. Start => run'.pc = "suppress"
      BY DEF Start, Down
    <3> QED
      BY <2>1, <3>1, OneSaga
  <2>3. run.pc = "receipt" \/ (PassOver /\ run.pc = "logical") \/ EndVerify
    BY <1>1, <2>1, RunSteps, DownFacts DEF Next
  <2>4. PassOver /\ run.pc = "logical" => Done("verify")
    BY <1>1 DEF PassOver, Skipped, StepOf, GoodRun
  <2> QED
    BY <1>1, <2>2, <2>3, <2>4, DoneSteps DEF GoodRun
<1>6. receipt'.saga > 0 => ~saga'.open
  <2>1. CASE WriteReceipt
    <3>1. saga' = [saga EXCEPT !.open = FALSE] /\ saga \in [id: 0..MaxSagas, open: BOOLEAN]
      BY <1>1, <2>1 DEF WriteReceipt, TypeInv, TypeOK
    <3> QED
      BY <3>1
  <2>2. CASE ~WriteReceipt
    <3>1. receipt' = receipt
      BY <1>1, <2>2, SagaSteps
    <3>2. Start => (receipt.saga > 0 => saga' = saga)
      <4>1. Start => saga' = saga \/ saga'.id = saga.id + 1
        BY DEF Start
      <4> QED
        BY <1>1, <4>1, OneSaga
    <3>3. ~Start => saga' = saga
      <4>1. Begin \/ PassOver \/ Hiding \/ Suppress \/ Baseline \/ Removing \/ Reclaim
              => saga' = saga
        BY DEF Begin, PassOver, Hiding, Suppress, Baseline, Removing, Reclaim
      <4>2. ProbeLogical \/ ProbePhysical \/ ProbeModel \/ EndVerify => saga' = saga
        BY DEF ProbeLogical, ProbePhysical, ProbeModel, EndVerify, Probe
      <4>3. RefuseReceipt \/ Raise \/ Kill \/ OtherSubject \/ UNCHANGED vars => saga' = saga
        BY DEF RefuseReceipt, Raise, Kill, OtherSubject, vars
      <4> QED
        BY <2>2, <4>1, <4>2, <4>3 DEF Next
    <3> QED
      BY <1>1, <3>1, <3>2, <3>3 DEF GoodRun
  <2> QED
    BY <2>1, <2>2
<1>7. ASSUME saga'.id > 0, ~saga'.open
      PROVE  /\ receipt'.saga = saga'.id /\ receipt'.status = StatusOf(Known(saga.id, journal))'
             /\ Done("verify")'
  <2>1. saga'.id = saga.id
    BY <1>7, OneSaga
  <2>2. CASE WriteReceipt
    <3>1. /\ receipt'.status = StatusOf(Known(saga.id, journal))
          /\ receipt'.saga = saga.id /\ journal' = journal
      BY <1>1, <2>2, Receives DEF GoodRun
    <3>2. run.pc = "receipt"
      BY <2>2 DEF WriteReceipt
    <3>3. Done("verify")'
      BY <1>1, <2>1, <3>2, DoneSteps DEF GoodRun
    <3>4. (Known(saga.id, journal))' = Known(saga.id, journal)
      BY <1>1, <2>1, <3>1 DEF Known, Bare, Unread
    <3> QED
      BY <2>1, <3>1, <3>3, <3>4
  <2>3. CASE ~WriteReceipt
    <3>1. ~saga.open
      <4>1. Start => saga'.open
        BY DEF Start
      <4>2. Begin \/ PassOver \/ Hiding \/ Suppress \/ Baseline \/ Removing \/ Reclaim
              => saga' = saga
        BY DEF Begin, PassOver, Hiding, Suppress, Baseline, Removing, Reclaim
      <4>3. ProbeLogical \/ ProbePhysical \/ ProbeModel \/ EndVerify => saga' = saga
        BY DEF ProbeLogical, ProbePhysical, ProbeModel, EndVerify, Probe
      <4>4. RefuseReceipt \/ Raise \/ Kill \/ OtherSubject \/ UNCHANGED vars => saga' = saga
        BY DEF RefuseReceipt, Raise, Kill, OtherSubject, vars
      <4> QED
        BY <1>7, <2>3, <4>1, <4>2, <4>3, <4>4 DEF Next
    <3>2. receipt' = receipt /\ journal' = journal
      BY <1>1, <2>3, <3>1, SagaSteps, WrittenTruly DEF SLInv
    <3>3. (Known(saga.id, journal))' = Known(saga.id, journal)
      BY <1>1, <2>1, <3>2 DEF Known, Bare, Unread
    <3>4. Done("verify")'
      BY <1>1, <1>7, <2>1, <3>1, DoneSteps DEF GoodRun
    <3> QED
      BY <1>1, <1>7, <2>1, <3>1, <3>2, <3>3, <3>4 DEF GoodRun
  <2> QED
    BY <2>2, <2>3
<1> QED
  BY <1>2, <1>3, <1>4, <1>5, <1>6, <1>7 DEF GoodRun

LEMMA SLStep ==
    ASSUME SLInv, [Next]_vars
    PROVE  SLInv'
<1>1. TypeInv /\ NoGhost /\ Reading(journal) /\ Truth(journal)
  BY DEF SLInv
<1>2. TypeInv' /\ NoGhost' /\ Truth(journal)'
  BY <1>1, TypeStep, NoGhostStep, TruthStep
<1>3. Reading(journal)'
  <2>1. Reading(journal') /\ cfg' = cfg
    BY <1>1, ReadingStep, WorldSteps
  <2>2. Bare' = Bare /\ Blank' = Blank /\ Dead' = Dead
    BY <2>1 DEF Bare, Blank, Dead, Unread
  <2>3. ASSUME NEW f, NEW g, Alike(f, g) PROVE Alike(f, g)'
    BY <2>1, <2>3 DEF Alike
  <2>4. ASSUME NEW id \in Nat
        PROVE  /\ Known(id, journal)' \in FactSets /\ Read(id, journal)' \in FactSets
               /\ Alike(Known(id, journal), Read(id, journal))'
               /\ Told("saga", id, Dead, journal)' \in FactSets
               /\ Told("saga", id, Dead, journal)'.dlq
    <3>a. PICK f : f = Known(id, journal')
      OBVIOUS
    <3>b. PICK g : g = Read(id, journal')
      OBVIOUS
    <3>1. f \in FactSets /\ g \in FactSets /\ Alike(f, g)
      BY <2>1, <3>a, <3>b DEF Reading
    <3>2. (Known(id, journal))' = f /\ (Read(id, journal))' = g
      BY <2>2, <3>a, <3>b DEF Known, Read
    <3>c. Alike(f, g)'
      BY <2>3, <3>1
    <3>3. Alike(Known(id, journal), Read(id, journal))'
      BY <3>2, <3>c DEF Alike
    <3>4. /\ Told("saga", id, Dead, journal)' \in FactSets
          /\ Told("saga", id, Dead, journal)'.dlq
      BY <2>1, <2>2 DEF Reading
    <3> QED
      BY <3>1, <3>2, <3>3, <3>4
  <2> QED
    BY <2>4 DEF Reading
<1>4. Smoothly'
  BY MeasuredStep, GoodRunStep DEF Smoothly
<1> QED
  BY <1>2, <1>3, <1>4 DEF SLInv

LEMMA SLInvariant == Spec => []SLInv
<1>1. Init => SLInv
  BY SLInit
<1>2. SLInv /\ [Next]_vars => SLInv'
  BY SLStep
<1> QED
  BY <1>1, <1>2, PTL DEF Spec

----------------------------------------------------------------------------
(* What a status is worth                                                  *)

LEMMA VerifiedFacts ==
    ASSUME SLInv, NEW f, f = Known(saga.id, journal), StatusOf(f)[1] = "verified",
           cfg.prompts \/ (~history.raised /\ run.pc = "receipt")
    PROVE  /\ ~env.live /\ ~env.own /\ ~env.ghost
           /\ StatusOf(f)[2] = "model" /\ cfg.reference => ~env.leak
<1>1. /\ TypeInv /\ cfg \in Configs /\ saga.id \in Nat /\ Smoothly
      /\ f \in FactSets /\ Truthful(f) /\ Alike(f, Read(saga.id, journal))
  BY LatticeAssumption DEF SLInv, TypeInv, TypeOK, Reading, Truth
<1>2. ~Objects(f) /\ (StatusOf(f)[2] = "model" => f.model)
  <2>1. ~Objects(f) /\ StatusOf(f)[2] = IF f.model THEN "model" ELSE "physical"
    BY StatusFacts
  <2> QED
    BY <2>1
<1>3. f.logical = "no" /\ f.physical = "no" /\ f.mia \in Answers /\ f.canary \in Answers
  BY <1>1, <1>2 DEF Objects, FactSets, Answers
<1>4. cfg.prompts
  <2>1. SUFFICES ASSUME ~cfg.prompts PROVE FALSE
    OBVIOUS
  <2>2. cfg.model /\ f.canary = "none" /\ f.mia = "none"
    BY <1>1, <2>1, ConfigFacts DEF Truthful
  <2>3. Read(saga.id, journal).model = TRUE
    BY <1>1, <2>1, <2>2 DEF Smoothly, GoodRun, Measured
  <2>4. f.model = TRUE
    BY <1>1, <2>3 DEF Alike
  <2> QED
    BY <1>2, <2>2, <2>4 DEF Objects
<1>5. ~env.live /\ ~env.own /\ ~env.ghost
  BY <1>1, <1>3, <1>4 DEF Truthful
<1>6. ASSUME StatusOf(f)[2] = "model", cfg.reference PROVE ~env.leak
  <2>1. f.model /\ ~(f.canary = "none" /\ f.mia = "none") /\ f.mia # "yes"
    BY <1>2, <1>6 DEF Objects
  <2>2. f.mia = "no"
    BY <1>1, <1>3, <1>6, <2>1 DEF Truthful, Answers
  <2> QED
    BY <1>1, <2>2 DEF Truthful
<1> QED
  BY <1>5, <1>6

LEMMA VerifiedStep ==
    ASSUME SLInv, VerifiedIsTrue, [Next]_vars
    PROVE  VerifiedIsTrue'
<1>1. TypeInv /\ run.dlq \in BOOLEAN
  BY DEF SLInv, TypeInv, TypeOK
<1>2. CASE WriteReceipt
  <2>1. SUFFICES ASSUME receipt'.status[1] = "verified", cfg.prompts \/ ~history.raised
                 PROVE  /\ ~env.live /\ ~env.own /\ ~env.ghost
                        /\ receipt'.status[2] = "model" /\ cfg.reference => ~env.leak
    <3>1. cfg' = cfg /\ env' = env /\ history' = history
      BY <1>2, Receives
    <3> QED
      BY <3>1 DEF VerifiedIsTrue
  <2> PICK f : f = Known(saga.id, journal)
    OBVIOUS
  <2>2. receipt'.status = StatusOf(f)
    BY <1>1, <1>2, <2>1, Receives
  <2>3. run.pc = "receipt"
    BY <1>2 DEF WriteReceipt
  <2> QED
    BY <2>1, <2>2, <2>3, VerifiedFacts
<1>3. CASE ~WriteReceipt
  <2>1. receipt' = receipt
    BY <1>1, <1>3, SagaSteps
  <2>2. cfg' = cfg /\ (env'.live => env.live) /\ (env'.own => env.own) /\ (env'.leak => env.leak)
          /\ (env'.ghost => env.ghost \/ env.own)
    BY <1>1, WorldSteps
  <2>3. history.raised => history'.raised
    BY <1>1, HistorySteps
  <2> QED
    BY <2>1, <2>2, <2>3 DEF VerifiedIsTrue
<1> QED
  BY <1>2, <1>3

LEMMA VerifiedInvariant == Spec => [](SLInv /\ VerifiedIsTrue)
<1>1. Init => VerifiedIsTrue
  BY DEF Init, NoReceipt, VerifiedIsTrue
<1>2. Init => SLInv
  BY SLInit
<1>3. SLInv /\ VerifiedIsTrue /\ [Next]_vars => SLInv' /\ VerifiedIsTrue'
  BY SLStep, VerifiedStep
<1> QED
  BY <1>1, <1>2, <1>3, PTL DEF Spec

\* VERIFIED is true, for any number of sagas, kills, raising steps and changes of other
\* subjects' data, whatever a suppression or a reclaim leaves behind: nothing of the
\* artifact is retrievable, none of its bytes is left, and no membership can be inferred
\* where there was something to infer it with (assign, _facts_from_journal).
THEOREM VerifiedTrue == Spec => []VerifiedIsTrue
<1> QED
  BY VerifiedInvariant, PTL

\* The audit and the independent verifier agree with a VERIFIED receipt, at any later
\* time (audit.py, independent.py).
THEOREM SecondOpinions == Spec => []SecondOpinionsAgree
<1>1. SLInv /\ VerifiedIsTrue => SecondOpinionsAgree
  <2>1. SUFFICES ASSUME SLInv, VerifiedIsTrue, receipt.status[1] = "verified",
                        cfg.prompts \/ ~history.raised
                 PROVE  /\ env.dupes # "hidden" => ~Disagrees
                        /\ AuditState # "PRESENT"
                        /\ AuditState = "HIDDEN" => env.dupes # "none"
    BY DEF SecondOpinionsAgree
  <2>2. ~env.live /\ ~env.own /\ ~env.ghost /\ env.dupes \in {"none", "live", "hidden"}
    BY <2>1, EnvFacts DEF VerifiedIsTrue, SLInv, TypeInv, TypeOK
  <2>3. ~Retrieved /\ ~Scanned.own /\ (Scanned.content => env.dupes # "none")
    BY <2>2 DEF Retrieved, Scanned
  <2>4. AuditState # "PRESENT" /\ (AuditState = "HIDDEN" => env.dupes # "none")
    BY <2>3 DEF AuditState
  <2>5. env.dupes # "hidden" => ~Disagrees
    BY <2>2, <2>3 DEF Disagrees, PhysicalObservation
  <2> QED
    BY <2>4, <2>5
<1> QED
  BY <1>1, VerifiedInvariant, PTL

\* Replay derives the receipt's status again, from the same records by the rule that was
\* written a second time, if no step of the saga raised (facts_from_records).
THEOREM ReplayAgrees == Spec => []ReplayAgreesUnlessRaised
<1>1. SLInv => ReplayAgreesUnlessRaised
  <2>1. SUFFICES ASSUME SLInv, receipt.saga > 0, ~history.raised PROVE Replayed(receipt) = receipt
    BY DEF ReplayAgreesUnlessRaised
  <2>2. /\ TypeInv /\ cfg \in Configs /\ saga.id \in Nat /\ receipt.saga \in Nat
        /\ receipt.saga <= saga.id /\ GoodRun /\ Measured /\ Reading(journal)
    BY <2>1, LatticeAssumption DEF SLInv, TypeInv, TypeOK, Smoothly
  <2>3. ~saga.open /\ saga.id > 0
    BY <2>1, <2>2 DEF GoodRun
  <2>4. PICK id \in Nat : id = saga.id
    BY <2>2
  <2>5. receipt.saga = id /\ receipt.status = StatusOf(Known(id, journal)) /\ Done("verify")
    BY <2>2, <2>3, <2>4 DEF GoodRun
  <2>6. PICK f : f = Known(id, journal)
    OBVIOUS
  <2>7. PICK g : g = Read(id, journal)
    OBVIOUS
  <2>8. f \in FactSets /\ g \in FactSets /\ Alike(f, g)
    BY <2>2, <2>4, <2>6, <2>7 DEF Reading
  <2>9. ReplayFacts(receipt) = Blank
    <3>1. Has([type |-> "dlq", saga |-> receipt.saga]) = FALSE
      <4>1. ~Has([type |-> "dlq", saga |-> receipt.saga])
        BY <2>2, DoneIsIn DEF GoodRun
      <4> QED
        BY <4>1 DEF Has
    <3>2. (receipt.status[1] = "lineage_gap") = cfg.gap
      <4>1. f.dlq = FALSE /\ f.gap = cfg.gap /\ cfg.gap \in BOOLEAN
        BY <2>2, <2>8, ConfigFacts DEF Alike
      <4>2. f.gap <=> receipt.status[1] = "lineage_gap"
        BY <2>5, <2>6, <4>1, StatusFacts
      <4> QED
        BY <4>1, <4>2
    <3> QED
      BY <3>1, <3>2 DEF ReplayFacts, Blank
  <2>10. Replayed(receipt) = [receipt EXCEPT !.status = StatusOf(g)]
    BY <2>5, <2>7, <2>9 DEF Replayed, Read
  <2>11. SameToLattice(f, g)
    <3>1. ~cfg.physical => g.supported = FALSE
      BY <2>2, <2>4, <2>5, <2>7 DEF Measured
    <3>2. cfg.sharded => g.model = TRUE
      BY <2>2, <2>4, <2>5, <2>7, ConfigFacts DEF Measured
    <3>3. f.supported = g.supported /\ f.model = g.model
      BY <2>8, <3>1, <3>2 DEF Alike
    <3> QED
      BY <2>8, <3>3 DEF Alike, SameToLattice
  <2>12. StatusOf(g) = receipt.status
    BY <2>5, <2>6, <2>11, SameStatus
  <2>13. receipt \in Receipts
    BY <2>2 DEF TypeInv, TypeOK, Receipts
  <2> QED
    BY <2>10, <2>12, <2>13 DEF Receipts
<1> QED
  BY <1>1, SLInvariant, PTL

----------------------------------------------------------------------------
(* Kills                                                                   *)

\* Adapters have no duplicates.
ModelAlone == cfg.model => env.dupes = "none"

\* The steps are over in their order, and none is begun again.
Steady ==
    /\ run.pc \in {"baseline", "reclaim", "logical", "physical", "model", "semantic", "receipt"}
         => Done("suppress")
    /\ cfg.physical /\ run.pc \in {"reclaim", "logical", "physical", "model", "semantic", "receipt"}
         => Done("baseline")
    /\ run.begun => ~Done(StepOf(run.pc))
    /\ Done("verify") => Done("suppress") /\ (cfg.physical => Done("baseline"))

\* What the saga knows of the duplicates and of levels that do not apply.
Compared(f) ==
    /\ IF f.seen THEN f.dupes = (env.dupes = "live") ELSE f.dupes = FALSE
    /\ Done("baseline") /\ (cfg.readable \/ env.dupes # "live") => f.seen
    /\ Scannable /\ f.supported = FALSE => env.dupes = "live" /\ ~env.own
    /\ ~Scannable => f.physical = "none"
    /\ ~cfg.model => f.model = FALSE /\ f.canary = "none" /\ f.mia = "none"
    /\ ~cfg.semantic => f.above = "none"

\* The bytes that are there may be the duplicates' only.
Theirs == ~Scanned.own /\ Scanned.content /\ env.dupes = "live"

LogicalNow(f) == f.logical = YesNo(Retrieved)
Found == YesNo(Scanned.own \/ Scanned.content)
PhysicalNow(f) ==
    /\ ~Scannable => f.supported = FALSE
    /\ Scannable /\ Theirs => f.physical = "none" /\ f.supported = FALSE
    /\ Scannable /\ ~Theirs => f.physical = Found /\ f.supported = TRUE
ModelNow(f) ==
    /\ f.model = TRUE
    /\ f.canary = IF cfg.prompts THEN YesNo(env.live) ELSE "none"
    /\ f.mia = IF cfg.prompts /\ cfg.reference THEN YesNo(env.leak) ELSE "none"

\* A level that has been probed is as it was found.
Current(f) ==
    /\ run.pc \in {"physical", "model", "semantic"} \/ Done("verify") => LogicalNow(f)
    /\ run.pc \in {"model", "semantic"} \/ Done("verify") => PhysicalNow(f)
    /\ cfg.model /\ (run.pc = "semantic" \/ Done("verify")) => ModelNow(f)
    /\ cfg.semantic /\ history.faults = 0 /\ Done("verify") => f.above = YesNo(env.drift)

Quiet == ~history.raised /\ ~history.late /\ history.moves = 0

\* Without a fault there is one run, which began with the whole neighbourhood, and every
\* step that was begun has ended or is under way.
Unfailing ==
    /\ saga.open => run.pc # "down"
    /\ run.pc # "down" => run.before = IF cfg.semantic THEN "whole" ELSE "none"
    /\ \A step \in Steps :
          Has(StepRecord("begin", step)) => Done(step) \/ (run.begun /\ StepOf(run.pc) = step)

KInv ==
    /\ ModelAlone
    /\ ~cfg.semantic => run.before = "none"
    /\ ~history.raised => Steady
    /\ Quiet => Compared(Known(saga.id, journal)) /\ Current(Known(saga.id, journal))
    /\ history.faults = 0 => ~history.raised /\ Unfailing

\* What an action does to what the saga knows.
SameBase(f, l) == l.seen = f.seen /\ l.dupes = f.dupes
SameLogical(f, l) == l.logical = f.logical
SamePhysical(f, l) == l.physical = f.physical /\ l.supported = f.supported
SameModel(f, l) == l.model = f.model /\ l.canary = f.canary /\ l.mia = f.mia
SameAbove(f, l) == l.above = f.above
Same(f, l) == SameBase(f, l) /\ SameLogical(f, l) /\ SamePhysical(f, l) /\ SameModel(f, l)
                /\ SameAbove(f, l)

LEMMA LearnNothing ==
    ASSUME NEW id, NEW f \in FactSets, NEW r \in Records, NEW l, l = Learn(id, f, r),
           r.type \in {"begin", "ok", "failed", "dlq"}
    PROVE  l = f
BY DEF Learn

LEMMA KnownOne ==
    ASSUME SLInv, NEW r \in Records, journal' = Append(journal, r), NEW id \in Nat
    PROVE  /\ Known(id, journal') = Learn(id, Known(id, journal), r)
           /\ Known(id, journal) \in FactSets /\ Known(id, journal') \in FactSets
<1>1. journal \in Seq(Records) /\ Reading(journal)
  BY DEF SLInv, TypeInv
<1>2. Reading(Append(journal, r))
  BY <1>1, ReadingOnce
<1> QED
  BY <1>1, <1>2, ReadingOnce DEF Reading

LEMMA KnownTwo ==
    ASSUME SLInv, NEW a \in Records, NEW b \in Records,
           journal' = Append(Append(journal, a), b), NEW id \in Nat,
           b.type \in {"begin", "ok", "failed", "dlq"}
    PROVE  /\ Known(id, journal') = Learn(id, Known(id, journal), a)
           /\ Known(id, journal) \in FactSets /\ Known(id, journal') \in FactSets
<1> PICK j : j = Append(journal, a)
  OBVIOUS
<1>1. journal \in Seq(Records) /\ Reading(journal)
  BY DEF SLInv, TypeInv
<1>2. j \in Seq(Records) /\ Reading(j) /\ Known(id, j) = Learn(id, Known(id, journal), a)
  BY <1>1, InAppend, ReadingOnce
<1>3. Reading(Append(j, b)) /\ Known(id, Append(j, b)) = Learn(id, Known(id, j), b)
  BY <1>2, ReadingOnce
<1>4. Known(id, j) \in FactSets
  BY <1>2 DEF Reading
<1>5. Learn(id, Known(id, j), b) = Known(id, j)
  BY <1>4, LearnNothing
<1> QED
  BY <1>1, <1>2, <1>3, <1>4, <1>5 DEF Reading

\* What the probes tell.
BaselineTold(f, l) ==
    IF env.dupes = "live" /\ ~cfg.readable THEN SameBase(f, l)
    ELSE l.seen = TRUE /\ l.dupes = IF f.seen THEN f.dupes ELSE env.dupes = "live"
PhysicalTold(f, l) ==
    /\ Scannable =>
         /\ l.physical = IF Scanned.own \/ (Scanned.content /\ ~f.dupes) THEN "yes"
                         ELSE IF Scanned.content THEN "none" ELSE "no"
         /\ l.supported = (f.supported /\ ~(~Scanned.own /\ Scanned.content /\ f.dupes))
    /\ ~Scannable => l.physical = f.physical /\ l.supported = FALSE
AboveTold(f, l) ==
    \/ Drifted(run.before) = {} /\ SameAbove(f, l)
    \/ \E above \in Drifted(run.before) : l.above = YesNo(above)

LEMMA KnownSteps ==
    ASSUME SLInv, [Next]_vars, ~Raise, NEW id \in Nat, id = saga.id,
           NEW f, f = Known(id, journal), NEW l, l = Known(id, journal')
    PROVE  /\ f \in FactSets /\ l \in FactSets
           /\ IF Baseline THEN BaselineTold(f, l) ELSE SameBase(f, l)
           /\ IF ProbeLogical THEN LogicalNow(l) ELSE SameLogical(f, l)
           /\ IF ProbePhysical THEN PhysicalTold(f, l) ELSE SamePhysical(f, l)
           /\ IF ProbeModel /\ cfg.model THEN ModelNow(l) ELSE SameModel(f, l)
           /\ IF EndVerify THEN AboveTold(f, l) ELSE SameAbove(f, l)
<1>1. TypeInv /\ cfg \in Configs /\ f \in FactSets
  BY DEF SLInv, TypeInv, TypeOK, Reading
<1>2. l \in FactSets
  <2>1. Reading(journal')
    BY ReadingStep DEF SLInv
  <2> QED
    BY <2>1 DEF Reading
<1>3. ASSUME NEW r \in Records, journal' = Append(journal, r) PROVE l = Learn(id, f, r)
  BY <1>3, KnownOne
<1>4. ASSUME NEW r \in Records, r.type \in {"begin", "ok", "failed", "dlq"},
             journal' = Append(journal, r)
      PROVE  l = f
  <2>1. Learn(id, f, r) = f
    BY <1>1, <1>4, LearnNothing
  <2> QED
    BY <1>3, <1>4, <2>1
<1>5. ASSUME Baseline
      PROVE  /\ SameLogical(f, l) /\ SamePhysical(f, l) /\ SameModel(f, l) /\ SameAbove(f, l)
             /\ BaselineTold(f, l)
  <2>1. Ok("baseline").type = "ok" /\ BaselineOne.type = "baseline"
          /\ BaselineOne.dupes = (env.dupes = "live")
    BY DEF Ok, StepRecord, BaselineOne
  <2>2. CASE env.dupes = "live" /\ ~cfg.readable
    <3>1. journal' = Append(journal, Ok("baseline")) /\ Ok("baseline") \in Records
      BY <1>1, <1>5, <2>2, Written
    <3>2. l = f
      BY <1>4, <2>1, <3>1
    <3> QED
      BY <2>2, <3>2 DEF BaselineTold, SameBase, SameLogical, SamePhysical, SameModel, SameAbove
  <2>3. CASE ~(env.dupes = "live" /\ ~cfg.readable)
    <3>1. /\ journal' = Append(Append(journal, BaselineOne), Ok("baseline"))
          /\ Ok("baseline") \in Records /\ BaselineOne \in Records
      BY <1>1, <1>5, <2>3, Written
    <3>2. l = Learn(id, f, BaselineOne)
      BY <2>1, <3>1, KnownTwo
    <3>3. /\ SameLogical(f, l) /\ SamePhysical(f, l) /\ SameModel(f, l) /\ SameAbove(f, l)
          /\ l.seen = TRUE
          /\ l.dupes = IF f.seen THEN f.dupes ELSE env.dupes = "live"
      <4>1. l = TakeBaseline(f, BaselineOne)
        BY <2>1, <3>2 DEF Learn
      <4>2. CASE f.seen
        <5>1. f.seen = TRUE
          BY <1>1, <4>2 DEF FactSets
        <5> QED
          BY <4>1, <4>2, <5>1 DEF TakeBaseline, SameLogical, SamePhysical, SameModel, SameAbove
      <4>3. CASE ~f.seen
        <5>1. l = [f EXCEPT !.seen = TRUE, !.dupes = BaselineOne.dupes]
          BY <4>1, <4>3 DEF TakeBaseline
        <5>2. PICK dupes : dupes = BaselineOne.dupes
          OBVIOUS
        <5>3. l = [f EXCEPT !.seen = TRUE, !.dupes = dupes]
          BY <5>1, <5>2
        <5>4. /\ SameLogical(f, l) /\ SamePhysical(f, l) /\ SameModel(f, l) /\ SameAbove(f, l)
              /\ l.seen = TRUE /\ l.dupes = dupes
          BY <1>1, <5>3 DEF FactSets, SameLogical, SamePhysical, SameModel, SameAbove
        <5> QED
          BY <2>1, <4>3, <5>2, <5>4
      <4> QED
        BY <4>2, <4>3
    <3> QED
      BY <2>3, <3>3 DEF BaselineTold
  <2> QED
    BY <2>2, <2>3
<1>6. ASSUME ProbeLogical
      PROVE  /\ SameBase(f, l) /\ SamePhysical(f, l) /\ SameModel(f, l) /\ SameAbove(f, l)
             /\ LogicalNow(l)
  <2>1. LogicalOne \in Records /\ journal' = Append(journal, LogicalOne)
    BY <1>1, <1>6, Written
  <2>2. LogicalOne.type = "logical" /\ LogicalOne.saga = id
    BY DEF LogicalOne
  <2>3. YesNo(LogicalOne.found = "yes") = YesNo(Retrieved)
    BY <1>1, ConfigFacts DEF LogicalOne, YesNo, Retrieved
  <2>4. PICK answer : answer = YesNo(LogicalOne.found = "yes")
    OBVIOUS
  <2>5. l = [f EXCEPT !.logical = answer]
    BY <1>3, <2>1, <2>2, <2>4 DEF Learn
  <2>6. /\ SameBase(f, l) /\ SamePhysical(f, l) /\ SameModel(f, l) /\ SameAbove(f, l)
        /\ l.logical = answer
    BY <1>1, <2>5 DEF FactSets, SameBase, SamePhysical, SameModel, SameAbove
  <2> QED
    BY <2>3, <2>4, <2>6 DEF LogicalNow
<1>7. ASSUME ProbePhysical
      PROVE  /\ SameBase(f, l) /\ SameLogical(f, l) /\ SameModel(f, l) /\ SameAbove(f, l)
             /\ PhysicalTold(f, l)
  <2>1. PhysicalOne \in Records /\ journal' = Append(journal, PhysicalOne)
    BY <1>1, <1>7, Written
  <2>2. PhysicalOne.saga = id
    BY DEF PhysicalOne
  <2>3. CASE Scannable
    <3>1. /\ PhysicalOne.type = "scan" /\ PhysicalOne.own = Scanned.own
          /\ PhysicalOne.content = Scanned.content
      BY <2>3 DEF PhysicalOne
    <3>2. PICK r \in Records : r = PhysicalOne
      BY <2>1
    <3>3. l = Attributed(f, r)
      BY <1>3, <2>1, <2>2, <3>1, <3>2 DEF Learn
    <3>4. /\ SameBase(f, l) /\ SameLogical(f, l) /\ SameModel(f, l) /\ SameAbove(f, l)
          /\ l.physical = IF r.own \/ (r.content /\ ~f.dupes) THEN "yes"
                          ELSE IF r.content THEN "none" ELSE "no"
          /\ l.supported = (f.supported /\ ~(~r.own /\ r.content /\ f.dupes))
      <4>1. f.supported \in BOOLEAN
        BY <1>1 DEF FactSets
      <4> QED
        BY <1>1, <3>3, <4>1
           DEF FactSets, Attributed, SameBase, SameLogical, SameModel, SameAbove
    <3> QED
      BY <2>3, <3>1, <3>2, <3>4 DEF PhysicalTold
  <2>4. CASE ~Scannable
    <3>1. PhysicalOne.type = "unsupported"
      BY <2>4 DEF PhysicalOne
    <3>2. l = [f EXCEPT !.supported = FALSE]
      BY <1>3, <2>1, <2>2, <3>1 DEF Learn
    <3>3. /\ SameBase(f, l) /\ SameLogical(f, l) /\ SameModel(f, l) /\ SameAbove(f, l)
          /\ l.physical = f.physical /\ l.supported = FALSE
      BY <1>1, <3>2 DEF FactSets, SameBase, SameLogical, SameModel, SameAbove
    <3> QED
      BY <2>4, <3>3 DEF PhysicalTold
  <2> QED
    BY <2>3, <2>4
<1>8. ASSUME ProbeModel
      PROVE  /\ SameBase(f, l) /\ SameLogical(f, l) /\ SamePhysical(f, l) /\ SameAbove(f, l)
             /\ IF cfg.model THEN ModelNow(l) ELSE SameModel(f, l)
  <2>1. CASE cfg.model
    <3>1. ModelOne \in Records /\ journal' = Append(journal, ModelOne)
      BY <1>1, <1>8, <2>1, Written
    <3>2. /\ ModelOne.type = "model" /\ ModelOne.saga = id
          /\ ModelOne.canary = IF cfg.prompts THEN YesNo(env.live) ELSE "none"
          /\ ModelOne.mia = IF cfg.prompts /\ cfg.reference THEN YesNo(env.leak) ELSE "none"
      BY DEF ModelOne
    <3>3. PICK canary : canary = ModelOne.canary
      OBVIOUS
    <3>4. PICK mia : mia = ModelOne.mia
      OBVIOUS
    <3>5. l = [f EXCEPT !.model = TRUE, !.canary = canary, !.mia = mia]
      BY <1>3, <3>1, <3>2, <3>3, <3>4 DEF Learn
    <3>6. /\ SameBase(f, l) /\ SameLogical(f, l) /\ SamePhysical(f, l) /\ SameAbove(f, l)
          /\ l.model = TRUE /\ l.canary = canary /\ l.mia = mia
      BY <1>1, <3>5 DEF FactSets, SameBase, SameLogical, SamePhysical, SameAbove
    <3> QED
      BY <2>1, <3>2, <3>3, <3>4, <3>6 DEF ModelNow
  <2>2. CASE ~cfg.model
    <3>1. journal' = journal
      BY <1>1, <1>8, <2>2, Written
    <3> QED
      BY <2>2, <3>1 DEF SameBase, SameLogical, SamePhysical, SameModel, SameAbove
  <2> QED
    BY <2>1, <2>2
<1>9. ASSUME EndVerify
      PROVE  /\ SameBase(f, l) /\ SameLogical(f, l) /\ SamePhysical(f, l) /\ SameModel(f, l)
             /\ AboveTold(f, l)
  <2>1. Ok("verify").type = "ok" /\ Ok("verify") \in Records
    BY <1>1, <1>9, Written DEF Ok, StepRecord
  <2>2. CASE Drifted(run.before) = {} /\ journal' = Append(journal, Ok("verify"))
    <3>1. l = f
      BY <1>4, <2>1, <2>2
    <3> QED
      BY <2>2, <3>1 DEF AboveTold, SameBase, SameLogical, SamePhysical, SameModel, SameAbove
  <2>3. ASSUME NEW above \in Drifted(run.before), SemanticRecord(above) \in Records,
               journal' = Append(Append(journal, SemanticRecord(above)), Ok("verify"))
        PROVE  /\ SameBase(f, l) /\ SameLogical(f, l) /\ SamePhysical(f, l) /\ SameModel(f, l)
               /\ l.above = YesNo(above)
    <3>1. /\ SemanticRecord(above).type = "semantic" /\ SemanticRecord(above).saga = id
          /\ SemanticRecord(above).above = above
      BY DEF SemanticRecord
    <3>2. PICK r \in Records : r = SemanticRecord(above)
      BY <2>3
    <3>3. l = Learn(id, f, r)
      BY <2>1, <2>3, <3>2, KnownTwo
    <3>4. PICK answer : answer = YesNo(above)
      OBVIOUS
    <3>5. l = [f EXCEPT !.above = answer]
      BY <3>1, <3>2, <3>3, <3>4 DEF Learn
    <3>6. /\ SameBase(f, l) /\ SameLogical(f, l) /\ SamePhysical(f, l) /\ SameModel(f, l)
          /\ l.above = answer
      BY <1>1, <3>5 DEF FactSets, SameBase, SameLogical, SamePhysical, SameModel
    <3> QED
      BY <3>4, <3>6
  <2>4. \/ Drifted(run.before) = {} /\ journal' = Append(journal, Ok("verify"))
        \/ \E above \in Drifted(run.before) :
              /\ SemanticRecord(above) \in Records
              /\ journal' = Append(Append(journal, SemanticRecord(above)), Ok("verify"))
    BY <1>1, <1>9, Written
  <2> QED
    BY <2>2, <2>3, <2>4 DEF AboveTold
<1>10. ASSUME ~(Baseline \/ ProbeLogical \/ ProbePhysical \/ ProbeModel \/ EndVerify)
       PROVE  l = f
  <2>1. Begin => l = f
    <3>1. StepRecord("begin", StepOf(run.pc)).type = "begin"
      BY DEF StepRecord
    <3> QED
      BY <1>1, <1>4, <3>1, Written
  <2>2. Suppress \/ Reclaim => l = f
    <3>1. Ok("suppress").type = "ok" /\ Ok("reclaim").type = "ok"
      BY DEF Ok, StepRecord
    <3> QED
      BY <1>1, <1>4, <3>1, Written
  <2>3. ~(Begin \/ Suppress \/ Reclaim) => l = f
    <3>1. ~(Begin \/ Suppress \/ Reclaim) => journal' = journal
      BY <1>10 DEF Next, vars, Start, PassOver, Hiding, Removing, WriteReceipt, RefuseReceipt,
                   Kill, OtherSubject
    <3> QED
      BY <3>1
  <2> QED
    BY <2>1, <2>2, <2>3
<1>11. l = f => /\ SameBase(f, l) /\ SameLogical(f, l) /\ SamePhysical(f, l)
                /\ SameModel(f, l) /\ SameAbove(f, l)
  BY DEF SameBase, SameLogical, SamePhysical, SameModel, SameAbove
<1>12. IF Baseline THEN BaselineTold(f, l) ELSE SameBase(f, l)
  BY <1>5, <1>6, <1>7, <1>8, <1>9, <1>10, <1>11
<1>13. IF ProbeLogical THEN LogicalNow(l) ELSE SameLogical(f, l)
  BY <1>5, <1>6, <1>7, <1>8, <1>9, <1>10, <1>11
<1>14. IF ProbePhysical THEN PhysicalTold(f, l) ELSE SamePhysical(f, l)
  BY <1>5, <1>6, <1>7, <1>8, <1>9, <1>10, <1>11
<1>15. IF ProbeModel /\ cfg.model THEN ModelNow(l) ELSE SameModel(f, l)
  BY <1>5, <1>6, <1>7, <1>8, <1>9, <1>10, <1>11
<1>16. IF EndVerify THEN AboveTold(f, l) ELSE SameAbove(f, l)
  BY <1>5, <1>6, <1>7, <1>8, <1>9, <1>10, <1>11
<1> QED
  BY <1>1, <1>2, <1>12, <1>13, <1>14, <1>15, <1>16

\* What changes the world, and what changes the history.
LEMMA EnvSteps ==
    ASSUME TypeInv, [Next]_vars
    PROVE  /\ \/ env' = env
              \/ Hiding /\ run.pc = "suppress" /\ run.begun
              \/ Removing /\ run.pc = "reclaim" /\ env'.dupes = env.dupes
                   /\ (Done("verify") => history'.late = TRUE)
              \/ OtherSubject /\ ~cfg.model /\ history'.moves = history.moves + 1
           /\ env'.dupes = env.dupes \/ (~cfg.model /\ history'.moves = history.moves + 1)
           /\ history'.raised = history.raised \/ Raise
           /\ history'.faults = history.faults \/ history'.faults = history.faults + 1
           /\ Raise \/ Kill => history'.faults = history.faults + 1
<1>1. env \in Envs /\ history \in Histories
  BY DEF TypeInv, TypeOK, Histories
<1>2. ASSUME Hiding
      PROVE  run.pc = "suppress" /\ run.begun /\ env'.dupes = env.dupes /\ history' = history
  BY <1>1, <1>2 DEF Hiding, At, Envs
<1>3. ASSUME Removing
      PROVE  /\ run.pc = "reclaim" /\ env'.dupes = env.dupes
             /\ (Done("verify") => history'.late = TRUE)
             /\ history'.raised = history.raised /\ history'.faults = history.faults
  <2>1. PICK live \in {FALSE, env.live}, own \in {FALSE, env.own}, leak \in {FALSE, env.leak},
             ghost \in BOOLEAN, drift \in BOOLEAN :
             /\ ghost => env.own /\ ~own /\ ~cfg.model
             /\ drift => cfg.semantic
             /\ env' = [env EXCEPT !.live = live, !.own = own, !.leak = leak,
                                   !.ghost = env.ghost \/ ghost, !.drift = drift]
    BY <1>3 DEF Removing
  <2> PICK both : both = (env.ghost \/ ghost)
    OBVIOUS
  <2>a. env' = [env EXCEPT !.live = live, !.own = own, !.leak = leak,
                           !.ghost = both, !.drift = drift]
    BY <2>1
  <2>2. env'.dupes = env.dupes
    BY <1>1, <2>a DEF Envs
  <2> PICK late : late = (history.late \/ Done("verify"))
    OBVIOUS
  <2>3. history' = [history EXCEPT !.late = late]
    BY <1>3 DEF Removing
  <2>4. /\ history'.late = late /\ history'.raised = history.raised
        /\ history'.faults = history.faults
    BY <1>1, <2>3 DEF Histories
  <2>5. run.pc = "reclaim"
    BY <1>3 DEF Removing, At
  <2> QED
    BY <2>2, <2>4, <2>5
<1>4. ASSUME OtherSubject
      PROVE  /\ ~cfg.model /\ history'.moves = history.moves + 1
             /\ history'.raised = history.raised /\ history'.faults = history.faults
  <2> PICK moves : moves = history.moves + 1
    OBVIOUS
  <2>1. ~cfg.model /\ history' = [history EXCEPT !.moves = moves]
    BY <1>4 DEF OtherSubject
  <2> QED
    BY <1>1, <2>1 DEF Histories
<1>5. ASSUME Raise
      PROVE  env' = env /\ history'.faults = history.faults + 1
  <2> PICK faults : faults = history.faults + 1
    OBVIOUS
  <2>1. env' = env /\ history' = [history EXCEPT !.faults = faults, !.raised = TRUE]
    BY <1>5 DEF Raise
  <2> QED
    BY <1>1, <2>1 DEF Histories
<1>6. ASSUME Kill
      PROVE  /\ env' = env /\ history'.faults = history.faults + 1
             /\ history'.raised = history.raised
  <2> PICK faults : faults = history.faults + 1
    OBVIOUS
  <2>1. env' = env /\ history' = [history EXCEPT !.faults = faults]
    BY <1>6 DEF Kill
  <2> QED
    BY <1>1, <2>1 DEF Histories
<1>7. ~(Hiding \/ Removing \/ OtherSubject \/ Raise \/ Kill) => UNCHANGED <<env, history>>
  <2>1. Start \/ Begin \/ PassOver \/ Suppress \/ Baseline \/ Reclaim
          => UNCHANGED <<env, history>>
    BY DEF Start, Begin, PassOver, Suppress, Baseline, Reclaim
  <2>2. ProbeLogical \/ ProbePhysical \/ ProbeModel \/ EndVerify => UNCHANGED <<env, history>>
    BY DEF ProbeLogical, ProbePhysical, ProbeModel, EndVerify, Probe
  <2>3. WriteReceipt \/ RefuseReceipt \/ UNCHANGED vars => UNCHANGED <<env, history>>
    BY DEF WriteReceipt, RefuseReceipt, vars
  <2> QED
    BY <2>1, <2>2, <2>3 DEF Next
<1> QED
  BY <1>2, <1>3, <1>4, <1>5, <1>6, <1>7

\* What the runs of a store without --semantic compare with.
LEMMA BeforeSteps ==
    ASSUME TypeInv, [Next]_vars
    PROVE  /\ Start => run'.before \in Recorded
           /\ run'.before = run.before \/ run'.before = "none" \/ Start
<1>1. run \in Runs
  BY DEF TypeInv, TypeOK, Runs
<1>2. ASSUME Start PROVE run'.before \in Recorded
  <2>1. PICK reclaim \in BOOLEAN, before \in Recorded :
            run' = [Down EXCEPT !.pc = "suppress", !.reclaim = reclaim, !.before = before]
    BY <1>2 DEF Start
  <2> QED
    BY <2>1 DEF Down
<1>3. ASSUME Raise PROVE run'.before = run.before
  <2>1. PICK begun, dlq, pc : run' = [run EXCEPT !.begun = begun, !.dlq = dlq, !.pc = pc]
    BY <1>3 DEF Raise
  <2> QED
    BY <1>1, <2>1 DEF Runs
<1>4. ~(Start \/ Raise) => run'.before = run.before \/ run'.before = "none"
  BY RunSteps, DownFacts DEF Next
<1> QED
  BY <1>2, <1>3, <1>4

LEMMA AloneStep ==
    ASSUME TypeInv, ModelAlone, [Next]_vars
    PROVE  ModelAlone'
BY WorldSteps, EnvSteps DEF ModelAlone

LEMMA PlainStep ==
    ASSUME TypeInv, [Next]_vars, ~cfg.semantic => run.before = "none"
    PROVE  ~cfg'.semantic => run'.before = "none"
<1>1. cfg' = cfg
  BY WorldSteps
<1>2. ~cfg.semantic => Recorded = {"none"}
  BY DEF Recorded
<1> QED
  BY <1>1, <1>2, BeforeSteps

\* While no step raises: what is done stays done, and each step is done by its action.
LEMMA DoneNow ==
    ASSUME SLInv, [Next]_vars, ~history'.raised, saga'.id = saga.id
    PROVE  /\ Done("suppress")' <=> Done("suppress") \/ Suppress
           /\ Done("baseline")' <=> Done("baseline") \/ Baseline
           /\ Done("verify")' <=> Done("verify") \/ EndVerify
           /\ \A step \in Steps : Done(step) => Done(step)'
           /\ \A step \in Steps : ~Done(step) /\ Done(step)' => run.begun /\ run'.begun = FALSE
<1>1. TypeInv
  BY DEF SLInv
<1>2. \A step \in Steps : ~Done(step) /\ Done(step)' =>
         Suppress \/ Baseline \/ Reclaim \/ EndVerify
  BY <1>1, DoneSteps
<1>3. Suppress \/ Baseline \/ Reclaim \/ EndVerify => run.begun /\ run'.begun = FALSE
  BY <1>1, RunSteps
<1>4. /\ \A step : Done(step) => Done(step)'
      /\ Suppress => Done("suppress")'
      /\ Baseline => Done("baseline")'
      /\ EndVerify => Done("verify")'
  BY <1>1, DoneSteps
<1>5. \A step \in Steps : Done(step)' =>
         \/ Done(step)
         \/ step = "suppress" /\ Suppress
         \/ step = "baseline" /\ Baseline
         \/ step = "reclaim" /\ Reclaim
         \/ step = "verify" /\ EndVerify
  BY <1>1, DoneSteps
<1>6. /\ Done("suppress")' => Done("suppress") \/ Suppress
      /\ Done("baseline")' => Done("baseline") \/ Baseline
      /\ Done("verify")' => Done("verify") \/ EndVerify
  BY <1>5 DEF Steps
<1> QED
  BY <1>2, <1>3, <1>4, <1>6

LEMMA SteadyStep ==
    ASSUME SLInv, Steady, [Next]_vars, ~history'.raised
    PROVE  Steady'
<1>1. TypeInv /\ GoodRun /\ ~Raise /\ cfg' = cfg
  BY OneSaga, WorldSteps DEF SLInv
<1>2. CASE saga'.id # saga.id
  <2>1. journal' = <<>> /\ Start
    BY <1>2, OneSaga
  <2>2. \A step : ~Done(step)'
    BY <2>1 DEF Done, Has
  <2>3. run'.pc = "suppress" /\ run'.begun = FALSE
    BY <1>1, <2>1, RunSteps
  <2> QED
    BY <2>2, <2>3 DEF Steady
<1>3. CASE saga'.id = saga.id
  <2>1. /\ Done("suppress")' <=> Done("suppress") \/ Suppress
        /\ Done("baseline")' <=> Done("baseline") \/ Baseline
        /\ Done("verify")' <=> Done("verify") \/ EndVerify
        /\ \A step \in Steps : ~Done(step) /\ Done(step)' => run.begun /\ run'.begun = FALSE
    BY <1>3, DoneNow
  <2>2. run.begun => ~Done(StepOf(run.pc)) /\ StepOf(run.pc) \in Steps
    BY <1>1, AfterFacts DEF Steady, TypeInv
  <2>3. Done("verify")' => Done("suppress")' /\ (cfg.physical => Done("baseline")')
    <3>1. EndVerify => run.pc = "semantic"
      BY <1>1, RunSteps
    <3> QED
      BY <2>1, <3>1 DEF Steady
  <2>4. ASSUME run'.pc = run.pc, run'.begun = run.begun
        PROVE  Steady'
    <3>1. run'.begun => ~Done(StepOf(run.pc))'
      BY <2>1, <2>2, <2>4
    <3> QED
      BY <1>1, <2>1, <2>3, <2>4, <3>1 DEF Steady
  <2>5. ASSUME Begin PROVE Steady'
    <3>1. run'.pc = run.pc /\ run'.begun = TRUE /\ run.begun = FALSE
      BY <1>1, <2>5, RunSteps DEF Begin, TypeInv, TypeOK
    <3>2. StepOf(run.pc) \in Steps /\ ~Done(StepOf(run.pc))
      BY <2>5, AfterFacts DEF Begin, Skipped, Running
    <3>3. ~Done(StepOf(run.pc))'
      BY <2>1, <3>1, <3>2
    <3> QED
      BY <1>1, <2>1, <2>3, <3>1, <3>3 DEF Steady
  <2>6. ASSUME PassOver PROVE Steady'
    <3>1. /\ run'.begun = FALSE
          /\ \/ run.pc = "suppress" /\ run'.pc = "baseline"
             \/ run.pc = "baseline" /\ run'.pc = "reclaim"
             \/ run.pc = "reclaim" /\ run'.pc = "logical"
             \/ run.pc = "logical" /\ run'.pc = "receipt"
      BY <1>1, <2>6, RunSteps
    <3>2. Skipped(StepOf(run.pc)) /\ run.dlq = FALSE
      BY <1>1, <2>6 DEF PassOver, GoodRun
    <3>3. run.pc = "suppress" => Done("suppress")
      BY <3>2, AfterFacts DEF Skipped
    <3>4. run.pc = "baseline" => (cfg.physical => Done("baseline"))
      BY <3>2, AfterFacts DEF Skipped
    <3> QED
      BY <1>1, <2>1, <2>3, <3>1, <3>3, <3>4 DEF Steady
  <2>7. ASSUME Suppress \/ Baseline \/ Reclaim \/ EndVerify PROVE Steady'
    <3>1. /\ Suppress => run'.pc = "baseline" /\ run'.begun = FALSE
          /\ Baseline => run.pc = "baseline" /\ run'.pc = "reclaim" /\ run'.begun = FALSE
          /\ Reclaim => run.pc = "reclaim" /\ run'.pc = "logical" /\ run'.begun = FALSE
          /\ EndVerify => run.pc = "semantic" /\ run'.pc = "receipt" /\ run'.begun = FALSE
      BY <1>1, RunSteps
    <3> QED
      BY <1>1, <2>1, <2>3, <2>7, <3>1 DEF Steady
  <2>8. ASSUME ProbeLogical \/ ProbePhysical \/ ProbeModel PROVE Steady'
    <3>1. /\ run.begun = TRUE /\ run'.begun = TRUE
          /\ run.pc \in {"logical", "physical", "model"}
          /\ run'.pc \in {"physical", "model", "semantic"}
      BY <1>1, <2>8, RunSteps
    <3>2. StepOf(run.pc) = "verify" /\ StepOf(run'.pc) = "verify" /\ "verify" \in Steps
      BY <3>1 DEF StepOf, Steps
    <3>3. ~Done("verify")'
      BY <2>1, <2>2, <3>1, <3>2
    <3> QED
      BY <1>1, <2>1, <2>3, <3>1, <3>2, <3>3 DEF Steady
  <2>9. ASSUME Start \/ WriteReceipt \/ RefuseReceipt \/ Kill PROVE Steady'
    <3>1. Down.begun = FALSE /\ Down.pc = "down"
      BY DEF Down
    <3>2. run'.begun = FALSE /\ run'.pc \in {"suppress", "down"}
      BY <1>1, <2>9, <3>1, RunSteps
    <3> QED
      BY <1>1, <2>3, <3>2 DEF Steady
  <2>10. ASSUME Hiding \/ Removing \/ OtherSubject \/ UNCHANGED vars PROVE Steady'
    <3>1. run' = run
      BY <1>1, <2>10, RunSteps
    <3> QED
      BY <2>4, <3>1
  <2> QED
    BY <1>1, <2>5, <2>6, <2>7, <2>8, <2>9, <2>10 DEF Next
<1> QED
  BY <1>2, <1>3

\* Once a level has been probed the world stands still, unless others move.
LEMMA Frozen ==
    ASSUME SLInv, Steady, [Next]_vars, Quiet',
           run.pc \in {"physical", "model", "semantic"} \/ Done("verify")
    PROVE  env' = env
<1>1. TypeInv /\ history.moves \in Nat /\ history'.moves = 0 /\ history'.late = FALSE
  BY TypeStep, LatticeAssumption DEF SLInv, TypeInv, TypeOK, Quiet
<1>2. ~OtherSubject \/ history'.moves # history.moves + 1
  BY <1>1
<1>3. ~(run.pc = "suppress" /\ run.begun)
  <2>1. StepOf("suppress") = "suppress"
    BY AfterFacts
  <2> QED
    BY <2>1 DEF Steady
<1> QED
  BY <1>1, <1>2, <1>3, EnvSteps

LEMMA QuietBefore ==
    ASSUME SLInv, [Next]_vars, Quiet'
    PROVE  /\ Quiet /\ ~history'.raised /\ ~Raise /\ cfg' = cfg /\ env'.dupes = env.dupes
           /\ (env'.own => env.own) /\ history.faults <= history'.faults
<1>1. TypeInv /\ history \in Histories
  BY DEF SLInv, TypeInv, TypeOK, Histories
<1>2. ~history'.raised /\ ~history'.late /\ history'.moves = 0
  BY DEF Quiet
<1>3. history.moves = 0
  <2>1. history.moves \in Nat /\ history.moves <= history'.moves
    BY <1>1, HistorySteps DEF Histories
  <2> QED
    BY <1>2, <2>1
<1>4. env'.dupes = env.dupes
  <2>1. history'.moves # history.moves + 1
    BY <1>2, <1>3
  <2> QED
    BY <1>1, <2>1, EnvSteps
<1> QED
  BY <1>1, <1>2, <1>3, <1>4, HistorySteps, WorldSteps, OneSaga DEF Quiet

\* Nothing is known of a saga before its first record.
LEMMA NewSaga ==
    ASSUME SLInv, [Next]_vars, Quiet', saga'.id # saga.id
    PROVE  /\ Known(saga'.id, journal') = Bare /\ run'.pc = "suppress"
           /\ \A step : ~Done(step)'
<1>1. journal' = <<>> /\ saga'.id = 1 /\ Start /\ TypeInv /\ cfg \in Configs
  BY QuietBefore, OneSaga DEF SLInv, TypeInv, TypeOK
<1>2. Known(saga'.id, journal') = Bare
  BY <1>1, ReadingNothing
<1>3. \A step : ~Done(step)'
  BY <1>1 DEF Done, Has
<1> QED
  BY <1>1, <1>2, <1>3, RunSteps

\* What the saga knows, from step to step of a quiet history.
LEMMA ComparedStep ==
    ASSUME SLInv, Steady, ModelAlone, ~cfg.semantic => run.before = "none",
           [Next]_vars, Quiet',
           NEW f, f = Known(saga.id, journal), Compared(f),
           NEW l, l = Known(saga'.id, journal')
    PROVE  Compared(l)'
<1>1. /\ TypeInv /\ cfg \in Configs /\ env \in Envs /\ ~Raise /\ cfg' = cfg
      /\ env'.dupes = env.dupes /\ (env'.own => env.own) /\ ~history'.raised
      /\ saga.id \in Nat
  BY QuietBefore, LatticeAssumption DEF SLInv, TypeInv, TypeOK
<1>2. Scannable' <=> Scannable
  BY <1>1 DEF Scannable
<1>3. CASE saga'.id # saga.id
  <2>1. l = Bare /\ ~Done("baseline")'
    BY <1>3, NewSaga
  <2>2. /\ l.seen = FALSE /\ l.dupes = FALSE /\ l.supported = cfg.physical
        /\ l.physical = "none" /\ l.model = cfg.sharded /\ l.canary = "none"
        /\ l.mia = "none" /\ l.above = "none"
    BY <2>1 DEF Bare, Unread
  <2>3. (Scannable => cfg.physical = TRUE) /\ (~cfg.model => cfg.sharded = FALSE)
    BY <1>1, ConfigFacts DEF Scannable
  <2> QED
    BY <1>1, <1>2, <2>1, <2>2, <2>3 DEF Compared
<1>4. CASE saga'.id = saga.id
  <2>1. Done("baseline")' <=> Done("baseline") \/ Baseline
    BY <1>1, <1>4, DoneNow
  <2>2. /\ f \in FactSets /\ l \in FactSets
        /\ IF Baseline THEN BaselineTold(f, l) ELSE SameBase(f, l)
        /\ IF ProbePhysical THEN PhysicalTold(f, l) ELSE SamePhysical(f, l)
        /\ IF ProbeModel /\ cfg.model THEN ModelNow(l) ELSE SameModel(f, l)
        /\ IF EndVerify THEN AboveTold(f, l) ELSE SameAbove(f, l)
    BY <1>1, <1>4, KnownSteps
  <2>3. IF l.seen THEN l.dupes = (env.dupes = "live") ELSE l.dupes = FALSE
    <3>1. CASE BaselineTold(f, l)
      BY <3>1 DEF Compared, SameBase, BaselineTold
    <3>2. CASE SameBase(f, l)
      BY <3>2 DEF Compared, SameBase
    <3> QED
      BY <2>2, <3>1, <3>2
  <2>4. Done("baseline")' /\ (cfg.readable \/ env.dupes # "live") => l.seen
    <3>1. CASE Baseline
      BY <2>2, <3>1 DEF BaselineTold
    <3>2. CASE ~Baseline
      BY <2>1, <2>2, <3>2 DEF Compared, SameBase
    <3> QED
      BY <3>1, <3>2
  <2>5. Scannable /\ l.supported = FALSE => env.dupes = "live" /\ ~env'.own
    <3>1. SUFFICES ASSUME Scannable, l.supported = FALSE
                   PROVE  env.dupes = "live" /\ ~env'.own
      OBVIOUS
    <3>2. f.supported = FALSE => env.dupes = "live" /\ ~env'.own
      BY <1>1, <3>1 DEF Compared
    <3>3. ASSUME f.supported = TRUE PROVE env.dupes = "live" /\ ~env'.own
      <4>1. ~SamePhysical(f, l)
        BY <3>1, <3>3 DEF SamePhysical
      <4>2. ~Scanned.own /\ f.dupes
        BY <2>2, <3>1, <3>3, <4>1 DEF PhysicalTold
      <4>3. ~env.own
        BY <4>2 DEF Scanned
      <4>4. env.dupes = "live"
        BY <4>2 DEF Compared
      <4> QED
        BY <1>1, <4>3, <4>4
    <3>4. f.supported \in BOOLEAN
      BY <2>2 DEF FactSets
    <3> QED
      BY <3>2, <3>3, <3>4
  <2>6. ~Scannable => l.physical = "none"
    BY <2>2 DEF Compared, PhysicalTold, SamePhysical
  <2>7. ~cfg.model => l.model = FALSE /\ l.canary = "none" /\ l.mia = "none"
    BY <2>2 DEF Compared, SameModel
  <2>8. ~cfg.semantic => l.above = "none"
    <3>1. ~cfg.semantic => Drifted(run.before) = {}
      BY DEF Drifted
    <3> QED
      BY <2>2, <3>1 DEF Compared, SameAbove, AboveTold
  <2> QED
    BY <1>1, <1>2, <2>3, <2>4, <2>5, <2>6, <2>7, <2>8 DEF Compared
<1> QED
  BY <1>3, <1>4

\* How a verification gets from one level to the next.
LEMMA LevelSteps ==
    ASSUME TypeInv, [Next]_vars, ~Raise
    PROVE  /\ run'.pc = "physical" => ProbeLogical \/ run.pc = "physical"
           /\ run'.pc = "model" => ProbePhysical \/ run.pc = "model"
           /\ run'.pc = "semantic" => ProbeModel \/ run.pc = "semantic"
           /\ ProbeLogical => run.pc = "logical" /\ run.begun = TRUE
           /\ ProbePhysical => run.pc = "physical" /\ run.begun = TRUE
           /\ ProbeModel => run.pc = "model" /\ run.begun = TRUE
           /\ EndVerify => run.pc = "semantic" /\ run.begun = TRUE
           /\ ProbeLogical \/ ProbePhysical \/ ProbeModel \/ EndVerify => env' = env
<1>1. ProbeLogical \/ ProbePhysical \/ ProbeModel \/ EndVerify => env' = env
  BY DEF ProbeLogical, ProbePhysical, ProbeModel, EndVerify, Probe
<1>2. /\ ProbeLogical => run.pc = "logical" /\ run'.pc = "physical" /\ run.begun = TRUE
      /\ ProbePhysical => run.pc = "physical" /\ run'.pc = "model" /\ run.begun = TRUE
      /\ ProbeModel => run.pc = "model" /\ run'.pc = "semantic" /\ run.begun = TRUE
      /\ EndVerify => run.pc = "semantic" /\ run'.pc = "receipt" /\ run.begun = TRUE
  BY RunSteps
<1>3. Start \/ PassOver \/ Suppress \/ Baseline \/ Reclaim
        => run'.pc \notin {"physical", "model", "semantic"}
  BY RunSteps
<1>4. Begin \/ Hiding \/ Removing \/ OtherSubject \/ UNCHANGED vars => run'.pc = run.pc
  BY RunSteps
<1>5. WriteReceipt \/ RefuseReceipt \/ Kill => run'.pc = "down"
  BY RunSteps, DownFacts
<1> QED
  BY <1>1, <1>2, <1>3, <1>4, <1>5 DEF Next

LEMMA CurrentStep ==
    ASSUME SLInv, Steady, ModelAlone, history.faults = 0 => Unfailing,
           [Next]_vars, Quiet',
           NEW f, f = Known(saga.id, journal), Compared(f), Current(f),
           NEW l, l = Known(saga'.id, journal')
    PROVE  Current(l)'
<1>1. /\ TypeInv /\ cfg \in Configs /\ env \in Envs /\ ~Raise /\ cfg' = cfg
      /\ env'.dupes = env.dupes /\ ~history'.raised /\ saga.id \in Nat
      /\ history.faults \in Nat /\ history'.faults \in Nat /\ history.faults <= history'.faults
  BY QuietBefore, TypeStep, LatticeAssumption DEF SLInv, TypeInv, TypeOK
<1>2. CASE saga'.id # saga.id
  <2>1. run'.pc = "suppress" /\ ~Done("verify")'
    BY <1>2, NewSaga
  <2> QED
    BY <2>1 DEF Current
<1>3. CASE saga'.id = saga.id
  <2>1. /\ f \in FactSets /\ l \in FactSets
        /\ IF ProbeLogical THEN LogicalNow(l) ELSE SameLogical(f, l)
        /\ IF ProbePhysical THEN PhysicalTold(f, l) ELSE SamePhysical(f, l)
        /\ IF ProbeModel /\ cfg.model THEN ModelNow(l) ELSE SameModel(f, l)
        /\ IF EndVerify THEN AboveTold(f, l) ELSE SameAbove(f, l)
    BY <1>1, <1>3, KnownSteps
  <2>2. Done("verify")' <=> Done("verify") \/ EndVerify
    BY <1>1, <1>3, DoneNow
  <2>3. /\ run'.pc = "physical" => ProbeLogical \/ run.pc = "physical"
        /\ run'.pc = "model" => ProbePhysical \/ run.pc = "model"
        /\ run'.pc = "semantic" => ProbeModel \/ run.pc = "semantic"
        /\ ProbeLogical => run.pc = "logical" /\ run.begun = TRUE
        /\ ProbePhysical => run.pc = "physical" /\ run.begun = TRUE
        /\ ProbeModel => run.pc = "model" /\ run.begun = TRUE
        /\ EndVerify => run.pc = "semantic" /\ run.begun = TRUE
        /\ ProbeLogical \/ ProbePhysical \/ ProbeModel \/ EndVerify => env' = env
    BY <1>1, LevelSteps
  <2>4. run.pc \in {"physical", "model", "semantic"} \/ Done("verify") => env' = env
    BY Frozen
  <2>5. run'.pc \in {"physical", "model", "semantic"} \/ Done("verify")' => LogicalNow(l)'
    <3>1. SUFFICES ASSUME run'.pc \in {"physical", "model", "semantic"} \/ Done("verify")'
                   PROVE  LogicalNow(l)'
      OBVIOUS
    <3>2. env' = env
      BY <2>2, <2>3, <2>4, <3>1
    <3>3. LogicalNow(l)
      <4>1. CASE ~ProbeLogical
        <5>1. run.pc \in {"physical", "model", "semantic"} \/ Done("verify")
          BY <2>2, <2>3, <3>1, <4>1
        <5>2. LogicalNow(f) /\ SameLogical(f, l)
          BY <2>1, <4>1, <5>1 DEF Current
        <5> QED
          BY <5>2 DEF LogicalNow, SameLogical
      <4> QED
        BY <2>1, <4>1
    <3> QED
      BY <1>1, <3>2, <3>3 DEF LogicalNow, Retrieved
  <2>6. run'.pc \in {"model", "semantic"} \/ Done("verify")' => PhysicalNow(l)'
    <3>1. SUFFICES ASSUME run'.pc \in {"model", "semantic"} \/ Done("verify")'
                   PROVE  PhysicalNow(l)'
      OBVIOUS
    <3>2. env' = env
      BY <2>2, <2>3, <2>4, <3>1
    <3>3. PhysicalNow(l)
      <4>1. CASE ~ProbePhysical
        <5>1. run.pc \in {"model", "semantic"} \/ Done("verify")
          BY <2>2, <2>3, <3>1, <4>1
        <5>2. PhysicalNow(f) /\ SamePhysical(f, l)
          BY <2>1, <4>1, <5>1 DEF Current
        <5> QED
          BY <5>2 DEF PhysicalNow, SamePhysical
      <4>2. CASE ProbePhysical /\ Scannable
        <5>1. /\ l.physical = IF Scanned.own \/ (Scanned.content /\ ~f.dupes) THEN "yes"
                              ELSE IF Scanned.content THEN "none" ELSE "no"
              /\ l.supported = (f.supported /\ ~(~Scanned.own /\ Scanned.content /\ f.dupes))
          BY <2>1, <4>2 DEF PhysicalTold
        <5>2. f.dupes = (env.dupes = "live")
          <6>1. Done("baseline") /\ cfg.readable
            BY <2>3, <4>2 DEF Steady, Scannable
          <6> QED
            BY <6>1 DEF Compared
        <5>3. f.supported = FALSE => Theirs
          <6>1. ASSUME f.supported = FALSE PROVE env.dupes = "live" /\ ~env.own
            BY <4>2, <6>1 DEF Compared
          <6>2. env.dupes = "live" => ~cfg.model
            BY DEF ModelAlone
          <6>3. env.dupes = "live" /\ ~env.own => Theirs
            BY <6>2 DEF Theirs, Scanned
          <6> QED
            BY <6>1, <6>3
        <5>4. Theirs <=> ~Scanned.own /\ Scanned.content /\ f.dupes
          BY <5>2 DEF Theirs
        <5>5. CASE Theirs
          <6>1. l.supported = FALSE /\ l.physical = "none"
            BY <5>1, <5>4, <5>5
          <6> QED
            BY <4>2, <5>5, <6>1 DEF PhysicalNow
        <5>6. CASE ~Theirs
          <6>1. f.supported = TRUE
            BY <2>1, <5>3, <5>6 DEF FactSets
          <6>2. l.supported = TRUE
            BY <5>1, <5>4, <5>6, <6>1
          <6>3. l.physical = Found
            BY <5>1, <5>4, <5>6 DEF YesNo, Found
          <6> QED
            BY <4>2, <5>6, <6>2, <6>3 DEF PhysicalNow
        <5> QED
          BY <5>5, <5>6
      <4>3. CASE ProbePhysical /\ ~Scannable
        BY <2>1, <4>3 DEF PhysicalTold, PhysicalNow
      <4> QED
        BY <4>1, <4>2, <4>3
    <3> QED
      BY <1>1, <3>2, <3>3 DEF PhysicalNow, Scannable, Scanned, Theirs, Found
  <2>7. cfg'.model /\ (run'.pc = "semantic" \/ Done("verify")') => ModelNow(l)'
    <3>1. SUFFICES ASSUME cfg.model, run'.pc = "semantic" \/ Done("verify")'
                   PROVE  ModelNow(l)'
      BY <1>1
    <3>2. env' = env
      BY <2>2, <2>3, <2>4, <3>1
    <3>3. ModelNow(l)
      <4>1. CASE ~ProbeModel
        <5>1. run.pc = "semantic" \/ Done("verify")
          BY <2>2, <2>3, <3>1, <4>1
        <5>2. ModelNow(f) /\ SameModel(f, l)
          BY <2>1, <3>1, <4>1, <5>1 DEF Current
        <5> QED
          BY <5>2 DEF ModelNow, SameModel
      <4> QED
        BY <2>1, <3>1, <4>1
    <3> QED
      BY <1>1, <3>2, <3>3 DEF ModelNow
  <2>8. cfg'.semantic /\ history'.faults = 0 /\ Done("verify")' => l.above = YesNo(env'.drift)
    <3>1. SUFFICES ASSUME cfg.semantic, history'.faults = 0, Done("verify")'
                   PROVE  l.above = YesNo(env'.drift)
      BY <1>1
    <3>2. env' = env /\ history.faults = 0
      BY <1>1, <2>2, <2>3, <2>4, <3>1
    <3>3. CASE EndVerify
      <4>1. run.before = "whole"
        BY <2>3, <3>1, <3>2, <3>3 DEF Unfailing
      <4>2. Drifted(run.before) = {env.drift}
        BY <4>1 DEF Drifted
      <4> QED
        BY <2>1, <3>2, <3>3, <4>2 DEF AboveTold
    <3>4. CASE ~EndVerify
      <4>1. Done("verify") /\ SameAbove(f, l)
        BY <2>1, <2>2, <3>1, <3>4
      <4>2. f.above = YesNo(env.drift)
        BY <3>1, <3>2, <4>1 DEF Current
      <4> QED
        BY <3>2, <4>1, <4>2 DEF SameAbove
    <3> QED
      BY <3>3, <3>4
  <2> QED
    BY <2>5, <2>6, <2>7, <2>8 DEF Current
<1> QED
  BY <1>2, <1>3

\* Only a step's begin enters a begin into the journal.
LEMMA BeginSteps ==
    ASSUME SLInv, [Next]_vars, ~Raise, saga'.id = saga.id
    PROVE  \A step : Has(StepRecord("begin", step))' =>
              Has(StepRecord("begin", step)) \/ (Begin /\ step = StepOf(run.pc))
<1>a. PICK j : j = journal
  OBVIOUS
<1>b. PICK k : k = journal'
  OBVIOUS
<1>1. TypeInv /\ j \in Seq(Records)
  BY <1>a DEF SLInv, TypeInv
<1> DEFINE Fresh == \A x : In(x, k) => In(x, j) \/ x.type # "begin"
<1>2. ASSUME NEW r \in Records, r.type # "begin", k = Append(j, r) PROVE Fresh
  BY <1>1, <1>2, InAppend
<1>3. ASSUME NEW a \in Records, NEW b \in Records, a.type # "begin", b.type # "begin",
             k = Append(Append(j, a), b)
      PROVE  Fresh
  <2>a. PICK i : i = Append(j, a)
    OBVIOUS
  <2>1. i \in Seq(Records) /\ \A x : In(x, i) <=> In(x, j) \/ x = a
    BY <1>1, <2>a, InAppend
  <2>2. k = Append(i, b)
    BY <1>3, <2>a
  <2>3. \A x : In(x, k) <=> In(x, i) \/ x = b
    BY <2>1, <2>2, InAppend
  <2> QED
    BY <1>3, <2>1, <2>3
<1> HIDE DEF Fresh
<1>4. /\ \A step : Ok(step).type # "begin"
      /\ LogicalOne.type # "begin" /\ PhysicalOne.type # "begin" /\ ModelOne.type # "begin"
      /\ BaselineOne.type # "begin" /\ \A above : SemanticRecord(above).type # "begin"
  BY DEF StepRecord, Ok, LogicalOne, PhysicalOne, ModelOne, BaselineOne, SemanticRecord
<1>5. k = j => Fresh
  BY DEF Fresh
<1>6. Suppress \/ Reclaim => Fresh
  BY <1>1, <1>a, <1>b, <1>2, <1>4, Written
<1>7. ProbeLogical \/ ProbePhysical => Fresh
  BY <1>1, <1>a, <1>b, <1>2, <1>4, Written
<1>8. ProbeModel => Fresh
  BY <1>1, <1>a, <1>b, <1>2, <1>4, <1>5, Written
<1>9. Baseline => Fresh
  BY <1>1, <1>a, <1>b, <1>2, <1>3, <1>4, Written
<1>10. EndVerify => Fresh
  <2>1. SUFFICES ASSUME EndVerify PROVE Fresh
    OBVIOUS
  <2>2. CASE k = Append(j, Ok("verify"))
    BY <1>1, <1>2, <1>4, <2>1, <2>2, Written
  <2>3. ASSUME NEW above, SemanticRecord(above) \in Records,
               k = Append(Append(j, SemanticRecord(above)), Ok("verify"))
        PROVE  Fresh
    <3>a. PICK a : a = SemanticRecord(above)
      OBVIOUS
    <3>b. PICK b : b = Ok("verify")
      OBVIOUS
    <3>1. a \in Records /\ b \in Records /\ a.type # "begin" /\ b.type # "begin"
      BY <1>1, <1>4, <2>1, <2>3, <3>a, <3>b, Written
    <3> QED
      BY <1>3, <2>3, <3>1, <3>a, <3>b
  <2> QED
    BY <1>1, <1>a, <1>b, <2>1, <2>2, <2>3, Written
<1>11. ~(Begin \/ Suppress \/ Reclaim \/ ProbeLogical \/ ProbePhysical \/ ProbeModel
          \/ Baseline \/ EndVerify \/ Raise) => journal' = journal
  BY DEF Next, vars, Start, PassOver, Hiding, Removing, WriteReceipt, RefuseReceipt, Kill,
         OtherSubject
<1>12. ~Begin => Fresh
  BY <1>5, <1>6, <1>7, <1>8, <1>9, <1>10, <1>11, <1>a, <1>b
<1>13. \A step : /\ Has(StepRecord("begin", step)) <=> In(StepRecord("begin", step), j)
                 /\ Has(StepRecord("begin", step))' <=> In(StepRecord("begin", step), k)
                 /\ StepRecord("begin", step).type = "begin"
  BY <1>a, <1>b DEF Has, In, StepRecord
<1>14. CASE ~Begin
  BY <1>12, <1>13, <1>14 DEF Fresh
<1>15. CASE Begin
  <2>a. PICK r \in Records : r = StepRecord("begin", StepOf(run.pc)) /\ k = Append(j, r)
    BY <1>1, <1>15, <1>a, <1>b, Written
  <2>1. \A x : In(x, k) <=> In(x, j) \/ x = r
    BY <1>1, <2>a, InAppend
  <2>2. \A step : StepRecord("begin", step) = r => step = StepOf(run.pc)
    BY <2>a DEF StepRecord
  <2> QED
    BY <1>13, <1>15, <2>1, <2>2
<1> QED
  BY <1>14, <1>15

\* Without a fault no receipt is refused, so the one run goes on to its end.
LEMMA UnfailingStep ==
    ASSUME SLInv, ~history.raised, Unfailing, [Next]_vars, history.faults = 0, history'.faults = 0
    PROVE  ~history'.raised /\ Unfailing'
<1>1. TypeInv /\ GoodRun
  BY DEF SLInv, Smoothly
<1>2. ~Raise /\ ~Kill /\ ~history'.raised
  <2>1. history'.faults # history.faults + 1
    OBVIOUS
  <2> QED
    BY <1>1, <2>1, EnvSteps
<1>3. cfg' = cfg
  BY <1>1, WorldSteps
<1>4. ~RefuseReceipt
  <2>1. SUFFICES ASSUME RefuseReceipt PROVE FALSE
    OBVIOUS
  <2>2. run.pc = "receipt" /\ ~run.begun
    BY <1>1, <2>1 DEF RefuseReceipt, TypeInv, Running
  <2>3. ~InProgress
    BY <2>2 DEF Unfailing, InProgress, Steps
  <2> QED
    BY <2>1, <2>3 DEF RefuseReceipt
<1>5. ASSUME Start
      PROVE  /\ run'.before = IF cfg.semantic THEN "whole" ELSE "none"
             /\ saga'.id # saga.id /\ run'.pc = "suppress"
  <2>1. run.pc = "down" /\ ~saga.open /\ run'.pc = "suppress"
    BY <1>1, <1>5, RunSteps DEF Unfailing
  <2>2. saga' = [id |-> saga.id + 1, open |-> TRUE] /\ saga.id \in Nat
    BY <1>1, <1>5, <2>1, LatticeAssumption DEF Start, TypeInv, TypeOK
  <2>3. saga'.id # saga.id
    BY <2>2
  <2>4. env.live
    BY <1>1, <1>2, <2>3, OneSaga DEF TypeInv
  <2>5. run'.before \in Recorded
    BY <1>1, <1>5, BeforeSteps
  <2>6. Recorded = {IF cfg.semantic THEN "whole" ELSE "none"}
    BY <2>4 DEF Recorded
  <2> QED
    BY <2>1, <2>3, <2>5, <2>6
<1>6. saga'.open => run'.pc # "down"
  <2>1. WriteReceipt => ~saga'.open
    BY <1>1 DEF WriteReceipt, TypeInv, TypeOK
  <2>2. Start => run'.pc # "down"
    BY <1>5
  <2>3. ~Start /\ ~WriteReceipt => saga'.open = saga.open
    <3>1. ~Start /\ ~WriteReceipt => saga' = saga
      BY DEF Next, vars, Begin, PassOver, Hiding, Suppress, Baseline, Removing, Reclaim,
             ProbeLogical, ProbePhysical, ProbeModel, EndVerify, Probe, RefuseReceipt, Raise,
             Kill, OtherSubject
    <3> QED
      BY <3>1
  <2>4. Begin \/ PassOver \/ Hiding \/ Suppress \/ Baseline \/ Removing \/ Reclaim \/ OtherSubject
          \/ UNCHANGED vars
          => (run.pc # "down" => run'.pc # "down")
    BY <1>1, RunSteps
  <2>5. ProbeLogical \/ ProbePhysical \/ ProbeModel \/ EndVerify => run'.pc # "down"
    BY <1>1, RunSteps
  <2> QED
    BY <1>2, <1>4, <2>1, <2>2, <2>3, <2>4, <2>5 DEF Next, Unfailing
<1>7. run'.pc # "down" => run'.before = IF cfg.semantic THEN "whole" ELSE "none"
  <2>1. CASE Start
    BY <1>5, <2>1
  <2>2. CASE Begin \/ PassOver
    <3>1. run'.before = run.before /\ run.pc # "down"
      BY <1>1, <2>2, RunSteps DEF Begin, PassOver
    <3> QED
      BY <3>1 DEF Unfailing
  <2>3. CASE Suppress \/ Baseline \/ Reclaim \/ ProbeLogical \/ ProbePhysical \/ ProbeModel
               \/ EndVerify
    <3>1. run'.before = run.before /\ run.pc # "down"
      BY <1>1, <2>3, RunSteps
    <3> QED
      BY <3>1 DEF Unfailing
  <2>4. CASE Hiding \/ Removing \/ OtherSubject \/ UNCHANGED vars
    <3>1. run' = run
      BY <1>1, <2>4, RunSteps
    <3> QED
      BY <3>1 DEF Unfailing
  <2>5. CASE WriteReceipt
    BY <1>1, <2>5, RunSteps, DownFacts
  <2> QED
    BY <1>2, <1>4, <2>1, <2>2, <2>3, <2>4, <2>5 DEF Next
<1>8. ASSUME NEW step \in Steps, Has(StepRecord("begin", step))'
      PROVE  Done(step)' \/ (run'.begun /\ StepOf(run.pc)' = step)
  <2>1. CASE saga'.id # saga.id
    <3>1. journal' = <<>>
      BY <1>2, <2>1, OneSaga
    <3> QED
      BY <1>8, <3>1 DEF Has
  <2>2. CASE saga'.id = saga.id
    <3>1. ~Start
      BY <1>5, <2>2
    <3>2. Done(step) => Done(step)'
      BY <1>2, <2>2, DoneNow
    <3>3. \/ Begin /\ step = StepOf(run.pc)
          \/ Done(step)
          \/ run.begun /\ StepOf(run.pc) = step
      BY <1>2, <1>8, <2>2, BeginSteps DEF Unfailing
    <3>4. CASE Begin /\ step = StepOf(run.pc)
      <4>1. run'.pc = run.pc /\ run'.begun = TRUE
        BY <1>1, <3>4, RunSteps
      <4>2. StepOf(run.pc)' = StepOf(run.pc)
        BY <4>1
      <4> QED
        BY <3>4, <4>1, <4>2
    <3>5. CASE Done(step)
      BY <3>2, <3>5
    <3>6. CASE run.begun /\ StepOf(run.pc) = step
      <4>1. run.pc \in Running
        BY <1>1, <3>6 DEF TypeInv
      <4>2. CASE Suppress \/ Baseline \/ EndVerify
        <5>1. /\ Suppress => run.pc = "suppress" /\ Done("suppress")'
              /\ Baseline => run.pc = "baseline" /\ Done("baseline")'
              /\ EndVerify => run.pc = "semantic" /\ Done("verify")'
          BY <1>1, <2>2, RunSteps, DoneSteps
        <5> QED
          BY <3>6, <4>2, <5>1, AfterFacts
      <4>3. CASE Reclaim
        <5>1. /\ Ok("reclaim") \in Records /\ journal' = Append(journal, Ok("reclaim"))
              /\ journal \in Seq(Records) /\ run.pc = "reclaim"
          BY <1>1, <4>3, Written, RunSteps DEF TypeInv
        <5>2. In(Ok("reclaim"), journal')
          BY <5>1, InAppend
        <5>3. Done("reclaim")'
          BY <2>2, <5>2, DoneIsIn
        <5> QED
          BY <3>6, <5>1, <5>3, AfterFacts
      <4>4. CASE ProbeLogical \/ ProbePhysical \/ ProbeModel
        <5>1. /\ run'.begun = TRUE /\ run.pc \in {"logical", "physical", "model", "semantic"}
              /\ run'.pc \in {"logical", "physical", "model", "semantic"}
          BY <1>1, <4>4, RunSteps
        <5>2. StepOf(run.pc) = "verify" /\ StepOf(run.pc)' = "verify"
          BY <5>1 DEF StepOf
        <5> QED
          BY <3>6, <5>1, <5>2
      <4>5. CASE Hiding \/ Removing \/ OtherSubject \/ UNCHANGED vars
        <5>1. run' = run
          BY <1>1, <4>5, RunSteps
        <5>2. StepOf(run.pc)' = StepOf(run.pc)
          BY <5>1
        <5> QED
          BY <3>6, <5>1, <5>2
      <4>6. ~Begin /\ ~PassOver /\ ~WriteReceipt
        BY <3>6, <4>1 DEF Begin, PassOver, WriteReceipt, Running
      <4> QED
        BY <1>2, <1>4, <3>1, <4>2, <4>3, <4>4, <4>5, <4>6 DEF Next
    <3> QED
      BY <3>3, <3>4, <3>5, <3>6
  <2> QED
    BY <2>1, <2>2
<1> QED
  BY <1>2, <1>3, <1>6, <1>7, <1>8 DEF Unfailing

LEMMA KInit ==
    ASSUME Init
    PROVE  KInv
<1>1. /\ cfg \in Configs /\ journal = <<>> /\ run = Down /\ history = Smooth /\ saga.id = 0
      /\ saga.open = FALSE /\ (cfg.model => env.dupes = "none")
  BY DEF Init
<1>2. /\ run.pc = "down" /\ run.begun = FALSE /\ run.before = "none"
      /\ history.raised = FALSE /\ \A x : ~Has(x)
  BY <1>1 DEF Down, Smooth, Has
<1>3. \A step : ~Done(step)
  BY <1>2 DEF Done
<1>4. Known(saga.id, journal) = Bare
  BY <1>1, ReadingNothing
<1>5. Compared(Bare)
  <2>1. /\ Bare.seen = FALSE /\ Bare.dupes = FALSE /\ Bare.supported = cfg.physical
        /\ Bare.physical = "none" /\ Bare.model = cfg.sharded /\ Bare.canary = "none"
        /\ Bare.mia = "none" /\ Bare.above = "none"
    BY DEF Bare, Unread
  <2>2. (Scannable => cfg.physical = TRUE) /\ (~cfg.model => cfg.sharded = FALSE)
    BY <1>1, ConfigFacts DEF Scannable
  <2> QED
    BY <1>3, <2>1, <2>2 DEF Compared
<1>6. Current(Bare)
  BY <1>2, <1>3 DEF Current
<1>7. Steady /\ Unfailing
  BY <1>1, <1>2, <1>3 DEF Steady, Unfailing
<1> QED
  BY <1>1, <1>2, <1>4, <1>5, <1>6, <1>7 DEF KInv, ModelAlone

LEMMA KStep ==
    ASSUME SLInv, KInv, [Next]_vars
    PROVE  KInv'
<1>1. /\ TypeInv /\ ModelAlone /\ (~cfg.semantic => run.before = "none") /\ cfg' = cfg
      /\ history.faults \in Nat /\ history'.faults \in Nat /\ history.faults <= history'.faults
      /\ (history.raised => history'.raised)
  BY TypeStep, WorldSteps, HistorySteps, LatticeAssumption DEF KInv, SLInv, TypeInv, TypeOK
<1>2. ModelAlone' /\ (~cfg'.semantic => run'.before = "none")
  BY <1>1, AloneStep, PlainStep
<1>3. ~history'.raised => Steady'
  BY <1>1, SteadyStep DEF KInv
<1>4. history.faults = 0 => ~history.raised /\ Unfailing
  BY DEF KInv
<1>5. history'.faults = 0 => ~history'.raised /\ Unfailing'
  BY <1>1, <1>4, UnfailingStep
<1>6. ASSUME Quiet'
      PROVE  Compared(Known(saga.id, journal))' /\ Current(Known(saga.id, journal))'
  <2>a. PICK f : f = Known(saga.id, journal)
    OBVIOUS
  <2>b. PICK l : l = Known(saga'.id, journal')
    OBVIOUS
  <2>1. Quiet /\ Steady /\ Compared(f) /\ Current(f)
    BY <1>6, <2>a, QuietBefore DEF KInv, Quiet
  <2>2. Compared(l)'
    BY <1>1, <1>6, <2>1, <2>a, <2>b, ComparedStep
  <2>3. Current(l)'
    BY <1>1, <1>4, <1>6, <2>1, <2>a, <2>b, CurrentStep
  <2>4. (Known(saga.id, journal))' = l
    BY <1>1, <2>b DEF Known, Bare, Unread
  <2> QED
    BY <2>2, <2>3, <2>4 DEF Compared, Current, LogicalNow, PhysicalNow, ModelNow
<1> QED
  BY <1>2, <1>3, <1>5, <1>6 DEF KInv

LEMMA KInvariant == Spec => [](SLInv /\ KInv)
<1>1. Init => SLInv /\ KInv
  BY SLInit, KInit
<1>2. SLInv /\ KInv /\ [Next]_vars => (SLInv /\ KInv)'
  BY SLStep, KStep
<1> QED
  BY <1>1, <1>2, PTL DEF Spec

\* What an uninterrupted verification finds.
LEMMA FreshFields ==
    ASSUME SLInv, ModelAlone, saga.id \in Sagas, NEW g, g = FreshFacts
    PROVE  /\ g \in FactSets /\ g.dlq = FALSE /\ g.gap = cfg.gap
           /\ LogicalNow(g) /\ PhysicalNow(g) /\ (~Scannable => g.physical = "none")
           /\ cfg.model => ModelNow(g)
           /\ ~cfg.model => g.model = FALSE /\ g.canary = "none" /\ g.mia = "none"
           /\ g.above = IF cfg.semantic THEN YesNo(env.drift) ELSE "none"
<1>1. TypeInv /\ cfg \in Configs /\ env \in Envs /\ saga.id \in Nat
  BY LatticeAssumption DEF SLInv, TypeInv, TypeOK, Sagas
<1>2. /\ cfg.model \in BOOLEAN /\ cfg.physical \in BOOLEAN /\ cfg.semantic \in BOOLEAN
      /\ cfg.prompts \in BOOLEAN /\ (~cfg.model => cfg.sharded = FALSE /\ cfg.prompts)
      /\ (Scannable => cfg.physical = TRUE /\ cfg.readable)
  BY <1>1, ConfigFacts DEF Scannable
<1>3. /\ LogicalOne \in Records /\ LogicalRecords = <<LogicalOne>>
      /\ PhysicalOne \in Records /\ PhysicalRecords = <<PhysicalOne>>
      /\ ModelOne \in Records
      /\ ModelRecords = IF cfg.model THEN <<ModelOne>> ELSE <<>>
      /\ BaselineOne \in Records
      /\ BaselineRecords = IF env.dupes = "live" /\ ~cfg.readable THEN <<>> ELSE <<BaselineOne>>
  BY <1>1, ProbeRecords
<1>4. SemanticRecord(env.drift) \in Records
  BY <1>1, RecordsTyped, EnvFacts
<1>a. PICK id : id = saga.id
  OBVIOUS
<1>b. PICK j : j = IF cfg.physical THEN BaselineRecords ELSE <<>>
  OBVIOUS
<1>c. PICK k : k = Append(j, LogicalOne)
  OBVIOUS
<1>d. PICK m : m = Append(k, PhysicalOne)
  OBVIOUS
<1>e. PICK n : n = IF cfg.model THEN Append(m, ModelOne) ELSE m
  OBVIOUS
<1>f. PICK p : p = IF cfg.semantic THEN Append(n, SemanticRecord(env.drift)) ELSE n
  OBVIOUS
<1>5. /\ Reading(<<>>) /\ <<>> \in Seq(Records) /\ Known(id, <<>>) = Bare /\ Bare \in FactSets
      /\ id \in Nat
  BY <1>1, <1>a, ReadingNothing, FirstFacts
<1>6. ASSUME NEW i \in Seq(Records), Reading(i), NEW r \in Records
      PROVE  /\ Append(i, r) \in Seq(Records) /\ Reading(Append(i, r))
             /\ Known(id, Append(i, r)) = Learn(id, Known(id, i), r)
             /\ Known(id, i) \in FactSets
  BY <1>5, <1>6, ReadingOnce, InAppend DEF Reading
<1>7. /\ j \in Seq(Records) /\ Reading(j)
      /\ j = <<>> \/ (j = Append(<<>>, BaselineOne) /\ BaselineOne \in Records)
      /\ Scannable => j = Append(<<>>, BaselineOne) \/ (env.dupes = "live" /\ ~cfg.readable)
  <2>1. <<BaselineOne>> = Append(<<>>, BaselineOne)
    OBVIOUS
  <2>2. /\ j = <<>> \/ j = Append(<<>>, BaselineOne)
        /\ Scannable => j = Append(<<>>, BaselineOne) \/ (env.dupes = "live" /\ ~cfg.readable)
    BY <1>2, <1>3, <1>b, <2>1
  <2> QED
    BY <1>3, <1>5, <1>6, <2>2
<1>8. k \in Seq(Records) /\ Reading(k)
  BY <1>3, <1>6, <1>7, <1>c
<1>9. m \in Seq(Records) /\ Reading(m)
  BY <1>3, <1>6, <1>8, <1>d
<1>10. n \in Seq(Records) /\ Reading(n)
  BY <1>3, <1>6, <1>9, <1>e
<1>11. p \in Seq(Records) /\ Reading(p)
  BY <1>4, <1>6, <1>10, <1>f
<1>12. g = Known(id, p)
  <2>1. j \o LogicalRecords = k
    BY <1>3, <1>7, <1>c, ConcatFacts
  <2>2. k \o PhysicalRecords = m
    BY <1>3, <1>8, <1>d, ConcatFacts
  <2>3. m \o ModelRecords = n
    BY <1>3, <1>9, <1>e, ConcatFacts
  <2>4. n \o (IF cfg.semantic THEN <<SemanticRecord(env.drift)>> ELSE <<>>) = p
    BY <1>4, <1>10, <1>f, ConcatFacts
  <2>5. g = Told("saga", id, Bare,
                 (IF cfg.physical THEN BaselineRecords ELSE <<>>)
                   \o LogicalRecords \o PhysicalRecords \o ModelRecords
                   \o IF cfg.semantic THEN <<SemanticRecord(env.drift)>> ELSE <<>>)
    BY <1>a DEF FreshFacts, Bare
  <2> QED
    BY <1>b, <2>1, <2>2, <2>3, <2>4, <2>5 DEF Known
<1>v. PICK fj : fj = Known(id, j)
  OBVIOUS
<1>w. PICK fk : fk = Known(id, k)
  OBVIOUS
<1>x. PICK fm : fm = Known(id, m)
  OBVIOUS
<1>y. PICK fn : fn = Known(id, n)
  OBVIOUS
<1>13. /\ fj \in FactSets /\ fk \in FactSets /\ fm \in FactSets /\ fn \in FactSets
       /\ g \in FactSets
  BY <1>5, <1>7, <1>8, <1>9, <1>10, <1>11, <1>12, <1>v, <1>w, <1>x, <1>y DEF Reading
<1>14. /\ fj.physical = "none" /\ fj.supported = cfg.physical /\ fj.model = cfg.sharded
       /\ fj.canary = "none" /\ fj.mia = "none" /\ fj.above = "none"
       /\ fj.dlq = FALSE /\ fj.gap = cfg.gap
       /\ (Scannable => fj.dupes = (env.dupes = "live"))
  <2>1. /\ Bare.physical = "none" /\ Bare.supported = cfg.physical /\ Bare.model = cfg.sharded
        /\ Bare.canary = "none" /\ Bare.mia = "none" /\ Bare.above = "none"
        /\ Bare.dlq = FALSE /\ Bare.gap = cfg.gap /\ Bare.seen = FALSE /\ Bare.dupes = FALSE
    BY DEF Bare, Unread
  <2>2. CASE j = <<>>
    <3>1. <<>> # Append(<<>>, BaselineOne)
      OBVIOUS
    <3>2. ~Scannable
      BY <1>2, <1>7, <2>2, <3>1
    <3> QED
      BY <1>5, <1>v, <2>1, <2>2, <3>2
  <2>3. CASE j = Append(<<>>, BaselineOne) /\ BaselineOne \in Records
    <3>1. fj = Learn(id, Bare, BaselineOne)
      BY <1>5, <1>6, <1>v, <2>3
    <3>2. BaselineOne.type = "baseline" /\ BaselineOne.dupes = (env.dupes = "live")
      BY DEF BaselineOne
    <3>3. /\ fj.physical = Bare.physical /\ fj.canary = Bare.canary /\ fj.mia = Bare.mia
          /\ fj.above = Bare.above /\ fj.dlq = Bare.dlq /\ fj.gap = Bare.gap
          /\ fj.dupes = BaselineOne.dupes /\ fj.supported = Bare.supported
          /\ fj.model = Bare.model
      <4>1. fj = [Bare EXCEPT !.seen = TRUE, !.dupes = BaselineOne.dupes]
        BY <2>1, <3>1, <3>2 DEF Learn, TakeBaseline
      <4> QED
        BY <1>5, <4>1 DEF FactSets
    <3> QED
      BY <2>1, <3>2, <3>3
  <2> QED
    BY <1>7, <2>2, <2>3
<1>15. /\ fk = [fj EXCEPT !.logical = YesNo(LogicalOne.found = "yes")]
       /\ YesNo(LogicalOne.found = "yes") = YesNo(Retrieved)
  <2>1. fk = Learn(id, fj, LogicalOne)
    BY <1>3, <1>6, <1>7, <1>c, <1>v, <1>w
  <2>2. LogicalOne.type = "logical" /\ LogicalOne.saga = id
    BY <1>a DEF LogicalOne
  <2>3. YesNo(LogicalOne.found = "yes") = YesNo(Retrieved)
    BY <1>1, ConfigFacts DEF LogicalOne, YesNo, Retrieved
  <2> QED
    BY <2>1, <2>2, <2>3 DEF Learn
<1>16. /\ fk.logical = YesNo(Retrieved) /\ fk.dupes = fj.dupes
       /\ fk.physical = fj.physical /\ fk.supported = fj.supported
       /\ SameModel(fj, fk) /\ SameAbove(fj, fk) /\ fk.dlq = fj.dlq /\ fk.gap = fj.gap
  <2>a. PICK answer : answer = YesNo(LogicalOne.found = "yes")
    OBVIOUS
  <2>1. fk = [fj EXCEPT !.logical = answer]
    BY <1>15, <2>a
  <2>2. /\ fk.logical = answer /\ fk.dupes = fj.dupes
        /\ fk.physical = fj.physical /\ fk.supported = fj.supported
        /\ SameModel(fj, fk) /\ SameAbove(fj, fk) /\ fk.dlq = fj.dlq /\ fk.gap = fj.gap
    BY <1>13, <2>1 DEF FactSets, SameModel, SameAbove
  <2> QED
    BY <1>15, <2>a, <2>2
<1>17. /\ PhysicalTold(fk, fm) /\ SameLogical(fk, fm) /\ SameModel(fk, fm)
       /\ SameAbove(fk, fm) /\ fm.dlq = fk.dlq /\ fm.gap = fk.gap
  <2>1. fm = Learn(id, fk, PhysicalOne) /\ PhysicalOne.saga = id
    BY <1>3, <1>6, <1>8, <1>a, <1>d, <1>w, <1>x DEF PhysicalOne
  <2>2. CASE Scannable
    <3>1. /\ PhysicalOne.type = "scan" /\ PhysicalOne.own = Scanned.own
          /\ PhysicalOne.content = Scanned.content
      BY <2>2 DEF PhysicalOne
    <3>2. PICK r \in Records : r = PhysicalOne
      BY <1>3
    <3>3. fm = Attributed(fk, r)
      BY <2>1, <3>1, <3>2 DEF Learn
    <3>4. fk.supported \in BOOLEAN
      BY <1>13 DEF FactSets
    <3>5. /\ SameLogical(fk, fm) /\ SameModel(fk, fm) /\ SameAbove(fk, fm)
          /\ fm.dlq = fk.dlq /\ fm.gap = fk.gap
          /\ fm.physical = IF r.own \/ (r.content /\ ~fk.dupes) THEN "yes"
                           ELSE IF r.content THEN "none" ELSE "no"
          /\ fm.supported = (fk.supported /\ ~(~r.own /\ r.content /\ fk.dupes))
      BY <1>13, <3>3, <3>4 DEF FactSets, Attributed, SameLogical, SameModel, SameAbove
    <3> QED
      BY <2>2, <3>1, <3>2, <3>5 DEF PhysicalTold
  <2>3. CASE ~Scannable
    <3>1. PhysicalOne.type = "unsupported"
      BY <2>3 DEF PhysicalOne
    <3>2. fm = [fk EXCEPT !.supported = FALSE]
      BY <2>1, <3>1 DEF Learn
    <3>3. /\ SameLogical(fk, fm) /\ SameModel(fk, fm) /\ SameAbove(fk, fm)
          /\ fm.dlq = fk.dlq /\ fm.gap = fk.gap
          /\ fm.physical = fk.physical /\ fm.supported = FALSE
      BY <1>13, <3>2 DEF FactSets, SameLogical, SameModel, SameAbove
    <3> QED
      BY <2>3, <3>3 DEF PhysicalTold
  <2> QED
    BY <2>2, <2>3
<1>18. /\ SameLogical(fm, fn) /\ SamePhysical(fm, fn) /\ SameAbove(fm, fn)
       /\ fn.dlq = fm.dlq /\ fn.gap = fm.gap
       /\ IF cfg.model THEN ModelNow(fn) ELSE SameModel(fm, fn)
  <2>1. CASE cfg.model
    <3>1. fn = Learn(id, fm, ModelOne)
      BY <1>3, <1>6, <1>9, <1>e, <1>x, <1>y, <2>1
    <3>2. /\ ModelOne.type = "model" /\ ModelOne.saga = id
          /\ ModelOne.canary = IF cfg.prompts THEN YesNo(env.live) ELSE "none"
          /\ ModelOne.mia = IF cfg.prompts /\ cfg.reference THEN YesNo(env.leak) ELSE "none"
      BY <1>a DEF ModelOne
    <3>3. PICK canary : canary = ModelOne.canary
      OBVIOUS
    <3>4. PICK mia : mia = ModelOne.mia
      OBVIOUS
    <3>5. fn = [fm EXCEPT !.model = TRUE, !.canary = canary, !.mia = mia]
      BY <3>1, <3>2, <3>3, <3>4 DEF Learn
    <3>6. /\ SameLogical(fm, fn) /\ SamePhysical(fm, fn) /\ SameAbove(fm, fn)
          /\ fn.dlq = fm.dlq /\ fn.gap = fm.gap
          /\ fn.model = TRUE /\ fn.canary = canary /\ fn.mia = mia
      BY <1>13, <3>5 DEF FactSets, SameLogical, SamePhysical, SameAbove
    <3> QED
      BY <2>1, <3>2, <3>3, <3>4, <3>6 DEF ModelNow
  <2>2. CASE ~cfg.model
    <3>1. fn = fm
      BY <1>e, <1>x, <1>y, <2>2
    <3> QED
      BY <2>2, <3>1 DEF SameLogical, SamePhysical, SameModel, SameAbove
  <2> QED
    BY <2>1, <2>2
<1>19. /\ SameLogical(fn, g) /\ SamePhysical(fn, g) /\ SameModel(fn, g)
       /\ g.dlq = fn.dlq /\ g.gap = fn.gap
       /\ g.above = IF cfg.semantic THEN YesNo(env.drift) ELSE fn.above
  <2>1. CASE cfg.semantic
    <3>1. g = Learn(id, fn, SemanticRecord(env.drift))
      BY <1>4, <1>6, <1>10, <1>12, <1>f, <1>y, <2>1
    <3>2. /\ SemanticRecord(env.drift).type = "semantic" /\ SemanticRecord(env.drift).saga = id
          /\ SemanticRecord(env.drift).above = env.drift
      BY <1>a DEF SemanticRecord
    <3>3. PICK answer : answer = YesNo(env.drift)
      OBVIOUS
    <3>4. g = [fn EXCEPT !.above = answer]
      BY <3>1, <3>2, <3>3 DEF Learn
    <3>5. /\ SameLogical(fn, g) /\ SamePhysical(fn, g) /\ SameModel(fn, g)
          /\ g.dlq = fn.dlq /\ g.gap = fn.gap /\ g.above = answer
      BY <1>13, <3>4 DEF FactSets, SameLogical, SamePhysical, SameModel
    <3> QED
      BY <2>1, <3>3, <3>5
  <2>2. CASE ~cfg.semantic
    <3>1. g = fn
      BY <1>12, <1>f, <1>y, <2>2
    <3> QED
      BY <2>2, <3>1 DEF SameLogical, SamePhysical, SameModel
  <2> QED
    BY <2>1, <2>2
<1>20. LogicalNow(g)
  BY <1>16, <1>17, <1>18, <1>19 DEF LogicalNow, SameLogical
<1>21. PhysicalNow(g) /\ (~Scannable => g.physical = "none")
  <2>1. g.physical = fm.physical /\ g.supported = fm.supported
    BY <1>18, <1>19 DEF SamePhysical
  <2>2. CASE ~Scannable
    BY <1>14, <1>16, <1>17, <2>1, <2>2 DEF PhysicalTold, PhysicalNow
  <2>3. CASE Scannable
    <3>1. /\ fm.physical = IF Scanned.own \/ (Scanned.content /\ ~fk.dupes) THEN "yes"
                           ELSE IF Scanned.content THEN "none" ELSE "no"
          /\ fm.supported = (fk.supported /\ ~(~Scanned.own /\ Scanned.content /\ fk.dupes))
          /\ fk.supported = TRUE /\ fk.dupes = (env.dupes = "live")
      BY <1>2, <1>14, <1>16, <1>17, <2>3 DEF PhysicalTold
    <3>2. Theirs <=> ~Scanned.own /\ Scanned.content /\ fk.dupes
      BY <3>1 DEF Theirs
    <3>3. CASE Theirs
      <4>1. fm.supported = FALSE /\ fm.physical = "none"
        BY <3>1, <3>2, <3>3
      <4> QED
        BY <2>1, <2>3, <3>3, <4>1 DEF PhysicalNow
    <3>4. CASE ~Theirs
      <4>1. fm.supported = TRUE
        BY <3>1, <3>2, <3>4
      <4>2. fm.physical = Found
        BY <3>1, <3>2, <3>4 DEF YesNo, Found
      <4> QED
        BY <2>1, <2>3, <3>4, <4>1, <4>2 DEF PhysicalNow
    <3> QED
      BY <2>3, <3>3, <3>4
  <2> QED
    BY <2>2, <2>3
<1>22. cfg.model => ModelNow(g)
  BY <1>18, <1>19 DEF ModelNow, SameModel
<1>23. ~cfg.model => g.model = FALSE /\ g.canary = "none" /\ g.mia = "none"
  BY <1>2, <1>14, <1>16, <1>17, <1>18, <1>19 DEF SameModel
<1>24. g.above = IF cfg.semantic THEN YesNo(env.drift) ELSE "none"
  BY <1>14, <1>16, <1>17, <1>18, <1>19 DEF SameAbove
<1>25. g.dlq = FALSE /\ g.gap = cfg.gap
  BY <1>14, <1>16, <1>17, <1>18, <1>19
<1> QED
  BY <1>13, <1>20, <1>21, <1>22, <1>23, <1>24, <1>25

LEMMA KillsHold ==
    ASSUME SLInv, KInv
    PROVE  KillsDoNotMatter
<1>1. SUFFICES ASSUME saga.id > 0, ~saga.open, Quiet
               PROVE  \E above \in IF cfg.semantic /\ history.faults > 0 THEN {"yes", "no"}
                                   ELSE {FreshFacts.above} :
                         receipt.status = StatusOf([FreshFacts EXCEPT !.above = above])
  BY DEF KillsDoNotMatter, Quiet
<1>2. TypeInv /\ cfg \in Configs /\ saga.id \in Sagas /\ saga.id \in Nat /\ history.faults \in Nat
  BY <1>1, LatticeAssumption DEF SLInv, TypeInv, TypeOK, Sagas
<1>a. PICK f : f = Known(saga.id, journal)
  OBVIOUS
<1>b. PICK g : g = FreshFacts
  OBVIOUS
<1>3. ModelAlone /\ Steady /\ Compared(f) /\ Current(f)
  BY <1>1, <1>a DEF KInv, Quiet
<1>4. Done("verify") /\ receipt.status = StatusOf(f)
  BY <1>1, <1>a DEF SLInv, Smoothly, GoodRun, Quiet
<1>5. f \in FactSets /\ f.dlq = FALSE /\ f.gap = cfg.gap
  BY <1>2, <1>a DEF SLInv, Reading, Alike
<1>6. /\ LogicalNow(f) /\ PhysicalNow(f) /\ (cfg.model => ModelNow(f))
      /\ (~Scannable => f.physical = "none")
      /\ (~cfg.model => f.model = FALSE /\ f.canary = "none" /\ f.mia = "none")
      /\ (~cfg.semantic => f.above = "none")
      /\ (cfg.semantic /\ history.faults = 0 => f.above = YesNo(env.drift))
  BY <1>3, <1>4 DEF Current, Compared
<1>7. /\ g \in FactSets /\ g.dlq = FALSE /\ g.gap = cfg.gap
      /\ LogicalNow(g) /\ PhysicalNow(g) /\ (~Scannable => g.physical = "none")
      /\ (cfg.model => ModelNow(g))
      /\ (~cfg.model => g.model = FALSE /\ g.canary = "none" /\ g.mia = "none")
      /\ g.above = IF cfg.semantic THEN YesNo(env.drift) ELSE "none"
  BY <1>2, <1>3, <1>b, FreshFields
<1>8. /\ f.logical = g.logical /\ f.physical = g.physical /\ f.supported = g.supported
      /\ f.model = g.model /\ f.canary = g.canary /\ f.mia = g.mia
  <2>1. f.logical = g.logical
    BY <1>6, <1>7 DEF LogicalNow
  <2>2. f.physical = g.physical /\ f.supported = g.supported
    BY <1>6, <1>7 DEF PhysicalNow
  <2>3. f.model = g.model /\ f.canary = g.canary /\ f.mia = g.mia
    BY <1>6, <1>7 DEF ModelNow
  <2> QED
    BY <2>1, <2>2, <2>3
<1>9. ASSUME NEW a, (f.above = "yes") = (a = "yes")
      PROVE  receipt.status = StatusOf([g EXCEPT !.above = a])
  <2>a. PICK h : h = [g EXCEPT !.above = a]
    OBVIOUS
  <2>1. /\ h.above = a /\ h.dlq = g.dlq /\ h.gap = g.gap /\ h.logical = g.logical
        /\ h.physical = g.physical /\ h.supported = g.supported /\ h.model = g.model
        /\ h.canary = g.canary /\ h.mia = g.mia
    BY <1>7, <2>a DEF FactSets
  <2>2. SameToLattice(f, h)
    BY <1>5, <1>7, <1>8, <1>9, <2>1 DEF SameToLattice
  <2> QED
    BY <1>4, <2>2, <2>a, SameStatus
<1>10. CASE cfg.semantic /\ history.faults > 0
  <2>1. PICK a \in {"yes", "no"} : (f.above = "yes") = (a = "yes")
    <3>1. CASE f.above = "yes"
      BY <3>1
    <3>2. CASE f.above # "yes"
      BY <3>2
    <3> QED
      BY <3>1, <3>2
  <2>2. receipt.status = StatusOf([g EXCEPT !.above = a])
    BY <1>9, <2>1
  <2> QED
    BY <1>10, <1>b, <2>1, <2>2
<1>11. CASE ~(cfg.semantic /\ history.faults > 0)
  <2>1. f.above = g.above
    BY <1>2, <1>6, <1>7, <1>11
  <2>2. receipt.status = StatusOf([g EXCEPT !.above = g.above])
    BY <1>9, <2>1
  <2> QED
    BY <1>11, <1>b, <2>2
<1> QED
  BY <1>10, <1>11

\* Wherever the machine died, and however often, the status is what an uninterrupted
\* verification finds (unless a step raised, the store was reclaimed after it had been
\* verified, or other subjects' data moved).
THEOREM KillsAreHarmless == Spec => []KillsDoNotMatter
<1>1. SLInv /\ KInv => KillsDoNotMatter
  BY KillsHold
<1> QED
  BY <1>1, KInvariant, PTL
=============================================================================
