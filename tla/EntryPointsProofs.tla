-------------------------- MODULE EntryPointsProofs --------------------------
(***************************************************************************)
(* What EntryPoints guarantees for any number of subjects, calls and stores,  *)
(* whatever changes behind the operators' backs and however often the server  *)
(* is restarted, proved with TLAPS.                                          *)
(***************************************************************************)
EXTENDS EntryPoints, TLAPS

-----------------------------------------------------------------------------
(* The inductive invariant.                                                   *)

Traces == [subject: Subjects, graph: Nat, gap: BOOLEAN]
MaybeTraces == Traces \union {None}
CallStates ==
    [at: {"idle", "opening", "waiting", "building", "asked", "answered"},
     tool: {"none", "forget", "erase"}, subject: Subjects \union {"none"},
     store: Stores \union {"none"}, shown: MaybeTraces, failed: BOOLEAN, disturbed: BOOLEAN]
Commands == [by: {"terminal", "program"}, accept: BOOLEAN, seen: Traces, asked: Subjects,
             disturbed: {FALSE}]
Requests == [subject: Subjects \union {"none"}, accept: BOOLEAN,
             expect: MaybeTraces, seen: MaybeTraces]

\* The world and the server's Runtime.
WorldTyped ==
    /\ graph \in 0..MaxMoves /\ gap \in BOOLEAN
    /\ moves \in 0..MaxMoves /\ graph <= moves
    /\ restarts \in 0..MaxRestarts
RuntimeTyped ==
    runtime \in [open: SUBSET Stores, built: [Stores -> Nat], lock: Calls \union {"free"}]

\* What the operators and their clients hold.
FrontsTyped ==
    /\ shown \in [Subjects -> MaybeTraces]
    /\ call \in [Calls -> CallStates]
    /\ page \in [typed: Subjects \union {"none"}, current: MaybeTraces, tick: BOOLEAN,
                 sent: Requests \union {None}]
    /\ command \in Commands \union {None}
Typed == WorldTyped /\ RuntimeTyped /\ FrontsTyped

\* A store that is there was built once, one that is not there never; whoever
\* builds holds the lock, and builds the store that it missed.
Opening ==
    /\ \A s \in Stores : runtime.built[s] = IF s \in runtime.open THEN 1 ELSE 0
    /\ \A c \in Calls : runtime.lock = c <=> call[c].at = "building"
    /\ \A c \in Calls : call[c].at \in {"waiting", "building"} => call[c].store \in Stores

\* A trace that is remembered, or shown, is the trace of the subject that was named.
Named ==
    /\ \A s \in Subjects : shown[s] # None => shown[s].subject = s
    /\ \A c \in Calls : /\ call[c].at # "idle" => call[c].subject \in Subjects /\ call[c].tool # "none"
                        /\ call[c].at \in {"asked", "answered"} =>
                             /\ call[c].shown \in Traces
                             /\ call[c].shown.subject = call[c].subject

\* What a tool's client was shown is what is remembered, as long as nobody
\* disturbed it.
Undisturbed ==
    \A c \in Calls :
       Pending(c) /\ ~call[c].disturbed => shown[call[c].subject] = call[c].shown

\* The page sends the trace it shows; it shows a tick only beside a gap.
PageHonest ==
    /\ page.tick => page.current = None \/ page.current.gap
    /\ page.sent # None => /\ page.sent.seen \in Traces
                           /\ page.sent.expect = page.sent.seen
\* The terminal, or the program, is about to erase the trace of the subject it named.
CommandHonest == command # None => command.seen.subject = command.asked

IndInv ==
    /\ Typed
    /\ Opening
    /\ Named
    /\ Undisturbed
    /\ PageHonest
    /\ CommandHonest
    /\ ErasesWhatWasShown

LEMMA InitInv == Init => IndInv
<1> SUFFICES ASSUME Init PROVE IndInv
  OBVIOUS
<1>1. None \in MaybeTraces /\ None.subject = "none"
  BY DEF None, MaybeTraces
<1>2. Typed
  <2>1. WorldTyped
    <3>1. gap \in BOOLEAN
      BY DEF Init
    <3> QED
      BY <3>1, BoundsAssumption DEF Init, WorldTyped
  <2>2. RuntimeTyped
    BY DEF Init, RuntimeTyped, NewRuntime
  <2>3. NoCall \in CallStates
    BY <1>1 DEF NoCall, CallStates
  <2>4. FrontsTyped
    BY <1>1, <2>3 DEF Init, FrontsTyped
  <2> QED
    BY <2>1, <2>2, <2>4 DEF Typed
<1>3. Opening
  BY NamesAssumption DEF Init, Opening, NewRuntime, NoCall
<1>4. Named /\ Undisturbed
  BY DEF Init, Named, Undisturbed, Pending, NoCall
<1>5. PageHonest /\ CommandHonest /\ ErasesWhatWasShown
  BY DEF Init, PageHonest, CommandHonest, ErasesWhatWasShown
<1> QED
  BY <1>2, <1>3, <1>4, <1>5 DEF IndInv

-----------------------------------------------------------------------------
(* What the traces and the erasures are.                                      *)

LEMMA TraceFacts ==
    ASSUME Typed, NEW s \in Subjects, NEW g \in BOOLEAN
    PROVE  /\ TraceOf(s, g) \in Traces
           /\ TraceOf(s, g).subject = s
           /\ TraceOf(s, g).graph = graph
           /\ TraceOf(s, g).gap = g
BY BoundsAssumption DEF Typed, WorldTyped, TraceOf, Traces

LEMMA LooksFacts ==
    ASSUME Typed, NEW s \in Subjects, NEW t \in Looks(s)
    PROVE  t \in Traces /\ t.subject = s
BY TraceFacts DEF Looks, Typed, WorldTyped

LEMMA NoneFacts ==
    /\ None \in MaybeTraces
    /\ Traces \subseteq MaybeTraces
    /\ \A t \in MaybeTraces : t # None => t \in Traces
    /\ None.subject = "none"
    /\ None \notin Traces
BY NamesAssumption DEF None, Traces, MaybeTraces

\* An erasure keeps to what was seen, if it is of the trace that was seen, or takes
\* no gaps for a call of tool_forget that was disturbed.
LEMMA ErasedFacts ==
    ASSUME Typed, NEW t \in Traces, NEW by, NEW accept \in BOOLEAN, NEW seen \in Traces,
           NEW disturbed \in BOOLEAN,
           Erased(t, Asking(by, accept, seen, seen.subject, disturbed)),
           t.subject = seen.subject,
           accept => by \notin {"forget", "erase"} /\ t = seen,
           t # seen => by = "forget" /\ disturbed
    PROVE  ErasesWhatWasShown'
<1> DEFINE request == Asking(by, accept, seen, seen.subject, disturbed)
<1>1. /\ request.by = by /\ request.accept = accept /\ request.seen = seen
      /\ request.asked = seen.subject /\ request.disturbed = disturbed
  BY DEF Asking
<1> HIDE DEF request
<1>2. CASE Accepted(t, accept)
  <2>1. last' = [trace |-> t, graph |-> graph, request |-> request]
    BY <1>1, <1>2 DEF Erased, request
  <2>2. t.graph = graph /\ (t.gap => accept)
    BY <1>2 DEF Accepted
  <2>3. t # seen => seen.graph # graph \/ seen.gap
    BY <2>2 DEF Traces
  <2> QED
    BY <1>1, <2>1, <2>2, <2>3 DEF ErasesWhatWasShown
<1>3. CASE ~Accepted(t, accept)
  BY <1>1, <1>3 DEF Erased, Quiet, ErasesWhatWasShown, request
<1> QED
  BY <1>2, <1>3

LEMMA QuietFacts == Quiet => ErasesWhatWasShown'
BY DEF Quiet, ErasesWhatWasShown

\* What the server's calls rely on is the server's alone.
LEMMA ServerAlone ==
    ASSUME IndInv, UNCHANGED server
    PROVE  Opening' /\ Named' /\ Undisturbed'
BY DEF IndInv, server, Opening, Named, Undisturbed, Pending

-----------------------------------------------------------------------------
(* The world, the page and the terminal.                                      *)

LEMMA MoveKeeps ==
    ASSUME IndInv, Move
    PROVE  IndInv'
<1>1. /\ UNCHANGED <<server, page, command, restarts>>
      /\ Quiet
      /\ moves < MaxMoves /\ moves' = moves + 1
      /\ \/ graph' = graph + 1 /\ UNCHANGED gap
         \/ gap' = ~gap /\ UNCHANGED graph
  BY DEF Move
<1>2. Typed'
  <2>1. gap' \in BOOLEAN
    BY <1>1 DEF IndInv, Typed, WorldTyped
  <2>2. /\ graph \in 0..MaxMoves /\ moves \in 0..MaxMoves /\ graph <= moves
        /\ restarts \in 0..MaxRestarts
        /\ graph' = graph + 1 \/ graph' = graph
    BY <1>1 DEF IndInv, Typed, WorldTyped
  <2>3. WorldTyped'
    BY <1>1, <2>1, <2>2, BoundsAssumption DEF WorldTyped
  <2> QED
    BY <1>1, <2>3 DEF IndInv, Typed, RuntimeTyped, FrontsTyped, server
<1>3. PageHonest' /\ CommandHonest'
  BY <1>1 DEF IndInv, PageHonest, CommandHonest
<1> QED
  BY <1>1, <1>2, <1>3, ServerAlone, QuietFacts DEF IndInv

\* A step that changes the page only.
LEMMA PageStep ==
    ASSUME IndInv, UNCHANGED <<world, server, command, moves, restarts>>,
           ErasesWhatWasShown', PageHonest',
           page' \in [typed: Subjects \union {"none"}, current: MaybeTraces, tick: BOOLEAN,
                      sent: Requests \union {None}]
    PROVE  IndInv'
<1>1. Typed'
  BY DEF IndInv, Typed, WorldTyped, RuntimeTyped, FrontsTyped, world, server
<1>2. CommandHonest'
  BY DEF IndInv, CommandHonest
<1> QED
  BY <1>1, <1>2, ServerAlone DEF IndInv

LEMMA LookingKeeps ==
    ASSUME IndInv, (\E s \in Subjects : Type(s)) \/ Look \/ Tick
    PROVE  IndInv'
<1> DEFINE Pages == [typed: Subjects \union {"none"}, current: MaybeTraces, tick: BOOLEAN,
                     sent: Requests \union {None}]
<1>1. /\ UNCHANGED <<world, server, command, moves, restarts>>
      /\ Quiet
      /\ page \in Pages /\ gap \in BOOLEAN /\ PageHonest
  BY DEF Type, Look, Tick, IndInv, Typed, FrontsTyped, WorldTyped
<1>2. ASSUME NEW s \in Subjects, Type(s)
      PROVE  page' \in Pages /\ PageHonest'
  BY <1>1, <1>2 DEF Type, PageHonest
<1>3. ASSUME Look
      PROVE  page' \in Pages /\ PageHonest'
  <2>1. page.typed \in Subjects
    BY <1>1, <1>3 DEF Look
  <2>2. PICK t \in Looks(page.typed) :
           page' = [page EXCEPT !.current = t, !.tick = page.tick /\ t.gap]
    BY <1>3 DEF Look
  <2>3. t \in Traces /\ t.gap \in BOOLEAN
    BY <2>1, LooksFacts DEF IndInv, Traces
  <2>4. /\ page'.current = t /\ page'.sent = page.sent
        /\ page'.tick <=> (page.tick /\ t.gap)
    BY <1>1, <2>2
  <2>5. page' \in Pages
    <3>1. (page.tick /\ t.gap) \in BOOLEAN
      OBVIOUS
    <3> QED
      BY <1>1, <2>2, <2>3, <3>1, NoneFacts
  <2>6. PageHonest'
    BY <1>1, <2>4 DEF PageHonest
  <2> QED
    BY <2>5, <2>6
<1>4. ASSUME Tick
      PROVE  page' \in Pages /\ PageHonest'
  BY <1>1, <1>4 DEF Tick, PageHonest
<1> QED
  BY <1>1, <1>2, <1>3, <1>4, QuietFacts, PageStep

LEMMA ConfirmKeeps ==
    ASSUME IndInv, Confirm
    PROVE  IndInv'
<1>1. /\ UNCHANGED <<world, server, command, moves, restarts>>
      /\ Quiet
      /\ page.current # None
      /\ page' = [page EXCEPT !.sent = Request]
      /\ page \in [typed: Subjects \union {"none"}, current: MaybeTraces, tick: BOOLEAN,
                   sent: Requests \union {None}]
      /\ PageHonest
  BY DEF Confirm, IndInv, Typed, FrontsTyped
<1>2. Request \in Requests /\ Request.seen = page.current /\ Request.expect = page.current
  BY <1>1 DEF Request, Requests
<1>3. page.current \in Traces
  BY <1>1, NoneFacts
<1> QED
  BY <1>1, <1>2, <1>3, QuietFacts, PageStep DEF PageHonest

\* The trace that is erased is the one that was sent, which is the one that was seen.
LEMMA ServePageKeeps ==
    ASSUME IndInv, ServePage
    PROVE  IndInv'
<1> DEFINE r == page.sent
<1>1. /\ UNCHANGED <<world, server, command, moves, restarts>>
      /\ r # None
      /\ page \in [typed: Subjects \union {"none"}, current: MaybeTraces, tick: BOOLEAN,
                   sent: Requests \union {None}]
      /\ PageHonest
  BY DEF ServePage, IndInv, Typed, FrontsTyped
<1>2. PICK t \in Looks(r.subject) :
        /\ IF Refuses(r, t) THEN Quiet
           ELSE Erased(t, Asking("page", r.accept, r.seen, r.seen.subject, FALSE))
        /\ page' = [page EXCEPT !.sent = None,
                      !.current = IF Refuses(r, t) \/ ~Accepted(t, r.accept) THEN @ ELSE None]
  BY DEF ServePage
<1>3. /\ r \in Requests /\ r.accept \in BOOLEAN
      /\ r.seen \in Traces /\ r.expect = r.seen /\ r.expect # None
  BY <1>1, NoneFacts DEF PageHonest, Requests
<1>4. ASSUME ~Refuses(r, t)
      PROVE  ErasesWhatWasShown'
  <2>1. t = r.seen
    BY <1>3, <1>4 DEF Refuses
  <2> QED
    BY <1>2, <1>3, <1>4, <2>1, ErasedFacts DEF IndInv
<1>5. ErasesWhatWasShown'
  BY <1>2, <1>4, QuietFacts
<1>6. PageHonest'
  BY <1>1, <1>2 DEF PageHonest
<1>7. page' \in [typed: Subjects \union {"none"}, current: MaybeTraces, tick: BOOLEAN,
                sent: Requests \union {None}]
  BY <1>1, <1>2, NoneFacts
<1> QED
  BY <1>1, <1>5, <1>6, <1>7, PageStep

\* What a command is about to erase is what it traced for the subject it named.
LEMMA AskingFacts ==
    ASSUME Typed, NEW by \in {"terminal", "program"}, NEW accept \in BOOLEAN,
           NEW s \in Subjects, NEW t \in Traces, t.subject = s,
           command' = Asking(by, accept, t, s, FALSE)
    PROVE  command' \in Commands \union {None} /\ CommandHonest'
BY DEF Asking, Commands, CommandHonest

LEMMA TerminalKeeps ==
    ASSUME IndInv,
           \/ \E s \in Subjects, accept \in BOOLEAN, scan \in BOOLEAN : Forget(s, accept, scan)
           \/ \E s \in Subjects, accept \in BOOLEAN : CallApi(s, accept)
           \/ Proceed
    PROVE  IndInv'
<1>1. /\ UNCHANGED <<world, server, page, moves, restarts>>
      /\ command \in Commands \union {None} /\ CommandHonest /\ Typed
  BY DEF Forget, CallApi, Proceed, IndInv, Typed, FrontsTyped
<1> DEFINE Goal == /\ command' \in Commands \union {None} /\ CommandHonest'
                   /\ ErasesWhatWasShown'
<1>2. ASSUME NEW s \in Subjects, NEW accept \in BOOLEAN, NEW scan \in BOOLEAN,
             Forget(s, accept, scan)
      PROVE  Goal
  <2>1. PICK t \in IF scan THEN Looks(s) ELSE {TraceOf(s, FALSE)} :
           command' = IF t.gap /\ ~accept THEN None ELSE Asking("terminal", accept, t, s, FALSE)
    BY <1>2 DEF Forget
  <2>2. t \in Traces /\ t.subject = s
    BY <1>1, LooksFacts, TraceFacts
  <2>3. CASE t.gap /\ ~accept
    BY <1>2, <2>1, <2>3, QuietFacts DEF CommandHonest, Forget
  <2>4. CASE ~(t.gap /\ ~accept)
    <3>1. command' = Asking("terminal", accept, t, s, FALSE)
      BY <2>1, <2>4
    <3> QED
      BY <1>1, <1>2, <2>2, <3>1, AskingFacts, QuietFacts DEF Forget
  <2> QED
    BY <2>3, <2>4
<1>3. ASSUME NEW s \in Subjects, NEW accept \in BOOLEAN, CallApi(s, accept)
      PROVE  Goal
  <2>1. PICK t \in Looks(s) : command' = Asking("program", accept, t, s, FALSE)
    BY <1>3 DEF CallApi
  <2>2. t \in Traces /\ t.subject = s
    BY <1>1, LooksFacts
  <2> QED
    BY <1>1, <1>3, <2>1, <2>2, AskingFacts, QuietFacts DEF CallApi
<1>4. ASSUME Proceed
      PROVE  Goal
  <2>1. /\ command # None /\ command' = None
        /\ Erased(command.seen, command) \/ Quiet
    BY <1>4 DEF Proceed
  <2>2. /\ command \in Commands
        /\ command.seen \in Traces /\ command.accept \in BOOLEAN
        /\ command.by \notin {"forget", "erase"}
        /\ command = Asking(command.by, command.accept, command.seen,
                            command.seen.subject, FALSE)
    BY <1>1, <2>1 DEF Commands, CommandHonest, Asking
  <2>3. CASE Erased(command.seen, command)
    <3> DEFINE by == command.by
               accept == command.accept
               seen == command.seen
    <3>1. Erased(seen, Asking(by, accept, seen, seen.subject, FALSE))
      BY <2>2, <2>3
    <3>2. by \notin {"forget", "erase"} /\ seen \in Traces /\ accept \in BOOLEAN
      BY <2>2
    <3> HIDE DEF by, accept, seen
    <3>3. ErasesWhatWasShown'
      BY <1>1, <3>1, <3>2, ErasedFacts
    <3> QED
      BY <2>1, <3>3 DEF CommandHonest
  <2> QED
    BY <2>1, <2>3, QuietFacts DEF CommandHonest
<1>5. Goal
  BY <1>2, <1>3, <1>4
<1>6. Typed'
  BY <1>1, <1>5 DEF Typed, WorldTyped, RuntimeTyped, FrontsTyped, world, server
<1>7. PageHonest'
  BY <1>1 DEF IndInv, PageHonest
<1> QED
  BY <1>1, <1>5, <1>6, <1>7, ServerAlone DEF IndInv

-----------------------------------------------------------------------------
(* The tool calls: opening the stores.                                        *)

\* A step that changes nothing but the server and what it erases.
LEMMA ServerStep ==
    ASSUME IndInv, UNCHANGED <<world, page, command, moves>>,
           restarts' \in 0..MaxRestarts, ErasesWhatWasShown',
           RuntimeTyped', shown' \in [Subjects -> MaybeTraces], call' \in [Calls -> CallStates],
           Opening', Named', Undisturbed'
    PROVE  IndInv'
<1>1. Typed'
  BY DEF IndInv, Typed, WorldTyped, FrontsTyped, world
<1>2. PageHonest' /\ CommandHonest'
  BY DEF IndInv, PageHonest, CommandHonest
<1> QED
  BY <1>1, <1>2 DEF IndInv

\* A call that is opening the stores, before and after the step.
LEMMA OpeningStep ==
    ASSUME IndInv, NEW c \in Calls, NEW next \in CallStates,
           UNCHANGED <<world, shown, page, command, moves, restarts>>, Quiet,
           call' = [call EXCEPT ![c] = next],
           call[c].at \notin {"asked", "answered"}, next.at \notin {"asked", "answered"},
           next.subject \in Subjects, next.tool # "none",
           RuntimeTyped', Opening'
    PROVE  IndInv'
<1>1. /\ call \in [Calls -> CallStates] /\ Named /\ Undisturbed
      /\ shown \in [Subjects -> MaybeTraces] /\ restarts \in 0..MaxRestarts
  BY DEF IndInv, Typed, FrontsTyped, WorldTyped
<1>2. /\ call' \in [Calls -> CallStates]
      /\ call'[c] = next
      /\ \A d \in Calls \ {c} : call'[d] = call[d]
  BY <1>1
<1>3. Named'
  BY <1>1, <1>2 DEF Named
<1>4. Undisturbed'
  BY <1>1, <1>2 DEF Undisturbed, Pending
<1> QED
  BY <1>1, <1>2, <1>3, <1>4, QuietFacts, ServerStep

LEMMA CallToolKeeps ==
    ASSUME IndInv, NEW c \in Calls, NEW s \in Subjects, NEW tool \in {"forget", "erase"},
           CallTool(c, tool, s)
    PROVE  IndInv'
<1> DEFINE next == [call[c] EXCEPT !.at = "opening", !.tool = tool, !.subject = s]
<1>1. /\ call[c].at = "idle" /\ call[c] \in CallStates /\ call \in [Calls -> CallStates]
      /\ call' = [call EXCEPT ![c] = next]
      /\ UNCHANGED <<world, runtime, shown, page, command, moves, restarts>> /\ Quiet
      /\ RuntimeTyped /\ Opening
  BY DEF CallTool, IndInv, Typed, FrontsTyped
<1>2. next \in CallStates /\ next.at = "opening" /\ next.subject = s /\ next.tool = tool
  BY <1>1 DEF CallStates
<1>3. RuntimeTyped' /\ Opening'
  BY <1>1, <1>2 DEF RuntimeTyped, Opening
<1> QED
  BY <1>1, <1>2, <1>3, OpeningStep

LEMMA WaitForBuildKeeps ==
    ASSUME IndInv, NEW c \in Calls, WaitForBuild(c)
    PROVE  IndInv'
<1> DEFINE s == FirstOf(Missing)
           next == [call[c] EXCEPT !.at = "waiting", !.store = s]
<1>1. /\ call[c].at = "opening" /\ call[c] \in CallStates /\ call \in [Calls -> CallStates]
      /\ call' = [call EXCEPT ![c] = next]
      /\ UNCHANGED <<world, runtime, shown, page, command, moves, restarts>> /\ Quiet
      /\ RuntimeTyped /\ Opening /\ Missing # {}
      /\ call[c].subject \in Subjects /\ call[c].tool # "none"
  BY DEF WaitForBuild, IndInv, Typed, FrontsTyped, Named
<1>2. s \in Stores
  BY <1>1 DEF FirstOf, Missing
<1>3. /\ next \in CallStates /\ next.at = "waiting" /\ next.store = s
      /\ next.subject = call[c].subject /\ next.tool = call[c].tool
  BY <1>1, <1>2 DEF CallStates
<1> HIDE DEF next, s
<1>4. RuntimeTyped' /\ Opening'
  BY <1>1, <1>2, <1>3 DEF RuntimeTyped, Opening
<1> QED
  BY <1>1, <1>3, <1>4, OpeningStep

LEMMA LockBuildKeeps ==
    ASSUME IndInv, NEW c \in Calls, LockBuild(c)
    PROVE  IndInv'
<1> DEFINE next == [call[c] EXCEPT !.at = "building"]
<1>1. /\ call[c].at = "waiting" /\ call[c] \in CallStates /\ call \in [Calls -> CallStates]
      /\ runtime.lock = "free" /\ runtime' = [runtime EXCEPT !.lock = c]
      /\ call' = [call EXCEPT ![c] = next]
      /\ UNCHANGED <<world, shown, page, command, moves, restarts>> /\ Quiet
      /\ RuntimeTyped /\ Opening 
      /\ call[c].subject \in Subjects /\ call[c].tool # "none"
  BY DEF LockBuild, Does, IndInv, Typed, FrontsTyped, Named
<1>2. next \in CallStates /\ next.at = "building" /\ next.subject = call[c].subject
      /\ next.tool = call[c].tool /\ next.store = call[c].store
  BY <1>1 DEF CallStates
<1>3. RuntimeTyped'
  BY <1>1 DEF RuntimeTyped
<1>4. \A d \in Calls : call[d].at # "building"
  BY <1>1, NamesAssumption DEF Opening
<1>5. Opening'
  BY <1>1, <1>2, <1>4 DEF Opening, RuntimeTyped
<1> QED
  BY <1>1, <1>2, <1>3, <1>5, OpeningStep

\* Whoever has the lock builds only what nobody has built since it was missing.
LEMMA BuildKeeps ==
    ASSUME IndInv, NEW c \in Calls, Build(c)
    PROVE  IndInv'
<1>1. /\ call[c].at = "building" /\ call[c] \in CallStates /\ call \in [Calls -> CallStates]
      /\ runtime.lock = c
      /\ UNCHANGED <<world, shown, page, command, moves, restarts>> /\ Quiet
      /\ RuntimeTyped /\ Opening 
      /\ call[c].subject \in Subjects /\ call[c].tool # "none"
      /\ call[c].store \in Stores
  BY DEF Build, IndInv, Typed, FrontsTyped, Named, Opening
<1>2. ASSUME NEW next \in CallStates, next.at = "opening", next.subject = call[c].subject,
             next.tool = call[c].tool,
             call' = [call EXCEPT ![c] = next],
             runtime' \in [open: SUBSET Stores, built: [Stores -> Nat], lock: {"free"}],
             \A s \in Stores : runtime'.built[s] = IF s \in runtime'.open THEN 1 ELSE 0
      PROVE  IndInv'
  <2>1. RuntimeTyped'
    BY <1>2 DEF RuntimeTyped
  <2>2. \A d \in Calls \ {c} : call[d].at # "building"
    BY <1>1 DEF Opening
  <2>3. Opening'
    BY <1>1, <1>2, <2>2, NamesAssumption DEF Opening
  <2> QED
    BY <1>1, <1>2, <2>1, <2>3, OpeningStep
<1>3. ASSUME NEW s \in Stores, Built(c, s), Does(c, "opening")
      PROVE  IndInv'
  <2> DEFINE next == [call[c] EXCEPT !.at = "opening"]
  <2>1. s \in Stores
    BY <1>3
  <2>2. next \in CallStates /\ next.at = "opening" /\ next.subject = call[c].subject
        /\ next.tool = call[c].tool
    BY <1>1 DEF CallStates
  <2>3. runtime' = [runtime EXCEPT !.open = @ \union {s}, !.lock = "free",
                                   !.built[s] = IF s \in runtime.open THEN @ ELSE @ + 1]
    BY <1>3 DEF Built
  <2>4. runtime' \in [open: SUBSET Stores, built: [Stores -> Nat], lock: {"free"}]
    <3>1. /\ runtime'.open = runtime.open \union {s} /\ runtime'.lock = "free"
          /\ runtime'.built = [runtime.built EXCEPT
                                 ![s] = IF s \in runtime.open THEN @ ELSE @ + 1]
          /\ runtime.open \subseteq Stores /\ runtime.built \in [Stores -> Nat]
          /\ DOMAIN runtime' = {"open", "built", "lock"}
      BY <1>1, <2>3 DEF RuntimeTyped
    <3>2. runtime'.built \in [Stores -> Nat]
      BY <2>1, <3>1
    <3>3. runtime' = [open |-> runtime'.open, built |-> runtime'.built, lock |-> runtime'.lock]
      BY <1>1, <2>3 DEF RuntimeTyped
    <3> QED
      BY <2>1, <3>1, <3>2, <3>3
  <2>5. \A t \in Stores : runtime'.built[t] = IF t \in runtime'.open THEN 1 ELSE 0
    BY <1>1, <2>1, <2>3 DEF RuntimeTyped, Opening
  <2>6. call' = [call EXCEPT ![c] = next]
    BY <1>1, <1>3 DEF Does, CallStates
  <2> HIDE DEF next
  <2> QED
    BY <1>2, <2>2, <2>4, <2>5, <2>6
<1>4. ASSUME runtime' = [runtime EXCEPT !.lock = "free"],
             call' = [call EXCEPT ![c].at = "opening", ![c].failed = TRUE]
      PROVE  IndInv'
  <2> DEFINE next == [call[c] EXCEPT !.at = "opening", !.failed = TRUE]
  <2>1. next \in CallStates /\ next.at = "opening" /\ next.subject = call[c].subject
        /\ next.tool = call[c].tool
    BY <1>1 DEF CallStates
  <2>2. call' = [call EXCEPT ![c] = next]
    BY <1>1, <1>4 DEF CallStates
  <2>3. /\ runtime' \in [open: SUBSET Stores, built: [Stores -> Nat], lock: {"free"}]
        /\ runtime'.open = runtime.open /\ runtime'.built = runtime.built
    BY <1>1, <1>4 DEF RuntimeTyped
  <2>4. \A t \in Stores : runtime'.built[t] = IF t \in runtime'.open THEN 1 ELSE 0
    BY <1>1, <2>3 DEF Opening
  <2> HIDE DEF next
  <2> QED
    BY <1>2, <2>1, <2>2, <2>3, <2>4
<1> QED
  BY <1>1, <1>3, <1>4 DEF Build

-----------------------------------------------------------------------------
(* The tool calls: showing, confirming and erasing.                           *)

\* Disturbing a call changes nothing else of it.
LEMMA DisturbingFacts ==
    ASSUME call \in [Calls -> CallStates], NEW rivals \in SUBSET Calls
    PROVE  /\ Disturbing(rivals) \in [Calls -> CallStates]
           /\ \A d \in rivals : Disturbing(rivals)[d].disturbed
           /\ \A d \in Calls \ rivals : Disturbing(rivals)[d] = call[d]
           /\ \A d \in Calls : /\ Disturbing(rivals)[d].at = call[d].at
                               /\ Disturbing(rivals)[d].tool = call[d].tool
                               /\ Disturbing(rivals)[d].subject = call[d].subject
                               /\ Disturbing(rivals)[d].shown = call[d].shown
                               /\ Disturbing(rivals)[d].store = call[d].store
BY DEF Disturbing, CallStates

\* What a call that shows, answers or erases is in the state before it, and leaves.
Showing(c, next, rivals) ==
    /\ rivals \subseteq Rivals(c)
    /\ call' = [Disturbing(rivals) EXCEPT ![c] = next]
    /\ call[c].at # "building"
    /\ next.at \notin {"waiting", "building"}
    /\ next.at # "idle" => next.subject \in Subjects /\ next.tool # "none"
    /\ next.at \in {"asked", "answered"} =>
         next.shown \in Traces /\ next.shown.subject = next.subject
    /\ next.tool = "forget" /\ next.at \in {"asked", "answered"} /\ ~next.disturbed =>
         shown'[next.subject] = next.shown
    /\ shown' \in [Subjects -> MaybeTraces]
    /\ \A s \in Subjects : shown'[s] # None => shown'[s].subject = s
    /\ \A d \in Calls \ {c} :
         Pending(d) /\ d \notin rivals => shown'[call[d].subject] = shown[call[d].subject]

\* Such a call leaves the building to the others; the calls of the other subjects
\* stay as they are, and so do those that are not pending.
LEMMA ShowingStep ==
    ASSUME IndInv, NEW c \in Calls, NEW next \in CallStates, NEW rivals,
           Showing(c, next, rivals),
           UNCHANGED <<world, runtime, page, command, moves, restarts>>, ErasesWhatWasShown'
    PROVE  IndInv'
<1>1. /\ call \in [Calls -> CallStates] /\ Opening /\ Named /\ Undisturbed
      /\ restarts \in 0..MaxRestarts /\ RuntimeTyped
  BY DEF IndInv, Typed, FrontsTyped, WorldTyped
<1>2. rivals \subseteq Calls /\ c \notin rivals
  BY DEF Showing, Rivals
<1>3. /\ Disturbing(rivals) \in [Calls -> CallStates]
      /\ \A d \in rivals : Disturbing(rivals)[d].disturbed
      /\ \A d \in Calls \ rivals : Disturbing(rivals)[d] = call[d]
      /\ \A d \in Calls : /\ Disturbing(rivals)[d].at = call[d].at
                          /\ Disturbing(rivals)[d].tool = call[d].tool
                          /\ Disturbing(rivals)[d].subject = call[d].subject
                          /\ Disturbing(rivals)[d].shown = call[d].shown
                          /\ Disturbing(rivals)[d].store = call[d].store
  BY <1>1, <1>2, DisturbingFacts
<1>4. /\ call' \in [Calls -> CallStates]
      /\ call'[c] = next
      /\ \A d \in Calls \ {c} : call'[d] = Disturbing(rivals)[d]
  BY <1>3 DEF Showing
<1>5. Opening' /\ RuntimeTyped'
  <2>1. \A d \in Calls : /\ call'[d].at = "building" <=> call[d].at = "building"
                         /\ call'[d].at = "waiting" => call[d].at = "waiting"
                         /\ call'[d].at \in {"waiting", "building"} =>
                              call'[d].store = call[d].store
    BY <1>3, <1>4 DEF Showing
  <2> QED
    BY <1>1, <2>1 DEF Opening, RuntimeTyped
<1>6. Named'
  BY <1>1, <1>3, <1>4 DEF Named, Showing
<1>7. Undisturbed'
  <2> SUFFICES ASSUME NEW d \in Calls, Pending(d)', ~call'[d].disturbed
               PROVE  shown'[call'[d].subject] = call'[d].shown
    BY DEF Undisturbed
  <2>1. CASE d = c
    BY <1>4, <2>1 DEF Pending, Showing
  <2>2. CASE d # c
    <3>1. d \notin rivals /\ call'[d] = call[d]
      BY <1>2, <1>3, <1>4, <2>2
    <3>2. Pending(d) /\ ~call[d].disturbed
      BY <3>1 DEF Pending
    <3> QED
      BY <1>1, <2>2, <3>1, <3>2 DEF Undisturbed, Showing
  <2> QED
    BY <2>1, <2>2
<1> QED
  BY <1>1, <1>4, <1>5, <1>6, <1>7, ServerStep DEF Showing

LEMMA NobodyDisturbed ==
    ASSUME call \in [Calls -> CallStates]
    PROVE  Disturbing({}) = call
BY DEF Disturbing

LEMMA FoundFacts ==
    ASSUME IndInv, NEW c \in Calls, call[c].subject \in Subjects
    PROVE  Found(c) \in Traces /\ Found(c).subject = call[c].subject
<1> DEFINE g == gap \/ call[c].failed
<1>1. g \in BOOLEAN
  OBVIOUS
<1> HIDE DEF g
<1>2. TraceOf(call[c].subject, g) \in Traces
      /\ TraceOf(call[c].subject, g).subject = call[c].subject
  BY <1>1, TraceFacts DEF IndInv
<1> QED
  BY <1>2 DEF Found, g

\* Another call's confirmation for the subject is lost, which it is told.
LEMMA AskForgetKeeps ==
    ASSUME IndInv, NEW c \in Calls, AskForget(c)
    PROVE  IndInv'
<1> DEFINE s == call[c].subject
           next == [call[c] EXCEPT !.at = "asked", !.shown = Found(c), !.disturbed = FALSE]
<1>1. /\ call[c].at = "opening" /\ call[c] \in CallStates /\ call \in [Calls -> CallStates]
      /\ s \in Subjects /\ call[c].tool # "none"
      /\ shown' = [shown EXCEPT ![s] = Found(c)] /\ shown \in [Subjects -> MaybeTraces]
      /\ call' = [Disturbing(Rivals(c)) EXCEPT ![c].at = "asked", ![c].shown = Found(c),
                                               ![c].disturbed = FALSE]
      /\ UNCHANGED <<world, runtime, page, command, moves, restarts>> /\ Quiet /\ Named
  BY DEF AskForget, Opened, Remember, IndInv, Typed, FrontsTyped, Named
<1>2. Found(c) \in Traces /\ Found(c).subject = s
  BY <1>1, FoundFacts
<1>3. /\ next \in CallStates
      /\ next.at = "asked" /\ next.subject = s /\ next.shown = Found(c)
      /\ next.tool = call[c].tool
  BY <1>1, <1>2, NoneFacts DEF CallStates
<1>4. Rivals(c) \subseteq Calls \ {c}
  BY DEF Rivals
<1>5. Disturbing(Rivals(c))[c] = call[c] /\ Disturbing(Rivals(c)) \in [Calls -> CallStates]
  BY <1>1, <1>4, DisturbingFacts
<1>6. call' = [Disturbing(Rivals(c)) EXCEPT ![c] = next]
  BY <1>1, <1>5 DEF CallStates
<1>7. /\ shown' \in [Subjects -> MaybeTraces] /\ shown'[s] = Found(c)
      /\ \A t \in Subjects \ {s} : shown'[t] = shown[t]
  BY <1>1, <1>2, NoneFacts
<1>8. \A t \in Subjects : shown'[t] # None => shown'[t].subject = t
  BY <1>1, <1>2, <1>7 DEF Named
<1>9. \A d \in Calls \ {c} :
        Pending(d) /\ d \notin Rivals(c) => shown'[call[d].subject] = shown[call[d].subject]
  <2> SUFFICES ASSUME NEW d \in Calls \ {c}, Pending(d), d \notin Rivals(c)
               PROVE  shown'[call[d].subject] = shown[call[d].subject]
    OBVIOUS
  <2>1. call[d].subject # s /\ call[d].subject \in Subjects
    BY <1>1 DEF Rivals, Pending, Named
  <2> QED
    BY <1>7, <2>1
<1> HIDE DEF next
<1>10. Showing(c, next, Rivals(c))
  BY <1>1, <1>2, <1>3, <1>6, <1>7, <1>8, <1>9 DEF Showing
<1> QED
  BY <1>1, <1>3, <1>10, QuietFacts, ShowingStep

LEMMA AskEraseKeeps ==
    ASSUME IndInv, NEW c \in Calls, AskErase(c)
    PROVE  IndInv'
<1> DEFINE next == [call[c] EXCEPT !.at = "asked", !.shown = Found(c)]
<1>1. /\ call[c].at = "opening" /\ call[c].tool = "erase"
      /\ call[c] \in CallStates /\ call \in [Calls -> CallStates]
      /\ call' = [call EXCEPT ![c] = next]
      /\ shown \in [Subjects -> MaybeTraces] /\ Named
      /\ UNCHANGED <<world, runtime, shown, page, command, moves, restarts>> /\ Quiet
  BY DEF AskErase, Opened, IndInv, Typed, FrontsTyped
<1>2. /\ call[c].subject \in Subjects
      /\ Found(c) \in Traces /\ Found(c).subject = call[c].subject
  BY <1>1, FoundFacts DEF Named
<1>3. /\ next \in CallStates /\ next.tool = "erase"
      /\ next.at = "asked" /\ next.subject = call[c].subject /\ next.shown = Found(c)
  BY <1>1, <1>2, NoneFacts DEF CallStates
<1> HIDE DEF next
<1>4. call' = [Disturbing({}) EXCEPT ![c] = next]
  BY <1>1, NobodyDisturbed
<1>5. Showing(c, next, {})
  BY <1>1, <1>2, <1>3, <1>4 DEF Showing, Named
<1> QED
  BY <1>1, <1>3, <1>5, QuietFacts, ShowingStep

LEMMA AnswerKeeps ==
    ASSUME IndInv, NEW c \in Calls, Answer(c)
    PROVE  IndInv'
<1> DEFINE next == [call[c] EXCEPT !.at = "answered"]
<1>1. /\ call[c].at = "asked" /\ call[c] \in CallStates /\ call \in [Calls -> CallStates]
      /\ call' = [call EXCEPT ![c] = next]
      /\ shown \in [Subjects -> MaybeTraces] /\ Named /\ Undisturbed
      /\ UNCHANGED <<world, runtime, shown, page, command, moves, restarts>> /\ Quiet
  BY DEF Answer, Does, IndInv, Typed, FrontsTyped
<1>2. /\ next \in CallStates /\ next.at = "answered" /\ next.tool = call[c].tool
      /\ next.subject = call[c].subject /\ next.shown = call[c].shown
      /\ next.disturbed = call[c].disturbed
  BY <1>1 DEF CallStates
<1>3. /\ call[c].subject \in Subjects /\ call[c].tool # "none"
      /\ call[c].shown \in Traces /\ call[c].shown.subject = call[c].subject
  BY <1>1 DEF Named
<1>4. call[c].tool = "forget" /\ ~call[c].disturbed => shown[call[c].subject] = call[c].shown
  BY <1>1 DEF Undisturbed, Pending
<1> HIDE DEF next
<1>5. call' = [Disturbing({}) EXCEPT ![c] = next]
  BY <1>1, NobodyDisturbed
<1>6. Showing(c, next, {})
  BY <1>1, <1>2, <1>3, <1>4, <1>5 DEF Showing, Named
<1> QED
  BY <1>1, <1>2, <1>6, QuietFacts, ShowingStep

\* A call ends: what is remembered for its subject is forgotten, or not touched.
LEMMA EndingFacts ==
    ASSUME IndInv, NEW c \in Calls, call[c].at \in {"asked", "answered"},
           IF call[c].tool = "forget" THEN Pop(c)
           ELSE call' = [call EXCEPT ![c] = NoCall] /\ UNCHANGED shown
    PROVE  NoCall \in CallStates /\ \E rivals : Showing(c, NoCall, rivals)
<1>1. /\ call \in [Calls -> CallStates] /\ shown \in [Subjects -> MaybeTraces] /\ Named
      /\ call[c].subject \in Subjects
  BY DEF IndInv, Typed, FrontsTyped, Named
<1>2. NoCall \in CallStates /\ NoCall.at = "idle" /\ NoCall.tool = "none"
  BY NoneFacts DEF NoCall, CallStates
<1>3. ASSUME Pop(c)
      PROVE  Showing(c, NoCall, Rivals(c))
  <2>1. /\ shown' = [shown EXCEPT ![call[c].subject] = None]
        /\ call' = [Disturbing(Rivals(c)) EXCEPT ![c] = NoCall]
    BY <1>3 DEF Pop
  <2>2. \A d \in Calls \ {c} :
          Pending(d) /\ d \notin Rivals(c) => shown'[call[d].subject] = shown[call[d].subject]
    <3> SUFFICES ASSUME NEW d \in Calls \ {c}, Pending(d), d \notin Rivals(c)
                 PROVE  shown'[call[d].subject] = shown[call[d].subject]
      OBVIOUS
    <3>1. call[d].subject # call[c].subject /\ call[d].subject \in Subjects
      BY <1>1 DEF Rivals, Pending, Named
    <3> QED
      BY <1>1, <2>1, <3>1
  <2>3. /\ shown' \in [Subjects -> MaybeTraces]
        /\ \A s \in Subjects : shown'[s] # None => shown'[s].subject = s
    BY <1>1, <2>1, NoneFacts DEF Named
  <2> QED
    BY <1>2, <2>1, <2>2, <2>3 DEF Showing
<1>4. ASSUME call' = [call EXCEPT ![c] = NoCall], UNCHANGED shown
      PROVE  Showing(c, NoCall, {})
  BY <1>1, <1>2, <1>4, NobodyDisturbed DEF Showing, Named
<1> QED
  BY <1>2, <1>3, <1>4

LEMMA DeclineKeeps ==
    ASSUME IndInv, NEW c \in Calls, Decline(c)
    PROVE  IndInv'
<1>1. NoCall \in CallStates /\ \E rivals : Showing(c, NoCall, rivals)
  BY EndingFacts DEF Decline
<1>2. UNCHANGED <<world, runtime, page, command, moves, restarts>> /\ Quiet
  BY DEF Decline
<1> QED
  BY <1>1, <1>2, QuietFacts, ShowingStep

\* An undisturbed call erases what it showed: the trace of the id it was given, or
\* what is still remembered for its subject.
LEMMA EraseCalledKeeps ==
    ASSUME IndInv, NEW c \in Calls, EraseCalled(c)
    PROVE  IndInv'
<1> DEFINE s == call[c].subject
<1>1. /\ call[c].at = "answered" /\ call[c] \in CallStates
      /\ UNCHANGED <<world, runtime, page, command, moves, restarts>>
      /\ Named /\ Undisturbed /\ Typed /\ shown \in [Subjects -> MaybeTraces]
  BY DEF EraseCalled, IndInv, Typed, FrontsTyped
<1>2. /\ s \in Subjects /\ call[c].shown \in Traces /\ call[c].shown.subject = s
      /\ call[c].tool \in {"forget", "erase"} /\ call[c].disturbed \in BOOLEAN
  BY <1>1 DEF Named, CallStates
<1>3. PICK t \in Meant(c) : Erased(t, ToolAsks(c))
  BY DEF EraseCalled
<1>4. t \in Traces /\ t.subject = s
  <2>1. CASE call[c].tool = "erase"
    BY <1>2, <1>3, <2>1 DEF Meant
  <2>2. CASE call[c].tool = "forget" /\ shown[s] = None
    BY <1>1, <1>2, <1>3, <2>2, LooksFacts DEF Meant
  <2>3. CASE call[c].tool = "forget" /\ shown[s] # None
    BY <1>1, <1>2, <1>3, <2>3, NoneFacts DEF Meant, Named
  <2> QED
    BY <1>2, <2>1, <2>2, <2>3
<1>5. t # call[c].shown => call[c].tool = "forget" /\ call[c].disturbed
  <2>1. CASE call[c].tool = "erase"
    BY <1>3, <2>1 DEF Meant
  <2>2. CASE call[c].tool = "forget" /\ ~call[c].disturbed
    <3>1. shown[s] = call[c].shown
      BY <1>1, <2>2 DEF Undisturbed, Pending
    <3>2. shown[s] # None
      BY <1>2, <3>1, NoneFacts
    <3> QED
      BY <1>3, <2>2, <3>1, <3>2 DEF Meant
  <2> QED
    BY <1>2, <2>1, <2>2
<1>6. Erased(t, Asking(call[c].tool, FALSE, call[c].shown, call[c].shown.subject,
                       call[c].disturbed))
  BY <1>2, <1>3 DEF ToolAsks
<1>7. ErasesWhatWasShown'
  BY <1>1, <1>2, <1>4, <1>5, <1>6, ErasedFacts
<1>8. NoCall \in CallStates /\ \E rivals : Showing(c, NoCall, rivals)
  BY EndingFacts DEF EraseCalled
<1> QED
  BY <1>1, <1>7, <1>8, ShowingStep

LEMMA RestartKeeps ==
    ASSUME IndInv, Restart
    PROVE  IndInv'
<1> DEFINE next(c) == IF call[c].at \in {"asked", "answered"}
                      THEN [call[c] EXCEPT !.disturbed = call[c].tool = "forget"] ELSE NoCall
<1>1. /\ restarts < MaxRestarts /\ restarts' = restarts + 1
      /\ runtime' = NewRuntime
      /\ shown' = [s \in Subjects |-> None]
      /\ call' = [c \in Calls |-> next(c)]
      /\ UNCHANGED <<world, page, command, moves>> /\ Quiet
      /\ call \in [Calls -> CallStates] /\ restarts \in 0..MaxRestarts /\ Named
  BY DEF Restart, IndInv, Typed, FrontsTyped, WorldTyped
<1>2. NoCall \in CallStates /\ NoCall.at = "idle"
  BY NoneFacts DEF NoCall, CallStates
<1>3. \A c \in Calls :
        /\ call'[c] \in CallStates
        /\ call'[c].at \in {"idle", "asked", "answered"}
        /\ call'[c].at # "idle" => /\ call'[c].at = call[c].at
                                   /\ call'[c].subject = call[c].subject
                                   /\ call'[c].tool = call[c].tool
                                   /\ call'[c].shown = call[c].shown
                                   /\ call'[c].tool = "forget" => call'[c].disturbed
  <2> SUFFICES ASSUME NEW c \in Calls
               PROVE  /\ next(c) \in CallStates
                      /\ next(c).at \in {"idle", "asked", "answered"}
                      /\ next(c).at # "idle" =>
                           /\ next(c).at = call[c].at
                           /\ next(c).subject = call[c].subject
                           /\ next(c).tool = call[c].tool
                           /\ next(c).shown = call[c].shown
                           /\ next(c).tool = "forget" => next(c).disturbed
    BY <1>1
  <2>1. CASE call[c].at \in {"asked", "answered"}
    BY <1>1, <2>1 DEF CallStates
  <2>2. CASE call[c].at \notin {"asked", "answered"}
    BY <1>2, <2>2
  <2> QED
    BY <2>1, <2>2
<1>4. call' \in [Calls -> CallStates]
  BY <1>1, <1>3
<1>5. RuntimeTyped'
  BY <1>1 DEF RuntimeTyped, NewRuntime
<1>6. Opening'
  <2>1. /\ runtime'.open = {} /\ runtime'.lock = "free"
        /\ \A s \in Stores : runtime'.built[s] = 0
    BY <1>1 DEF NewRuntime
  <2> QED
    BY <1>3, <2>1, NamesAssumption DEF Opening
<1>7. Named'
  <2>1. \A s \in Subjects : shown'[s] = None
    BY <1>1
  <2>2. ASSUME NEW c \in Calls, call'[c].at # "idle"
        PROVE  /\ call'[c].subject \in Subjects /\ call'[c].tool # "none"
               /\ call'[c].shown \in Traces /\ call'[c].shown.subject = call'[c].subject
    <3>1. /\ call[c].at \in {"asked", "answered"}
          /\ call'[c].subject = call[c].subject /\ call'[c].tool = call[c].tool
          /\ call'[c].shown = call[c].shown
      BY <1>3, <2>2
    <3> QED
      BY <1>1, <3>1 DEF Named
  <2> QED
    BY <2>1, <2>2 DEF Named
<1>8. Undisturbed'
  <2> SUFFICES ASSUME NEW c \in Calls, Pending(c)', ~call'[c].disturbed
               PROVE  FALSE
    BY DEF Undisturbed
  <2>1. call'[c].tool = "forget" /\ call'[c].at # "idle"
    BY DEF Pending
  <2> QED
    BY <1>3, <2>1
<1>9. shown' \in [Subjects -> MaybeTraces] /\ restarts' \in 0..MaxRestarts
  BY <1>1, NoneFacts, BoundsAssumption
<1> QED
  BY <1>1, <1>4, <1>5, <1>6, <1>7, <1>8, <1>9, QuietFacts, ServerStep

-----------------------------------------------------------------------------
(* The theorems.                                                              *)

LEMMA NextInv == IndInv /\ [Next]_vars => IndInv'
<1> SUFFICES ASSUME IndInv, [Next]_vars PROVE IndInv'
  OBVIOUS
<1>1. ASSUME NEW c \in Calls, Tools(c)
      PROVE  IndInv'
  BY <1>1, CallToolKeeps, WaitForBuildKeeps, LockBuildKeeps, BuildKeeps,
     AskForgetKeeps, AskEraseKeeps, AnswerKeeps, DeclineKeeps, EraseCalledKeeps DEF Tools
<1>2. CASE UNCHANGED vars
  <2>1. UNCHANGED <<world, server, page, command, moves, restarts>> /\ last' = last
    BY <1>2 DEF vars
  <2>2. ErasesWhatWasShown'
    BY <2>1 DEF IndInv, ErasesWhatWasShown
  <2>3. PageHonest'
    BY <2>1 DEF IndInv, PageHonest
  <2> QED
    BY <2>1, <2>2, <2>3, PageStep DEF IndInv, Typed, FrontsTyped
<1> QED
  BY <1>1, <1>2, MoveKeeps, RestartKeeps, LookingKeeps, ConfirmKeeps, ServePageKeeps,
     TerminalKeeps DEF Next

\* The state stays well-formed, and the lock of the Runtime is held by the call
\* that builds a store (registry.py:103).
THEOREM TypeCorrect == Spec => []TypeOK
<1>1. IndInv => TypeOK
  <2> SUFFICES ASSUME IndInv PROVE TypeOK
    OBVIOUS
  <2>1. /\ graph \in 0..MaxMoves /\ moves \in 0..MaxMoves /\ restarts \in 0..MaxRestarts
        /\ runtime.open \subseteq Stores
    BY DEF IndInv, Typed, WorldTyped, RuntimeTyped
  <2>2. \A s \in Subjects : shown[s].subject \in {s, "none"}
    BY NoneFacts DEF IndInv, Named
  <2>3. \A c \in Calls : runtime.lock = c <=> call[c].at = "building"
    BY DEF IndInv, Opening
  <2>4. page.tick => page.current = None \/ page.current.gap
    BY DEF IndInv, PageHonest
  <2> QED
    BY <2>1, <2>2, <2>3, <2>4 DEF TypeOK
<1> QED
  BY <1>1, InitInv, NextInv, PTL DEF Spec

\* However many calls ask for the stores at the same time, and whatever fails to
\* open, a server never has two adapters for one store (registry.py:103).
THEOREM AdaptersAreOne == Spec => []OneAdapter
<1>1. IndInv => OneAdapter
  BY DEF IndInv, Opening, OneAdapter
<1> QED
  BY <1>1, InitInv, NextInv, PTL DEF Spec

\* Whatever else is traced, shown, confirmed, changed or restarted at the same time,
\* an erasure by a tool, the page, the terminal or a program is of the subject that
\* was named, in the graph as it is, and with gaps only where they were found and
\* accepted; it takes the trace that was shown, unless it is a call of tool_forget
\* whose entry was lost (_tools.py:100, ui/server.py:83, forget.py:69).
THEOREM ConfirmedIsErased == Spec => []ErasesWhatWasShown
<1>1. IndInv => ErasesWhatWasShown
  BY DEF IndInv
<1> QED
  BY <1>1, InitInv, NextInv, PTL DEF Spec
=============================================================================
