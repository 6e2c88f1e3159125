----------------------------- MODULE EntryPoints -----------------------------
(***************************************************************************)
(* The ways in which a person is asked before anything is erased: the tools   *)
(* of the MCP server (mcp/_tools.py), whose calls run side by side on one     *)
(* Runtime (registry.py); the page of the loopback server (ui/), which shows   *)
(* what it found and posts a confirmation later; `tombstone forget` with its   *)
(* options; and api.forget, whose call is the confirmation.  Meanwhile          *)
(* applications capture more, and entries without lineage come and go.  What a *)
(* saga then does is ErasureSaga's business: here it takes a trace or refuses it. *)
(***************************************************************************)
EXTENDS Naturals, FiniteSets, TLC

CONSTANTS
    Subjects,     \* whose data it is
    Calls,        \* tool calls of the MCP server
    Stores,       \* the configured stores
    InUse,        \* the sets of entry points that are in use together
    MaxMoves,     \* bound on changes behind the operators' backs
    MaxRestarts   \* bound on restarts of the MCP server

ASSUME InUseAssumption == InUse \subseteq SUBSET {"tools", "page", "terminal", "program"}
ASSUME NamesAssumption == "none" \notin Subjects \union Stores /\ "free" \notin Calls
ASSUME BoundsAssumption == MaxMoves \in Nat /\ MaxRestarts \in Nat

VARIABLES
    graph,     \* how often the lineage graph has changed
    gap,       \* whether a scan of the stores finds entries without lineage
    ended,     \* the traces whose saga has a receipt
    fronts,    \* the entry points in use
    runtime,   \* the server's Runtime: its adapters, how often each was built, its lock
    shown,     \* _SHOWN: the trace shown last for a subject and a reason
    call,      \* what each tool call is doing
    page,      \* the page: the subject field, the current trace, the tick, the request sent
    command,   \* what `tombstone forget`, or api.forget, is about to erase
    last,      \* the erasure just done: of what, in which graph, on whose request
    moves, restarts

world == <<graph, gap>>
server == <<runtime, shown, call>>
vars == <<fronts, world, ended, last, server, page, command, moves, restarts>>

None == [subject |-> "none"]
\* A trace's id: the subject, the graph and the gaps that it was taken with.
TraceOf(s, gaps) == [subject |-> s, graph |-> graph, gap |-> gaps]
\* run_trace with the scan of the stores; one that cannot be opened counts as a gap.
Looks(s) == {TraceOf(s, gap), TraceOf(s, TRUE)}

NewRuntime == [open |-> {}, built |-> [s \in Stores |-> 0], lock |-> "free"]
NoCall == [at |-> "idle", tool |-> "none", subject |-> "none", store |-> "none",
           shown |-> None, failed |-> FALSE, disturbed |-> FALSE]

Init ==
    /\ graph = 0 /\ gap = FALSE
    /\ fronts \in InUse
    /\ ended = {} /\ last = None
    /\ runtime = NewRuntime
    /\ shown = [s \in Subjects |-> None]
    /\ call = [c \in Calls |-> NoCall]
    /\ page = [typed |-> "none", current |-> None, tick |-> FALSE, sent |-> None]
    /\ command = None
    /\ moves = 0 /\ restarts = 0

\* Nothing is erased.
Quiet == last' = None /\ UNCHANGED <<fronts, ended>>

\* An application captures something, or writes around the wrapper, or stamps
\* what was written around it.
Move ==
    /\ moves < MaxMoves
    /\ moves' = moves + 1
    /\ \/ graph' = graph + 1 /\ UNCHANGED gap
       \/ gap' = ~gap /\ UNCHANGED graph
    /\ Quiet /\ UNCHANGED <<server, page, command, restarts>>

\* What the saga asks of a trace before it begins; the gaps are the trace's own.
Accepted(t, acceptGaps) ==
    /\ t \notin ended
    /\ t.gap => acceptGaps
    /\ t.graph = graph

\* Who asks for an erasure: which entry point, whether gaps are accepted, what was
\* found and shown, whose data was named, and whether _SHOWN was disturbed.
Asking(by, accept, seen, subject, disturbed) ==
    [by |-> by, accept |-> accept, seen |-> seen, asked |-> subject, disturbed |-> disturbed]

\* run_erase: a receipt, or a refusal that changes nothing.
Erased(t, request) ==
    IF Accepted(t, request.accept)
    THEN /\ ended' = ended \union {t}
         /\ last' = [trace |-> t, graph |-> graph, request |-> request]
         /\ UNCHANGED fronts
    ELSE Quiet

-----------------------------------------------------------------------------
(* A tool call opens every store, and keeps what it finds for the confirmation. *)

Does(c, step) == call' = [call EXCEPT ![c].at = step]

\* tool_forget, whose resolvers run first; or tool_trace, for tool_erase to follow.
CallTool(c, tool, s) ==
    /\ call[c].at = "idle"
    /\ call' = [call EXCEPT ![c].at = "opening", ![c].tool = tool, ![c].subject = s]
    /\ Quiet /\ UNCHANGED <<world, runtime, shown, page, command, moves, restarts>>

\* all_stores and store: the stores come in the order of the configuration, and one
\* that is there is taken without the lock; the first that is not is waited for.
Missing == Stores \ runtime.open
FirstOf(set) == CHOOSE s \in set : TRUE
WaitForBuild(c) ==
    /\ call[c].at = "opening" /\ Missing # {} /\ ~call[c].failed
    /\ call' = [call EXCEPT ![c].at = "waiting", ![c].store = FirstOf(Missing)]
    /\ Quiet /\ UNCHANGED <<world, runtime, shown, page, command, moves, restarts>>

LockBuild(c) ==
    /\ call[c].at = "waiting" /\ runtime.lock = "free"
    /\ runtime' = [runtime EXCEPT !.lock = c]
    /\ Does(c, "building")
    /\ Quiet /\ UNCHANGED <<world, shown, page, command, moves, restarts>>

\* Mutants of Built: the lock is kept, and the store is not looked for again under it.
KeptLock(c, s) ==
    runtime' = [runtime EXCEPT !.open = @ \union {s},
                               !.built[s] = IF s \in runtime.open THEN @ ELSE @ + 1]
AlwaysBuilt(c, s) ==
    runtime' = [runtime EXCEPT !.open = @ \union {s}, !.built[s] = @ + 1, !.lock = "free"]

\* Under the lock it is looked for again, built, published and registered.
Built(c, s) ==
    runtime' = [runtime EXCEPT !.open = @ \union {s}, !.lock = "free",
                               !.built[s] = IF s \in runtime.open THEN @ ELSE @ + 1]

\* One that cannot be opened ends the loop, and counts as a gap.
Build(c) ==
    /\ call[c].at = "building" /\ runtime.lock = c
    /\ \/ Built(c, call[c].store) /\ Does(c, "opening")
       \/ /\ call[c].store \notin runtime.open
          /\ runtime' = [runtime EXCEPT !.lock = "free"]
          /\ call' = [call EXCEPT ![c].at = "opening", ![c].failed = TRUE]
    /\ Quiet /\ UNCHANGED <<world, shown, page, command, moves, restarts>>

Opened(c) == call[c].at = "opening" /\ (Missing = {} \/ call[c].failed)
Found(c) == TraceOf(call[c].subject, gap \/ call[c].failed)
Pending(c) == call[c].tool = "forget" /\ call[c].at \in {"asked", "answered"}
Rivals(c) == {d \in Calls \ {c} : Pending(d) /\ call[d].subject = call[c].subject}
Disturbing(rivals) == [d \in Calls |-> IF d \in rivals
                                       THEN [call[d] EXCEPT !.disturbed = TRUE] ELSE call[d]]

Remember(c, t) == shown' = [shown EXCEPT ![call[c].subject] = t]

\* ask_forget_confirmation: the trace is saved and remembered, and its counts shown.
AskForget(c) ==
    /\ call[c].tool = "forget" /\ Opened(c)
    /\ Remember(c, Found(c))
    /\ call' = [Disturbing(Rivals(c)) EXCEPT ![c].at = "asked", ![c].shown = Found(c),
                                             ![c].disturbed = FALSE]
    /\ Quiet /\ UNCHANGED <<world, runtime, page, command, moves, restarts>>

\* tool_trace has its answer, and ask_confirmation asks about the trace of that id.
AskErase(c) ==
    /\ call[c].tool = "erase" /\ Opened(c)
    /\ call' = [call EXCEPT ![c].at = "asked", ![c].shown = Found(c)]
    /\ Quiet /\ UNCHANGED <<world, runtime, shown, page, command, moves, restarts>>

Answer(c) ==
    /\ call[c].at = "asked"
    /\ Does(c, "answered")
    /\ Quiet /\ UNCHANGED <<world, runtime, shown, page, command, moves, restarts>>

\* tool_forget's entry goes, whoever put it there last, whatever the answer was.
Pop(c) == /\ shown' = [shown EXCEPT ![call[c].subject] = None]
          /\ call' = [Disturbing(Rivals(c)) EXCEPT ![c] = NoCall]

\* Declined, cancelled or not confirmed.
Decline(c) ==
    /\ call[c].at = "asked"
    /\ IF call[c].tool = "forget" THEN Pop(c)
       ELSE call' = [call EXCEPT ![c] = NoCall] /\ UNCHANGED shown
    /\ Quiet /\ UNCHANGED <<world, runtime, page, command, moves, restarts>>

\* The trace that was shown, or a new one when nothing is remembered.
Meant(c) == IF call[c].tool = "erase" THEN {call[c].shown}
            ELSE IF shown[call[c].subject] = None THEN Looks(call[c].subject)
            ELSE {shown[call[c].subject]}

\* No tool accepts gaps.
ToolAsks(c) == Asking(call[c].tool, FALSE, call[c].shown, call[c].subject, call[c].disturbed)
EraseCalled(c) ==
    /\ call[c].at = "answered"
    /\ \E t \in Meant(c) : Erased(t, ToolAsks(c))
    /\ IF call[c].tool = "forget" THEN Pop(c)
       ELSE call' = [call EXCEPT ![c] = NoCall] /\ UNCHANGED shown
    /\ UNCHANGED <<world, runtime, page, command, moves, restarts>>

\* The server's process is replaced; a client that was asked answers the new one.
Restart ==
    /\ restarts < MaxRestarts
    /\ restarts' = restarts + 1
    /\ runtime' = NewRuntime
    /\ shown' = [s \in Subjects |-> None]
    /\ call' = [c \in Calls |->
                  IF call[c].at \in {"asked", "answered"}
                  THEN [call[c] EXCEPT !.disturbed = call[c].tool = "forget"] ELSE NoCall]
    /\ Quiet /\ UNCHANGED <<world, page, command, moves>>

-----------------------------------------------------------------------------
(* The page: looking, typing something else, ticking, confirming; the server    *)
(* handles its requests one at a time, later.                                  *)

Type(s) ==
    /\ page.typed # s
    /\ page' = [page EXCEPT !.typed = s]
    /\ Quiet /\ UNCHANGED <<world, server, command, moves, restarts>>

\* The find form and renderHeld: without gaps the tick is taken back.
Look ==
    /\ page.typed # "none"
    /\ \E t \in Looks(page.typed) :
         page' = [page EXCEPT !.current = t, !.tick = page.tick /\ t.gap]
    /\ Quiet /\ UNCHANGED <<world, server, command, moves, restarts>>

Tick ==
    /\ page.current # None /\ page.current.gap
    /\ page' = [page EXCEPT !.tick = ~@]
    /\ Quiet /\ UNCHANGED <<world, server, command, moves, restarts>>

\* Mutant of Request: the page does not say which trace it shows.
BlindRequest ==
    [subject |-> page.typed, accept |-> page.tick, expect |-> None, seen |-> page.current]
Request == [subject |-> page.typed, accept |-> page.tick, expect |-> page.current,
            seen |-> page.current]

\* confirm() was answered; the button is disabled until the answer comes.
Confirm ==
    /\ page.current # None /\ page.sent = None
    /\ page' = [page EXCEPT !.sent = Request]
    /\ Quiet /\ UNCHANGED <<world, server, command, moves, restarts>>

\* _Api.forget looks again, and refuses gaps that were not accepted and a trace
\* that is not the expected one.  A receipt clears the page.
Refuses(r, t) == \/ t.gap /\ ~r.accept
                 \/ r.expect # None /\ r.expect # t
ServePage ==
    /\ page.sent # None
    /\ LET r == page.sent IN
       \E t \in Looks(r.subject) :
          /\ IF Refuses(r, t) THEN Quiet
             ELSE Erased(t, Asking("page", r.accept, r.seen, r.seen.subject, FALSE))
          /\ page' = [page EXCEPT !.sent = None,
                        !.current = IF Refuses(r, t) \/ ~Accepted(t, r.accept) THEN @ ELSE None]
    /\ UNCHANGED <<world, server, command, moves, restarts>>

-----------------------------------------------------------------------------
(* `tombstone forget` in a process of its own, and an application's call of      *)
(* api.forget.                                                                *)

\* It traces, with --no-store-scan without the scan, prints what it found, and
\* refuses gaps, if --accept-gaps is not given, before it asks.
Forget(s, accept, scan) ==
    /\ command = None
    /\ \E t \in IF scan THEN Looks(s) ELSE {TraceOf(s, FALSE)} :
          command' = IF t.gap /\ ~accept THEN None ELSE Asking("terminal", accept, t, s, FALSE)
    /\ Quiet /\ UNCHANGED <<world, server, page, moves, restarts>>

\* api.forget asks nobody, and leaves the refusal to the saga.
CallApi(s, accept) ==
    /\ command = None
    /\ \E t \in Looks(s) : command' = Asking("program", accept, t, s, FALSE)
    /\ Quiet /\ UNCHANGED <<world, server, page, moves, restarts>>

\* "yes", --yes or the program's call; or "no", or the end of the process.
Proceed ==
    /\ command # None
    /\ command' = None
    /\ Erased(command.seen, command) \/ Quiet
    /\ UNCHANGED <<world, server, page, moves, restarts>>

Tools(c) ==
    \/ \E s \in Subjects, tool \in {"forget", "erase"} : CallTool(c, tool, s)
    \/ WaitForBuild(c) \/ LockBuild(c) \/ Build(c)
    \/ AskForget(c) \/ AskErase(c) \/ Answer(c) \/ Decline(c) \/ EraseCalled(c)

Next ==
    \/ Move
    \/ "tools" \in fronts /\ (Restart \/ \E c \in Calls : Tools(c))
    \/ /\ "page" \in fronts
       /\ (\E s \in Subjects : Type(s)) \/ Look \/ Tick \/ Confirm \/ ServePage
    \/ \E s \in Subjects, accept \in BOOLEAN :
          \/ "terminal" \in fronts /\ \E scan \in BOOLEAN : Forget(s, accept, scan)
          \/ "program" \in fronts /\ CallApi(s, accept)
    \/ Proceed

Spec == Init /\ [][Next]_vars

-----------------------------------------------------------------------------
(* Properties.                                                                *)

\* The state is well-formed; the lock is held by the call that builds.
TypeOK ==
    /\ graph \in 0..MaxMoves /\ moves \in 0..MaxMoves /\ restarts \in 0..MaxRestarts
    /\ \A s \in Subjects : shown[s].subject \in {s, "none"}
    /\ runtime.open \subseteq Stores
    /\ \A c \in Calls : runtime.lock = c <=> call[c].at = "building"
    /\ page.tick => page.current = None \/ page.current.gap

\* What is erased is what descends from the subject that was named, in the graph as it
\* is; gaps only where they were found and shown to whoever accepted them, which no
\* tool does.  It is the very trace that was shown, unless a call of tool_forget lost
\* its entry of _SHOWN to another call or a restart (_tools.py:100): then what it
\* showed is out of date, and it erases what is there now, without gaps.
ErasesWhatWasShown ==
    last # None =>
        LET r == last.request
        IN  /\ last.trace.subject = r.asked /\ last.trace.graph = last.graph
            /\ last.trace.gap => r.accept /\ r.seen.gap /\ r.by \notin {"forget", "erase"}
            /\ last.trace # r.seen =>
                 /\ r.by = "forget" /\ r.disturbed
                 /\ r.seen.graph # last.graph \/ r.seen.gap

\* The calls of a server never build two adapters for one store, of which one
\* would work on stale copies, or be refused the store's files (registry.py:103).
OneAdapter == \A s \in Stores : runtime.built[s] <= 1
=============================================================================
