----------------------------- MODULE ToolSession ------------------------------
(***************************************************************************)
(* One native WSL tool run from the created container to its end           *)
(* (internal/wslrun executeTool with the attach stream of                  *)
(* internal/wsldocker): the goroutines that copy input and output, the one *)
(* that waits for the container, the host's signals, the select loop that  *)
(* takes their results in any order, and the deferred clean-up.  One step  *)
(* is one Engine request, one piece copied or one result taken.  Leases    *)
(* and the recovery of a run killed outright are WslRuntime's subject.     *)
(***************************************************************************)
EXTENDS Naturals, Sequences

CONSTANTS
    MaxFrames,  \* bound: output frames the tool writes
    MaxSignals, \* bound: signals the host sends
    Buffer      \* signals the host's channels hold (16 in the code)

ASSUME ToolSessionAssumption ==
    MaxFrames \in Nat /\ MaxSignals \in Nat /\ Buffer \in Nat \ {0}

VARIABLES
    session, \* executeTool: its step and its local variables
    engine,  \* the container, its exit status and the Engine's end of the stream
    copied,  \* pieces of output written to the host; a frame is two pieces
    ends,    \* the results of the three goroutines
    host,    \* the terminal's mode and whether signals are intercepted
    queue,   \* intercepted signals, not yet forwarded
    signals, \* ... and how many there were
    broken   \* history: something failed that is no race with the tool's exit

toolSessionVars == <<session, engine, copied, ends, host, queue, signals, broken>>

ToolSessionInit ==
    /\ session \in [tty : BOOLEAN, step : {"adopt"}, running : {FALSE}, outcome : {"none"},
                    untidy : {FALSE}]
    /\ engine = [tool |-> "created", status |-> "none", sent |-> 0, stream |-> "none"]
    /\ copied = 0
    /\ ends = [output |-> "off", input |-> "off", wait |-> "off"]
    /\ host = [terminal |-> "cooked", intercept |-> FALSE]
    /\ queue = <<>> /\ signals = 0
    /\ broken = FALSE

Is(step) == session.step = step
Breaks == broken' = TRUE
Fine == UNCHANGED broken
Then(step) == session' = [session EXCEPT !.step = step]
\* Every error return of executeTool leads to its deferred clean-up.
Error == session' = [session EXCEPT !.step = "cleanup", !.outcome = "error"]

\* An Engine request or a host call: it works, or it fails and the run with it.
WorksOr(next) == (Then(next) /\ Fine) \/ (Error /\ Breaks)

-----------------------------------------------------------------------------
(* Before the tool runs *)

Adopt ==
    /\ Is("adopt") /\ WorksOr("events")
    /\ UNCHANGED <<engine, copied, ends, host, queue, signals>>

StartEvents ==
    /\ Is("events") /\ Then("attach")
    /\ host' = [host EXCEPT !.intercept = TRUE]
    /\ UNCHANGED <<engine, copied, ends, queue, signals, broken>>

\* openAttach: the upgraded connection carries both directions.
Attach ==
    /\ Is("attach")
    /\ \/ Then("terminal") /\ engine' = [engine EXCEPT !.stream = "open"] /\ Fine
       \/ Error /\ UNCHANGED engine /\ Breaks
    /\ UNCHANGED <<copied, ends, host, queue, signals>>

PrepareTerminal ==
    /\ Is("terminal")
    /\ \/ /\ Then("start") /\ Fine
          /\ host' = [host EXCEPT !.terminal = IF session.tty THEN "raw" ELSE @]
       \/ session.tty /\ Error /\ UNCHANGED host /\ Breaks
    /\ UNCHANGED <<engine, copied, ends, queue, signals>>

\* From here on the container may be running, whatever the answer says.  The size
\* is repeated if it could be read.
Start ==
    /\ Is("start")
    /\ \E acted \in BOOLEAN, answered \in BOOLEAN :
          /\ answered => acted
          /\ engine' = [engine EXCEPT !.tool = IF acted THEN "running" ELSE @]
          /\ IF answered
             THEN /\ \E next \in {"copy"} \union (IF session.tty THEN {"resize"} ELSE {}) :
                        session' = [session EXCEPT !.running = TRUE, !.step = next]
                  /\ ends' = [ends EXCEPT !.wait = "waiting"]
                  /\ Fine
             ELSE /\ session' = [session EXCEPT !.running = TRUE, !.step = "cleanup",
                                                !.outcome = "error"]
                  /\ UNCHANGED ends /\ Breaks
    /\ UNCHANGED <<copied, host, queue, signals>>

Mutant_CompletionRace == FALSE  \* 404 and 409 end the run

\* containerCompletionRace: the Engine answers 404 or 409 once the tool is over.
CompletionRace == engine.tool = "exited"

\* A request about a running container, tolerant of its exit.
Tolerates(next) ==
    IF engine.tool = "running" \/ CompletionRace THEN WorksOr(next) ELSE Error /\ Fine

InitialResize ==
    /\ Is("resize") /\ Tolerates("copy")
    /\ UNCHANGED <<engine, copied, ends, host, queue, signals>>

StartCopying ==
    /\ Is("copy") /\ Then("select")
    /\ ends' = [ends EXCEPT !.output = "copying", !.input = "copying"]
    /\ UNCHANGED <<engine, copied, host, queue, signals, broken>>

-----------------------------------------------------------------------------
(* The tool, the Engine's end of the stream, the host *)

ContainerWrites ==
    /\ engine.tool = "running" /\ engine.sent < 2 * MaxFrames /\ engine.stream = "open"
    /\ engine' = [engine EXCEPT !.sent = @ + 2]
    /\ UNCHANGED <<session, copied, ends, host, queue, signals, broken>>

ContainerEnds ==
    /\ engine.tool = "running"
    /\ engine' = [engine EXCEPT !.tool = "exited", !.status = "status"]
    /\ UNCHANGED <<session, copied, ends, host, queue, signals, broken>>

\* The Engine closes the stream behind the last frame, or reports an error in it,
\* or the connection breaks anywhere in what is under way.
StreamEnds ==
    /\ engine.stream = "open"
    /\ \/ /\ engine.tool = "exited"
          /\ engine' = [engine EXCEPT !.stream = "eof"] /\ Fine
       \/ /\ \E n \in copied .. engine.sent, how \in {"eof", "bad"} :
                engine' = [engine EXCEPT !.stream = how, !.sent = n]
          /\ Breaks
    /\ UNCHANGED <<session, copied, ends, host, queue, signals>>

\* Whatever the host does with a catchable signal: SIGWINCH is watched with a
\* terminal only, the others end a process that does not intercept them.
HostSignal ==
    /\ signals < MaxSignals /\ signals' = signals + 1
    /\ session.step \notin {"ended", "dead"}
    /\ \E s \in {"TERM"} \union (IF session.tty THEN {"WINCH"} ELSE {}) :
          IF host.intercept
          THEN /\ \/ queue' = IF Len(queue) < Buffer THEN Append(queue, s) ELSE queue
                  \/ s = "WINCH" /\ UNCHANGED queue  \* the size cannot be read
               /\ UNCHANGED session
          ELSE /\ s = "TERM" /\ Then("dead")
               /\ UNCHANGED queue
    /\ UNCHANGED <<engine, copied, ends, host, broken>>

-----------------------------------------------------------------------------
(* The goroutines: wait, output, input *)

\* waitContainer
WaitAnswers ==
    /\ ends.wait = "waiting"
    /\ \/ engine.tool = "exited" /\ ends' = [ends EXCEPT !.wait = engine.status] /\ Fine
       \/ ends' = [ends EXCEPT !.wait = "error"] /\ Breaks
    /\ UNCHANGED <<session, engine, copied, host, queue, signals>>

\* One read and the write of it to the host, who may be slow or closed.
CopyOutput ==
    /\ ends.output = "copying" /\ copied < engine.sent
    /\ \/ copied' = copied + 1 /\ UNCHANGED ends /\ Fine
       \/ ends' = [ends EXCEPT !.output = "error"] /\ UNCHANGED copied /\ Breaks
    /\ UNCHANGED <<session, engine, host, queue, signals>>

Torn == ~session.tty /\ copied % 2 = 1

\* CopyMultiplexedOutput accepts an end between frames only; a terminal's stream
\* has none.
OutputEnds ==
    /\ ends.output = "copying" /\ copied = engine.sent /\ engine.stream \in {"eof", "bad"}
    /\ ends' = [ends EXCEPT !.output =
                   IF engine.stream = "eof" /\ ~Torn THEN "eof" ELSE "error"]
    /\ UNCHANGED <<session, engine, copied, host, queue, signals, broken>>

\* copyToolInput: the source ends and the stream is half-closed, the source fails,
\* or the tool no longer reads (EPIPE and the like become ErrClosedPipe).
InputEnds ==
    /\ ends.input = "copying"
    /\ \/ ends' = [ends EXCEPT !.input = "done"] /\ Fine
       \/ ends' = [ends EXCEPT !.input = "error"] /\ Breaks
       \/ /\ engine.tool = "exited" \/ engine.stream # "open"
          /\ ends' = [ends EXCEPT !.input = "closedPipe"] /\ Fine
    /\ UNCHANGED <<session, engine, copied, host, queue, signals>>

-----------------------------------------------------------------------------
(* The select loop *)

\* A failed source wins over the status; a source still blocked is left alone.
FinishToolResult ==
    IF ends.input = "error"
    THEN session' = [session EXCEPT !.running = FALSE, !.step = "cleanup", !.outcome = "error"]
    ELSE session' = [session EXCEPT !.running = FALSE, !.step = "cleanup", !.outcome = ends.wait]

Mutant_TakeWait ==  \* the exit ends the run, whatever is still under way
    /\ Is("select") /\ ends.wait \notin {"off", "waiting"}
    /\ IF ends.wait = "error" THEN Error ELSE FinishToolResult
    /\ UNCHANGED <<engine, copied, ends, host, queue, signals, broken>>

TakeWait ==
    /\ Is("select") /\ ends.wait \notin {"off", "waiting"}
    /\ IF ends.wait = "error" THEN Error
       ELSE IF ends.output = "taken" THEN FinishToolResult
       ELSE session' = [session EXCEPT !.running = FALSE, !.step = "drain"]
    /\ UNCHANGED <<engine, copied, ends, host, queue, signals, broken>>

TakeOutput ==
    /\ Is("select") /\ ends.output \in {"eof", "error"}
    /\ IF ends.output = "error" THEN Error ELSE UNCHANGED session
    /\ ends' = [ends EXCEPT !.output = "taken"]
    /\ UNCHANGED <<engine, copied, host, queue, signals, broken>>

TakeInput ==
    /\ Is("select") /\ ends.input \in {"done", "closedPipe", "error"}
    /\ IF ends.input = "error" THEN Error ELSE UNCHANGED session
    /\ ends' = [ends EXCEPT !.input = "taken"]
    /\ UNCHANGED <<engine, copied, host, queue, signals, broken>>

\* The forwarded signal or size; what the tool makes of it is ContainerEnds.
TakeEvent ==
    /\ Is("select") /\ queue # <<>>
    /\ queue' = Tail(queue)
    /\ Tolerates("select")
    /\ UNCHANGED <<engine, copied, ends, host, signals>>

DrainOutput ==
    /\ Is("drain") /\ ends.output \in {"eof", "error"}
    /\ IF ends.output = "error" THEN Error ELSE FinishToolResult
    /\ UNCHANGED <<engine, copied, ends, host, queue, signals, broken>>

Mutant_DrainTimesOut ==  \* waits as long as the stream does not close
    /\ Is("drain") /\ engine.stream # "open" /\ copied = engine.sent
    /\ Error /\ Breaks
    /\ UNCHANGED <<engine, copied, ends, host, queue, signals>>

\* outputDrainTimeout: the stream does not close, or the host reads too slowly.
DrainTimesOut ==
    /\ Is("drain") /\ ends.output = "copying"
    /\ Error /\ Breaks
    /\ UNCHANGED <<engine, copied, ends, host, queue, signals>>

-----------------------------------------------------------------------------
(* The deferred clean-up *)

Mutant_CloseAndRestore ==  \* signals get their default disposition back first
    /\ Is("cleanup")
    /\ host' = [terminal |-> "cooked", intercept |-> FALSE]
    /\ ends' = [ends EXCEPT !.output = "off", !.input = "off", !.wait = "off"]
    /\ Then(IF session.running THEN "stop" ELSE "remove")
    /\ UNCHANGED <<engine, copied, queue, signals, broken>>

\* cancelRun and the closed stream end the goroutines; the terminal is restored.
CloseAndRestore ==
    /\ Is("cleanup")
    /\ ends' = [output |-> "off", input |-> "off", wait |-> "off"]
    /\ \E failed \in BOOLEAN :
          /\ session' = [session EXCEPT !.step = IF session.running THEN "stop" ELSE "remove",
                                        !.outcome = IF failed THEN "error" ELSE @]
          /\ \E mode \in {"cooked"} \union (IF failed THEN {host.terminal} ELSE {}) :
                host' = [host EXCEPT !.terminal = mode]
          /\ broken' = (broken \/ failed)
    /\ UNCHANGED <<engine, copied, queue, signals>>

\* SIGKILL and a second wait, within cleanupTimeout; a failure of either leaves
\* the container to the removal, which refuses a running one.
StopTool ==
    /\ Is("stop")
    /\ \/ engine' = [engine EXCEPT !.tool = IF @ = "running" THEN "exited" ELSE @,
                                   !.status = IF engine.tool = "running" THEN "killed" ELSE @]
       \/ UNCHANGED engine
    /\ Then("remove") /\ Breaks
    /\ UNCHANGED <<copied, ends, host, queue, signals>>

Mutant_RemoveTool ==  \* the removal does not look whether the tool runs
    /\ Is("remove")
    /\ engine' = [engine EXCEPT !.tool = "removed"]
    /\ Then("restoreSignals") /\ Fine
    /\ UNCHANGED <<copied, ends, host, queue, signals>>

RemoveTool ==
    /\ Is("remove")
    /\ \/ /\ engine.tool # "running" /\ engine' = [engine EXCEPT !.tool = "removed"]
          /\ Then("restoreSignals") /\ Fine
       \/ /\ UNCHANGED engine
          /\ session' = [session EXCEPT !.step = "restoreSignals", !.outcome = "error",
                                        !.untidy = TRUE]
          /\ Breaks
    /\ UNCHANGED <<copied, ends, host, queue, signals>>

StopEvents ==
    /\ Is("restoreSignals") /\ Then("closeLease")
    /\ host' = [host EXCEPT !.intercept = FALSE]
    /\ queue' = <<>>
    /\ UNCHANGED <<engine, copied, ends, signals, broken>>

CloseLease ==
    /\ Is("closeLease")
    /\ \/ Then("ended") /\ Fine
       \/ session' = [session EXCEPT !.step = "ended", !.outcome = "error"] /\ Breaks
    /\ UNCHANGED <<engine, copied, ends, host, queue, signals>>

\* What the shim does by itself, and the Engine's answers it waits for.
ShimStep ==
    \/ Adopt \/ StartEvents \/ Attach \/ PrepareTerminal \/ Start \/ InitialResize \/ StartCopying
    \/ WaitAnswers \/ OutputEnds \/ TakeWait \/ TakeOutput \/ TakeInput \/ TakeEvent
    \/ DrainOutput \/ DrainTimesOut
    \/ CloseAndRestore \/ StopTool \/ RemoveTool \/ StopEvents \/ CloseLease

ToolSessionNext ==
    \/ ShimStep
    \/ ContainerWrites \/ ContainerEnds \/ StreamEnds
    \/ CopyOutput \/ InputEnds \/ HostSignal

ToolSessionSpec == ToolSessionInit /\ [][ToolSessionNext]_toolSessionVars

-----------------------------------------------------------------------------
(* Properties *)

\* A run that returns a status returns the tool's own, after all the output the
\* stream brought, of whole frames, has been written: the ends of the tool, of
\* its output and of its input come in any order (executeTool's select loop).
ResultTrue ==
    Is("ended") /\ session.outcome # "error" =>
        /\ session.outcome = engine.status /\ engine.status = "status"
        /\ copied = engine.sent /\ ~Torn
        /\ engine.tool = "removed"

\* Signals, sizes and input that race with the tool's exit do not make a run fail:
\* one that fails has met a real failure of the Engine, of the stream or of the
\* host (containerCompletionRace, inputPeerClosed, docs/wsl-process-contract.md
\* "a normal wait result preserves the tool exit status").
RacesAreNotFailures ==
    session.outcome = "error" => broken

\* No catchable signal ends the shim while its tool runs or its terminal is raw,
\* not even in the clean-up, unless the container could not be removed (startEvents
\* to stopEvents, "strand a retained container").
NoStrandedTool ==
    Is("dead") =>
        /\ engine.tool \in {"created", "removed"} \/ session.untidy
        /\ host.terminal = "cooked" \/ broken

\* Once the tool is over the run comes to its end without the host reading,
\* typing or signalling, and whether or not the Engine closes the stream.
NeverWaitsOnHost ==
    engine.tool \in {"exited", "removed"} /\ session.step \notin {"ended", "dead"} =>
        ENABLED ShimStep

-----------------------------------------------------------------------------
(* The session as a tool run *)

ToolSeen == IF engine.tool = "created" THEN "none" ELSE engine.tool
Course ==
    IF session.step \in {"ended", "dead"} THEN "over"
    ELSE IF session.step \in {"cleanup", "stop", "remove", "restoreSignals", "closeLease"}
    THEN "closing" ELSE "open"

Run == INSTANCE ToolRun WITH tool <- ToolSeen, run <- Course

\* The session is a tool run: the container is started once, whatever the answer, is
\* neither killed nor removed before the clean-up, and removed only when the tool
\* does not run (executeTool's deferred clean-up).
ImplementsToolRun == Run!ToolRunSpec
=============================================================================
