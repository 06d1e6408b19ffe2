-------------------------- MODULE ToolSessionProofs --------------------------
(***************************************************************************)
(* Proofs about a tool session, for any number of output frames, any       *)
(* number of signals and any buffer: what a returned status is worth, what *)
(* an error means, and that no signal strands the container.  The session  *)
(* has one thread of steps beside three results that arrive at any time,   *)
(* so that the invariant says of each step what must have happened before  *)
(* it, and of each result what its arrival proves.                         *)
(***************************************************************************)
EXTENDS ToolSession, TLAPS

Before == {"adopt", "events", "attach", "terminal", "start"}
During == {"resize", "copy", "select", "drain"}
After == {"cleanup", "stop", "remove", "restoreSignals", "closeLease", "ended"}

Steps == Before \union During \union After \union {"dead"}
Outcomes == {"none", "error", "status", "killed"}

Sessions == [tty : BOOLEAN, step : Steps, running : BOOLEAN, outcome : Outcomes, untidy : BOOLEAN]
Engines == [tool : {"created", "running", "exited", "removed"},
            status : {"none", "status", "killed"}, sent : Nat,
            stream : {"none", "open", "eof", "bad"}]
Results == [output : {"off", "copying", "eof", "error", "taken"},
            input : {"off", "copying", "done", "closedPipe", "error", "taken"},
            wait : {"off", "waiting", "status", "killed", "error"}]
Hosts == [terminal : {"cooked", "raw"}, intercept : BOOLEAN]

SessionTypes ==
    /\ session \in Sessions /\ engine \in Engines /\ ends \in Results /\ host \in Hosts
    /\ copied \in Nat /\ broken \in BOOLEAN

\* All the output has been written, and the stream ended between two frames.
Complete == engine.stream = "eof" /\ copied = engine.sent /\ ~Torn

\* The container as the steps of the session know it.
ToolInStep ==
    /\ session.step \in Before => engine.tool = "created"
    /\ session.step \in During => engine.tool \in {"running", "exited"}
    /\ engine.tool = "created" => engine.status = "none"
    /\ engine.tool = "running" => engine.status = "none"
    /\ engine.tool = "exited" => engine.status # "none"
    /\ session.step \in {"restoreSignals", "closeLease", "ended"} =>
          engine.tool = "removed" \/ (session.untidy /\ session.outcome = "error")
    /\ engine.status = "killed" => session.outcome = "error" \/ session.step = "dead"

\* What the arrival of a result proves.
ResultsTrue ==
    /\ ends.wait = "status" => engine.status = "status"
    /\ ends.wait # "killed" \/ session.step \in After \union {"dead"}
    /\ ends.output = "eof" => Complete
    /\ ends.output = "taken" => Complete \/ session.step \in After \union {"dead"}
    /\ session.step = "drain" => ends.wait = "status"
    /\ session.step \in Before \union {"resize", "copy"} => ends.output = "off"

\* The outcome is open until the clean-up begins, and decided from then on.
OutcomeInStep ==
    /\ session.step \in Before \union During => session.outcome = "none"
    /\ session.step \in After =>
          \/ session.outcome = "error"
          \/ /\ session.outcome = "status" /\ engine.status = "status"
             /\ Complete /\ ~session.running /\ session.step # "stop"
             /\ engine.tool \in {"exited", "removed"}

\* Every error has a cause that is no race with the exit.
FailuresExplained ==
    /\ ends.output = "error" => broken
    /\ ends.input = "error" => broken
    /\ ends.wait = "error" => broken
    /\ engine.stream = "bad" => broken
    /\ broken \/ engine.sent % 2 = 0
    /\ session.outcome = "error" => broken

\* Signals are intercepted while a container depends on the shim; a raw terminal
\* is restored before they no longer are.
Guarded ==
    /\ session.step \in (Before \union During) \ {"adopt", "events"} => host.intercept
    /\ session.step \in {"adopt", "events"} => host.terminal = "cooked"
    /\ host.intercept \/ engine.tool \in {"created", "removed"} \/ session.untidy
    /\ host.intercept \/ host.terminal = "cooked" \/ broken
    /\ session.step \in {"stop", "remove", "restoreSignals", "closeLease", "ended"} =>
          host.terminal = "cooked" \/ broken
    /\ session.step = "dead" => ~host.intercept

SessionInv ==
    /\ SessionTypes /\ ToolInStep /\ ResultsTrue /\ OutcomeInStep
    /\ FailuresExplained /\ Guarded

-----------------------------------------------------------------------------
(* The invariant *)

LEMMA SessionInitInv == ToolSessionInit => SessionInv
<1> SUFFICES ASSUME ToolSessionInit PROVE SessionInv
  OBVIOUS
<1> USE DEF ToolSessionInit, Before, During, After
<1>1. SessionTypes
  BY DEF SessionTypes, Sessions, Engines, Results, Hosts, Steps, Outcomes
<1>2. ToolInStep  BY DEF ToolInStep
<1>3. ResultsTrue  BY DEF ResultsTrue
<1>4. OutcomeInStep  BY DEF OutcomeInStep
<1>5. FailuresExplained  BY DEF FailuresExplained
<1>6. Guarded  BY DEF Guarded
<1> QED  BY <1>1, <1>2, <1>3, <1>4, <1>5, <1>6 DEF SessionInv


\* What a start does: the container runs if the answer says so, and perhaps if it
\* does not, in which case the clean-up follows.
LEMMA StartStep ==
  ASSUME Start, session \in Sessions, ends \in Results, engine \in Engines
  PROVE  /\ session.step = "start"
         /\ session' \in Sessions /\ ends' \in Results /\ engine' \in Engines
         /\ session'.tty = session.tty /\ session'.running /\ session'.untidy = session.untidy
         /\ engine' = engine \/ engine' = [engine EXCEPT !.tool = "running"]
         /\ \/ /\ session'.step \in {"copy", "resize"} /\ session'.outcome = session.outcome
               /\ engine'.tool = "running" /\ broken' = broken
               /\ ends' = [ends EXCEPT !.wait = "waiting"]
            \/ /\ session'.step = "cleanup" /\ session'.outcome = "error" /\ broken'
               /\ ends' = ends
         /\ copied' = copied /\ host' = host
<1> USE DEF Sessions, Results, Engines, Steps, Outcomes, Before, During, After, Breaks, Fine, Is
<1>1. PICK acted \in BOOLEAN, answered \in BOOLEAN :
        /\ answered => acted
        /\ engine' = [engine EXCEPT !.tool = IF acted THEN "running" ELSE @]
        /\ IF answered
           THEN /\ \E next \in {"copy"} \union (IF session.tty THEN {"resize"} ELSE {}) :
                      session' = [session EXCEPT !.running = TRUE, !.step = next]
                /\ ends' = [ends EXCEPT !.wait = "waiting"]
                /\ Fine
           ELSE /\ session' = [session EXCEPT !.running = TRUE, !.step = "cleanup",
                                              !.outcome = "error"]
                /\ UNCHANGED ends /\ Breaks
  BY DEF Start
<1>2. engine' = engine \/ engine' = [engine EXCEPT !.tool = "running"]
  BY <1>1
<1>3. session.step = "start" /\ copied' = copied /\ host' = host
  BY DEF Start
<1>4. CASE answered
  <2>1. PICK next \in {"copy"} \union (IF session.tty THEN {"resize"} ELSE {}) :
          session' = [session EXCEPT !.running = TRUE, !.step = next]
    BY <1>1, <1>4
  <2>2. next \in {"copy", "resize"}
    BY <2>1
  <2>3. /\ session' \in Sessions /\ session'.step = next /\ session'.running
        /\ session'.tty = session.tty /\ session'.untidy = session.untidy
        /\ session'.outcome = session.outcome
    BY <2>1, <2>2
  <2>4. engine' = [engine EXCEPT !.tool = "running"] /\ engine'.tool = "running"
    BY <1>1, <1>4
  <2> QED
    BY <1>1, <1>2, <1>3, <1>4, <2>2, <2>3, <2>4
<1>5. CASE ~answered
  BY <1>1, <1>2, <1>3, <1>5
<1> QED
  BY <1>4, <1>5

\* A step that passes on to the next one, or fails into the clean-up.
Passes(from, to) ==
    /\ session.step = from /\ session' \in Sessions
    /\ session'.tty = session.tty /\ session'.running = session.running
    /\ session'.untidy = session.untidy
    /\ \/ session'.step = to /\ session'.outcome = session.outcome
       \/ session'.step = "cleanup" /\ session'.outcome = "error"

\* The steps that do, and what they leave alone.
LEMMA Passing ==
  ASSUME session \in Sessions
  PROVE  /\ Adopt => Passes("adopt", "events") /\ UNCHANGED <<engine, copied, ends, host>>
         /\ Attach => /\ Passes("attach", "terminal") /\ UNCHANGED <<copied, ends, host>>
                      /\ engine' \in {engine, [engine EXCEPT !.stream = "open"]}
         /\ PrepareTerminal => /\ Passes("terminal", "start")
                               /\ UNCHANGED <<engine, copied, ends>>
         /\ InitialResize => /\ Passes("resize", "copy")
                             /\ UNCHANGED <<engine, copied, ends, host>>
         /\ TakeOutput => /\ Passes("select", "select") /\ UNCHANGED <<engine, copied, host, broken>>
                          /\ ends' = [ends EXCEPT !.output = "taken"]
                          /\ ends.output = "eof" \/ session'.step = "cleanup"
         /\ TakeInput => /\ Passes("select", "select") /\ UNCHANGED <<engine, copied, host, broken>>
                         /\ ends' = [ends EXCEPT !.input = "taken"]
         /\ TakeEvent => /\ Passes("select", "select")
                         /\ UNCHANGED <<engine, copied, ends, host>>
<1> USE DEF Sessions, Steps, Outcomes, Before, During, After, Is, Then, Error
<1> DEFINE Moves(from, to) ==
      /\ session.step = from
      /\ \/ session' = [session EXCEPT !.step = to]
         \/ session' = [session EXCEPT !.step = "cleanup", !.outcome = "error"]
<1>1. ASSUME NEW from \in Steps, NEW to \in Steps, Moves(from, to) PROVE Passes(from, to)
  <2>1. CASE session' = [session EXCEPT !.step = to]
    BY <1>1, <2>1 DEF Passes
  <2>2. CASE session' = [session EXCEPT !.step = "cleanup", !.outcome = "error"]
    BY <1>1, <2>2 DEF Passes
  <2> QED
    BY <1>1, <2>1, <2>2
<1>2. Adopt => Moves("adopt", "events")  BY DEF Adopt, WorksOr
<1>3. Attach => Moves("attach", "terminal")  BY DEF Attach
<1>4. PrepareTerminal => Moves("terminal", "start")  BY DEF PrepareTerminal
<1>5. InitialResize => Moves("resize", "copy")  BY DEF InitialResize, Tolerates, WorksOr
<1>6. TakeEvent => Moves("select", "select")  BY DEF TakeEvent, Tolerates, WorksOr
<1>7. session = [session EXCEPT !.step = session.step]
  OBVIOUS
<1>8. TakeOutput => Moves("select", "select")  BY <1>7 DEF TakeOutput
<1>9. TakeInput => Moves("select", "select")  BY <1>7 DEF TakeInput
<1>10. /\ {"adopt", "events", "attach", "terminal", "start", "resize", "copy", "select"}
            \subseteq Steps
  OBVIOUS
<1> HIDE DEF Moves
<1>11. Adopt => Passes("adopt", "events")  BY <1>1, <1>2, <1>10
<1>12. Attach => Passes("attach", "terminal")  BY <1>1, <1>3, <1>10
<1>13. PrepareTerminal => Passes("terminal", "start")  BY <1>1, <1>4, <1>10
<1>14. InitialResize => Passes("resize", "copy")  BY <1>1, <1>5, <1>10
<1>15. TakeEvent => Passes("select", "select")  BY <1>1, <1>6, <1>10
<1>16. TakeOutput => Passes("select", "select")  BY <1>1, <1>8, <1>10
<1>17. TakeInput => Passes("select", "select")  BY <1>1, <1>9, <1>10
<1>18. Attach => engine' \in {engine, [engine EXCEPT !.stream = "open"]}
  BY DEF Attach
<1>19. TakeOutput => ends.output = "eof" \/ session'.step = "cleanup"
  BY DEF TakeOutput
<1> QED
  BY <1>11, <1>12, <1>13, <1>14, <1>15, <1>16, <1>17, <1>18, <1>19
  DEF Adopt, Attach, PrepareTerminal, InitialResize, TakeEvent, TakeOutput, TakeInput

\* Nothing but a new attachment takes back that all the output has been written.
LEMMA CompleteStays ==
  ASSUME SessionTypes, Complete, [ToolSessionNext]_toolSessionVars, session.step # "attach"
  PROVE  Complete'
<1> USE DEF SessionTypes, Sessions, Engines, Complete, Torn
<1>1. session'.tty = session.tty
  <2> USE DEF Then, Error
  <2>1. CASE Start  BY <2>1, StartStep
  <2>2. CASE TakeWait  BY <2>2 DEF TakeWait, FinishToolResult
  <2>3. CASE HostSignal  BY <2>3 DEF HostSignal
  <2> QED
    BY <2>1, <2>2, <2>3 DEF ToolSessionNext, ShimStep, toolSessionVars, Adopt, WorksOr,
       StartEvents, Attach, PrepareTerminal, InitialResize, Tolerates, StartCopying,
       WaitAnswers, OutputEnds, TakeOutput, TakeInput, TakeEvent, DrainOutput,
       FinishToolResult, DrainTimesOut, CloseAndRestore, StopTool, RemoveTool, StopEvents,
       CloseLease, ContainerWrites, ContainerEnds, StreamEnds, CopyOutput, InputEnds
<1>2. copied' = copied /\ engine'.sent = engine.sent /\ engine'.stream = engine.stream
  <2>1. CASE Start  BY <2>1, StartStep
  <2>2. CASE CopyOutput  BY <2>2 DEF CopyOutput
  <2> QED
    BY <2>1, <2>2 DEF ToolSessionNext, ShimStep, toolSessionVars, Adopt, Is, StartEvents,
       Attach, PrepareTerminal, InitialResize, StartCopying, WaitAnswers, OutputEnds,
       TakeWait, TakeOutput, TakeInput, TakeEvent, DrainOutput, DrainTimesOut,
       CloseAndRestore, StopTool, RemoveTool, StopEvents, CloseLease, ContainerWrites,
       ContainerEnds, StreamEnds, InputEnds, HostSignal
<1> QED
  BY <1>1, <1>2

\* The session's variables keep their types.
LEMMA SessionType ==
    SessionInv /\ [ToolSessionNext]_toolSessionVars => session' \in Sessions
<1> SUFFICES ASSUME SessionInv, [ToolSessionNext]_toolSessionVars PROVE session' \in Sessions
  OBVIOUS
<1> USE DEF SessionInv, SessionTypes, ToolInStep, ResultsTrue, Sessions, Outcomes, Steps, Before, During,
   After, Then, Error, Is, Results
<1>1. CASE Adopt  BY <1>1, Passing DEF Passes
<1>2. CASE StartEvents  BY <1>2 DEF StartEvents
<1>3. CASE Attach  BY <1>3, Passing DEF Passes
<1>4. CASE PrepareTerminal  BY <1>4, Passing DEF Passes
<1>5. CASE Start
  BY <1>5, StartStep
<1>6. CASE InitialResize  BY <1>6, Passing DEF Passes
<1>7. CASE StartCopying  BY <1>7 DEF StartCopying
<1>8. CASE TakeWait
  <2>1. ends.wait \in {"status", "error"}
    BY <1>8 DEF TakeWait
  <2>2. \/ session' = [session EXCEPT !.step = "cleanup", !.outcome = "error"]
        \/ session' = [session EXCEPT !.running = FALSE, !.step = "drain"]
        \/ session' = [session EXCEPT !.running = FALSE, !.step = "cleanup", !.outcome = "error"]
        \/ session' = [session EXCEPT !.running = FALSE, !.step = "cleanup", !.outcome = "status"]
    BY <1>8, <2>1 DEF TakeWait, FinishToolResult
  <2> QED
    BY <2>2
<1>9. CASE TakeOutput  BY <1>9, Passing DEF Passes
<1>10. CASE TakeInput  BY <1>10, Passing DEF Passes
<1>11. CASE TakeEvent  BY <1>11, Passing DEF Passes
<1>12. CASE DrainOutput
  <2>1. ends.wait = "status"
    BY <1>12 DEF DrainOutput
  <2>2. \/ session' = [session EXCEPT !.step = "cleanup", !.outcome = "error"]
        \/ session' = [session EXCEPT !.running = FALSE, !.step = "cleanup", !.outcome = "error"]
        \/ session' = [session EXCEPT !.running = FALSE, !.step = "cleanup", !.outcome = "status"]
    BY <1>12, <2>1 DEF DrainOutput, FinishToolResult
  <2> QED
    BY <2>2
<1>13. CASE DrainTimesOut  BY <1>13 DEF DrainTimesOut
<1>14. CASE CloseAndRestore  BY <1>14 DEF CloseAndRestore
<1>15. CASE StopTool  BY <1>15 DEF StopTool
<1>16. CASE RemoveTool  BY <1>16 DEF RemoveTool
<1>17. CASE StopEvents  BY <1>17 DEF StopEvents
<1>18. CASE CloseLease  BY <1>18 DEF CloseLease
<1>19. CASE HostSignal  BY <1>19 DEF HostSignal
<1>20. CASE UNCHANGED session  BY <1>20
<1> QED
  BY <1>1, <1>2, <1>3, <1>4, <1>5, <1>6, <1>7, <1>8, <1>9, <1>10, <1>11, <1>12, <1>13,
     <1>14, <1>15, <1>16, <1>17, <1>18, <1>19, <1>20 DEF ToolSessionNext, ShimStep,
     toolSessionVars, WaitAnswers, OutputEnds, ContainerWrites, ContainerEnds, StreamEnds,
     CopyOutput, InputEnds

\* The container's record keeps its type.
LEMMA EngineType ==
    SessionTypes /\ [ToolSessionNext]_toolSessionVars => engine' \in Engines
<1> SUFFICES ASSUME SessionTypes, [ToolSessionNext]_toolSessionVars PROVE engine' \in Engines
  OBVIOUS
<1> USE DEF SessionTypes, Engines
<1>1. CASE Attach  BY <1>1 DEF Attach
<1>2. CASE Start
  BY <1>2, StartStep
<1>3. CASE StopTool  BY <1>3 DEF StopTool
<1>4. CASE RemoveTool  BY <1>4 DEF RemoveTool
<1>5. CASE ContainerWrites  BY <1>5 DEF ContainerWrites
<1>6. CASE ContainerEnds  BY <1>6 DEF ContainerEnds
<1>7. CASE StreamEnds
  <2>1. CASE engine' = [engine EXCEPT !.stream = "eof"]
    BY <2>1
  <2>2. ASSUME NEW n \in copied .. engine.sent, NEW how \in {"eof", "bad"},
               engine' = [engine EXCEPT !.stream = how, !.sent = n]
        PROVE  engine' \in Engines
    <3>1. n \in Nat
      OBVIOUS
    <3> QED
      BY <2>2, <3>1
  <2> QED
    BY <1>7, <2>1, <2>2 DEF StreamEnds
<1>8. CASE UNCHANGED engine  BY <1>8
<1> QED
  BY <1>1, <1>2, <1>3, <1>4, <1>5, <1>6, <1>7, <1>8 DEF ToolSessionNext, ShimStep,
     toolSessionVars, Adopt, StartEvents, PrepareTerminal, InitialResize, StartCopying,
     WaitAnswers, OutputEnds, TakeWait, TakeOutput, TakeInput, TakeEvent, DrainOutput,
     DrainTimesOut, CloseAndRestore, StopEvents, CloseLease, CopyOutput, InputEnds,
     HostSignal

\* The goroutines' results keep their types.
LEMMA ResultsType ==
    SessionInv /\ [ToolSessionNext]_toolSessionVars => ends' \in Results
<1> SUFFICES ASSUME SessionInv, [ToolSessionNext]_toolSessionVars PROVE ends' \in Results
  OBVIOUS
<1> USE DEF SessionTypes, Results, Engines
<1> SessionTypes /\ ToolInStep
  BY DEF SessionInv
<1>1. CASE Start
  BY <1>1, StartStep
<1>2. CASE StartCopying  BY <1>2 DEF StartCopying
<1>3. CASE WaitAnswers  BY <1>3 DEF WaitAnswers, ToolInStep
<1>4. CASE OutputEnds  BY <1>4 DEF OutputEnds
<1>5. CASE TakeOutput  BY <1>5 DEF TakeOutput
<1>6. CASE TakeInput  BY <1>6 DEF TakeInput
<1>7. CASE CloseAndRestore  BY <1>7 DEF CloseAndRestore
<1>8. CASE CopyOutput  BY <1>8 DEF CopyOutput
<1>9. CASE InputEnds  BY <1>9 DEF InputEnds
<1>10. CASE UNCHANGED ends  BY <1>10
<1> QED
  BY <1>1, <1>2, <1>3, <1>4, <1>5, <1>6, <1>7, <1>8, <1>9, <1>10 DEF ToolSessionNext,
     ShimStep, toolSessionVars, Adopt, StartEvents, Attach, PrepareTerminal, InitialResize,
     TakeWait, TakeEvent, DrainOutput, DrainTimesOut, StopTool, RemoveTool, StopEvents,
     CloseLease, ContainerWrites, ContainerEnds, StreamEnds, HostSignal

\* The host's record keeps its type.
LEMMA HostType ==
    SessionTypes /\ [ToolSessionNext]_toolSessionVars => host' \in Hosts
<1> SUFFICES ASSUME SessionTypes, [ToolSessionNext]_toolSessionVars PROVE host' \in Hosts
  OBVIOUS
<1> USE DEF SessionTypes, Hosts
<1>1. CASE StartEvents  BY <1>1 DEF StartEvents
<1>2. CASE PrepareTerminal  BY <1>2 DEF PrepareTerminal
<1>3. CASE CloseAndRestore  BY <1>3 DEF CloseAndRestore
<1>4. CASE StopEvents  BY <1>4 DEF StopEvents
<1>5. CASE UNCHANGED host  BY <1>5
<1> QED
  BY <1>1, <1>2, <1>3, <1>4, <1>5 DEF ToolSessionNext, ShimStep, toolSessionVars, Adopt,
     Attach, Start, InitialResize, StartCopying, WaitAnswers, OutputEnds, TakeWait,
     TakeOutput, TakeInput, TakeEvent, DrainOutput, DrainTimesOut, StopTool, RemoveTool,
     CloseLease, ContainerWrites, ContainerEnds, StreamEnds, CopyOutput, InputEnds,
     HostSignal

\* The count of pieces stays a count.
LEMMA CopiedType ==
    SessionTypes /\ [ToolSessionNext]_toolSessionVars => copied' \in Nat
<1> SUFFICES ASSUME SessionTypes, [ToolSessionNext]_toolSessionVars PROVE copied' \in Nat
  OBVIOUS
<1> USE DEF SessionTypes, Engines
<1>1. CASE CopyOutput  BY <1>1 DEF CopyOutput
<1>2. CASE UNCHANGED copied  BY <1>2
<1> QED
  BY <1>1, <1>2 DEF ToolSessionNext, ShimStep, toolSessionVars, Adopt, StartEvents, Attach,
     PrepareTerminal, Start, InitialResize, StartCopying, WaitAnswers, OutputEnds, TakeWait,
     TakeOutput, TakeInput, TakeEvent, DrainOutput, DrainTimesOut, CloseAndRestore,
     StopTool, RemoveTool, StopEvents, CloseLease, ContainerWrites, ContainerEnds,
     StreamEnds, InputEnds, HostSignal

\* A failure is not forgotten.
LEMMA BrokenStays ==
    SessionTypes /\ [ToolSessionNext]_toolSessionVars => (broken' = broken \/ broken' = TRUE)
<1> SUFFICES ASSUME SessionTypes, [ToolSessionNext]_toolSessionVars
             PROVE  (broken' = broken \/ broken' = TRUE)
  OBVIOUS
<1> USE DEF SessionTypes, Breaks, Fine
<1>1. CASE Adopt  BY <1>1 DEF Adopt, WorksOr
<1>2. CASE Attach  BY <1>2 DEF Attach
<1>3. CASE PrepareTerminal  BY <1>3 DEF PrepareTerminal
<1>4. CASE Start
  BY <1>4, StartStep
<1>5. CASE InitialResize  BY <1>5 DEF InitialResize, WorksOr, Tolerates, CompletionRace
<1>6. CASE StreamEnds  BY <1>6 DEF StreamEnds
<1>7. CASE WaitAnswers  BY <1>7 DEF WaitAnswers
<1>8. CASE CopyOutput  BY <1>8 DEF CopyOutput
<1>9. CASE InputEnds  BY <1>9 DEF InputEnds
<1>10. CASE TakeEvent  BY <1>10 DEF TakeEvent, WorksOr, Tolerates, CompletionRace
<1>11. CASE DrainTimesOut  BY <1>11 DEF DrainTimesOut
<1>12. CASE CloseAndRestore  BY <1>12 DEF CloseAndRestore
<1>13. CASE StopTool  BY <1>13 DEF StopTool
<1>14. CASE RemoveTool  BY <1>14 DEF RemoveTool
<1>15. CASE CloseLease  BY <1>15 DEF CloseLease
<1>16. CASE UNCHANGED broken  BY <1>16
<1> QED
  BY <1>1, <1>2, <1>3, <1>4, <1>5, <1>6, <1>7, <1>8, <1>9, <1>10, <1>11, <1>12, <1>13,
     <1>14, <1>15, <1>16 DEF ToolSessionNext, ShimStep, toolSessionVars, StartEvents,
     StartCopying, OutputEnds, TakeWait, TakeOutput, TakeInput, DrainOutput, StopEvents,
     ContainerWrites, ContainerEnds, HostSignal

\* The invariant's types.
LEMMA TypesStep == SessionInv /\ [ToolSessionNext]_toolSessionVars => SessionTypes'
<1> SUFFICES ASSUME SessionInv, [ToolSessionNext]_toolSessionVars PROVE SessionTypes'
  OBVIOUS
<1>1. SessionTypes
  BY DEF SessionInv
<1>2. broken' \in BOOLEAN
  BY <1>1, BrokenStays DEF SessionTypes
<1> QED
  BY <1>1, <1>2, SessionType, EngineType, ResultsType, HostType, CopiedType DEF SessionTypes

\* The two steps that take the container's status: the run has failed, or all its
\* output has been written, or it goes on to drain the output.
LEMMA StatusStep ==
  ASSUME TakeWait \/ DrainOutput, SessionInv
  PROVE  /\ engine' = engine /\ copied' = copied /\ ends' = ends /\ host' = host
         /\ broken' = broken /\ session'.untidy = session.untidy
         /\ session.step \in {"select", "drain"}
         /\ \/ session'.step = "cleanup" /\ session'.outcome = "error" /\ broken
            \/ /\ session'.step = "cleanup" /\ session'.outcome = "status" /\ Complete
               /\ ends.wait = "status" /\ ~session'.running
            \/ session'.step = "drain" /\ session'.outcome = "none" /\ ends.wait = "status"
<1> USE DEF SessionInv, SessionTypes, Sessions, Results, After, During, Before, Is, Error
<1>1. /\ engine' = engine /\ copied' = copied /\ ends' = ends /\ host' = host
      /\ broken' = broken /\ session.step \in {"select", "drain"} /\ ends.wait # "killed"
  BY DEF TakeWait, DrainOutput, ResultsTrue
<1>2. session.outcome = "none"
  BY <1>1 DEF OutcomeInStep
<1>3. CASE session.step = "drain" /\ DrainOutput
  <2>1. ends.wait = "status"
    BY <1>3 DEF ResultsTrue
  <2>2. CASE ends.output = "error"
    BY <1>1, <1>3, <2>2 DEF DrainOutput, FailuresExplained
  <2>3. CASE ends.output = "eof" /\ ends.input = "error"
    BY <1>1, <1>3, <2>3 DEF DrainOutput, FinishToolResult, FailuresExplained
  <2>4. CASE ends.output = "eof" /\ ends.input # "error"
    BY <1>1, <1>3, <2>1, <2>4 DEF DrainOutput, FinishToolResult, ResultsTrue
  <2> QED
    BY <1>3, <2>2, <2>3, <2>4 DEF DrainOutput
<1>4. CASE session.step = "select" /\ TakeWait
  <2>1. ends.wait \in {"status", "error"}
    BY <1>1, <1>4 DEF TakeWait
  <2>2. CASE ends.wait = "error"
    BY <1>1, <1>4, <2>2 DEF TakeWait, FailuresExplained
  <2>3. CASE ends.wait = "status" /\ ends.output # "taken"
    BY <1>1, <1>2, <1>4, <2>3 DEF TakeWait
  <2>4. CASE ends.wait = "status" /\ ends.output = "taken" /\ ends.input = "error"
    BY <1>1, <1>4, <2>4 DEF TakeWait, FinishToolResult, FailuresExplained
  <2>5. CASE ends.wait = "status" /\ ends.output = "taken" /\ ends.input # "error"
    BY <1>1, <1>4, <2>5 DEF TakeWait, FinishToolResult, ResultsTrue
  <2> QED
    BY <2>1, <2>2, <2>3, <2>4, <2>5
<1> QED
  BY <1>3, <1>4 DEF TakeWait, DrainOutput

\* The steps know the container.
LEMMA ToolStep ==
    SessionInv /\ [ToolSessionNext]_toolSessionVars => ToolInStep'
<1> SUFFICES ASSUME SessionInv, [ToolSessionNext]_toolSessionVars PROVE ToolInStep'
  OBVIOUS
<1> USE DEF SessionInv, ToolInStep, ResultsTrue, OutcomeInStep, Guarded,
   SessionTypes, Sessions, Engines, Results, Before, During, After, Is, Then, Error
<1> SessionTypes /\ SessionTypes'
  BY TypesStep DEF SessionInv
<1>1. CASE Adopt  BY <1>1, Passing DEF Passes
<1>2. CASE StartEvents  BY <1>2 DEF StartEvents
<1>3. CASE Attach  BY <1>3, Passing DEF Passes
<1>4. CASE PrepareTerminal  BY <1>4, Passing DEF Passes
<1>5. CASE Start
  BY <1>5, StartStep
<1>6. CASE InitialResize  BY <1>6, Passing DEF Passes
<1>7. CASE StartCopying  BY <1>7 DEF StartCopying
<1>8. CASE TakeWait
  BY <1>8, StatusStep
<1>9. CASE TakeOutput  BY <1>9, Passing DEF Passes
<1>10. CASE TakeInput  BY <1>10, Passing DEF Passes
<1>11. CASE TakeEvent  BY <1>11, Passing DEF Passes
<1>12. CASE DrainOutput
  BY <1>12, StatusStep
<1>13. CASE DrainTimesOut  BY <1>13 DEF DrainTimesOut
<1>14. CASE CloseAndRestore  BY <1>14 DEF CloseAndRestore
<1>15. CASE StopTool  BY <1>15 DEF StopTool
<1>16. CASE RemoveTool
  <2>1. session.step = "remove" /\ session'.step = "restoreSignals"
    BY <1>16 DEF RemoveTool
  <2>2. \/ engine'.tool = "removed" /\ engine'.status = engine.status
        \/ engine' = engine /\ session'.untidy
    BY <1>16 DEF RemoveTool
  <2>3. session'.outcome = session.outcome \/ session'.outcome = "error"
    BY <1>16 DEF RemoveTool
  <2>4. \/ engine'.tool = "removed"
        \/ session'.untidy /\ session'.outcome = "error"
    BY <1>16 DEF RemoveTool
  <2> QED
    BY <2>1, <2>2, <2>3, <2>4
<1>17. CASE StopEvents  BY <1>17 DEF StopEvents
<1>18. CASE CloseLease
  <2>1. /\ session.step = "closeLease" /\ session'.step = "ended" /\ engine' = engine
        /\ session'.untidy = session.untidy /\ session'.outcome \in {session.outcome, "error"}
    BY <1>18 DEF CloseLease
  <2> QED
    BY <2>1
<1>19. CASE ContainerWrites
  <2>1. session' = session /\ engine'.tool = engine.tool /\ engine'.status = engine.status
    BY <1>19 DEF ContainerWrites
  <2> QED
    BY <2>1
<1>20. CASE ContainerEnds  BY <1>20 DEF ContainerEnds
<1>21. CASE StreamEnds
  <2>1. session' = session /\ engine'.tool = engine.tool /\ engine'.status = engine.status
    BY <1>21 DEF StreamEnds
  <2> QED
    BY <2>1
<1>22. CASE HostSignal  BY <1>22 DEF HostSignal
<1>23. CASE UNCHANGED <<session, engine>>  BY <1>23
<1> QED
  BY <1>1, <1>2, <1>3, <1>4, <1>5, <1>6, <1>7, <1>8, <1>9, <1>10, <1>11, <1>12, <1>13,
     <1>14, <1>15, <1>16, <1>17, <1>18, <1>19, <1>20, <1>21, <1>22, <1>23 DEF
     ToolSessionNext, ShimStep, toolSessionVars, WaitAnswers, OutputEnds, CopyOutput,
     InputEnds

\* Each result that arrives proves what it should.
LEMMA ResultsStep ==
    SessionInv /\ [ToolSessionNext]_toolSessionVars => ResultsTrue'
<1> SUFFICES ASSUME SessionInv, [ToolSessionNext]_toolSessionVars PROVE ResultsTrue'
  OBVIOUS
<1> USE DEF SessionInv, ResultsTrue, ToolInStep, OutcomeInStep,
   SessionTypes, Sessions, Engines, Results, Before, During, After, Is, Then, Error
<1> SessionTypes /\ SessionTypes'
  BY TypesStep DEF SessionInv
<1> session.step # "attach" /\ Complete => Complete'
  BY CompleteStays
<1>1. CASE Adopt  BY <1>1, Passing DEF Passes
<1>2. CASE StartEvents  BY <1>2 DEF StartEvents
<1>3. CASE Attach  BY <1>3, Passing DEF Passes
<1>4. CASE PrepareTerminal  BY <1>4 DEF PrepareTerminal
<1>5. CASE Start
  BY <1>5, StartStep
<1>6. CASE InitialResize  BY <1>6, Passing DEF Passes
<1>7. CASE StartCopying  BY <1>7 DEF StartCopying
<1>8. CASE WaitAnswers
  <2>1. session' = session /\ engine' = engine
    BY <1>8 DEF WaitAnswers
  <2>2. ends'.output = ends.output /\ ends.wait = "waiting"
    BY <1>8 DEF WaitAnswers
  <2>3. ends'.wait = "error" \/ (engine.tool = "exited" /\ ends'.wait = engine.status)
    BY <1>8 DEF WaitAnswers
  <2>4. engine.status = "killed" => session.step \in After \union {"dead"}
    BY DEF Steps
  <2> QED
    BY <2>1, <2>2, <2>3, <2>4
<1>9. CASE OutputEnds  BY <1>9 DEF OutputEnds, Complete, Torn
<1>10. CASE TakeWait
  BY <1>10, StatusStep
<1>11. CASE TakeOutput  BY <1>11, Passing DEF Passes
<1>12. CASE TakeInput  BY <1>12, Passing DEF Passes
<1>13. CASE TakeEvent  BY <1>13, Passing DEF Passes
<1>14. CASE DrainOutput
  BY <1>14, StatusStep
<1>15. CASE DrainTimesOut  BY <1>15 DEF DrainTimesOut
<1>16. CASE CloseAndRestore  BY <1>16 DEF CloseAndRestore
<1>17. CASE StopTool  BY <1>17 DEF StopTool
<1>18. CASE RemoveTool
  <2>1. session.step = "remove" /\ session'.step = "restoreSignals" /\ ends' = ends
    BY <1>18 DEF RemoveTool
  <2>2. engine'.status = engine.status
    BY <1>18 DEF RemoveTool
  <2> QED
    BY <2>1, <2>2
<1>19. CASE StopEvents  BY <1>19 DEF StopEvents
<1>20. CASE CloseLease
  <2>1. /\ session.step = "closeLease" /\ session'.step = "ended"
        /\ ends' = ends /\ engine' = engine
    BY <1>20 DEF CloseLease
  <2> QED
    BY <2>1
<1>21. CASE ContainerWrites  BY <1>21 DEF ContainerWrites
<1>22. CASE ContainerEnds  BY <1>22 DEF ContainerEnds
<1>23. CASE StreamEnds  BY <1>23 DEF StreamEnds
<1>24. CASE CopyOutput  BY <1>24 DEF CopyOutput
<1>25. CASE InputEnds  BY <1>25 DEF InputEnds
<1>26. CASE HostSignal  BY <1>26 DEF HostSignal
<1>27. CASE UNCHANGED <<session, engine, ends, copied>>  BY <1>27
<1> QED
  BY <1>1, <1>2, <1>3, <1>4, <1>5, <1>6, <1>7, <1>8, <1>9, <1>10, <1>11, <1>12, <1>13,
     <1>14, <1>15, <1>16, <1>17, <1>18, <1>19, <1>20, <1>21, <1>22, <1>23, <1>24, <1>25,
     <1>26, <1>27 DEF ToolSessionNext, ShimStep, toolSessionVars

\* The outcome is decided once, and on the ground of what has arrived.
LEMMA OutcomeStep ==
    SessionInv /\ [ToolSessionNext]_toolSessionVars => OutcomeInStep'
<1> SUFFICES ASSUME SessionInv, [ToolSessionNext]_toolSessionVars PROVE OutcomeInStep'
  OBVIOUS
<1> USE DEF SessionInv, OutcomeInStep, ResultsTrue, ToolInStep,
   SessionTypes, Sessions, Engines, Results, Before, During, After, Is, Then, Error
<1> SessionTypes /\ SessionTypes'
  BY TypesStep DEF SessionInv
<1> session.step # "attach" /\ Complete => Complete'
  BY CompleteStays
<1>1. CASE Adopt  BY <1>1, Passing DEF Passes
<1>2. CASE StartEvents  BY <1>2 DEF StartEvents
<1>3. CASE Attach  BY <1>3, Passing DEF Passes
<1>4. CASE PrepareTerminal  BY <1>4, Passing DEF Passes
<1>5. CASE Start
  BY <1>5, StartStep
<1>6. CASE InitialResize  BY <1>6, Passing DEF Passes
<1>7. CASE StartCopying  BY <1>7 DEF StartCopying
<1>8. CASE WaitAnswers  BY <1>8 DEF WaitAnswers
<1>9. CASE OutputEnds  BY <1>9 DEF OutputEnds
<1>10. CASE TakeWait
  BY <1>10, StatusStep
<1>11. CASE TakeOutput  BY <1>11, Passing DEF Passes
<1>12. CASE TakeInput  BY <1>12, Passing DEF Passes
<1>13. CASE TakeEvent  BY <1>13, Passing DEF Passes
<1>14. CASE DrainOutput
  BY <1>14, StatusStep
<1>15. CASE DrainTimesOut  BY <1>15 DEF DrainTimesOut
<1>16. CASE CloseAndRestore  BY <1>16 DEF CloseAndRestore
<1>17. CASE StopTool  BY <1>17 DEF StopTool
<1>18. CASE RemoveTool
  <2>1. session.step = "remove" /\ session'.step = "restoreSignals"
    BY <1>18 DEF RemoveTool
  <2>2. \/ session'.outcome = "error"
        \/ /\ session'.outcome = session.outcome /\ session'.running = session.running
           /\ engine'.tool = "removed" /\ engine'.status = engine.status
    BY <1>18 DEF RemoveTool
  <2> QED
    BY <2>1, <2>2
<1>19. CASE StopEvents  BY <1>19 DEF StopEvents
<1>20. CASE CloseLease
  <2>1. /\ session.step = "closeLease" /\ session'.step = "ended" /\ engine' = engine
        /\ session'.running = session.running /\ session'.outcome \in {session.outcome, "error"}
    BY <1>20 DEF CloseLease
  <2> QED
    BY <2>1
<1>21. CASE ContainerWrites  BY <1>21 DEF ContainerWrites
<1>22. CASE ContainerEnds  BY <1>22 DEF ContainerEnds
<1>23. CASE StreamEnds  BY <1>23 DEF StreamEnds
<1>24. CASE CopyOutput  BY <1>24 DEF CopyOutput
<1>25. CASE InputEnds  BY <1>25 DEF InputEnds
<1>26. CASE HostSignal  BY <1>26 DEF HostSignal
<1>27. CASE UNCHANGED <<session, engine, copied>>  BY <1>27
<1> QED
  BY <1>1, <1>2, <1>3, <1>4, <1>5, <1>6, <1>7, <1>8, <1>9, <1>10, <1>11, <1>12, <1>13,
     <1>14, <1>15, <1>16, <1>17, <1>18, <1>19, <1>20, <1>21, <1>22, <1>23, <1>24, <1>25,
     <1>26, <1>27 DEF ToolSessionNext, ShimStep, toolSessionVars

\* No race with the exit is taken for a failure.
LEMMA FailuresStep ==
    SessionInv /\ [ToolSessionNext]_toolSessionVars => FailuresExplained'
<1> SUFFICES ASSUME SessionInv, [ToolSessionNext]_toolSessionVars PROVE FailuresExplained'
  OBVIOUS
<1> USE DEF SessionInv, FailuresExplained, ToolInStep, Breaks, Fine,
   SessionTypes, Sessions, Engines, Results, Before, During, After, Is, Then, Error
<1> SessionTypes /\ SessionTypes'
  BY TypesStep DEF SessionInv
<1>1. CASE Adopt  BY <1>1 DEF Adopt, WorksOr
<1>2. CASE StartEvents  BY <1>2 DEF StartEvents
<1>3. CASE Attach  BY <1>3 DEF Attach
<1>4. CASE PrepareTerminal  BY <1>4 DEF PrepareTerminal
<1>5. CASE Start
  BY <1>5, StartStep
<1>6. CASE InitialResize  BY <1>6 DEF InitialResize, WorksOr, Tolerates, CompletionRace
<1>7. CASE StartCopying  BY <1>7 DEF StartCopying
<1>8. CASE WaitAnswers  BY <1>8 DEF WaitAnswers
<1>9. CASE OutputEnds  BY <1>9 DEF OutputEnds, Torn
<1>10. CASE TakeWait
  BY <1>10, StatusStep
<1>11. CASE TakeOutput  BY <1>11 DEF TakeOutput
<1>12. CASE TakeInput  BY <1>12 DEF TakeInput
<1>13. CASE TakeEvent  BY <1>13 DEF TakeEvent, WorksOr, Tolerates, CompletionRace
<1>14. CASE DrainOutput
  BY <1>14, StatusStep
<1>15. CASE DrainTimesOut  BY <1>15 DEF DrainTimesOut
<1>16. CASE CloseAndRestore  BY <1>16 DEF CloseAndRestore
<1>17. CASE StopTool  BY <1>17 DEF StopTool
<1>18. CASE RemoveTool  BY <1>18 DEF RemoveTool
<1>19. CASE StopEvents  BY <1>19 DEF StopEvents
<1>20. CASE CloseLease  BY <1>20 DEF CloseLease
<1>21. CASE ContainerWrites  BY <1>21 DEF ContainerWrites
<1>22. CASE ContainerEnds  BY <1>22 DEF ContainerEnds
<1>23. CASE StreamEnds  BY <1>23 DEF StreamEnds
<1>24. CASE CopyOutput  BY <1>24 DEF CopyOutput
<1>25. CASE InputEnds  BY <1>25 DEF InputEnds
<1>26. CASE HostSignal  BY <1>26 DEF HostSignal
<1>27. CASE UNCHANGED <<session, engine, ends, broken>>  BY <1>27
<1> QED
  BY <1>1, <1>2, <1>3, <1>4, <1>5, <1>6, <1>7, <1>8, <1>9, <1>10, <1>11, <1>12, <1>13,
     <1>14, <1>15, <1>16, <1>17, <1>18, <1>19, <1>20, <1>21, <1>22, <1>23, <1>24, <1>25,
     <1>26, <1>27 DEF ToolSessionNext, ShimStep, toolSessionVars

\* The container and the terminal stay guarded.
LEMMA GuardedStep ==
    SessionInv /\ [ToolSessionNext]_toolSessionVars => Guarded'
<1> SUFFICES ASSUME SessionInv, [ToolSessionNext]_toolSessionVars PROVE Guarded'
  OBVIOUS
<1> USE DEF SessionInv, Guarded, ToolInStep, OutcomeInStep, Breaks, Fine, Hosts,
   SessionTypes, Sessions, Engines, Results, Before, During, After, Is, Then, Error
<1> SessionTypes /\ SessionTypes'
  BY TypesStep DEF SessionInv
<1>1. CASE Adopt  BY <1>1, Passing DEF Passes
<1>2. CASE StartEvents  BY <1>2 DEF StartEvents
<1>3. CASE Attach  BY <1>3, Passing DEF Passes
<1>4. CASE PrepareTerminal
  <2>1. host'.intercept = host.intercept /\ (broken => broken')
    BY <1>4, BrokenStays DEF PrepareTerminal
  <2> QED
    BY <1>4, <2>1, Passing DEF Passes
<1>5. CASE Start
  BY <1>5, StartStep
<1>6. CASE InitialResize  BY <1>6, Passing DEF Passes
<1>7. CASE StartCopying  BY <1>7 DEF StartCopying
<1>8. CASE WaitAnswers  BY <1>8 DEF WaitAnswers
<1>9. CASE OutputEnds  BY <1>9 DEF OutputEnds
<1>10. CASE TakeWait
  BY <1>10, StatusStep
<1>11. CASE TakeOutput  BY <1>11, Passing DEF Passes
<1>12. CASE TakeInput  BY <1>12, Passing DEF Passes
<1>13. CASE TakeEvent  BY <1>13, Passing DEF Passes
<1>14. CASE DrainOutput
  BY <1>14, StatusStep
<1>15. CASE DrainTimesOut  BY <1>15 DEF DrainTimesOut
<1>16. CASE CloseAndRestore  BY <1>16 DEF CloseAndRestore
<1>17. CASE StopTool  BY <1>17 DEF StopTool
<1>18. CASE RemoveTool
  <2>1. session.step = "remove" /\ session'.step = "restoreSignals" /\ host' = host
    BY <1>18 DEF RemoveTool
  <2>2. \/ engine'.tool = "removed"
        \/ engine' = engine /\ session'.untidy
    BY <1>18 DEF RemoveTool
  <2>3. broken => broken'
    BY BrokenStays
  <2> QED
    BY <2>1, <2>2, <2>3
<1>19. CASE StopEvents  BY <1>19 DEF StopEvents
<1>20. CASE CloseLease
  <2>1. host' = host /\ engine' = engine /\ session'.untidy = session.untidy
    BY <1>20 DEF CloseLease
  <2>2. session.step = "closeLease" /\ session'.step \in {"ended"}
    BY <1>20 DEF CloseLease
  <2>3. broken => broken'
    BY BrokenStays
  <2> QED
    BY <2>1, <2>2, <2>3
<1>21. CASE ContainerWrites  BY <1>21 DEF ContainerWrites
<1>22. CASE ContainerEnds  BY <1>22 DEF ContainerEnds
<1>23. CASE StreamEnds  BY <1>23 DEF StreamEnds
<1>24. CASE CopyOutput  BY <1>24 DEF CopyOutput
<1>25. CASE InputEnds  BY <1>25 DEF InputEnds
<1>26. CASE HostSignal  BY <1>26 DEF HostSignal
<1>27. CASE UNCHANGED <<session, engine, host, broken>>  BY <1>27
<1> QED
  BY <1>1, <1>2, <1>3, <1>4, <1>5, <1>6, <1>7, <1>8, <1>9, <1>10, <1>11, <1>12, <1>13,
     <1>14, <1>15, <1>16, <1>17, <1>18, <1>19, <1>20, <1>21, <1>22, <1>23, <1>24, <1>25,
     <1>26, <1>27 DEF ToolSessionNext, ShimStep, toolSessionVars

-----------------------------------------------------------------------------
(* The theorems *)

\* Every reachable state satisfies the invariant.
THEOREM SessionInvHolds == ToolSessionSpec => []SessionInv
<1>1. SessionInv /\ [ToolSessionNext]_toolSessionVars => SessionInv'
  BY TypesStep, ToolStep, ResultsStep, OutcomeStep, FailuresStep, GuardedStep DEF SessionInv
<1> QED
  BY <1>1, SessionInitInv, PTL DEF ToolSessionSpec

\* A returned status is the tool's own, after all of its output (executeTool's select
\* loop and its drain), for any number of frames.
THEOREM ResultTrueHolds == ToolSessionSpec => []ResultTrue
<1>1. SessionInv => ResultTrue
  BY DEF SessionInv, SessionTypes, Engines, ResultTrue, Is, ToolInStep, OutcomeInStep, Complete,
     After
<1> QED
  BY <1>1, SessionInvHolds, PTL

\* A run that fails has met a real failure, never only a race with the tool's exit
\* (containerCompletionRace, inputPeerClosed).
THEOREM RacesAreNotFailuresHolds == ToolSessionSpec => []RacesAreNotFailures
<1>1. SessionInv => RacesAreNotFailures
  BY DEF SessionInv, RacesAreNotFailures, FailuresExplained
<1> QED
  BY <1>1, SessionInvHolds, PTL

\* No catchable signal ends the shim before its container is gone and its terminal is
\* restored (startEvents to stopEvents), for any number of signals.
THEOREM NoStrandedToolHolds == ToolSessionSpec => []NoStrandedTool
<1>1. SessionInv => NoStrandedTool
  BY DEF SessionInv, NoStrandedTool, Guarded, Is
<1> QED
  BY <1>1, SessionInvHolds, PTL

-----------------------------------------------------------------------------
(* The session as a tool run *)

\* The steps that leave the container as it is: the run goes on, gives up or ends.
LEMMA CourseStep ==
    ASSUME SessionInv, [ToolSessionNext]_toolSessionVars
    PROVE  \/ Course' = Course
           \/ Course = "open" /\ Course' = "closing"
           \/ Course # "over" /\ Course' = "over"
<1> DEFINE Moves ==
      \/ Course' = Course
      \/ Course = "open" /\ Course' = "closing"
      \/ Course # "over" /\ Course' = "over"
<1> USE DEF SessionInv, SessionTypes, Sessions, Course, Then, Error, Is
<1>1. CASE Adopt \/ Attach \/ PrepareTerminal \/ InitialResize \/ TakeOutput \/ TakeInput
           \/ TakeEvent
  BY <1>1, Passing DEF Passes
<1>2. CASE Start  BY <1>2, StartStep
<1>3. CASE StartEvents \/ StartCopying  BY <1>3 DEF StartEvents, StartCopying
<1>4. CASE TakeWait  BY <1>4 DEF TakeWait, FinishToolResult
<1>5. CASE DrainOutput  BY <1>5 DEF DrainOutput, FinishToolResult
<1>6. CASE DrainTimesOut \/ CloseAndRestore  BY <1>6 DEF DrainTimesOut, CloseAndRestore
<1>7. CASE StopTool \/ RemoveTool  BY <1>7 DEF StopTool, RemoveTool
<1>8. CASE StopEvents \/ CloseLease  BY <1>8 DEF StopEvents, CloseLease
<1>9. CASE HostSignal  BY <1>9 DEF HostSignal
<1>10. CASE UNCHANGED session  BY <1>10
<1> QED
  BY <1>1, <1>2, <1>3, <1>4, <1>5, <1>6, <1>7, <1>8, <1>9, <1>10 DEF ToolSessionNext,
     ShimStep, toolSessionVars, WaitAnswers, ContainerWrites, ContainerEnds, StreamEnds,
     CopyOutput, OutputEnds, InputEnds

\* Every step of the session is a step of a tool run, or none.
LEMMA SessionToolStep ==
    ASSUME SessionInv, [ToolSessionNext]_toolSessionVars
    PROVE  [Run!ToolRunNext]_(Run!toolRunVars)
<1> USE DEF Run!ToolRunNext, Run!toolRunVars
<1>1. ASSUME ToolSeen' = ToolSeen
      PROVE  Run!CloseRun \/ Run!EndRun \/ UNCHANGED Run!toolRunVars
  BY <1>1, CourseStep DEF Run!CloseRun, Run!Close, Run!EndRun
<1>2. CASE engine'.tool = engine.tool
  BY <1>1, <1>2 DEF ToolSeen
<1>3. CASE Start
  <2>1. engine.tool = "created" /\ Course = "open" /\ Course' \in {"open", "closing"}
    BY <1>3, StartStep DEF SessionInv, ToolInStep, Before, SessionTypes, Course
  <2>2. engine'.tool \in {engine.tool, "running"}
    BY <1>3, StartStep DEF SessionInv, SessionTypes, Engines
  <2>3. CASE engine'.tool = "running"
    BY <2>1, <2>3 DEF ToolSeen, Run!StartTool, Run!MayClose, Run!Close
  <2> QED
    BY <1>2, <2>2, <2>3
<1>4. CASE ContainerEnds
  BY <1>4 DEF ContainerEnds, SessionInv, SessionTypes, Engines, ToolSeen, Course, Run!ToolExits
<1>5. CASE StopTool
  <2>1. engine'.tool = engine.tool \/ (engine.tool = "running" /\ engine'.tool = "exited")
    BY <1>5 DEF StopTool, SessionInv, SessionTypes, Engines
  <2>2. Course' = Course
    BY <1>5 DEF StopTool, Is, Then, SessionInv, SessionTypes, Sessions, Course
  <2> QED
    BY <1>2, <2>1, <2>2 DEF ToolSeen, Run!ToolExits
<1>6. CASE RemoveTool
  <2>1. engine'.tool = engine.tool \/ (engine.tool # "running" /\ engine'.tool = "removed")
    BY <1>6 DEF RemoveTool, SessionInv, SessionTypes, Engines
  <2>2. Course = "closing" /\ Course' = "closing"
    BY <1>6 DEF RemoveTool, Is, Then, SessionInv, SessionTypes, Sessions, Course
  <2>3. engine.tool \in {"created", "running", "exited", "removed"}
    BY DEF SessionInv, SessionTypes, Engines
  <2> QED
    BY <1>2, <2>1, <2>2, <2>3 DEF ToolSeen, Run!RemoveContainer, Run!MayClose
<1>7. CASE Attach \/ ContainerWrites \/ StreamEnds
  BY <1>2, <1>7 DEF Attach, ContainerWrites, StreamEnds, SessionInv, SessionTypes, Engines
<1>8. CASE UNCHANGED engine
  BY <1>2, <1>8
<1> QED
  BY <1>3, <1>4, <1>5, <1>6, <1>7, <1>8 DEF ToolSessionNext, ShimStep, toolSessionVars,
     Adopt, StartEvents, PrepareTerminal, InitialResize, StartCopying, WaitAnswers, OutputEnds,
     TakeWait, TakeOutput, TakeInput, TakeEvent, DrainOutput, DrainTimesOut, CloseAndRestore,
     StopEvents, CloseLease, CopyOutput, InputEnds, HostSignal

\* The session keeps the promise of a tool run about its container, for any number of
\* frames and signals: one start, no kill and no removal before the clean-up.
THEOREM SessionIsToolRun == ToolSessionSpec => ImplementsToolRun
<1>1. ToolSessionInit => Run!ToolRunInit
  BY DEF ToolSessionInit, Run!ToolRunInit, ToolSeen, Course
<1>2. SessionInv /\ [ToolSessionNext]_toolSessionVars => [Run!ToolRunNext]_(Run!toolRunVars)
  BY SessionToolStep
<1> QED
  BY <1>1, <1>2, SessionInvHolds, PTL DEF ToolSessionSpec, ImplementsToolRun, Run!ToolRunSpec

-----------------------------------------------------------------------------
(* The shim always has a step of its own *)

\* Whoever is waited for has been asked: the Engine for the exit, the copying
\* goroutine for the end of the output, which is not taken twice.
ResultsDue ==
    /\ session.step \in During => ends.wait # "off"
    /\ session.step \in {"select", "drain"} => ends.output # "off"
    /\ session.step = "drain" => ends.output # "taken"

\* What a step leaves of that, unless it starts the tool, the copying or the drain.
LEMMA DueFrame ==
    ASSUME ResultsDue, session'.step \in During => session'.step = session.step,
           ends.wait # "off" => ends'.wait # "off",
           ends.output # "off" => ends'.output # "off",
           session'.step = "drain" /\ ends.output # "taken" => ends'.output # "taken"
    PROVE  ResultsDue'
BY DEF ResultsDue, During

LEMMA DueStep == SessionInv /\ ResultsDue /\ [ToolSessionNext]_toolSessionVars => ResultsDue'
<1> SUFFICES ASSUME SessionInv, ResultsDue, [ToolSessionNext]_toolSessionVars PROVE ResultsDue'
  OBVIOUS
<1> USE DEF SessionInv, SessionTypes, Sessions, Results, Is, Then, Error, During
<1>1. CASE Adopt \/ Attach \/ PrepareTerminal
  BY <1>1, Passing DEF Passes, ResultsDue
<1>2. CASE StartEvents \/ WaitAnswers \/ OutputEnds \/ InputEnds
  <2>1. \/ UNCHANGED session
        \/ session'.step = "attach" /\ ends' = ends
    BY <1>2 DEF StartEvents, WaitAnswers, OutputEnds, InputEnds
  <2>2. /\ ends.wait # "off" => ends'.wait # "off"
        /\ ends.output # "off" => ends'.output # "off"
        /\ ends.output # "taken" => ends'.output # "taken"
    <3>1. CASE StartEvents  BY <3>1 DEF StartEvents
    <3>2. CASE WaitAnswers
      <4>1. engine.tool = "exited" => engine.status # "off"
        BY DEF Engines
      <4> QED  BY <3>2, <4>1 DEF WaitAnswers
    <3>3. CASE OutputEnds  BY <3>3 DEF OutputEnds
    <3>4. CASE InputEnds  BY <3>4 DEF InputEnds
    <3> QED  BY <1>2, <3>1, <3>2, <3>3, <3>4
  <2> QED  BY <2>1, <2>2, DueFrame DEF ResultsDue
<1>3. CASE Start
  BY <1>3, StartStep DEF ResultsDue
<1>4. CASE InitialResize \/ TakeEvent
  BY <1>4, Passing DEF Passes, ResultsDue
<1>5. CASE StartCopying
  BY <1>5 DEF StartCopying, ResultsDue
<1>6. CASE TakeOutput \/ TakeInput
  BY <1>6, Passing DEF Passes, ResultsDue
<1>7. CASE TakeWait
  <2>1. /\ session.step = "select" /\ ends' = ends
        /\ session'.step = "cleanup" \/ (session'.step = "drain" /\ ends.output # "taken")
    BY <1>7 DEF TakeWait, FinishToolResult
  <2> QED  BY <2>1 DEF ResultsDue
<1>8. CASE DrainOutput \/ DrainTimesOut
  <2>1. session'.step = "cleanup"
    BY <1>8 DEF DrainOutput, DrainTimesOut, FinishToolResult
  <2> QED  BY <2>1 DEF ResultsDue
<1>9. CASE CloseAndRestore \/ StopTool \/ RemoveTool \/ StopEvents \/ CloseLease
  <2>1. session'.step \in {"stop", "remove", "restoreSignals", "closeLease", "ended"}
    BY <1>9 DEF CloseAndRestore, StopTool, RemoveTool, StopEvents, CloseLease
  <2> QED  BY <2>1 DEF ResultsDue
<1>10. CASE HostSignal
  <2>1. ends' = ends /\ session'.step \in {session.step, "dead"}
    BY <1>10 DEF HostSignal
  <2> QED  BY <2>1 DEF ResultsDue
<1>11. CASE CopyOutput
  BY <1>11 DEF CopyOutput, ResultsDue
<1>12. CASE UNCHANGED <<session, ends>>
  BY <1>12 DEF ResultsDue
<1> QED
  BY <1>1, <1>2, <1>3, <1>4, <1>5, <1>6, <1>7, <1>8, <1>9, <1>10, <1>11, <1>12
  DEF ToolSessionNext, ShimStep, toolSessionVars, ContainerWrites, ContainerEnds, StreamEnds

\* The guards of the shim's own steps, and of the answers it waits for, written out:
\* the steps before and after the select loop only have their place.
ShimMayStep ==
    \/ session.step \in Before \union {"resize", "copy", "cleanup", "stop", "remove",
                                       "restoreSignals", "closeLease"}
    \/ session.step = "select" /\ ends.wait \notin {"off", "waiting"}
    \/ ends.wait = "waiting"
    \/ session.step = "drain" /\ ends.output \in {"copying", "eof", "error"}

\* In every state of a session that is not over the shim has such a step, or has asked
\* for the tool's exit and waits for that alone: it never depends on the host reading,
\* typing or signalling, nor on the end of the stream.  This is the part of
\* NeverWaitsOnHost that can be stated without ENABLED, for any number of frames.
THEOREM SessionNeverStuck ==
    ToolSessionSpec => [](session.step \notin {"ended", "dead"} => ShimMayStep)
<1>1. ToolSessionInit => ResultsDue
  BY DEF ToolSessionInit, ResultsDue, During
<1>2. SessionInv /\ ResultsDue => (session.step \notin {"ended", "dead"} => ShimMayStep)
  BY DEF SessionInv, SessionTypes, Sessions, Results, Steps, Before, During, After, ResultsDue,
     ShimMayStep
<1> QED
  BY <1>1, <1>2, DueStep, SessionInvHolds, PTL DEF ToolSessionSpec

=============================================================================
