-------------------------------- MODULE ToolRun --------------------------------
(***************************************************************************)
(* What one native WSL tool run promises about its container, whatever     *)
(* fails, whoever is killed and however late a request acts: the tool is   *)
(* started at most once; while the run is open nobody signals, kills or    *)
(* removes it; a container is removed only when no tool runs in it, and    *)
(* stays removed.  A run that is over never comes back, while what it has  *)
(* left behind may still start late, be stopped and be removed by others.  *)
(***************************************************************************)
VARIABLES
    tool, \* "none" before the start, "running", "dying", "exited", or "removed"
    run   \* "open" as long as the run means to use it, "closing", or "over"

toolRunVars == <<tool, run>>

ToolRunInit == tool = "none" /\ run = "open"

\* The run gives its tool up; once it is over it stays so.
Close == run = "open" /\ run' = "closing"
MayClose == UNCHANGED run \/ Close

StartTool ==
    /\ tool = "none" /\ tool' = "running"
    /\ MayClose

ToolExits ==
    /\ tool \in {"running", "dying"} /\ tool' = "exited"
    /\ UNCHANGED run

KillTool ==
    /\ tool = "running" /\ run # "open"
    /\ tool' = "dying"
    /\ UNCHANGED run

\* A run that gives up may remove its container, which has run nothing, at once.
RemoveContainer ==
    /\ tool \in {"none", "exited"} /\ tool' = "removed"
    /\ MayClose /\ run' # "open"

CloseRun == Close /\ UNCHANGED tool
EndRun == run # "over" /\ run' = "over" /\ UNCHANGED tool

ToolRunNext ==
    StartTool \/ ToolExits \/ KillTool \/ RemoveContainer \/ CloseRun \/ EndRun

ToolRunSpec == ToolRunInit /\ [][ToolRunNext]_toolRunVars
=============================================================================
