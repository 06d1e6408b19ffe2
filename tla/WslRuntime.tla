------------------------------ MODULE WslRuntime ------------------------------
(***************************************************************************)
(* Native-WSL tool runs and the reconciliation of the containers that dead *)
(* runs leave behind.                                                      *)
(*                                                                         *)
(* A Runner executes one tool (internal/wslrun executeTool): under the     *)
(* namespace coordinator, an flock on the state directory, it first        *)
(* reconciles (internal/wslreconcile reconcileLocked), then creates its    *)
(* container and publishes a locked lease file; then it lets the           *)
(* coordinator go, runs the container, removes it and retires the lease.   *)
(* A Cleaner is "cb wsl cleanup --apply", a Checker "cb wsl cleanup        *)
(* --check".  A runner's container and lease carry its random run identity,*)
(* so both are named by the runner itself.                                 *)
(*                                                                         *)
(* One step is one Docker request or one file operation.  Locks taken with *)
(* flock end with the process.  A request the client gave up on may still  *)
(* reach the Engine later.                                                 *)
(***************************************************************************)
CONSTANTS
    Runner, Cleaner, Checker,
    Crashes,  \* a process may be killed at any point
    Faults    \* a Docker request or a file operation may fail

Process == Runner \union Cleaner \union Checker

ASSUME RuntimeAssumption ==
    /\ Runner \intersect (Cleaner \union Checker) = {}
    /\ Cleaner \intersect Checker = {}
    /\ Crashes \in BOOLEAN
    /\ Faults \in BOOLEAN

VARIABLES
    box,    \* the container of each run, as the Engine has it
    wire,   \* requests whose sender no longer waits for the answer
    coord,  \* who holds the coordinator
    path,   \* the runs whose lease file exists
    flock,  \* who holds the lock on the lease file of a run
    pc,     \* the next step of each process
    \* reconcileLocked's local state, of the process that holds the coordinator:
    todo,     \* candidates still to be proved
    names,    \* enumerated leases without a proven container
    target,   \* the container at hand
    running,  \* proven containers that were running
    orphans,  \* containers to remove
    residue,  \* leases to reap
    owed      \* history: containers listed after their runs had ended

pass == <<todo, names, target, running, orphans, residue, owed>>
vars == <<box, wire, coord, path, flock, pc, pass>>

Live == {"running", "dying"}
Stopped == {"created", "exited"}
Present == Live \union Stopped
Gone == {"absent", "removed"}

Over == {"ended", "dead"}
InPass == {"discover", "enumerate", "prove", "probe", "probeRest", "sweep",
           "stop", "waitStop", "check", "purge", "unlink", "reap"}
Cleaning == {"kill", "await", "inspect", "delete"}
Publishing == {"adopt", "lockLease", "letGo"}
\* The run has a container and still means to use or to remove it itself.
Using(c) == pc[c] \in Publishing \union {"attach", "start", "session"} \union Cleaning

\* An exclusive lock: nobody or one process.
Holder == {{}} \union {{p} : p \in Process}

Request == {"create", "start", "kill", "delete"} \X Runner

RuntimeInit ==
    /\ box = [c \in Runner |-> "absent"]
    /\ wire = {}
    /\ coord = {}
    /\ path = {}
    /\ flock = [c \in Runner |-> {}]
    /\ pc = [p \in Process |-> "begin"]
    /\ todo = {} /\ names = {} /\ target = {} /\ running = {}
    /\ orphans = {} /\ residue = {} /\ owed = {}

Goto(p, from, to) == pc[p] = from /\ pc' = [pc EXCEPT ![p] = to]

-----------------------------------------------------------------------------
(* The Engine *)

Mutant_After(kind, b) ==  \* DELETE with force
    IF kind = "create" /\ b = "absent" THEN "created"
    ELSE IF kind = "start" /\ b \in Stopped THEN "running"
    ELSE IF kind = "kill" /\ b = "running" THEN "dying"
    ELSE IF kind = "delete" /\ b \in Present THEN "removed"
    ELSE b

\* What a request does to a container; DELETE goes without force.
After(kind, b) ==
    IF kind = "create" /\ b = "absent" THEN "created"
    ELSE IF kind = "start" /\ b \in Stopped THEN "running"
    ELSE IF kind = "kill" /\ b = "running" THEN "dying"
    ELSE IF kind = "delete" /\ b \in Stopped THEN "removed"
    ELSE b

Do(kind, c) == box' = [box EXCEPT ![c] = After(kind, @)]

\* The Docker request process p is at, if its step is one.
Submitted(p) ==
    {r \in Request :
        \/ pc[p] = r[1] /\ p = r[2]
        \/ pc[p] = "stop" /\ r[1] = "kill" /\ r[2] \in target
        \/ pc[p] = "purge" /\ r[1] = "delete" /\ r[2] \in target}

\* The sender has no answer: the request may be lost or act later.
Unanswered(p) == \E sent \in SUBSET Submitted(p) : wire' = wire \union sent

Deliver ==
    \E r \in wire :
        /\ wire' = wire \ {r}
        /\ Do(r[1], r[2]) \/ UNCHANGED box
        /\ UNCHANGED <<coord, path, flock, pc, pass>>

ToolExits(c) ==
    /\ box[c] = "running"
    /\ box' = [box EXCEPT ![c] = "exited"]
    /\ UNCHANGED <<wire, coord, path, flock, pc, pass>>

KilledContainerDies(c) ==
    /\ box[c] = "dying"
    /\ box' = [box EXCEPT ![c] = "exited"]
    /\ UNCHANGED <<wire, coord, path, flock, pc, pass>>

-----------------------------------------------------------------------------
(* beginRun and reconcile: the coordinator and the proofs before any change *)

AcquireCoordinator(p) ==
    /\ Goto(p, "begin", "discover")
    /\ coord = {}
    /\ coord' = {p}
    /\ UNCHANGED <<box, wire, path, flock, pass>>

\* The caller's context ends the wait, or the state directory cannot be opened.
AcquireFails(p) ==
    /\ Faults
    /\ Goto(p, "begin", "ended")
    /\ UNCHANGED <<box, wire, coord, path, flock, pass>>

Discover(p) ==
    /\ Goto(p, "discover", "enumerate")
    /\ todo' = {c \in Runner : box[c] \in Present}
    /\ owed' = {c \in Runner : box[c] \in Present /\ pc[c] \in Over}
    /\ names' = {} /\ target' = {} /\ running' = {} /\ orphans' = {} /\ residue' = {}
    /\ UNCHANGED <<box, wire, coord, path, flock>>

EnumerateLeases(p) ==
    /\ Goto(p, "enumerate", "prove")
    /\ names' = path
    /\ UNCHANGED <<box, wire, coord, path, flock, todo, target, running, orphans,
                   residue, owed>>

\* A candidate is inspected again; one that has vanished is skipped.
Prove(p) ==
    /\ Goto(p, "prove", "probe")
    /\ \E c \in todo :
          /\ box[c] \in Present
          /\ todo' = todo \ {c}
          /\ names' = names \ {c}
          /\ target' = {c}
          /\ running' = IF box[c] \in Live THEN running \union {c} ELSE running
    /\ UNCHANGED <<box, wire, coord, path, flock, orphans, residue, owed>>

SkipVanished(p) ==
    /\ pc[p] = "prove"
    /\ \E c \in todo :
          /\ box[c] \in Gone
          /\ todo' = todo \ {c}
    /\ UNCHANGED <<box, wire, coord, path, flock, pc, names, target, running, orphans,
                   residue, owed>>

AllProved(p) ==
    /\ Goto(p, "prove", "probeRest")
    /\ todo = {}
    /\ UNCHANGED <<box, wire, coord, path, flock, pass>>

ActiveLeases == {c \in path : flock[c] # {}}
OrphanedLeases == {c \in path : flock[c] = {}}

\* An orphaned lease stays locked by its prober, until the end of the pass.
TakeLock(p, c) ==
    flock' = [flock EXCEPT ![c] = IF c \in OrphanedLeases THEN {p} ELSE @]

Mutant_ProbeLease(p) ==  \* flock without LOCK_NB waits for a live run
    /\ Goto(p, "probe", "prove")
    /\ \E c \in target :
          /\ c \notin ActiveLeases
          /\ TakeLock(p, c)
          /\ orphans' = orphans \union {c}
          /\ target' = {}
    /\ UNCHANGED <<box, wire, coord, path, todo, names, running, residue, owed>>

\* A missing or an orphaned lease makes the container an orphan.
ProbeLease(p) ==
    /\ Goto(p, "probe", "prove")
    /\ \E c \in target :
          /\ TakeLock(p, c)
          /\ orphans' = orphans \union ({c} \ ActiveLeases)
          /\ target' = {}
    /\ UNCHANGED <<box, wire, coord, path, todo, names, running, residue, owed>>

\* A lease without a proven container.
ProbeDetachedLease(p) ==
    /\ pc[p] = "probeRest"
    /\ \E c \in names :
          /\ TakeLock(p, c)
          /\ residue' = residue \union ({c} \intersect OrphanedLeases)
          /\ names' = names \ {c}
    /\ UNCHANGED <<box, wire, coord, path, pc, todo, target, running, orphans, owed>>

\* A check ends with its report, an apply goes on to the orphans.
AllProbed(p) ==
    /\ Goto(p, "probeRest", IF p \in Checker THEN "passed" ELSE "sweep")
    /\ names = {}
    /\ UNCHANGED <<box, wire, coord, path, flock, pass>>

-----------------------------------------------------------------------------
(* reconcileOrphan and the leases *)

NextOrphan(p) ==
    /\ pc[p] = "sweep"
    /\ \E c \in orphans :
          /\ target' = {c}
          /\ pc' = [pc EXCEPT ![p] = IF c \in running THEN "stop" ELSE "check"]
    /\ UNCHANGED <<box, wire, coord, path, flock, todo, names, running, orphans, residue,
                   owed>>

AllSwept(p) ==
    /\ Goto(p, "sweep", "reap")
    /\ orphans = {}
    /\ UNCHANGED <<box, wire, coord, path, flock, pass>>

\* 404 means gone; 409, that it no longer runs, leads to the wait as well.
StopOrphan(p) ==
    /\ pc[p] = "stop"
    /\ \E c \in target :
          /\ Do("kill", c)
          /\ pc' = [pc EXCEPT ![p] = IF box[c] \in Gone THEN "unlink" ELSE "waitStop"]
    /\ UNCHANGED <<wire, coord, path, flock, pass>>

WaitOrphan(p) ==
    /\ Goto(p, "waitStop", "check")
    /\ \A c \in target : box[c] \notin Live
    /\ UNCHANGED <<box, wire, coord, path, flock, pass>>

WaitTimesOut(p) ==
    /\ Goto(p, "waitStop", "abandon")
    /\ \A c \in target : box[c] \in Live
    /\ UNCHANGED <<box, wire, coord, path, flock, pass>>

\* removeContainer inspects before it deletes, and refuses a running container.
CheckOrphan(p) ==
    /\ pc[p] = "check"
    /\ \E c \in target :
          pc' = [pc EXCEPT ![p] = IF box[c] \in Gone THEN "unlink"
                                  ELSE IF box[c] \in Live THEN "abandon" ELSE "purge"]
    /\ UNCHANGED <<box, wire, coord, path, flock, pass>>

PurgeOrphan(p) ==
    /\ pc[p] = "purge"
    /\ \E c \in target :
          /\ Do("delete", c)
          /\ pc' = [pc EXCEPT ![p] = IF box[c] \in Live THEN "abandon" ELSE "unlink"]
    /\ UNCHANGED <<wire, coord, path, flock, pass>>

Mutant_UnlinkLease(p) ==  \* the loop ends with the first orphan
    /\ Goto(p, "unlink", "sweep")
    /\ \E c \in target :
          /\ path' = IF flock[c] = {p} THEN path \ {c} ELSE path
          /\ orphans' = {}
          /\ target' = {}
    /\ UNCHANGED <<box, wire, coord, flock, todo, names, running, residue, owed>>

\* item.lease is the lock the probe took, if there was a lease file.
UnlinkLease(p) ==
    /\ Goto(p, "unlink", "sweep")
    /\ \E c \in target :
          /\ path' = IF flock[c] = {p} THEN path \ {c} ELSE path
          /\ orphans' = orphans \ {c}
          /\ target' = {}
    /\ UNCHANGED <<box, wire, coord, flock, todo, names, running, residue, owed>>

ReapLease(p) ==
    /\ pc[p] = "reap"
    /\ \E c \in residue :
          /\ path' = path \ {c}
          /\ residue' = residue \ {c}
    /\ UNCHANGED <<box, wire, coord, flock, pc, todo, names, target, running, orphans,
                   owed>>

AllReaped(p) ==
    /\ Goto(p, "reap", "passed")
    /\ residue = {}
    /\ UNCHANGED <<box, wire, coord, path, flock, pass>>

\* The first error ends the pass.
PassFails(p) ==
    /\ Faults
    /\ pc[p] \in InPass \ {"sweep"}
    /\ pc' = [pc EXCEPT ![p] = "abandon"]
    /\ Unanswered(p)
    /\ UNCHANGED <<box, coord, path, flock, pass>>

DropProbedLocks(p) == flock' = [c \in Runner |-> flock[c] \ {p}]

\* The deferred closes of the probed leases; a runner keeps the coordinator,
\* unless one of them reports an error.
EndPass(p) ==
    /\ pc[p] = "passed"
    /\ \/ pc' = [pc EXCEPT ![p] = IF p \in Runner THEN "create" ELSE "giveBack"]
       \/ Faults /\ pc' = [pc EXCEPT ![p] = "giveBack"]
    /\ DropProbedLocks(p)
    /\ UNCHANGED <<box, wire, coord, path, pass>>

AbandonPass(p) ==
    /\ Goto(p, "abandon", "giveBack")
    /\ DropProbedLocks(p)
    /\ UNCHANGED <<box, wire, coord, path, pass>>

-----------------------------------------------------------------------------
(* executeTool: create, Adopt, run *)

Mutant_CreateContainer(p) ==  \* the coordinator ends with BeginRun
    /\ Goto(p, "create", "adopt")
    /\ Do("create", p)
    /\ coord' = {}
    /\ UNCHANGED <<wire, path, flock, pass>>

CreateContainer(p) ==
    /\ Goto(p, "create", "adopt")
    /\ Do("create", p)
    /\ UNCHANGED <<wire, coord, path, flock, pass>>

\* No answer, or a container that is not as requested: that one is rolled back,
\* if its removal works.
CreateFails(p) ==
    /\ Faults
    /\ Goto(p, "create", "giveBack")
    /\ \/ Unanswered(p) /\ UNCHANGED box
       \/ /\ box' = [box EXCEPT ![p] = "removed"]
          /\ UNCHANGED wire
       \/ /\ Do("create", p)
          /\ wire' \in {wire, wire \union {<<"delete", p>>}}
    /\ UNCHANGED <<coord, path, flock, pass>>

OpenLease(p) ==
    /\ Goto(p, "adopt", "lockLease")
    /\ path' = path \union {p}
    /\ UNCHANGED <<box, wire, coord, flock, pass>>

LockLease(p) ==
    /\ Goto(p, "lockLease", "letGo")
    /\ flock[p] = {}
    /\ flock' = [flock EXCEPT ![p] = {p}]
    /\ UNCHANGED <<box, wire, coord, path, pass>>

\* createFileLease fails with the coordinator still held; it unlinks a file it
\* could not lock.
LeaseFails(p) ==
    /\ Faults
    /\ pc[p] \in {"adopt", "lockLease"}
    /\ pc' = [pc EXCEPT ![p] = "inspect"]
    /\ path' \in {path, path \ {p}}
    /\ UNCHANGED <<box, wire, coord, flock, pass>>

\* Whether or not its Close reports an error, the coordinator is released.
LetCoordinatorGo(p) ==
    /\ pc[p] = "letGo"
    /\ coord' = {}
    /\ \/ pc' = [pc EXCEPT ![p] = "attach"]
       \/ Faults /\ pc' = [pc EXCEPT ![p] = "inspect"]
    /\ UNCHANGED <<box, wire, path, flock, pass>>

\* startEvents, attach and prepareTerminal.
Attach(p) ==
    /\ pc[p] = "attach"
    /\ \/ pc' = [pc EXCEPT ![p] = "start"]
       \/ Faults /\ pc' = [pc EXCEPT ![p] = "inspect"]
    /\ UNCHANGED <<box, wire, coord, path, flock, pass>>

StartContainer(p) ==
    /\ pc[p] = "start"
    /\ Do("start", p)
    /\ pc' = [pc EXCEPT ![p] = IF box[p] \in Stopped THEN "session" ELSE "kill"]
    /\ UNCHANGED <<wire, coord, path, flock, pass>>

\* running was set before the request: the Engine may have acted on it.
StartFails(p) ==
    /\ Faults
    /\ Goto(p, "start", "kill")
    /\ Unanswered(p)
    /\ UNCHANGED <<box, coord, path, flock, pass>>

\* The wait answers; whether the output drains makes no difference here.
SessionEnds(p) ==
    /\ Goto(p, "session", "inspect")
    /\ box[p] \notin Live
    /\ UNCHANGED <<box, wire, coord, path, flock, pass>>

\* Output, input, an event, the wait or the context fails while the tool runs.
SessionFails(p) ==
    /\ Goto(p, "session", "kill")
    /\ UNCHANGED <<box, wire, coord, path, flock, pass>>

-----------------------------------------------------------------------------
(* executeTool's deferred cleanup and RunGuard.Close *)

KillOwn(p) ==
    /\ pc[p] = "kill"
    /\ Do("kill", p)
    /\ pc' = [pc EXCEPT ![p] = IF box[p] \in Live THEN "await" ELSE "inspect"]
    /\ UNCHANGED <<wire, coord, path, flock, pass>>

KillOwnFails(p) ==
    /\ Faults
    /\ Goto(p, "kill", "inspect")
    /\ Unanswered(p)
    /\ UNCHANGED <<box, coord, path, flock, pass>>

\* An answer or a timeout: removal is tried in any case.
AwaitOwn(p) ==
    /\ Goto(p, "await", "inspect")
    /\ UNCHANGED <<box, wire, coord, path, flock, pass>>

\* Close(true) retires the lease, Close(false) leaves its path behind; without
\* a lease there is only the coordinator to close.
ToClose(p, gone) ==
    pc' = [pc EXCEPT ![p] = IF flock[p] # {p} THEN "giveBack"
                            ELSE IF gone THEN "reacquire" ELSE "unlock"]

InspectOwn(p) ==
    /\ pc[p] = "inspect"
    /\ IF box[p] \in Stopped
       THEN pc' = [pc EXCEPT ![p] = "delete"]
       ELSE ToClose(p, box[p] \in Gone)
    /\ UNCHANGED <<box, wire, coord, path, flock, pass>>

DeleteOwn(p) ==
    /\ pc[p] = "delete"
    /\ Do("delete", p)
    /\ ToClose(p, box[p] \notin Live)
    /\ UNCHANGED <<wire, coord, path, flock, pass>>

Mutant_RemoveOwnFails(p) ==  \* a request that was sent counts as a removal
    /\ Faults
    /\ pc[p] \in {"inspect", "delete"}
    /\ ToClose(p, pc[p] = "delete")
    /\ Unanswered(p)
    /\ UNCHANGED <<box, coord, path, flock, pass>>

RemoveOwnFails(p) ==
    /\ Faults
    /\ pc[p] \in {"inspect", "delete"}
    /\ ToClose(p, FALSE)
    /\ Unanswered(p)
    /\ UNCHANGED <<box, coord, path, flock, pass>>

Reacquire(p) ==
    /\ Goto(p, "reacquire", "retire")
    /\ coord = {}
    /\ coord' = {p}
    /\ UNCHANGED <<box, wire, path, flock, pass>>

ReacquireTimesOut(p) ==
    /\ Goto(p, "reacquire", "unlock")
    /\ coord # {} \/ Faults
    /\ UNCHANGED <<box, wire, coord, path, flock, pass>>

RetireLease(p) ==
    /\ Goto(p, "retire", "unlock")
    /\ path' = path \ {p} \/ (Faults /\ path' = path)
    /\ UNCHANGED <<box, wire, coord, flock, pass>>

UnlockLease(p) ==
    /\ Goto(p, "unlock", IF coord = {p} THEN "giveBack" ELSE "ended")
    /\ flock' = [flock EXCEPT ![p] = {}]
    /\ UNCHANGED <<box, wire, coord, path, pass>>

GiveCoordinatorBack(p) ==
    /\ Goto(p, "giveBack", "ended")
    /\ coord' = {}
    /\ UNCHANGED <<box, wire, path, flock, pass>>

-----------------------------------------------------------------------------
\* The kernel drops the locks of a killed process.
Crash(p) ==
    /\ Crashes
    /\ pc[p] \notin {"begin"} \union Over
    /\ pc' = [pc EXCEPT ![p] = "dead"]
    /\ coord' = coord \ {p}
    /\ DropProbedLocks(p)
    /\ Unanswered(p)
    /\ UNCHANGED <<box, path, pass>>

Quiescent ==
    /\ \A p \in Process : pc[p] \in Over
    /\ UNCHANGED vars

Reconcile(p) ==
    \/ Discover(p) \/ EnumerateLeases(p)
    \/ Prove(p) \/ SkipVanished(p) \/ AllProved(p) \/ ProbeLease(p)
    \/ ProbeDetachedLease(p) \/ AllProbed(p)
    \/ NextOrphan(p) \/ AllSwept(p)
    \/ StopOrphan(p) \/ WaitOrphan(p) \/ WaitTimesOut(p)
    \/ CheckOrphan(p) \/ PurgeOrphan(p) \/ UnlinkLease(p)
    \/ ReapLease(p) \/ AllReaped(p)
    \/ EndPass(p) \/ AbandonPass(p)

Execute(p) ==
    \/ CreateContainer(p) \/ OpenLease(p) \/ LockLease(p) \/ LetCoordinatorGo(p)
    \/ Attach(p) \/ StartContainer(p) \/ SessionEnds(p)

CleanUp(p) ==
    \/ KillOwn(p) \/ AwaitOwn(p) \/ InspectOwn(p) \/ DeleteOwn(p)
    \/ Reacquire(p) \/ ReacquireTimesOut(p) \/ RetireLease(p) \/ UnlockLease(p)

Progress(p) ==
    \/ AcquireCoordinator(p) \/ Reconcile(p) \/ GiveCoordinatorBack(p)
    \/ p \in Runner /\ (Execute(p) \/ CleanUp(p))

Failure(p) ==
    \/ AcquireFails(p) \/ PassFails(p) \/ Crash(p)
    \/ /\ p \in Runner
       /\ \/ CreateFails(p) \/ LeaseFails(p) \/ StartFails(p)
          \/ SessionFails(p) \/ KillOwnFails(p) \/ RemoveOwnFails(p)

RuntimeNext ==
    \/ \E p \in Process : Progress(p) \/ Failure(p)
    \/ \E c \in Runner : ToolExits(c) \/ KilledContainerDies(c)
    \/ Deliver
    \/ Quiescent

RuntimeSpec == RuntimeInit /\ [][RuntimeNext]_vars

(***************************************************************************)
(* Processes run, timers fire and a killed container stops.  A tool need   *)
(* not exit, and nothing has to fail.                                      *)
(***************************************************************************)
FairRuntimeSpec ==
    /\ RuntimeSpec
    /\ \A p \in Process : WF_vars(Progress(p))
    /\ \A c \in Runner : WF_vars(KilledContainerDies(c))

-----------------------------------------------------------------------------
(* Properties *)

\* Every variable keeps its type.
RuntimeTypeOK ==
    /\ box \in [Runner -> Present \union Gone]
    /\ wire \subseteq Request
    /\ coord \in Holder
    /\ path \subseteq Runner
    /\ flock \in [Runner -> Holder]
    /\ pc \in [Process -> {"begin", "passed", "abandon", "create", "attach", "start", "session",
                           "reacquire", "retire", "unlock", "giveBack"}
                          \union InPass \union Publishing \union Cleaning \union Over]
    /\ todo \subseteq Runner /\ names \subseteq Runner /\ target \subseteq Runner
    /\ running \subseteq Runner /\ orphans \subseteq Runner /\ residue \subseteq Runner
    /\ owed \subseteq Runner

\* Whatever is being reconciled, a pass never signals or removes the container
\* of a run that is still alive and using it (docs/wsl-process-contract.md:
\* "Locked leases are active and are never touched").
LiveRunsLeftAlone ==
    [][\A c \in Runner :
          /\ Using(c) /\ pc[c] \notin Cleaning
          /\ Using(c)'
          => /\ box[c] # "dying" => box'[c] # "dying"
             /\ box[c] \in Present => box'[c] \in Present]_vars

\* A lease path goes away only when its container no longer exists, or by the
\* hand of the run that just failed to lock it: while there is a container
\* there is evidence of it.
LeaseOutlivesContainer ==
    [][\A c \in path :
          c \notin path' => box[c] \in Gone \/ pc[c] = "lockLease"]_vars

\* A pass that applies and reports success has removed every container whose
\* run had ended when the pass listed them, whatever failed or was killed in
\* the passes before it (reconcileLocked, BeginRun).
PassLeavesNoOrphan ==
    \A p \in Runner \union Cleaner :
        pc[p] = "passed" => \A c \in owed : box[c] \in Gone

\* Nobody waits for ever, neither for the coordinator nor for another run's
\* lease or tool: a run reaches its own tool or its end, a cleanup its end.
NobodyWaitsForAnother ==
    \A p \in Process : pc[p] # "session" ~> pc[p] \in {"session"} \union Over

-----------------------------------------------------------------------------
(* Every run as a tool run: its container and its own course *)

ToolOf(c) == IF box[c] \in {"absent", "created"} THEN "none" ELSE box[c]
Giving(c) == pc[c] \in Cleaning \union {"abandon", "reacquire", "retire", "unlock", "giveBack"}
RunOf(c) ==
    IF pc[c] \in Over THEN "over"
    ELSE IF Giving(c) THEN "closing" ELSE "open"

Run(c) == INSTANCE ToolRun WITH tool <- ToolOf(c), run <- RunOf(c)

\* The run of every runner is a tool run, whatever passes of others, crashes and late
\* requests come between: its tool starts once, and is killed or removed only after
\* the run has given it up (executeTool, reconcileLocked).
RunsAreToolRuns ==
    /\ \A c \in Runner : Run(c)!ToolRunInit
    /\ [][\A c \in Runner : [Run(c)!ToolRunNext]_(Run(c)!toolRunVars)]_vars
=============================================================================
