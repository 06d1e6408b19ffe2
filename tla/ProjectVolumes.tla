---------------------------- MODULE ProjectVolumes ----------------------------
(***************************************************************************)
(* The Docker volumes that hold the state of projects, and the commands    *)
(* that share them without a common lock: tool runs, cb gc and cb gc       *)
(* --orphans of Windows (dockerrun, dockervol, state) and of native WSL    *)
(* (wslvolume, wslstate), cb backup --state and cb restore --state         *)
(* (statearchive).  All of them talk to one Docker Desktop engine.         *)
(*                                                                         *)
(* A volume is named for what it belongs to: a project, or what the        *)
(* projects of one side share.  Every request to the engine is a step of   *)
(* its own; project directories come and go meanwhile.                     *)
(***************************************************************************)
EXTENDS Naturals

CONSTANTS
    Job,        \* concurrent commands
    WinProject, \* project directories of Windows
    WslProject, \* project directories of one WSL namespace
    MaxMoves    \* bound: how often project directories change

ASSUME VolumesAssumption ==
    /\ MaxMoves \in Nat
    /\ WinProject \intersect WslProject = {}
    /\ {"winShared", "wslShared", "none"} \intersect (WinProject \union WslProject) = {}

Project == WinProject \union WslProject
WindowsVolume == WinProject \union {"winShared"}
NativeVolume == WslProject \union {"wslShared"}
Volume == WindowsVolume \union NativeVolume
Needed(p) == {p, IF p \in WinProject THEN "winShared" ELSE "wslShared"}

VARIABLES
    labels,  \* of each volume: exact ("own"), "none", "odd" or it is "absent"
    data,    \* what each volume holds
    users,   \* the containers that mount each volume, by their command
    dir,     \* each project directory: "dir", "missing" or "unsafe"
    job,     \* the commands
    moves,
    \* history:
    missed,  \* projects that had no directory at a moment of this command
    lately,  \* ... at a moment since it turned to the volume at hand
    touched  \* volumes others mounted, wrote or removed since it looked at them

volumesEngine == <<labels, data, users>>
volumesHistory == <<missed, lately, touched>>
volumesVars == <<labels, data, users, dir, job, moves, missed, lately, touched>>

Idle == [cmd |-> "none", side |-> "none", p |-> "none", step |-> "idle",
         todo |-> {}, plan |-> {}, seen |-> {}, at |-> "none"]

VolumesInit ==
    /\ labels \in {l \in [Volume -> {"absent", "own", "none", "odd"}] :
                      /\ \A v \in WindowsVolume : l[v] # "odd"
                      /\ l["winShared"] # "none" /\ l["wslShared"] = "own"}
    /\ data = [v \in Volume |-> IF labels[v] = "none" THEN "used" ELSE "empty"]
    /\ users = [v \in Volume |-> {}]
    /\ dir \in {[p \in Project |-> there] : there \in {"dir", "missing"}}
    /\ job = [j \in Job |-> Idle]
    /\ moves = 0
    /\ missed = [j \in Job |-> {}] /\ lately = [j \in Job |-> {}]
    /\ touched = [j \in Job |-> {}]

-----------------------------------------------------------------------------
(* The engine's operations, and the history *)

Exists(v) == labels[v] # "absent"
Exact(v) == labels[v] = "own"

\* Only commands that act on what they have looked at have a history of it.
Watches(k) == \/ job[k].cmd \in {"backup", "restore"}
              \/ job[k].side = "wsl" /\ job[k].cmd # "none"
Others(j, vs) ==
    touched' = [k \in Job |-> IF k # j /\ Watches(k) THEN touched[k] \union vs ELSE touched[k]]
Looks(j, v) == touched' = [touched EXCEPT ![j] = @ \ {v}]

\* A WSL path whose storage is away is not gone; Windows cannot tell.
Gone == {p \in Project : dir[p] = "missing" \/ (dir[p] = "unsafe" /\ p \in WinProject)}

\* docker volume create: an existing volume keeps its labels and its data.
Create(v) ==
    /\ labels' = IF Exists(v) THEN labels ELSE [labels EXCEPT ![v] = "own"]
    /\ data' = IF Exists(v) THEN data ELSE [data EXCEPT ![v] = "empty"]

\* docker run --mount type=volume creates what is missing, without labels.
Mount(j, vs) ==
    /\ labels' = [v \in Volume |-> IF v \in vs /\ ~Exists(v) THEN "none" ELSE labels[v]]
    /\ data' = [v \in Volume |-> IF v \in vs /\ ~Exists(v) THEN "empty" ELSE data[v]]
    /\ users' = [v \in Volume |-> IF v \in vs THEN users[v] \union {j} ELSE users[v]]

Unmount(j, vs) ==
    users' = [v \in Volume |-> IF v \in vs THEN users[v] \ {j} ELSE users[v]]

\* A volume that a container mounts cannot be removed without force.
Removable(v) == Exists(v) /\ users[v] = {}

DeleteVolume(j, v) ==
    /\ labels' = [labels EXCEPT ![v] = "absent"]
    /\ data' = [data EXCEPT ![v] = "empty"]
    /\ Others(j, {v})

-----------------------------------------------------------------------------
(* The steps of a command *)

\* Project volumes come first; several of them are taken in any order.
HasTurn(j, v) == v \in job[j].todo /\ (v \in Project \/ job[j].todo \intersect Project = {})
At(j, cmds, step) == job[j].cmd \in cmds /\ job[j].step = step
Windows(j) == job[j].side = "windows"
Native(j) == job[j].side = "wsl"
Steps(j, step) == job' = [job EXCEPT ![j].step = step]
StepsWith(j, step, todo) == job' = [job EXCEPT ![j].step = step, ![j].todo = todo]
Turns(j, step, at, v) == job' = [job EXCEPT ![j].step = step, ![j].at = at, ![j].todo = @ \ {v}]
Ends(j, step) == job' = [job EXCEPT ![j] = [Idle EXCEPT !.cmd = job[j].cmd, !.step = step]]
Fails(j) == Ends(j, "failed")
NoHistory == UNCHANGED volumesHistory

\* backup and restore hold the mutation lock, nothing else here does.
LockFree == \A k \in Job : job[k].cmd \notin {"backup", "restore"} \/ job[k].step \in {"done", "failed"}

Starts(j, cmd, side, p, step, todo) ==
    /\ job[j] = Idle
    /\ job' = [job EXCEPT ![j] = [Idle EXCEPT !.cmd = cmd, !.side = side, !.p = p,
                                              !.step = step, !.todo = todo]]
    /\ missed' = IF cmd = "orphans" THEN [missed EXCEPT ![j] = Gone] ELSE missed
    /\ UNCHANGED <<volumesEngine, dir, moves, lately, touched>>

StartInProject(j, p) ==
    /\ dir[p] = "dir"
    /\ LET side == IF p \in WinProject THEN "windows" ELSE "wsl"
       IN \/ Starts(j, "run", side, p, "ensure", Needed(p))
          \/ Starts(j, "gc", side, p, "list", {})

StartOrphans(j, side) == Starts(j, "orphans", side, "none", "list", {})

StartArchive(j, vs) ==
    /\ LockFree
    /\ vs # {}
    /\ \/ Starts(j, "backup", "windows", "none", "labels", vs)
       \/ Starts(j, "restore", "windows", "none", "existing", vs)

-----------------------------------------------------------------------------
(* Tool runs *)

\* ensureDockerVolumes: one docker volume create after the other.
EnsureManaged(j, v) ==
    /\ At(j, {"run"}, "ensure") /\ Windows(j)
    /\ HasTurn(j, v)
    /\ Create(v)
    /\ Turns(j, "ensure", "none", v)
    /\ NoHistory /\ UNCHANGED <<users, dir, moves>>

\* ensure: inspected, created if it is missing and inspected again.
Inspect(j, v) ==
    /\ At(j, {"run"}, "ensure") /\ Native(j)
    /\ HasTurn(j, v)
    /\ \/ Exact(v) /\ Turns(j, "ensure", "none", v)
       \/ ~Exists(v) /\ Turns(j, "create", v, v)
       \/ Exists(v) /\ ~Exact(v) /\ Fails(j)
    /\ NoHistory /\ UNCHANGED <<volumesEngine, dir, moves>>

CreateManaged(j) ==
    LET v == job[j].at
    IN /\ At(j, {"run"}, "create")
       /\ Create(v)
       /\ IF labels'[v] = "own" THEN Steps(j, "reinspect") ELSE Fails(j)
       /\ NoHistory /\ UNCHANGED <<users, dir, moves>>

Reinspect(j) ==
    /\ At(j, {"run"}, "reinspect")
    /\ IF Exact(job[j].at) THEN Steps(j, "ensure") ELSE Fails(j)
    /\ NoHistory /\ UNCHANGED <<volumesEngine, dir, moves>>

AllEnsured(j) ==
    /\ At(j, {"run"}, "ensure") /\ job[j].todo = {}
    /\ IF Windows(j) THEN StepsWith(j, "start", {}) ELSE StepsWith(j, "prove", Needed(job[j].p))
    /\ NoHistory /\ UNCHANGED <<volumesEngine, dir, moves>>

Mutant_ProveMount(j, v) ==  \* ensured volumes are taken as proved
    /\ At(j, {"run"}, "prove") /\ HasTurn(j, v)
    /\ Turns(j, IF job[j].todo = {v} THEN "start" ELSE "prove", "none", v)
    /\ Looks(j, v)
    /\ UNCHANGED <<volumesEngine, dir, moves, missed, lately>>

\* proveContainerMounts: each volume once more before the container is created.
ProveMount(j, v) ==
    /\ At(j, {"run"}, "prove") /\ HasTurn(j, v)
    /\ IF Exact(v) THEN Turns(j, IF job[j].todo = {v} THEN "start" ELSE "prove", "none", v)
                   ELSE Fails(j)
    /\ Looks(j, v)
    /\ UNCHANGED <<volumesEngine, dir, moves, missed, lately>>

StartTool(j) ==
    /\ At(j, {"run"}, "start")
    /\ Mount(j, Needed(job[j].p))
    /\ Steps(j, "tool")
    /\ Others(j, Needed(job[j].p))
    /\ UNCHANGED <<dir, moves, missed, lately>>

ToolWrites(j, v) ==
    /\ At(j, {"run"}, "tool") /\ v \in Needed(job[j].p)
    /\ data' = [data EXCEPT ![v] = "used"]
    /\ Others(j, {v})
    /\ UNCHANGED <<labels, users, dir, job, moves, missed, lately>>

ToolEnds(j) ==
    /\ At(j, {"run"}, "tool")
    /\ Unmount(j, Needed(job[j].p))
    /\ Ends(j, "done")
    /\ NoHistory /\ UNCHANGED <<labels, data, dir, moves>>

-----------------------------------------------------------------------------
(* cb gc and cb gc --orphans *)

\* Of Windows: whatever carries the volume's name.
ListCurrent(j) ==
    /\ At(j, {"gc"}, "list") /\ Windows(j)
    /\ IF Exists(job[j].p) THEN StepsWith(j, "remove", {job[j].p}) ELSE Ends(j, "done")
    /\ NoHistory /\ UNCHANGED <<volumesEngine, dir, moves>>

\* LabeledManaged asks for cb.managed alone: volumes of every WSL namespace too.
ListLabeled(j) ==
    /\ At(j, {"orphans"}, "list") /\ Windows(j)
    /\ StepsWith(j, "labels", {v \in Volume : labels[v] \in {"own", "odd"}})
    /\ NoHistory /\ UNCHANGED <<volumesEngine, dir, moves>>

\* The filter is a tool or a state group: any set of owners.
ReadLabels(j) ==
    /\ At(j, {"orphans"}, "labels")
    /\ \/ /\ \A v \in job[j].todo : Exists(v)
          /\ \E vs \in SUBSET {v \in job[j].todo \intersect Project : Exact(v)} :
                StepsWith(j, "look", vs)
       \/ (\E v \in job[j].todo : ~Exists(v)) /\ Fails(j)
    /\ NoHistory /\ UNCHANGED <<volumesEngine, dir, moves>>

\* discoverProven: one labelled volume that is not exact refuses them all.
DiscoverProven(j) ==
    /\ At(j, {"gc", "orphans"}, "list") /\ Native(j)
    /\ \/ (\E v \in NativeVolume : labels[v] = "odd") /\ Fails(j)
       \/ /\ \A v \in NativeVolume : labels[v] # "odd"
          /\ IF job[j].cmd = "gc"
             THEN StepsWith(j, "again", {v \in {job[j].p} : Exact(v)})
             ELSE \E vs \in SUBSET {v \in WslProject : Exact(v)} : StepsWith(j, "look", vs)
    /\ NoHistory /\ UNCHANGED <<volumesEngine, dir, moves>>

\* os.Stat of a Linux path on Windows finds nothing.  WSL takes a path as gone
\* only below live storage and without links (inspectProjectPath).
LooksGone(j, p) ==
    IF Native(j) THEN dir[p] = "missing" ELSE p \in WslProject \/ dir[p] # "dir"
LooksThere(j, p) == IF Native(j) THEN dir[p] # "missing" ELSE p \in WinProject /\ dir[p] # "missing"

LookAtPath(j, p) ==
    /\ At(j, {"orphans"}, "look") /\ p \in job[j].todo
    /\ \/ LooksGone(j, p) /\ job' = [job EXCEPT ![j].todo = @ \ {p}, ![j].plan = @ \union {p}]
       \/ LooksThere(j, p) /\ job' = [job EXCEPT ![j].todo = @ \ {p}]
    /\ NoHistory /\ UNCHANGED <<volumesEngine, dir, moves>>

PlanMade(j) ==
    /\ At(j, {"orphans"}, "look") /\ job[j].todo = {}
    /\ job' = [job EXCEPT ![j].step = IF Windows(j) THEN "remove" ELSE "again",
                          ![j].todo = job[j].plan, ![j].plan = {}]
    /\ lately' = [lately EXCEPT ![j] = Gone]
    /\ UNCHANGED <<volumesEngine, dir, moves, missed, touched>>

Remove(j, v) ==
    /\ At(j, {"gc", "orphans"}, "remove") /\ HasTurn(j, v)
    /\ \/ Removable(v) /\ DeleteVolume(j, v) /\ Turns(j, "remove", "none", v)
       \/ ~Removable(v) /\ Fails(j) /\ UNCHANGED <<labels, data, touched>>
    /\ UNCHANGED <<users, dir, moves, missed, lately>>

Mutant_LookAgain(j, v) ==  \* the plan is applied as it was made
    /\ At(j, {"gc", "orphans"}, "again") /\ HasTurn(j, v)
    /\ Turns(j, "inspect", v, v)
    /\ NoHistory /\ UNCHANGED <<volumesEngine, dir, moves>>

LookAgain(j, v) ==
    /\ At(j, {"gc", "orphans"}, "again") /\ HasTurn(j, v)
    /\ \/ (job[j].cmd = "gc" \/ LooksGone(j, v)) /\ Turns(j, "inspect", v, v)
       \/ (job[j].cmd = "orphans" /\ LooksThere(j, v)) /\ Fails(j)
    /\ NoHistory /\ UNCHANGED <<volumesEngine, dir, moves>>

InspectExact(j) ==
    /\ At(j, {"gc", "orphans"}, "inspect")
    /\ IF Exact(job[j].at) THEN Steps(j, "delete") ELSE Fails(j)
    /\ Looks(j, job[j].at)
    /\ UNCHANGED <<volumesEngine, dir, moves, missed, lately>>

DeleteProven(j) ==
    LET v == job[j].at
    IN /\ At(j, {"gc", "orphans"}, "delete")
       /\ \/ Removable(v) /\ DeleteVolume(j, v) /\ Steps(j, "verify")
          \/ ~Removable(v) /\ Fails(j) /\ UNCHANGED <<labels, data, touched>>
       /\ UNCHANGED <<users, dir, moves, missed, lately>>

VerifyGone(j) ==
    /\ At(j, {"gc", "orphans"}, "verify")
    /\ IF Exists(job[j].at) THEN Fails(j)
       ELSE job' = [job EXCEPT ![j].step = "again", ![j].at = "none"]
    /\ lately' = [lately EXCEPT ![j] = Gone]
    /\ UNCHANGED <<volumesEngine, dir, moves, missed, touched>>

AllRemoved(j) ==
    /\ At(j, {"gc", "orphans"}, "remove") \/ At(j, {"gc", "orphans"}, "again")
    /\ job[j].todo = {}
    /\ Ends(j, "done")
    /\ NoHistory /\ UNCHANGED <<volumesEngine, dir, moves>>

-----------------------------------------------------------------------------
(* cb backup --state and cb restore --state --apply *)

Quiescent(v) == users[v] = {}

BackupLabels(j, v) ==
    /\ At(j, {"backup"}, "labels") /\ HasTurn(j, v)
    /\ IF Exact(v) THEN Turns(j, "quiescent", v, v) ELSE Fails(j)
    /\ NoHistory /\ UNCHANGED <<volumesEngine, dir, moves>>

BackupQuiescent(j) ==
    /\ At(j, {"backup"}, "quiescent")
    /\ IF Quiescent(job[j].at) THEN Steps(j, "export") ELSE Fails(j)
    /\ Looks(j, job[j].at)
    /\ UNCHANGED <<volumesEngine, dir, moves, missed, lately>>

\* The helper container mounts the volume.  "plan" gathers the volumes that a
\* tool mounted while they were read.
Exports(j) == IF Quiescent(job[j].at) THEN job[j].plan ELSE job[j].plan \union {job[j].at}

StartExport(j) ==
    /\ At(j, {"backup"}, "export")
    /\ Mount(j, {job[j].at})
    /\ job' = [job EXCEPT ![j].step = "exporting", ![j].plan = Exports(j)]
    /\ NoHistory /\ UNCHANGED <<dir, moves>>

EndExport(j) ==
    /\ At(j, {"backup"}, "exporting")
    /\ Unmount(j, {job[j].at})
    /\ job' = [job EXCEPT ![j].step = "labels", ![j].at = "none",
                          ![j].plan = IF users[job[j].at] = {j} THEN @ ELSE @ \union {job[j].at}]
    /\ NoHistory /\ UNCHANGED <<labels, data, dir, moves>>

\* An archive that does not validate is removed again (validateVolumeTar).
BackupEnds(j) ==
    /\ At(j, {"backup"}, "labels") /\ job[j].todo = {}
    /\ \/ Steps(j, "done")
       \/ job[j].plan # {} /\ Fails(j)
    /\ NoHistory /\ UNCHANGED <<volumesEngine, dir, moves>>

\* Plan: which volumes exist is asked once, the rest of each in its turn.
ListExisting(j) ==
    /\ At(j, {"restore"}, "existing")
    /\ job' = [job EXCEPT ![j].step = "plan", ![j].plan = {v \in Volume : Exists(v)}]
    /\ NoHistory /\ UNCHANGED <<volumesEngine, dir, moves>>

PlanVolume(j, v) ==
    /\ At(j, {"restore"}, "plan") /\ HasTurn(j, v)
    /\ IF Quiescent(v) /\ (v \in job[j].plan => Exact(v) /\ data[v] = "empty")
       THEN job' = [job EXCEPT ![j].todo = @ \ {v}, ![j].plan = @ \ {v}, ![j].seen = @ \union {v}]
       ELSE Fails(j)
    /\ NoHistory /\ UNCHANGED <<volumesEngine, dir, moves>>

RestorePlanned(j) ==
    /\ At(j, {"restore"}, "plan") /\ job[j].todo = {}
    /\ job' = [job EXCEPT ![j].step = "turn", ![j].todo = job[j].seen, ![j].plan = {}]
    /\ NoHistory /\ UNCHANGED <<volumesEngine, dir, moves>>

Mutant_RestoreQuiescent(j, v) ==  \* the plan has seen to it
    /\ At(j, {"restore"}, "turn") /\ HasTurn(j, v)
    /\ Turns(j, "make", v, v)
    /\ Looks(j, v)
    /\ UNCHANGED <<volumesEngine, dir, moves, missed, lately>>

RestoreQuiescent(j, v) ==
    /\ At(j, {"restore"}, "turn") /\ HasTurn(j, v)
    /\ IF Quiescent(v) THEN Turns(j, "make", v, v) ELSE Fails(j)
    /\ Looks(j, v)
    /\ UNCHANGED <<volumesEngine, dir, moves, missed, lately>>

RestoreEnsures(j) ==
    /\ At(j, {"restore"}, "make")
    /\ Create(job[j].at)
    /\ Steps(j, "compare")
    /\ NoHistory /\ UNCHANGED <<users, dir, moves>>

RestoreCompares(j) ==
    /\ At(j, {"restore"}, "compare")
    /\ IF Exact(job[j].at) THEN Steps(j, "empty") ELSE Fails(j)
    /\ NoHistory /\ UNCHANGED <<volumesEngine, dir, moves>>

\* The helper that looks into a volume mounts it, if only for a moment.
RestoreLooksInside(j) ==
    LET v == job[j].at
    IN /\ At(j, {"restore"}, "empty")
       /\ labels' = IF Exists(v) THEN labels ELSE [labels EXCEPT ![v] = "none"]
       /\ IF data[v] = "empty" THEN Steps(j, "import") ELSE Fails(j)
       /\ NoHistory /\ UNCHANGED <<data, users, dir, moves>>

StartImport(j) ==
    LET v == job[j].at
    IN /\ At(j, {"restore"}, "import")
       /\ labels' = IF Exists(v) THEN labels ELSE [labels EXCEPT ![v] = "none"]
       /\ data' = [data EXCEPT ![v] = "partial"]
       /\ users' = [users EXCEPT ![v] = @ \union {j}]
       /\ Steps(j, "importing")
       /\ NoHistory /\ UNCHANGED <<dir, moves>>

Mutant_EndImport(j) ==  \* the helper's failure is not looked at
    LET v == job[j].at
    IN /\ At(j, {"restore"}, "importing")
       /\ Unmount(j, {v})
       /\ data' \in {data, [data EXCEPT ![v] = IF @ = "partial" THEN "archive" ELSE @]}
       /\ job' = [job EXCEPT ![j].step = "turn", ![j].at = "none"]
       /\ NoHistory /\ UNCHANGED <<labels, dir, moves>>

\* A failed import leaves the volume as far as it came.
EndImport(j) ==
    LET v == job[j].at
    IN /\ At(j, {"restore"}, "importing")
       /\ Unmount(j, {v})
       /\ \/ /\ data' = [data EXCEPT ![v] = IF @ = "partial" THEN "archive" ELSE @]
             /\ job' = [job EXCEPT ![j].step = "turn", ![j].at = "none"]
          \/ Fails(j) /\ data' = data
       /\ NoHistory /\ UNCHANGED <<labels, dir, moves>>

RestoreEnds(j) ==
    /\ At(j, {"restore"}, "turn") /\ job[j].todo = {}
    /\ Steps(j, "done")
    /\ NoHistory /\ UNCHANGED <<volumesEngine, dir, moves>>

-----------------------------------------------------------------------------
(* Requests fail, directories change *)

\* Any request may fail; a command that fails does nothing more.
RequestFails(j) ==
    /\ job[j].step \notin {"idle", "done", "failed", "tool", "importing", "exporting"}
    /\ Fails(j)
    /\ NoHistory /\ UNCHANGED <<volumesEngine, dir, moves>>

\* Only gc --orphans looks at directories once it runs: as long as none does,
\* a directory may as well change later.
MoveDirectory(p) ==
    /\ moves < MaxMoves
    /\ \E j \in Job : job[j].cmd = "orphans" /\ job[j].step \notin {"done", "failed"}
    /\ moves' = moves + 1
    /\ \E d \in {"dir", "missing", "unsafe"} \ {dir[p]} : dir' = [dir EXCEPT ![p] = d]
    /\ LET now == {q \in {p} : dir'[q] = "missing" \/ (dir'[q] = "unsafe" /\ q \in WinProject)}
           See(seen) == [j \in Job |-> IF job[j].cmd = "orphans" THEN seen[j] \union now ELSE seen[j]]
       IN missed' = See(missed) /\ lately' = See(lately)
    /\ UNCHANGED <<volumesEngine, job, touched>>

VolumesNext ==
    \/ \E p \in Project : MoveDirectory(p)
    \/ \E j \in Job :
          \/ \E p \in Project : StartInProject(j, p)
          \/ \E side \in {"windows", "wsl"} : StartOrphans(j, side)
          \/ \E vs \in SUBSET WindowsVolume : StartArchive(j, vs)
          \/ \E v \in Volume :
                \/ EnsureManaged(j, v) \/ Inspect(j, v) \/ ProveMount(j, v) \/ ToolWrites(j, v)
                \/ Remove(j, v) \/ LookAgain(j, v) \/ BackupLabels(j, v)
                \/ PlanVolume(j, v) \/ RestoreQuiescent(j, v)
          \/ \E p \in Project : LookAtPath(j, p)
          \/ CreateManaged(j) \/ Reinspect(j) \/ AllEnsured(j) \/ StartTool(j) \/ ToolEnds(j)
          \/ ListCurrent(j) \/ ListLabeled(j) \/ ReadLabels(j) \/ DiscoverProven(j)
          \/ PlanMade(j) \/ InspectExact(j) \/ DeleteProven(j) \/ VerifyGone(j) \/ AllRemoved(j)
          \/ BackupQuiescent(j) \/ StartExport(j) \/ EndExport(j) \/ BackupEnds(j)
          \/ ListExisting(j) \/ RestorePlanned(j) \/ RestoreEnsures(j) \/ RestoreCompares(j)
          \/ RestoreLooksInside(j) \/ StartImport(j) \/ EndImport(j) \/ RestoreEnds(j)
          \/ RequestFails(j)

VolumesSpec == VolumesInit /\ [][VolumesNext]_volumesVars

-----------------------------------------------------------------------------
(* What the commands may do to each other's volumes *)

Deletes(j, v) == Exists(v) /\ labels'[v] = "absent" /\ job'[j] # job[j]
Mounts(j, v) == j \notin users[v] /\ j \in users'[v]

\* gc --orphans removes a volume of its own side only when the project the
\* volume records had no directory at some moment since the command began; in
\* WSL, at some moment since it turned to this very volume, however long the
\* removals before it took (state.GC, wslstate.gc).
OrphansJudgedInTime ==
    [][\A j \in Job, p \in Project :
          Deletes(j, p) /\ job[j].cmd = "orphans" =>
             /\ Native(j) => p \in lately[j]
             /\ p \in WinProject => p \in missed[j]]_volumesVars

\* "only considers a volume an orphan when its own labels record a project path
\* that no longer exists" (docs/security-model.md): whichever command removes it.
OrphansHaveNoProject ==
    [][\A j \in Job, p \in Project :
          Deletes(j, p) /\ job[j].cmd = "orphans" => p \in missed[j]]_volumesVars

\* A WSL command mounts or removes a volume that is not exactly its own only if
\* another command removed or remade it after the proof (proveContainerMounts,
\* remove); and no gc removes what projects share.
ProvedOrReplaced ==
    [][\A j \in Job, v \in Volume :
          /\ Native(j) /\ (Deletes(j, v) \/ Mounts(j, v)) => Exact(v) \/ v \in touched[j]
          /\ Deletes(j, v) => v \in Project]_volumesVars

\* An import begins in an empty volume that no container mounts, unless somebody
\* came after restore had looked at the volume in its turn (Archive.Restore).
ImportsIntoEmpty ==
    [][\A j \in Job, v \in Volume :
          job[j].cmd = "restore" /\ Mounts(j, v)
             => (data[v] = "empty" /\ Quiescent(v)) \/ v \in touched[j]]_volumesVars

\* A restore that reports success has left in each volume what the archive
\* holds, a backup that does has read no volume a tool was mounting: except
\* volumes that others took up after they had been looked at.
ArchivesTrue ==
    \A j \in Job : job[j].step = "done" =>
        /\ job[j].cmd = "restore" => \A v \in job[j].seen : data[v] = "archive" \/ v \in touched[j]
        /\ job[j].cmd = "backup" => job[j].plan \subseteq touched[j]
=============================================================================
