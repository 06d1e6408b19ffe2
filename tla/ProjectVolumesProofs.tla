------------------------- MODULE ProjectVolumesProofs -------------------------
(***************************************************************************)
(* Proofs about the volumes of projects, for every set of commands and     *)
(* projects of both sides.                                                 *)
(*                                                                         *)
(* No lock protects the volumes, so what a command has found out about one *)
(* holds only until somebody else turns to it.  The inductive invariant    *)
(* says of each command what it knows of the directories, volumes and      *)
(* mounts it has looked at; the frame of the engine says that whatever     *)
(* takes such knowledge away is in the command's history.                  *)
(***************************************************************************)
EXTENDS ProjectVolumes, TLAPS

Ended == {"done", "failed"}
Archiving(w) == w.cmd \in {"backup", "restore"} /\ w.step \notin Ended

\* The steps at which a WSL gc acts on its plan, and those at which it has a volume at hand.
Applying == {"again", "inspect", "delete", "verify"}
AtHand == {"inspect", "delete", "verify"}
\* A restore with a volume at hand.
Restoring == {"make", "compare", "empty", "import", "importing"}

StepsOf(cmd) ==
    IF cmd = "run" THEN {"ensure", "create", "reinspect", "prove", "start", "tool"} \union Ended
    ELSE IF cmd = "gc" THEN {"list", "remove"} \union Applying \union Ended
    ELSE IF cmd = "orphans" THEN {"list", "labels", "look", "remove"} \union Applying \union Ended
    ELSE IF cmd = "backup" THEN {"labels", "quiescent", "export", "exporting"} \union Ended
    ELSE IF cmd = "restore" THEN {"existing", "plan", "turn"} \union Restoring \union Ended
    ELSE {"idle"}

JobType ==
    [cmd : {"none", "run", "gc", "orphans", "backup", "restore"}, side : {"none", "windows", "wsl"},
     p : Project \union {"none"},
     step : {"idle", "ensure", "create", "reinspect", "prove", "start", "tool", "list", "remove",
             "labels", "look", "quiescent", "export", "exporting", "existing", "plan", "turn"}
            \union Applying \union Restoring \union Ended,
     todo : SUBSET Volume, plan : SUBSET Volume, seen : SUBSET Volume, at : Volume \union {"none"}]

\* The engine, the directories and the history.
WorldTypeOK ==
    /\ labels \in [Volume -> {"absent", "own", "none", "odd"}]
    /\ data \in [Volume -> {"empty", "used", "partial", "archive"}]
    /\ users \in [Volume -> SUBSET Job]
    /\ dir \in [Project -> {"dir", "missing", "unsafe"}]
    /\ moves \in Nat
    /\ missed \in [Job -> SUBSET Project] /\ lately \in [Job -> SUBSET Project]
    /\ touched \in [Job -> SUBSET Volume]

VolumesTypeOK == WorldTypeOK /\ job \in [Job -> JobType]

\* What a command is about, and where its steps take it.
InShape(w) ==
    /\ w.step \in StepsOf(w.cmd)
    /\ w.cmd = "none" => w = Idle
    /\ w.step \notin Ended =>
        /\ w.cmd = "run" => w.p \in Project /\ w.side = (IF w.p \in WinProject THEN "windows" ELSE "wsl")
        /\ w.cmd = "gc" => w.p \in Project /\ w.side = (IF w.p \in WinProject THEN "windows" ELSE "wsl")
        /\ w.cmd = "orphans" => w.side \in {"windows", "wsl"}
        /\ w.cmd \in {"backup", "restore"} => w.side = "windows"
    /\ w.cmd \in {"gc", "orphans"} /\ w.step # "look" => w.plan = {}
    /\ w.step = "remove" => w.side = "windows" /\ w.todo \subseteq Project
    /\ w.step \in Applying => w.side = "wsl" /\ w.todo \subseteq WslProject
    /\ w.step \in AtHand => w.at \in WslProject
    /\ w.step = "look" => w.todo \union w.plan \subseteq (IF w.side = "wsl" THEN WslProject ELSE Project)
    /\ w.step \in {"create", "reinspect"} => w.at \in Volume
    /\ w.step = "prove" => w.side = "wsl"
    /\ w.step = "labels" => w.side = "windows"

\* What gc --orphans has seen of the directories of the projects it judges.
Judged(k, w) ==
    w.cmd = "orphans" =>
        /\ Gone \subseteq missed[k]
        /\ w.step \in Applying => Gone \subseteq lately[k]
        /\ w.step = "look" => w.plan \intersect WinProject \subseteq missed[k]
        /\ w.step = "remove" => w.todo \intersect WinProject \subseteq missed[k]
        /\ w.step \in {"inspect", "delete"} => w.at \in lately[k]

\* What a WSL command has proved of the volumes it is about to mount or remove;
\* a tool that runs mounts all of its volumes.
Proved(k, w) ==
    /\ w.step = "tool" => \A v \in Needed(w.p) : k \in users[v]
    /\ w.step = "delete" => Exact(w.at) \/ w.at \in touched[k]
    /\ w.step = "prove" => \A v \in Needed(w.p) \ w.todo : Exact(v) \/ v \in touched[k]
    /\ w.step = "start" /\ w.side = "wsl" => \A v \in Needed(w.p) : Exact(v) \/ v \in touched[k]

\* What a backup knows of the volume at hand and of those it has read.
BackupKnows(k, w) ==
    w.cmd = "backup" =>
        /\ w.plan \subseteq touched[k]
        /\ w.step \notin Ended => w.plan \intersect w.todo = {}
        /\ w.step \in {"quiescent", "export", "exporting"} => w.at \in Volume /\ w.at \notin w.todo
        /\ w.step = "quiescent" => w.at \notin w.plan
        /\ w.step = "export" => users[w.at] = {} \/ w.at \in touched[k]
        /\ w.step = "exporting" => users[w.at] = {k} \/ w.at \in touched[k]

\* What a restore knows of the volume at hand and of those it has written.
RestoreKnows(k, w) ==
    w.cmd = "restore" =>
        /\ w.step \in {"turn"} \union Restoring =>
              w.todo \subseteq w.seen /\ \A v \in w.seen \ (w.todo \union {w.at}) : data[v] = "archive" \/ v \in touched[k]
        /\ w.step \in {"existing", "plan", "turn"} => w.at = "none"
        /\ w.step \in Restoring => w.at \in w.seen \ w.todo
        /\ w.step \in {"make", "compare", "empty", "import"} => users[w.at] = {} \/ w.at \in touched[k]
        /\ w.step = "import" => data[w.at] = "empty" \/ w.at \in touched[k]
        /\ w.step = "importing" => data[w.at] = "partial" \/ w.at \in touched[k]
        /\ w.step = "done" => \A v \in w.seen : data[v] = "archive" \/ v \in touched[k]

Knows(k, w) == InShape(w) /\ Judged(k, w) /\ Proved(k, w) /\ BackupKnows(k, w) /\ RestoreKnows(k, w)

\* There is one backup or restore at a time, and what others have touched since
\* it looked they have touched since the end of any earlier one.
OneArchive ==
    \A j, k \in Job :
        Archiving(job[j]) =>
            /\ Archiving(job[k]) => j = k
            /\ job[k].cmd \in {"backup", "restore"} /\ job[k].step \in Ended => touched[j] \subseteq touched[k]

VolumesInv ==
    /\ VolumesTypeOK
    /\ \A v \in Volume : data[v] # "empty" \/ users[v] # {} => Exists(v)
    /\ \A k \in Job : job[k].cmd = "none" => touched[k] = {}
    /\ OneArchive
    /\ \A k \in Job : Knows(k, job[k])

-----------------------------------------------------------------------------
(* How a command takes a step *)

\* The steps of all commands.
AllSteps == {"idle", "ensure", "create", "reinspect", "prove", "start", "tool", "list", "remove",
             "labels", "look", "quiescent", "export", "exporting", "existing", "plan", "turn"}
            \union Applying \union Restoring \union Ended

\* Names of volumes and of nothing are different.
LEMMA VolumesDiffer ==
    /\ "none" \notin Volume
    /\ Project \subseteq Volume /\ \A p \in Project : Needed(p) \subseteq Volume
    /\ WinProject \intersect WslProject = {}
BY VolumesAssumption DEF Volume, WindowsVolume, NativeVolume, Project, Needed

\* Command j becomes w, and no other changes.
Becomes(j, w) ==
    /\ w \in JobType /\ job' \in [Job -> JobType]
    /\ job'[j] = w /\ \A k \in Job \ {j} : job'[k] = job[k]

\* What each way to take a step makes of the command.
LEMMA StepsBecomes ==
    ASSUME VolumesTypeOK, NEW j \in Job, NEW step \in AllSteps, Steps(j, step)
    PROVE  Becomes(j, [job[j] EXCEPT !.step = step])
<1>1. job[j] \in JobType /\ job \in [Job -> JobType]
  BY DEF VolumesTypeOK
<1>2. [job[j] EXCEPT !.step = step] \in JobType
  BY <1>1 DEF JobType, AllSteps
<1>3. job'[j] = [job[j] EXCEPT !.step = step]
  BY <1>1 DEF Steps, JobType
<1>4. \A k \in Job \ {j} : job'[k] = job[k]
  BY <1>1 DEF Steps
<1>5. job' \in [Job -> JobType]
  BY <1>1, <1>2, <1>3, <1>4 DEF Steps
<1> QED  BY <1>2, <1>3, <1>4, <1>5 DEF Becomes

\* ... of its work list as well,
LEMMA StepsWithBecomes ==
    ASSUME VolumesTypeOK, NEW j \in Job, NEW step \in AllSteps, NEW todo \in SUBSET Volume,
           StepsWith(j, step, todo)
    PROVE  Becomes(j, [job[j] EXCEPT !.step = step, !.todo = todo])
<1>1. job[j] \in JobType /\ job \in [Job -> JobType]
  BY DEF VolumesTypeOK
<1>2. [job[j] EXCEPT !.step = step, !.todo = todo] \in JobType
  BY <1>1 DEF JobType, AllSteps
<1>3. job'[j] = [job[j] EXCEPT !.step = step, !.todo = todo]
  BY <1>1 DEF StepsWith, JobType
<1>4. \A k \in Job \ {j} : job'[k] = job[k]
  BY <1>1 DEF StepsWith
<1>5. job' \in [Job -> JobType]
  BY <1>1, <1>2, <1>3, <1>4 DEF StepsWith
<1> QED  BY <1>2, <1>3, <1>4, <1>5 DEF Becomes

\* ... or of the volume at hand.
LEMMA TurnsBecomes ==
    ASSUME VolumesTypeOK, NEW j \in Job, NEW step \in AllSteps, NEW at \in Volume \union {"none"},
           NEW v, Turns(j, step, at, v)
    PROVE  Becomes(j, [job[j] EXCEPT !.step = step, !.at = at, !.todo = job[j].todo \ {v}])
<1>1. job[j] \in JobType /\ job \in [Job -> JobType]
  BY DEF VolumesTypeOK
<1>2. [job[j] EXCEPT !.step = step, !.at = at, !.todo = job[j].todo \ {v}] \in JobType
  BY <1>1 DEF JobType, AllSteps
<1>3. job'[j] = [job[j] EXCEPT !.step = step, !.at = at, !.todo = job[j].todo \ {v}]
  BY <1>1 DEF Turns, JobType
<1>4. \A k \in Job \ {j} : job'[k] = job[k]
  BY <1>1 DEF Turns
<1>5. job' \in [Job -> JobType]
  BY <1>1, <1>2, <1>3, <1>4 DEF Turns
<1> QED  BY <1>2, <1>3, <1>4, <1>5 DEF Becomes

\* A command that ends forgets all but what it was.
Over(cmd, step) == [Idle EXCEPT !.cmd = cmd, !.step = step]

\* A command that ends is over.
LEMMA EndsBecomes ==
    ASSUME VolumesTypeOK, NEW j \in Job, NEW step \in Ended, Ends(j, step)
    PROVE  Becomes(j, Over(job[j].cmd, step))
BY DEF Ends, Becomes, Over, Idle, VolumesTypeOK, JobType, Ended

\* An ended command knows nothing any more, but that a directory was missing.
LEMMA OverKnows ==
    ASSUME VolumesInv, NEW k \in Job, NEW step \in Ended, job[k].cmd # "none",
           step = "failed" \/ job[k].cmd \notin {"backup", "restore"},
           NEW w, w = Over(job[k].cmd, step), UNCHANGED <<dir, missed>>
    PROVE  Knows(k, w)'
<1>1. job[k] \in JobType /\ Knows(k, job[k])
  BY DEF VolumesInv, VolumesTypeOK
<1>3. /\ w.cmd = job[k].cmd /\ w.step = step /\ w.side = "none" /\ w.p = "none"
      /\ w.todo = {} /\ w.plan = {} /\ w.seen = {} /\ w.at = "none"
  BY DEF Over, Idle
<1>4. InShape(w)
  BY <1>1, <1>3 DEF InShape, StepsOf, JobType, Ended, Applying, AtHand, Restoring
<1>5. Judged(k, w)'
  BY <1>1, <1>3 DEF Knows, Judged, Gone, Ended, Applying
<1>6. Proved(k, w)'
  BY <1>3 DEF Proved, Ended
<1>7. BackupKnows(k, w)' /\ RestoreKnows(k, w)'
  BY <1>3 DEF BackupKnows, RestoreKnows, Ended, Restoring
<1> QED  BY <1>4, <1>5, <1>6, <1>7 DEF Knows, InShape

-----------------------------------------------------------------------------
(* What the steps of one command leave to the others *)

\* Whatever a step takes from what command k may know is in its history.
LeftTo(k) ==
    /\ touched[k] \subseteq touched'[k]
    /\ missed[k] \subseteq missed'[k] /\ lately[k] \subseteq lately'[k]
    /\ \A v \in Volume : k \in users[v] => k \in users'[v]
    /\ job[k].cmd = "orphans" => Gone' \subseteq Gone \union (missed'[k] \intersect lately'[k])
    /\ job[k].side = "wsl" =>
          \A v \in Volume : labels[v] = "own" => labels'[v] = "own" \/ v \in touched'[k]
    /\ job[k].cmd \in {"backup", "restore"} =>
          \A v \in Volume : data[v] = "archive" => data'[v] = "archive" \/ v \in touched'[k]
    /\ Archiving(job[k]) =>
          \A v \in Volume : \/ v \in touched'[k]
                            \/ /\ data'[v] = data[v]
                               /\ users[v] = {} => users'[v] = {}
                               /\ users[v] = {k} => users'[v] = {k}

\* What a command knows outlives a step that leaves it what it knows of.
LEMMA OthersKnow ==
    ASSUME VolumesInv, NEW k \in Job, LeftTo(k), NEW w, w = job[k]
    PROVE  Knows(k, w)'
<1>1. w \in JobType /\ Knows(k, w) /\ VolumesTypeOK
  BY DEF VolumesInv, VolumesTypeOK
<1>2. InShape(w)
  BY <1>1 DEF Knows
<1>3. Judged(k, w)'
  BY <1>1 DEF Knows, Judged, LeftTo
<1>4. Proved(k, w)'
  <2>1. w.step \in {"delete", "prove"} => w.side = "wsl"
    BY <1>2 DEF InShape, Applying
  <2>2. w.step = "delete" => w.at \in Volume
    BY <1>2, VolumesDiffer DEF InShape, AtHand, Project
  <2>3. w.step \in {"prove", "start", "tool"} => w.p \in Project
    BY <1>1, <1>2 DEF InShape, StepsOf, JobType, Ended, Applying, Restoring
  <2>4. w.step \in {"prove", "start", "tool"} => Needed(w.p) \subseteq Volume
    BY <2>3, VolumesDiffer
  <2> QED  BY <1>1, <2>1, <2>2, <2>4 DEF Knows, Proved, LeftTo, Exact
<1>5. BackupKnows(k, w)'
  <2>1. w.cmd = "backup" /\ w.step \in {"quiescent", "export", "exporting"}
           => w.at \in Volume /\ Archiving(w)
    BY <1>1 DEF Knows, BackupKnows, Archiving, Ended
  <2> QED  BY <1>1, <2>1 DEF Knows, BackupKnows, LeftTo
<1>6. RestoreKnows(k, w)'
  <2>1. w.seen \subseteq Volume
    BY <1>1 DEF JobType
  <2>2. w.cmd = "restore" /\ w.step \in Restoring => w.at \in Volume /\ Archiving(w)
    BY <1>1, <2>1 DEF Knows, RestoreKnows, Archiving, Ended, Restoring
  <2> QED  BY <1>1, <2>1, <2>2 DEF Knows, RestoreKnows, LeftTo, Restoring
<1> QED  BY <1>2, <1>3, <1>4, <1>5, <1>6 DEF Knows, InShape

\* The histories of the others after a step of command j, which may itself have
\* looked anew at a volume.
History(j, vs) ==
    /\ touched'[j] \subseteq touched[j]
    /\ \A k \in Job \ {j} :
          touched'[k] = IF Watches(k) THEN touched[k] \union vs ELSE touched[k]

\* A step of command j keeps the invariant when j knows what it needs afterwards
\* and the others are left what they know.
LEMMA VolumesFrame ==
    ASSUME VolumesInv, NEW j \in Job, NEW w, Becomes(j, w), Knows(j, w)',
           WorldTypeOK', \A v \in Volume : data'[v] # "empty" \/ users'[v] # {} => labels'[v] # "absent",
           job[j].cmd # "none", w.cmd = job[j].cmd,
           w.cmd \in {"backup", "restore"} => Archiving(job[j]),
           NEW vs, History(j, vs), \A k \in Job \ {j} : LeftTo(k)
    PROVE  VolumesInv'
<1>1. VolumesTypeOK'
  BY DEF VolumesTypeOK, Becomes
<1>2. \A v \in Volume : (data[v] # "empty" \/ users[v] # {} => Exists(v))'
  BY DEF Exists
<1>3. ASSUME NEW k \in Job, job'[k].cmd = "none" PROVE touched'[k] = {}
  <2>1. k # j /\ job[k].cmd = "none"
    BY <1>3 DEF Becomes
  <2>2. ~Watches(k)
    BY <2>1 DEF Watches
  <2> QED  BY <2>1, <2>2 DEF History, VolumesInv
<1>4. ASSUME NEW a \in Job, NEW k \in Job, Archiving(job'[a])
      PROVE  /\ Archiving(job'[k]) => a = k
             /\ job'[k].cmd \in {"backup", "restore"} /\ job'[k].step \in Ended
                   => touched'[a] \subseteq touched'[k]
  <2>1. Archiving(job[a])
    BY <1>4 DEF Becomes, Archiving
  <2>2. Archiving(job'[k]) => Archiving(job[k])
    BY DEF Becomes, Archiving
  <2>3. ASSUME job'[k].cmd \in {"backup", "restore"}, job'[k].step \in Ended
        PROVE  touched'[a] \subseteq touched'[k]
    <3>1. k # a
      BY <1>4, <2>3 DEF Archiving
    <3>2. k # j
      BY <2>1, <2>3, <3>1 DEF Becomes, VolumesInv, OneArchive
    <3>3. job'[k] = job[k] /\ touched[a] \subseteq touched[k] /\ Watches(k)
      BY <2>1, <2>3, <3>2 DEF Becomes, VolumesInv, OneArchive, Watches
    <3>4. Watches(a)
      BY <2>1 DEF Archiving, Watches
    <3> QED  BY <3>2, <3>3, <3>4 DEF History
  <2> QED  BY <2>1, <2>2, <2>3 DEF VolumesInv, OneArchive
<1>5. OneArchive'
  BY <1>4 DEF OneArchive, Archiving
<1>6. ASSUME NEW k \in Job PROVE Knows(k, job[k])'
  <2>1. CASE k = j
    BY <2>1 DEF Becomes
  <2>2. CASE k # j
    <3>1. PICK z : z = job[k]
      OBVIOUS
    <3>2. Knows(k, z)'
      BY <2>2, <3>1, OthersKnow
    <3> QED  BY <2>2, <3>1, <3>2 DEF Becomes
  <2> QED  BY <2>1, <2>2
<1> QED  BY <1>1, <1>2, <1>3, <1>5, <1>6 DEF VolumesInv

\* A step that touches only volumes it tells the others of.
LEMMA TouchesLeave ==
    ASSUME VolumesInv, NEW j \in Job, NEW vs, History(j, vs), UNCHANGED <<dir, missed, lately>>,
           \A v \in Volume : users[v] \ {j} \subseteq users'[v],
           \A v \in Volume : v \notin vs =>
              /\ labels[v] = "own" => labels'[v] = "own"
              /\ data'[v] = data[v]
              /\ users'[v] = users[v] \/ users'[v] = users[v] \ {j}
    PROVE  \A k \in Job \ {j} : LeftTo(k)
<1> SUFFICES ASSUME NEW k \in Job \ {j} PROVE LeftTo(k)
  OBVIOUS
<1>1. job[k] \in JobType /\ InShape(job[k])
  BY DEF VolumesInv, VolumesTypeOK, Knows
<1>2. job[k].side = "wsl" => Watches(k)
  BY <1>1 DEF InShape, Idle, Watches
<1>3. job[k].cmd \in {"backup", "restore"} => Watches(k)
  BY DEF Watches
<1>4. Watches(k) => vs \subseteq touched'[k]
  BY DEF History
<1>5. touched[k] \subseteq touched'[k] /\ Gone' = Gone
  BY DEF History, Gone
<1> QED  BY <1>2, <1>3, <1>4, <1>5 DEF LeftTo, Archiving

\* A step of the backup or restore under way, which tells nobody: no other is
\* there, and an ended one has been told whatever this one was.
LEMMA ArchiveLeaves ==
    ASSUME VolumesInv, NEW j \in Job, Archiving(job[j]), UNCHANGED <<dir, missed, lately>>,
           History(j, {}),
           \A v \in Volume : users[v] \ {j} \subseteq users'[v],
           \A v \in Volume : /\ labels[v] = "own" => labels'[v] = "own"
                             /\ data[v] = "archive" => data'[v] = "archive" \/ v \in touched[j]
    PROVE  \A k \in Job \ {j} : LeftTo(k)
<1> SUFFICES ASSUME NEW k \in Job \ {j} PROVE LeftTo(k)
  OBVIOUS
<1>1. ~Archiving(job[k])
  BY DEF VolumesInv, OneArchive
<1>2. job[k].cmd \in {"backup", "restore"} => touched[j] \subseteq touched[k]
  BY <1>1 DEF VolumesInv, OneArchive, Archiving
<1>3. touched'[k] = touched[k] /\ Gone' = Gone
  BY DEF History, Gone
<1> QED  BY <1>1, <1>2, <1>3 DEF LeftTo

\* A step that changes nothing but its command and what that has looked at.
LEMMA QuietFrame ==
    ASSUME VolumesInv, NEW j \in Job, NEW w, Becomes(j, w), Knows(j, w)',
           job[j].cmd # "none", w.cmd = job[j].cmd,
           w.cmd \in {"backup", "restore"} => Archiving(job[j]),
           UNCHANGED <<labels, data, users, dir, moves, missed>>,
           lately' = lately \/ lately' = [lately EXCEPT ![j] = Gone],
           touched' = touched \/ \E v : Looks(j, v)
    PROVE  VolumesInv'
<1>1. WorldTypeOK
  BY DEF VolumesInv, VolumesTypeOK
<1>2. Gone \subseteq Project
  BY DEF Gone
<1>3. WorldTypeOK'
  <2>1. lately' \in [Job -> SUBSET Project]
    BY <1>1, <1>2 DEF WorldTypeOK
  <2>2. touched' \in [Job -> SUBSET Volume]
    BY <1>1 DEF WorldTypeOK, Looks
  <2> QED  BY <1>1, <2>1, <2>2 DEF WorldTypeOK
<1>4. History(j, {})
  BY <1>1 DEF History, WorldTypeOK, Looks
<1>5. ASSUME NEW k \in Job \ {j} PROVE LeftTo(k)
  <2>1. touched'[k] = touched[k] /\ lately'[k] = lately[k] /\ missed'[k] = missed[k] /\ Gone' = Gone
    BY <1>1, <1>4 DEF WorldTypeOK, History, Gone
  <2> QED  BY <2>1 DEF LeftTo
<1>6. \A v \in Volume : data'[v] # "empty" \/ users'[v] # {} => labels'[v] # "absent"
  BY DEF VolumesInv, Exists
<1> QED  BY <1>3, <1>4, <1>5, <1>6, VolumesFrame

\* Every command may fail at a request, and end where it has nothing left to do.
LEMMA EndFrame ==
    ASSUME VolumesInv, NEW j \in Job, NEW step \in Ended, Ends(j, step),
           job[j].cmd # "none", job[j].step \notin Ended,
           step = "failed" \/ job[j].cmd \notin {"backup", "restore"},
           UNCHANGED <<labels, data, users, dir, moves, missed>>,
           lately' = lately \/ lately' = [lately EXCEPT ![j] = Gone],
           touched' = touched \/ \E v : Looks(j, v)
    PROVE  VolumesInv'
<1>1. PICK w : w = Over(job[j].cmd, step)
  OBVIOUS
<1>2. Becomes(j, w)
  BY <1>1, EndsBecomes DEF VolumesInv
<1>3. Knows(j, w)'
  BY <1>1, OverKnows
<1>4. w.cmd = job[j].cmd
  BY <1>1 DEF Over, Idle
<1>5. w.cmd \in {"backup", "restore"} => Archiving(job[j])
  BY <1>4 DEF Archiving
<1> QED  BY <1>2, <1>3, <1>4, <1>5, QuietFrame

-----------------------------------------------------------------------------
(* Tool runs *)

\* What a command at work is.
LEMMA AtWork ==
    ASSUME VolumesInv, NEW j \in Job
    PROVE  /\ VolumesTypeOK /\ WorldTypeOK /\ job[j] \in JobType
           /\ Knows(j, job[j]) /\ InShape(job[j])
           /\ job[j].step \notin {"idle"} \union Ended => job[j].cmd # "none"
           /\ \A v \in Volume : data[v] # "empty" \/ users[v] # {} => Exists(v)
BY DEF VolumesInv, VolumesTypeOK, Knows, InShape, StepsOf

\* A run relies on something only between its proof of a volume and its start.
LEMMA RunKnows ==
    ASSUME NEW k \in Job, NEW w, w.cmd = "run", InShape(w),
           w.step \notin {"prove", "tool"}, w.step = "start" => w.side = "windows"
    PROVE  Knows(k, w)'
<1>1. w.step # "delete"
  BY DEF InShape, StepsOf, Ended
<1> QED  BY <1>1 DEF Knows, InShape, Judged, Proved, BackupKnows, RestoreKnows

\* The requests that change nothing.
LEMMA RunLooks ==
    ASSUME VolumesInv, NEW j \in Job, NEW v \in Volume,
           Inspect(j, v) \/ Reinspect(j) \/ AllEnsured(j) \/ ProveMount(j, v)
    PROVE  VolumesInv'
<1> USE AtWork
<1>1. /\ job[j].cmd = "run" /\ job[j].step \notin {"idle"} \union Ended
      /\ UNCHANGED <<labels, data, users, dir, moves, missed, lately>>
      /\ touched' = touched \/ \E z : Looks(j, z)
  BY DEF Inspect, Reinspect, AllEnsured, ProveMount, At, NoHistory, volumesEngine, volumesHistory,
         Ended
<1>2. /\ job[j].p \in Project /\ Needed(job[j].p) \subseteq Volume
      /\ job[j].side = (IF job[j].p \in WinProject THEN "windows" ELSE "wsl")
  BY <1>1, VolumesDiffer DEF InShape
<1>3. CASE Fails(j)
  BY <1>1, <1>3, EndFrame DEF Fails, Ended
<1>4. CASE Inspect(j, v) /\ ~Fails(j)
  <2>1. PICK step \in {"ensure", "create"}, at \in {"none", v} :
           Turns(j, step, at, v) /\ (step = "create" => at = v)
    BY <1>4 DEF Inspect
  <2>2. PICK w : w = [job[j] EXCEPT !.step = step, !.at = at, !.todo = job[j].todo \ {v}]
    OBVIOUS
  <2>3. Becomes(j, w)
    BY <2>1, <2>2, TurnsBecomes DEF AllSteps
  <2>4. /\ w.cmd = "run" /\ w.step = step /\ w.side = job[j].side /\ w.p = job[j].p /\ w.at = at
    BY <1>1, <2>2 DEF JobType
  <2>5. InShape(w)
    BY <1>2, <2>1, <2>4 DEF InShape, StepsOf, Ended, Applying, AtHand
  <2>6. Knows(j, w)'
    BY <2>1, <2>4, <2>5, RunKnows
  <2> QED  BY <1>1, <2>3, <2>4, <2>6, QuietFrame
<1>5. CASE Reinspect(j) /\ ~Fails(j)
  <2>1. Steps(j, "ensure")
    BY <1>5 DEF Reinspect
  <2>2. PICK w : w = [job[j] EXCEPT !.step = "ensure"]
    OBVIOUS
  <2>3. Becomes(j, w)
    BY <2>1, <2>2, StepsBecomes DEF AllSteps
  <2>4. w.cmd = "run" /\ w.step = "ensure" /\ w.side = job[j].side /\ w.p = job[j].p
    BY <1>1, <2>2 DEF JobType
  <2>5. InShape(w)
    BY <1>2, <2>4 DEF InShape, StepsOf, Ended, Applying, AtHand
  <2>6. Knows(j, w)'
    BY <2>1, <2>4, <2>5, RunKnows
  <2> QED  BY <1>1, <2>3, <2>4, <2>6, QuietFrame
<1>6. CASE AllEnsured(j)
  <2>1. PICK step \in {"start", "prove"}, todo \in SUBSET Volume :
           /\ StepsWith(j, step, todo)
           /\ step = "start" => job[j].side = "windows"
           /\ step = "prove" => job[j].side = "wsl" /\ todo = Needed(job[j].p)
    BY <1>2, <1>6 DEF AllEnsured, Windows
  <2>2. PICK w : w = [job[j] EXCEPT !.step = step, !.todo = todo]
    OBVIOUS
  <2>3. Becomes(j, w)
    BY <2>1, <2>2, StepsWithBecomes DEF AllSteps
  <2>4. w.cmd = "run" /\ w.step = step /\ w.side = job[j].side /\ w.p = job[j].p /\ w.todo = todo
    BY <1>1, <2>2 DEF JobType
  <2>5. InShape(w)
    BY <1>2, <2>1, <2>4 DEF InShape, StepsOf, Ended, Applying, AtHand
  <2>6. Knows(j, w)'
    BY <2>1, <2>4, <2>5 DEF Knows, InShape, Judged, Proved, BackupKnows, RestoreKnows
  <2> QED  BY <1>1, <2>3, <2>4, <2>6, QuietFrame
<1>7. CASE ProveMount(j, v) /\ ~Fails(j)
  <2>1. PICK step \in {"start", "prove"} :
           Turns(j, step, "none", v) /\ (step = "start" => job[j].todo = {v})
    BY <1>7 DEF ProveMount
  <2>2. PICK w : w = [job[j] EXCEPT !.step = step, !.at = "none", !.todo = job[j].todo \ {v}]
    OBVIOUS
  <2>3. Becomes(j, w)
    BY <2>1, <2>2, TurnsBecomes DEF AllSteps
  <2>4. /\ w.cmd = "run" /\ w.step = step /\ w.side = job[j].side /\ w.p = job[j].p
        /\ w.todo = job[j].todo \ {v}
    BY <1>1, <2>2 DEF JobType
  <2>5. /\ job[j].step = "prove" /\ Exact(v) /\ UNCHANGED labels
        /\ \A z \in Volume : z # v /\ z \in touched[j] => z \in touched'[j]
    BY <1>7 DEF ProveMount, At, Looks, WorldTypeOK, volumesEngine
  <2>6. job[j].side = "wsl"
    BY <2>5 DEF InShape
  <2>7. InShape(w)
    BY <1>2, <2>1, <2>4, <2>6 DEF InShape, StepsOf, Ended, Applying, AtHand
  <2>8. \A z \in Needed(job[j].p) \ job[j].todo : Exact(z) \/ z \in touched[j]
    BY <2>5 DEF Knows, Proved
  <2>9. \A z \in Needed(w.p) \ w.todo : (Exact(z) \/ z \in touched[j])'
    BY <1>2, <2>4, <2>5, <2>8 DEF Exact
  <2>10. Proved(j, w)'
    BY <2>1, <2>4, <2>9 DEF Proved
  <2> QED  BY <1>1, <2>3, <2>4, <2>7, <2>10, QuietFrame
           DEF Knows, InShape, Judged, BackupKnows, RestoreKnows
<1> QED  BY <1>3, <1>4, <1>5, <1>6, <1>7

\* The requests that create the volumes of a run.
LEMMA RunEnsures ==
    ASSUME VolumesInv, NEW j \in Job, NEW v \in Volume, EnsureManaged(j, v) \/ CreateManaged(j)
    PROVE  VolumesInv'
<1> USE AtWork
<1>1. /\ job[j].cmd = "run" /\ job[j].step \notin {"idle"} \union Ended
      /\ UNCHANGED <<users, dir, moves, missed, lately, touched>>
      /\ Create(v) \/ Create(job[j].at)
  BY DEF EnsureManaged, CreateManaged, At, NoHistory, volumesHistory, Ended
<1>2. /\ job[j].p \in Project /\ Needed(job[j].p) \subseteq Volume
      /\ job[j].side = (IF job[j].p \in WinProject THEN "windows" ELSE "wsl")
  BY <1>1, VolumesDiffer DEF InShape
<1>3. PICK z \in Volume : Create(z)
  BY <1>1 DEF EnsureManaged, CreateManaged, At, InShape
<1>4. WorldTypeOK' /\ \A x \in Volume : data'[x] # "empty" \/ users'[x] # {} => labels'[x] # "absent"
  BY <1>1, <1>3 DEF WorldTypeOK, Create, Exists
<1>5. /\ History(j, {})
      /\ \A x \in Volume : /\ labels[x] = "own" => labels'[x] = "own"
                           /\ data'[x] = data[x]
                           /\ users'[x] = users[x]
  BY <1>1, <1>3 DEF History, Create, Exists, WorldTypeOK
<1>6. \A k \in Job \ {j} : LeftTo(k)
  BY <1>1, <1>5, TouchesLeave
<1>7. PICK w : Becomes(j, w) /\ w.cmd = "run" /\ Knows(j, w)'
  <2>1. CASE EnsureManaged(j, v)
    <3>1. PICK w : w = [job[j] EXCEPT !.step = "ensure", !.at = "none", !.todo = job[j].todo \ {v}]
      OBVIOUS
    <3>2. Becomes(j, w)
      BY <2>1, <3>1, TurnsBecomes DEF AllSteps, EnsureManaged
    <3>3. w.cmd = "run" /\ w.step = "ensure" /\ w.side = job[j].side /\ w.p = job[j].p
      BY <1>1, <3>1 DEF JobType
    <3>4. InShape(w)
      BY <1>2, <3>3 DEF InShape, StepsOf, Ended, Applying, AtHand
    <3>5. Knows(j, w)'
      BY <3>3, <3>4, RunKnows
    <3> QED  BY <3>2, <3>3, <3>5
  <2>2. CASE CreateManaged(j) /\ Steps(j, "reinspect")
    <3>1. PICK w : w = [job[j] EXCEPT !.step = "reinspect"]
      OBVIOUS
    <3>2. Becomes(j, w)
      BY <2>2, <3>1, StepsBecomes DEF AllSteps
    <3>3. /\ w.cmd = "run" /\ w.step = "reinspect" /\ w.side = job[j].side /\ w.p = job[j].p
          /\ w.at = job[j].at
      BY <1>1, <3>1 DEF JobType
    <3>4. w.at \in Volume
      BY <2>2, <3>3 DEF CreateManaged, At, InShape
    <3>5. InShape(w)
      BY <1>2, <3>3, <3>4 DEF InShape, StepsOf, Ended, Applying, AtHand
    <3>6. Knows(j, w)'
      BY <3>3, <3>5, RunKnows
    <3> QED  BY <3>2, <3>3, <3>6
  <2>3. CASE CreateManaged(j) /\ Fails(j)
    <3>1. PICK w : w = Over(job[j].cmd, "failed")
      OBVIOUS
    <3>2. Becomes(j, w)
      BY <2>3, <3>1, EndsBecomes DEF Fails, Ended
    <3>3. Knows(j, w)'
      BY <1>1, <3>1, OverKnows DEF Ended
    <3> QED  BY <1>1, <3>1, <3>2, <3>3 DEF Over, Idle
  <2> QED  BY <2>1, <2>2, <2>3 DEF CreateManaged
<1> QED  BY <1>1, <1>4, <1>5, <1>6, <1>7, VolumesFrame

\* The tool starts, writes and ends, and tells the others of what it mounts.
LEMMA RunMounts ==
    ASSUME VolumesInv, NEW j \in Job, NEW v \in Volume,
           StartTool(j) \/ ToolWrites(j, v) \/ ToolEnds(j)
    PROVE  VolumesInv'
<1> USE AtWork
<1>1. /\ job[j].cmd = "run" /\ job[j].step \in {"start", "tool"}
      /\ UNCHANGED <<dir, moves, missed, lately>>
  BY DEF StartTool, ToolWrites, ToolEnds, At, NoHistory, volumesHistory
<1>2. /\ job[j].p \in Project /\ Needed(job[j].p) \subseteq Volume
      /\ job[j].side = (IF job[j].p \in WinProject THEN "windows" ELSE "wsl")
  BY <1>1, VolumesDiffer DEF InShape, Ended
<1>3. PICK vs \in SUBSET Volume :
        /\ History(j, vs)
        /\ touched' \in [Job -> SUBSET Volume]
        /\ \A x \in Volume : x \notin vs =>
              /\ labels[x] = "own" => labels'[x] = "own"
              /\ data'[x] = data[x]
              /\ users'[x] = users[x] \/ users'[x] = users[x] \ {j}
        /\ labels' \in [Volume -> {"absent", "own", "none", "odd"}]
        /\ data' \in [Volume -> {"empty", "used", "partial", "archive"}]
        /\ users' \in [Volume -> SUBSET Job]
        /\ \A x \in Volume : /\ data'[x] # "empty" \/ users'[x] # {} => labels'[x] # "absent"
                             /\ users[x] \ {j} \subseteq users'[x]
        /\ \E w : Becomes(j, w) /\ w.cmd = "run" /\ Knows(j, w)'
  <2>1. CASE StartTool(j)
    <3> DEFINE vs == Needed(job[j].p)
    <3>1. History(j, vs) /\ touched' \in [Job -> SUBSET Volume]
      BY <1>2, <2>1 DEF StartTool, Others, History, WorldTypeOK
    <3>2. /\ \A x \in Volume : x \notin vs =>
                labels'[x] = labels[x] /\ data'[x] = data[x] /\ users'[x] = users[x]
          /\ labels' \in [Volume -> {"absent", "own", "none", "odd"}]
          /\ data' \in [Volume -> {"empty", "used", "partial", "archive"}]
          /\ users' \in [Volume -> SUBSET Job]
          /\ \A x \in Volume : /\ data'[x] # "empty" \/ users'[x] # {} => labels'[x] # "absent"
                               /\ users[x] \subseteq users'[x]
          /\ \A x \in vs : j \in users'[x]
      BY <1>2, <2>1 DEF StartTool, Mount, Exists, WorldTypeOK
    <3>3. PICK w : w = [job[j] EXCEPT !.step = "tool"]
      OBVIOUS
    <3>4. Becomes(j, w)
      BY <2>1, <3>3, StepsBecomes DEF AllSteps, StartTool
    <3>5. w.cmd = "run" /\ w.step = "tool" /\ w.side = job[j].side /\ w.p = job[j].p
      BY <1>1, <3>3 DEF JobType
    <3>6. InShape(w)
      BY <1>2, <3>5 DEF InShape, StepsOf, Ended, Applying, AtHand
    <3>7. Proved(j, w)'
      BY <3>2, <3>5 DEF Proved
    <3>8. Knows(j, w)'
      BY <3>5, <3>6, <3>7 DEF Knows, InShape, Judged, BackupKnows, RestoreKnows
    <3> QED  BY <1>2, <3>1, <3>2, <3>4, <3>5, <3>8
  <2>2. CASE ToolWrites(j, v)
    <3>1. v \in Needed(job[j].p) /\ job[j].step = "tool" /\ UNCHANGED <<labels, users, job>>
          /\ data' = [data EXCEPT ![v] = "used"] /\ Others(j, {v})
      BY <2>2 DEF ToolWrites, At
    <3>2. Exists(v)
      BY <3>1 DEF Knows, Proved
    <3>3. History(j, {v}) /\ touched' \in [Job -> SUBSET Volume]
      BY <3>1 DEF Others, History, WorldTypeOK
    <3>4. data' \in [Volume -> {"empty", "used", "partial", "archive"}]
          /\ \A x \in Volume : /\ x # v => data'[x] = data[x]
                               /\ data'[x] # "empty" \/ users'[x] # {} => labels'[x] # "absent"
      BY <3>1, <3>2 DEF WorldTypeOK, Exists
    <3>5. PICK w : w = job[j]
      OBVIOUS
    <3>6. Becomes(j, w) /\ w.cmd = "run"
      BY <1>1, <3>1, <3>5 DEF Becomes, VolumesTypeOK
    <3>7. Proved(j, w)'
      BY <3>1, <3>5 DEF Knows, Proved
    <3>8. Knows(j, w)'
      BY <3>1, <3>5, <3>6, <3>7 DEF Knows, InShape, Judged, BackupKnows, RestoreKnows
    <3> QED  BY <3>1, <3>3, <3>4, <3>6, <3>8 DEF WorldTypeOK
  <2>3. CASE ToolEnds(j)
    <3>1. /\ UNCHANGED <<labels, data, touched>> /\ Ends(j, "done")
          /\ users' \in [Volume -> SUBSET Job]
          /\ \A x \in Volume : users'[x] = users[x] \/ users'[x] = users[x] \ {j}
      BY <2>3 DEF ToolEnds, Unmount, WorldTypeOK, NoHistory, volumesHistory
    <3>2. PICK w : w = Over(job[j].cmd, "done")
      OBVIOUS
    <3>3. Becomes(j, w)
      BY <3>1, <3>2, EndsBecomes DEF Ended
    <3>4. Knows(j, w)'
      BY <1>1, <3>2, OverKnows DEF Ended
    <3>5. w.cmd = "run"
      BY <1>1, <3>2 DEF Over, Idle
    <3>6. History(j, {})
      BY <3>1 DEF History
    <3>7. \A x \in Volume : /\ data'[x] # "empty" \/ users'[x] # {} => labels'[x] # "absent"
                            /\ users[x] \ {j} \subseteq users'[x]
      BY <3>1 DEF Exists, WorldTypeOK
    <3> QED  BY <3>1, <3>3, <3>4, <3>5, <3>6, <3>7 DEF WorldTypeOK
  <2> QED  BY <2>1, <2>2, <2>3
<1>4. WorldTypeOK'
  BY <1>1, <1>3 DEF WorldTypeOK
<1>5. \A k \in Job \ {j} : LeftTo(k)
  BY <1>1, <1>3, TouchesLeave
<1> QED  BY <1>1, <1>3, <1>4, <1>5, VolumesFrame

-----------------------------------------------------------------------------
(* cb gc and cb gc --orphans *)

\* What a gc relies on besides the directories is the proof before a removal.
LEMMA GcKnows ==
    ASSUME NEW k \in Job, NEW w, w.cmd \in {"gc", "orphans"}, InShape(w), Judged(k, w)',
           w.step = "delete" => (Exact(w.at) \/ w.at \in touched[k])'
    PROVE  Knows(k, w)'
<1>1. w.step \notin {"prove", "start", "tool"}
  BY DEF InShape, StepsOf, Applying, Ended
<1> QED  BY <1>1 DEF Knows, InShape, Proved, BackupKnows, RestoreKnows

\* What a gc at work is.
LEMMA GcAtWork ==
    ASSUME VolumesInv, NEW j \in Job, job[j].cmd \in {"gc", "orphans"}, job[j].step \notin Ended
    PROVE  /\ job[j].step # "look" => job[j].plan = {}
           /\ job[j].cmd = "gc" =>
                 /\ job[j].p \in Project
                 /\ job[j].side = "wsl" => job[j].p \in WslProject
           /\ job[j].side \in {"windows", "wsl"}
           /\ job[j].todo \subseteq Volume
BY AtWork DEF InShape, JobType, Project

\* A listing leads to what is listed: to removals, to the labels or to the paths.
LEMMA GcListed ==
    ASSUME VolumesInv, NEW j \in Job,
           job[j].cmd \in {"gc", "orphans"}, job[j].step \in {"list", "labels"},
           UNCHANGED <<labels, data, users, dir, moves, missed, lately, touched>>,
           NEW step \in {"remove", "labels", "look", "again"}, NEW todo \in SUBSET Volume,
           StepsWith(j, step, todo),
           step = "remove" =>
              job[j].cmd = "gc" /\ job[j].side = "windows" /\ todo \subseteq {job[j].p},
           step = "labels" => job[j].cmd = "orphans" /\ job[j].side = "windows",
           step = "look" =>
              job[j].cmd = "orphans" /\ todo \subseteq (IF job[j].side = "wsl" THEN WslProject ELSE Project),
           step = "again" =>
              job[j].cmd = "gc" /\ job[j].side = "wsl" /\ todo \subseteq {job[j].p}
    PROVE  VolumesInv'
<1> USE AtWork
<1>1. job[j].step \notin {"idle"} \union Ended
  BY DEF Ended
<1>2. /\ job[j].plan = {} /\ job[j].side \in {"windows", "wsl"}
      /\ job[j].cmd = "gc" =>
           /\ job[j].p \in Project
           /\ job[j].side = "wsl" => job[j].p \in WslProject
  BY <1>1, GcAtWork
<1>3. PICK w : w = [job[j] EXCEPT !.step = step, !.todo = todo]
  OBVIOUS
<1>4. Becomes(j, w)
  BY <1>3, StepsWithBecomes DEF AllSteps, Applying
<1>5. /\ w.cmd = job[j].cmd /\ w.step = step /\ w.side = job[j].side /\ w.p = job[j].p
      /\ w.todo = todo /\ w.plan = {}
  BY <1>2, <1>3 DEF JobType
<1>6. InShape(w)
  <2>1. w.step \in StepsOf(w.cmd) /\ w.cmd # "none"
    BY <1>5 DEF StepsOf, Applying
  <2>2. job[j].cmd = "gc" => w.side = IF w.p \in WinProject THEN "windows" ELSE "wsl"
    BY <1>1, <1>5 DEF InShape
  <2>3. WslProject \subseteq Project
    BY DEF Project
  <2> QED  BY <1>2, <1>5, <2>1, <2>2, <2>3 DEF InShape, Applying, AtHand
<1>7. Judged(j, w)'
  BY <1>5 DEF Knows, Judged, Gone, Applying
<1>8. Knows(j, w)'
  BY <1>5, <1>6, <1>7, GcKnows
<1> QED  BY <1>1, <1>4, <1>5, <1>8, QuietFrame

\* The requests that list volumes and read their labels.
LEMMA GcLists ==
    ASSUME VolumesInv, NEW j \in Job,
           ListCurrent(j) \/ ListLabeled(j) \/ ReadLabels(j) \/ DiscoverProven(j)
    PROVE  VolumesInv'
<1> USE AtWork
<1>1. /\ job[j].cmd \in {"gc", "orphans"} /\ job[j].step \in {"list", "labels"}
      /\ job[j].step \notin {"idle"} \union Ended
      /\ UNCHANGED <<labels, data, users, dir, moves, missed, lately, touched>>
  BY DEF ListCurrent, ListLabeled, ReadLabels, DiscoverProven, At, NoHistory, volumesEngine,
         volumesHistory, Ended
<1>2. job[j].cmd = "gc" => job[j].p \in Project
  BY <1>1, GcAtWork
<1>3. Project \subseteq Volume /\ WslProject \subseteq Project
  BY VolumesDiffer DEF Project
<1>4. CASE Fails(j) \/ Ends(j, "done")
  BY <1>1, <1>4, EndFrame DEF Fails, Ended
<1>5. CASE ListCurrent(j) /\ ~Ends(j, "done")
  <2>1. job[j].cmd = "gc" /\ Windows(j) /\ StepsWith(j, "remove", {job[j].p})
    BY <1>5 DEF ListCurrent, At
  <2> QED  BY <1>1, <1>2, <1>3, <2>1, GcListed DEF Windows
<1>6. CASE ListLabeled(j)
  <2>1. job[j].cmd = "orphans" /\ job[j].side = "windows"
    BY <1>6 DEF ListLabeled, At, Windows
  <2>2. PICK vs \in SUBSET Volume : StepsWith(j, "labels", vs)
    BY <1>6 DEF ListLabeled
  <2> QED  BY <1>1, <2>1, <2>2, GcListed
<1>7. CASE ReadLabels(j) /\ ~Fails(j)
  <2>1. job[j].cmd = "orphans" /\ job[j].step = "labels"
    BY <1>7 DEF ReadLabels, At
  <2>2. PICK vs \in SUBSET Project : StepsWith(j, "look", vs)
    BY <1>7 DEF ReadLabels
  <2>3. job[j].side = "windows"
    BY <2>1 DEF InShape
  <2> QED  BY <1>1, <1>3, <2>1, <2>2, <2>3, GcListed
<1>8. CASE DiscoverProven(j) /\ ~Fails(j)
  <2>1. job[j].side = "wsl"
    BY <1>8 DEF DiscoverProven, Native
  <2>2. CASE job[j].cmd = "gc"
    <3>1. PICK vs \in SUBSET {job[j].p} : StepsWith(j, "again", vs)
      BY <1>8, <2>2 DEF DiscoverProven
    <3> QED  BY <1>1, <1>2, <1>3, <2>1, <2>2, <3>1, GcListed
  <2>3. CASE job[j].cmd = "orphans"
    <3>1. PICK vs \in SUBSET WslProject : StepsWith(j, "look", vs)
      BY <1>8, <2>3 DEF DiscoverProven
    <3> QED  BY <1>1, <1>3, <2>1, <2>3, <3>1, GcListed
  <2> QED  BY <1>1, <2>2, <2>3
<1> QED  BY <1>4, <1>5, <1>6, <1>7, <1>8

\* gc --orphans looks at the paths, and its plan is made.
LEMMA OrphansPlan ==
    ASSUME VolumesInv, NEW j \in Job, (\E p \in Project : LookAtPath(j, p)) \/ PlanMade(j)
    PROVE  VolumesInv'
<1> USE AtWork
<1>1. /\ job[j].cmd = "orphans" /\ job[j].step = "look" /\ job[j].step \notin {"idle"} \union Ended
      /\ UNCHANGED <<labels, data, users, dir, moves, missed, touched>>
      /\ lately' = lately \/ lately' = [lately EXCEPT ![j] = Gone]
  BY DEF LookAtPath, PlanMade, At, NoHistory, volumesEngine, volumesHistory, Ended
<1>2. job[j].side \in {"windows", "wsl"}
  BY <1>1, GcAtWork
<1>3. /\ job[j].todo \union job[j].plan \subseteq (IF job[j].side = "wsl" THEN WslProject ELSE Project)
      /\ job[j].plan \intersect WinProject \subseteq missed[j] /\ Gone \subseteq missed[j]
  BY <1>1 DEF InShape, Knows, Judged
<1>4. ASSUME NEW p \in Project, LookAtPath(j, p) PROVE VolumesInv'
  <2>1. PICK plan \in SUBSET Volume :
           /\ job' = [job EXCEPT ![j].todo = @ \ {p}, ![j].plan = plan]
           /\ plan \subseteq job[j].plan \union {p}
           /\ p \in plan /\ p \notin job[j].plan => LooksGone(j, p)
    <3>1. job[j].plan \in SUBSET Volume /\ job[j].plan \union {p} \in SUBSET Volume
      BY VolumesDiffer DEF JobType
    <3>2. CASE LooksGone(j, p) /\ job' = [job EXCEPT ![j].todo = @ \ {p}, ![j].plan = @ \union {p}]
      BY <3>1, <3>2
    <3>3. CASE job' = [job EXCEPT ![j].todo = @ \ {p}]
      <4>1. job' = [job EXCEPT ![j].todo = @ \ {p}, ![j].plan = job[j].plan]
        BY <3>3 DEF VolumesTypeOK, JobType
      <4> QED  BY <3>1, <4>1
    <3> QED  BY <1>4, <3>2, <3>3 DEF LookAtPath
  <2>2. PICK w : w = [job[j] EXCEPT !.todo = job[j].todo \ {p}, !.plan = plan]
    OBVIOUS
  <2>3. Becomes(j, w)
    BY <2>1, <2>2 DEF Becomes, VolumesTypeOK, JobType
  <2>4. /\ w.cmd = "orphans" /\ w.step = "look" /\ w.side = job[j].side
        /\ w.todo = job[j].todo \ {p} /\ w.plan = plan
    BY <1>1, <2>2 DEF JobType
  <2>5. p \in job[j].todo
    BY <1>4 DEF LookAtPath
  <2>6. InShape(w)
    BY <1>2, <1>3, <2>1, <2>4, <2>5 DEF InShape, StepsOf, Ended, Applying, AtHand
  <2>7. p \in plan \intersect WinProject => p \in missed[j]
    <3>1. WinProject \intersect WslProject = {}
      BY VolumesDiffer
    <3>2. dir[p] \in {"dir", "missing", "unsafe"}
      BY DEF WorldTypeOK
    <3> QED  BY <1>3, <2>1, <3>1, <3>2 DEF LooksGone, Gone
  <2>8. lately' = lately
    BY <1>4 DEF LookAtPath, NoHistory, volumesHistory
  <2>9. Judged(j, w)'
    BY <1>1, <1>3, <2>1, <2>4, <2>7 DEF Judged, Gone, Applying
  <2>10. Knows(j, w)'
    BY <2>4, <2>6, <2>9, GcKnows
  <2> QED  BY <1>1, <2>3, <2>4, <2>10, QuietFrame
<1>5. CASE PlanMade(j)
  <2>1. PICK step \in {"remove", "again"} :
           /\ job' = [job EXCEPT ![j].step = step, ![j].todo = job[j].plan, ![j].plan = {}]
           /\ step = IF Windows(j) THEN "remove" ELSE "again"
    BY <1>5 DEF PlanMade
  <2>2. PICK w : w = [job[j] EXCEPT !.step = step, !.todo = job[j].plan, !.plan = {}]
    OBVIOUS
  <2>3. Becomes(j, w)
    <3>1. w \in JobType
      BY <2>2 DEF JobType, Applying
    <3>2. job' \in [Job -> JobType] /\ job'[j] = w /\ \A k \in Job \ {j} : job'[k] = job[k]
      BY <2>1, <2>2, <3>1 DEF VolumesTypeOK
    <3> QED  BY <3>1, <3>2 DEF Becomes
  <2>4. /\ w.cmd = "orphans" /\ w.step = step /\ w.side = job[j].side
        /\ w.todo = job[j].plan /\ w.plan = {}
    BY <1>1, <2>2 DEF JobType
  <2>5. InShape(w)
    BY <1>2, <1>3, <2>1, <2>4 DEF InShape, StepsOf, Ended, Applying, AtHand, Windows
  <2>6. lately'[j] = Gone /\ Gone' = Gone
    BY <1>1, <1>5 DEF PlanMade, WorldTypeOK, Gone
  <2>7. Judged(j, w)'
    BY <1>1, <1>3, <2>4, <2>6 DEF Judged
  <2>8. Knows(j, w)'
    BY <2>4, <2>5, <2>7, GcKnows
  <2> QED  BY <1>1, <2>3, <2>4, <2>8, QuietFrame
<1> QED  BY <1>4, <1>5

\* A WSL gc turns to a volume, proves it, and makes sure that it has gone.
LEMMA GcProves ==
    ASSUME VolumesInv, NEW j \in Job, NEW v \in Volume,
           LookAgain(j, v) \/ InspectExact(j) \/ VerifyGone(j) \/ AllRemoved(j)
    PROVE  VolumesInv'
<1> USE AtWork
<1>1. /\ job[j].cmd \in {"gc", "orphans"} /\ job[j].step \notin {"idle"} \union Ended
      /\ job[j].step \in Applying \union {"remove"}
      /\ UNCHANGED <<labels, data, users, dir, moves, missed>>
      /\ lately' = lately \/ lately' = [lately EXCEPT ![j] = Gone]
      /\ touched' = touched \/ \E z : Looks(j, z)
  BY DEF LookAgain, InspectExact, VerifyGone, AllRemoved, At, NoHistory, volumesEngine,
         volumesHistory, Ended, Applying
<1>2. /\ job[j].plan = {}
      /\ job[j].cmd = "gc" => job[j].p \in Project
      /\ job[j].cmd = "gc" => job[j].side = IF job[j].p \in WinProject THEN "windows" ELSE "wsl"
  BY <1>1, GcAtWork DEF Applying, InShape
<1>3. job[j].step \in Applying =>
         job[j].side = "wsl" /\ job[j].todo \subseteq WslProject
         /\ (job[j].cmd = "orphans" => Gone \subseteq missed[j] /\ Gone \subseteq lately[j])
  BY DEF InShape, Knows, Judged
<1>4. Gone' = Gone
  BY <1>1 DEF Gone
<1>5. CASE Fails(j) \/ Ends(j, "done")
  BY <1>1, <1>5, EndFrame DEF Fails, Ended
<1>6. ASSUME NEW step \in Applying, NEW at \in Volume \union {"none"}, NEW w,
             w = [job[j] EXCEPT !.step = step, !.at = at, !.todo = w.todo],
             w.todo \subseteq job[j].todo, Becomes(j, w), job[j].step \in Applying,
             step \in AtHand => at \in WslProject,
             Gone \subseteq lately'[j] \/ job[j].cmd = "gc",
             job[j].cmd = "orphans" /\ step \in {"inspect", "delete"} => at \in lately'[j],
             step = "delete" => (Exact(at) \/ at \in touched[j])'
      PROVE  VolumesInv'
  <2>1. /\ w.cmd = job[j].cmd /\ w.step = step /\ w.side = job[j].side /\ w.p = job[j].p
        /\ w.plan = {} /\ w.at = at
    BY <1>2, <1>6 DEF JobType
  <2>2. w.step \in StepsOf(w.cmd)
    BY <1>1, <2>1 DEF StepsOf
  <2>3. InShape(w)
    BY <1>1, <1>2, <1>3, <1>6, <2>1, <2>2 DEF InShape, Applying, AtHand
  <2>4. Judged(j, w)'
    BY <1>1, <1>3, <1>4, <1>6, <2>1 DEF Judged, Applying
  <2>5. Knows(j, w)'
    BY <1>1, <1>6, <2>1, <2>3, <2>4, GcKnows
  <2> QED  BY <1>1, <1>6, <2>1, <2>5, QuietFrame
<1>7. CASE LookAgain(j, v) /\ ~Fails(j)
  <2>1. /\ Turns(j, "inspect", v, v) /\ job[j].step = "again" /\ v \in job[j].todo
        /\ job[j].cmd = "gc" \/ LooksGone(j, v)
        /\ lately' = lately
    BY <1>7 DEF LookAgain, At, HasTurn, NoHistory, volumesHistory
  <2>2. PICK w : w = [job[j] EXCEPT !.step = "inspect", !.at = v, !.todo = job[j].todo \ {v}]
    OBVIOUS
  <2>3. Becomes(j, w)
    BY <2>1, <2>2, TurnsBecomes DEF AllSteps, Applying
  <2>4. w.todo = job[j].todo \ {v}
    BY <2>2 DEF JobType
  <2>5. v \in WslProject /\ job[j].side = "wsl"
    BY <1>3, <2>1 DEF Applying
  <2>6. job[j].cmd = "orphans" => v \in lately'[j] /\ Gone \subseteq lately'[j]
    BY <1>3, <2>1, <2>5 DEF LooksGone, Native, Gone, Project, Applying
  <2>7. w = [job[j] EXCEPT !.step = "inspect", !.at = v, !.todo = w.todo]
    BY <2>2, <2>4
  <2> QED  BY <1>1, <1>6, <2>1, <2>3, <2>4, <2>5, <2>6, <2>7 DEF Applying, AtHand
<1>8. CASE InspectExact(j) /\ ~Fails(j)
  <2>1. Steps(j, "delete") /\ job[j].step = "inspect" /\ Exact(job[j].at) /\ lately' = lately
    BY <1>8 DEF InspectExact, At
  <2>2. PICK w : w = [job[j] EXCEPT !.step = "delete"]
    OBVIOUS
  <2>3. Becomes(j, w)
    BY <2>1, <2>2, StepsBecomes DEF AllSteps, Applying
  <2>4. PICK at \in WslProject : at = job[j].at
    BY <2>1 DEF InShape, AtHand
  <2>5. w = [job[j] EXCEPT !.step = "delete", !.at = at, !.todo = w.todo] /\ w.todo = job[j].todo
    BY <2>2, <2>4 DEF JobType
  <2>6. job[j].cmd = "orphans" => at \in lately'[j] /\ Gone \subseteq lately'[j]
    BY <1>3, <2>1, <2>4 DEF Knows, Judged, Applying
  <2>7. (Exact(at))' /\ at \in Volume
    BY <1>1, <2>1, <2>4, VolumesDiffer DEF Exact, Project
  <2> QED  BY <1>1, <1>6, <2>1, <2>3, <2>4, <2>5, <2>6, <2>7 DEF Applying, AtHand
<1>9. CASE VerifyGone(j) /\ ~Fails(j)
  <2>1. /\ job' = [job EXCEPT ![j].step = "again", ![j].at = "none"]
        /\ job[j].step = "verify" /\ lately'[j] = Gone
    BY <1>9 DEF VerifyGone, At, WorldTypeOK
  <2>2. PICK w : w = [job[j] EXCEPT !.step = "again", !.at = "none"]
    OBVIOUS
  <2>3. w \in JobType
    BY <2>2 DEF JobType, Applying
  <2>4. Becomes(j, w)
    BY <2>1, <2>2, <2>3 DEF Becomes, VolumesTypeOK
  <2>5. w = [job[j] EXCEPT !.step = "again", !.at = "none", !.todo = w.todo] /\ w.todo = job[j].todo
    BY <2>2 DEF JobType
  <2> QED  BY <1>6, <2>1, <2>4, <2>5 DEF Applying, AtHand
<1> QED  BY <1>5, <1>7, <1>8, <1>9 DEF AllRemoved

\* A removal tells every command that has looked at the volume.
LEMMA RemovalFrame ==
    ASSUME VolumesInv, NEW j \in Job, NEW v \in Volume, Removable(v), DeleteVolume(j, v),
           UNCHANGED <<users, dir, moves, missed, lately>>,
           NEW w, Becomes(j, w), Knows(j, w)', w.cmd = job[j].cmd,
           job[j].cmd \in {"gc", "orphans"}
    PROVE  VolumesInv'
<1> USE AtWork
<1>1. History(j, {v}) /\ touched' \in [Job -> SUBSET Volume]
  BY DEF DeleteVolume, Others, History, WorldTypeOK
<1>2. /\ labels' \in [Volume -> {"absent", "own", "none", "odd"}]
      /\ data' \in [Volume -> {"empty", "used", "partial", "archive"}]
      /\ \A x \in Volume \ {v} : labels'[x] = labels[x] /\ data'[x] = data[x]
      /\ data'[v] = "empty" /\ users'[v] = {}
  BY DEF DeleteVolume, Removable, WorldTypeOK
<1>3. WorldTypeOK'
  BY <1>1, <1>2 DEF WorldTypeOK
<1>4. \A x \in Volume : data'[x] # "empty" \/ users'[x] # {} => labels'[x] # "absent"
  BY <1>2 DEF Exists
<1>5. \A k \in Job \ {j} : LeftTo(k)
  BY <1>1, <1>2, TouchesLeave
<1> QED  BY <1>1, <1>3, <1>4, <1>5, VolumesFrame

\* gc of Windows removes by name, gc of WSL what it has just proved.
LEMMA GcRemoves ==
    ASSUME VolumesInv, NEW j \in Job, NEW v \in Volume, Remove(j, v) \/ DeleteProven(j)
    PROVE  VolumesInv'
<1> USE AtWork
<1>1. /\ job[j].cmd \in {"gc", "orphans"} /\ job[j].step \in {"remove", "delete"}
      /\ job[j].step \notin {"idle"} \union Ended
      /\ UNCHANGED <<users, dir, moves, missed, lately>>
  BY DEF Remove, DeleteProven, At, Ended
<1>2. /\ job[j].plan = {}
      /\ job[j].cmd = "gc" => job[j].p \in Project
      /\ job[j].cmd = "gc" => job[j].side = IF job[j].p \in WinProject THEN "windows" ELSE "wsl"
  BY <1>1, GcAtWork DEF InShape
<1>3. Gone' = Gone
  BY <1>1 DEF Gone
<1>4. CASE Fails(j) /\ UNCHANGED <<labels, data, touched>>
  BY <1>1, <1>4, EndFrame DEF Fails, Ended
<1>5. CASE Remove(j, v) /\ Removable(v)
  <2>1. /\ DeleteVolume(j, v) /\ Turns(j, "remove", "none", v) /\ job[j].step = "remove"
    BY <1>5 DEF Remove, At
  <2>2. PICK w : w = [job[j] EXCEPT !.step = "remove", !.at = "none", !.todo = job[j].todo \ {v}]
    OBVIOUS
  <2>3. Becomes(j, w)
    BY <2>1, <2>2, TurnsBecomes DEF AllSteps
  <2>4. /\ w.cmd = job[j].cmd /\ w.step = "remove" /\ w.side = job[j].side /\ w.p = job[j].p
        /\ w.plan = {} /\ w.todo \subseteq job[j].todo
    BY <1>2, <2>2 DEF JobType
  <2>5. job[j].side = "windows" /\ job[j].todo \subseteq Project
    BY <2>1 DEF InShape
  <2>6. InShape(w)
    BY <1>1, <1>2, <2>4, <2>5 DEF InShape, StepsOf, Applying, AtHand
  <2>7. Judged(j, w)'
    BY <1>1, <1>3, <2>1, <2>4 DEF Knows, Judged, Applying
  <2>8. Knows(j, w)'
    BY <1>1, <2>4, <2>6, <2>7, GcKnows
  <2> QED  BY <1>1, <1>5, <2>1, <2>3, <2>4, <2>8, RemovalFrame
<1>6. CASE DeleteProven(j) /\ Removable(job[j].at)
  <2>1. DeleteVolume(j, job[j].at) /\ Steps(j, "verify") /\ job[j].step = "delete"
    BY <1>6 DEF DeleteProven, At
  <2>2. PICK w : w = [job[j] EXCEPT !.step = "verify"]
    OBVIOUS
  <2>3. Becomes(j, w)
    BY <2>1, <2>2, StepsBecomes DEF AllSteps, Applying
  <2>4. /\ w.cmd = job[j].cmd /\ w.step = "verify" /\ w.side = job[j].side /\ w.p = job[j].p
        /\ w.plan = {} /\ w.todo = job[j].todo /\ w.at = job[j].at
    BY <1>2, <2>2 DEF JobType
  <2>5. /\ job[j].side = "wsl" /\ job[j].todo \subseteq WslProject /\ job[j].at \in WslProject
    BY <2>1 DEF InShape, Applying, AtHand
  <2>6. InShape(w)
    BY <1>1, <1>2, <2>4, <2>5 DEF InShape, StepsOf, Applying, AtHand
  <2>7. Judged(j, w)'
    BY <1>1, <1>3, <2>1, <2>4 DEF Knows, Judged, Applying
  <2>8. Knows(j, w)'
    BY <1>1, <2>4, <2>6, <2>7, GcKnows
  <2>9. job[j].at \in Volume
    BY <2>5, VolumesDiffer DEF Project
  <2> QED  BY <1>1, <1>6, <2>1, <2>3, <2>4, <2>8, <2>9, RemovalFrame
<1> QED  BY <1>4, <1>5, <1>6 DEF Remove, DeleteProven

-----------------------------------------------------------------------------
(* cb backup --state and cb restore --state *)

\* What an archive command knows is about its volumes.
LEMMA ArchiveKnows ==
    ASSUME NEW k \in Job, NEW w, w.cmd \in {"backup", "restore"}, w.step \in StepsOf(w.cmd),
           w.step \in Ended \/ w.side = "windows", BackupKnows(k, w)', RestoreKnows(k, w)'
    PROVE  Knows(k, w)'
<1>1. w.step \notin {"prove", "start", "tool", "remove", "look", "create", "reinspect"} \union Applying
  BY DEF StepsOf, Applying, Restoring, Ended
<1>2. InShape(w)
  BY <1>1 DEF InShape, Applying, AtHand, Ended
<1>3. Judged(k, w)' /\ Proved(k, w)'
  BY <1>1 DEF Judged, Proved, Applying
<1> QED  BY <1>2, <1>3 DEF Knows, InShape

\* What an archive command at work is.
LEMMA ArchiveAtWork ==
    ASSUME VolumesInv, NEW j \in Job, job[j].cmd \in {"backup", "restore"}, job[j].step \notin Ended
    PROVE  /\ Archiving(job[j]) /\ job[j].side = "windows"
           /\ job[j].todo \subseteq Volume /\ job[j].plan \subseteq Volume /\ job[j].seen \subseteq Volume
           /\ BackupKnows(j, job[j]) /\ RestoreKnows(j, job[j])
BY AtWork DEF InShape, JobType, Archiving, Knows

\* A step of an archive command in the engine tells nobody.
LEMMA ArchiveFrame ==
    ASSUME VolumesInv, NEW j \in Job, Archiving(job[j]), NEW w, Becomes(j, w), w.cmd = job[j].cmd,
           Knows(j, w)', UNCHANGED <<dir, moves, missed, lately, touched>>,
           labels' \in [Volume -> {"absent", "own", "none", "odd"}],
           data' \in [Volume -> {"empty", "used", "partial", "archive"}],
           users' \in [Volume -> SUBSET Job],
           \A v \in Volume :
              /\ data'[v] # "empty" \/ users'[v] # {} => labels'[v] # "absent"
              /\ users[v] \ {j} \subseteq users'[v]
              /\ labels[v] = "own" => labels'[v] = "own"
              /\ data[v] = "archive" => data'[v] = "archive" \/ v \in touched[j]
    PROVE  VolumesInv'
<1>1. WorldTypeOK'
  BY AtWork DEF WorldTypeOK
<1>2. History(j, {})
  BY DEF History
<1>3. \A k \in Job \ {j} : LeftTo(k)
  BY <1>2, ArchiveLeaves
<1>4. job[j].cmd # "none"
  BY DEF Archiving
<1> QED  BY <1>1, <1>2, <1>3, <1>4, VolumesFrame

\* A backup looks at a volume before it reads it, and at its files in the end.
LEMMA BackupLooks ==
    ASSUME VolumesInv, NEW j \in Job, NEW v \in Volume,
           BackupLabels(j, v) \/ BackupQuiescent(j) \/ BackupEnds(j)
    PROVE  VolumesInv'
<1> USE AtWork
<1>1. /\ job[j].cmd = "backup" /\ job[j].step \notin {"idle"} \union Ended
      /\ UNCHANGED <<labels, data, users, dir, moves, missed, lately>>
      /\ touched' = touched \/ \E z : Looks(j, z)
  BY DEF BackupLabels, BackupQuiescent, BackupEnds, At, NoHistory, volumesEngine, volumesHistory,
         Ended
<1>2. /\ Archiving(job[j]) /\ job[j].side = "windows"
      /\ BackupKnows(j, job[j])
  BY <1>1, ArchiveAtWork
<1>3. CASE Fails(j)
  BY <1>1, <1>3, EndFrame DEF Fails, Ended
<1>4. CASE BackupLabels(j, v) /\ ~Fails(j)
  <2>1. /\ Turns(j, "quiescent", v, v) /\ job[j].step = "labels" /\ v \in job[j].todo
        /\ UNCHANGED touched
    BY <1>4 DEF BackupLabels, At, HasTurn, NoHistory, volumesHistory
  <2>2. PICK w : w = [job[j] EXCEPT !.step = "quiescent", !.at = v, !.todo = job[j].todo \ {v}]
    OBVIOUS
  <2>3. Becomes(j, w)
    BY <2>1, <2>2, TurnsBecomes DEF AllSteps
  <2>4. /\ w.cmd = "backup" /\ w.step = "quiescent" /\ w.side = "windows" /\ w.at = v
        /\ w.plan = job[j].plan /\ w.todo = job[j].todo \ {v}
    BY <1>1, <1>2, <2>2 DEF JobType
  <2>5. BackupKnows(j, w)'
    BY <1>1, <1>2, <2>1, <2>4 DEF BackupKnows
  <2>6. Knows(j, w)'
    BY <2>4, <2>5, ArchiveKnows DEF RestoreKnows, StepsOf
  <2> QED  BY <1>1, <1>2, <2>3, <2>4, <2>6, QuietFrame
<1>5. CASE BackupQuiescent(j) /\ ~Fails(j)
  <2>1. /\ Steps(j, "export") /\ job[j].step = "quiescent" /\ users[job[j].at] = {}
        /\ Looks(j, job[j].at) /\ UNCHANGED users
    BY <1>5 DEF BackupQuiescent, At, Quiescent, volumesEngine
  <2>2. PICK w : w = [job[j] EXCEPT !.step = "export"]
    OBVIOUS
  <2>3. Becomes(j, w)
    BY <2>1, <2>2, StepsBecomes DEF AllSteps
  <2>4. /\ w.cmd = "backup" /\ w.step = "export" /\ w.side = "windows" /\ w.at = job[j].at
        /\ w.plan = job[j].plan /\ w.todo = job[j].todo
    BY <1>1, <1>2, <2>2 DEF JobType
  <2>5. touched'[j] = touched[j] \ {job[j].at}
    BY <2>1 DEF Looks, WorldTypeOK
  <2>6. BackupKnows(j, w)'
    BY <1>1, <1>2, <2>1, <2>4, <2>5 DEF BackupKnows
  <2>7. Knows(j, w)'
    BY <2>4, <2>6, ArchiveKnows DEF RestoreKnows, StepsOf
  <2> QED  BY <1>1, <1>2, <2>3, <2>4, <2>7, QuietFrame
<1>6. CASE BackupEnds(j) /\ ~Fails(j)
  <2>1. Steps(j, "done") /\ UNCHANGED touched
    BY <1>6 DEF BackupEnds, NoHistory, volumesHistory
  <2>2. PICK w : w = [job[j] EXCEPT !.step = "done"]
    OBVIOUS
  <2>3. Becomes(j, w)
    BY <2>1, <2>2, StepsBecomes DEF AllSteps, Ended
  <2>4. w.cmd = "backup" /\ w.step = "done" /\ w.plan = job[j].plan
    BY <1>1, <1>2, <2>2 DEF JobType
  <2>5. BackupKnows(j, w)'
    BY <1>1, <1>2, <2>1, <2>4 DEF BackupKnows, Ended
  <2>6. Knows(j, w)'
    BY <2>4, <2>5, ArchiveKnows DEF RestoreKnows, StepsOf, Ended
  <2> QED  BY <1>1, <1>2, <2>3, <2>4, <2>6, QuietFrame
<1> QED  BY <1>3, <1>4, <1>5, <1>6

\* The helper of a backup mounts the volume that it reads.
LEMMA BackupReads ==
    ASSUME VolumesInv, NEW j \in Job, StartExport(j) \/ EndExport(j)
    PROVE  VolumesInv'
<1> USE AtWork
<1>1. /\ job[j].cmd = "backup" /\ job[j].step \in {"export", "exporting"}
      /\ job[j].step \notin Ended
      /\ UNCHANGED <<dir, moves, missed, lately, touched>>
  BY DEF StartExport, EndExport, At, NoHistory, volumesHistory, Ended
<1>2. /\ Archiving(job[j]) /\ job[j].side = "windows"
      /\ BackupKnows(j, job[j]) /\ job[j].plan \subseteq Volume
  BY <1>1, ArchiveAtWork
<1>3. job[j].at \in Volume /\ job[j].at \notin job[j].todo /\ job[j].plan \intersect job[j].todo = {}
  BY <1>1, <1>2 DEF BackupKnows
<1>4. CASE StartExport(j)
  <2>1. PICK plan \in SUBSET Volume :
           /\ job' = [job EXCEPT ![j].step = "exporting", ![j].plan = plan]
           /\ plan = Exports(j)
    BY <1>2, <1>3, <1>4 DEF StartExport, Exports
  <2>2. PICK w : w = [job[j] EXCEPT !.step = "exporting", !.plan = plan]
    OBVIOUS
  <2>3. w \in JobType
    BY <2>2 DEF JobType
  <2>4. Becomes(j, w)
    BY <2>1, <2>2, <2>3 DEF Becomes, VolumesTypeOK
  <2>5. /\ w.cmd = "backup" /\ w.step = "exporting" /\ w.side = "windows" /\ w.at = job[j].at
        /\ w.plan = plan /\ w.todo = job[j].todo
    BY <1>1, <1>2, <2>2 DEF JobType
  <2>6. Mount(j, {job[j].at})
    BY <1>4 DEF StartExport
  <2>7. /\ labels' \in [Volume -> {"absent", "own", "none", "odd"}]
        /\ data' \in [Volume -> {"empty", "used", "partial", "archive"}]
        /\ users' \in [Volume -> SUBSET Job]
        /\ users'[job[j].at] = users[job[j].at] \union {j}
        /\ \A x \in Volume :
              /\ data'[x] # "empty" \/ users'[x] # {} => labels'[x] # "absent"
              /\ users[x] \ {j} \subseteq users'[x]
              /\ labels[x] = "own" => labels'[x] = "own"
              /\ data[x] = "archive" => data'[x] = "archive"
    BY <1>3, <2>6 DEF Mount, Exists, WorldTypeOK
  <2>8. job[j].step = "export"
    BY <1>4 DEF StartExport, At
  <2>9. BackupKnows(j, w)'
    BY <1>1, <1>2, <1>3, <2>1, <2>5, <2>7, <2>8 DEF BackupKnows, Exports, Quiescent
  <2>10. Knows(j, w)'
    BY <2>5, <2>9, ArchiveKnows DEF RestoreKnows, StepsOf
  <2> QED  BY <1>1, <1>2, <2>4, <2>5, <2>7, <2>10, ArchiveFrame
<1>5. CASE EndExport(j)
  <2>1. PICK plan \in SUBSET Volume :
           /\ job' = [job EXCEPT ![j].step = "labels", ![j].at = "none", ![j].plan = plan]
           /\ plan = IF users[job[j].at] = {j} THEN job[j].plan ELSE job[j].plan \union {job[j].at}
    BY <1>2, <1>3, <1>5 DEF EndExport, VolumesTypeOK, JobType
  <2>2. PICK w : w = [job[j] EXCEPT !.step = "labels", !.at = "none", !.plan = plan]
    OBVIOUS
  <2>3. w \in JobType
    BY <2>2 DEF JobType
  <2>4. Becomes(j, w)
    BY <2>1, <2>2, <2>3 DEF Becomes, VolumesTypeOK
  <2>5. /\ w.cmd = "backup" /\ w.step = "labels" /\ w.side = "windows"
        /\ w.plan = plan /\ w.todo = job[j].todo
    BY <1>1, <1>2, <2>2 DEF JobType
  <2>6. Unmount(j, {job[j].at}) /\ UNCHANGED <<labels, data>> /\ job[j].step = "exporting"
    BY <1>5 DEF EndExport, At
  <2>7. /\ users' \in [Volume -> SUBSET Job]
        /\ \A x \in Volume :
              /\ data'[x] # "empty" \/ users'[x] # {} => labels'[x] # "absent"
              /\ users[x] \ {j} \subseteq users'[x]
    BY <2>6 DEF Unmount, Exists, WorldTypeOK
  <2>8. BackupKnows(j, w)'
    BY <1>1, <1>2, <1>3, <2>1, <2>5, <2>6 DEF BackupKnows
  <2>9. Knows(j, w)'
    BY <2>5, <2>8, ArchiveKnows DEF RestoreKnows, StepsOf
  <2> QED  BY <1>1, <1>2, <2>4, <2>5, <2>6, <2>7, <2>9, ArchiveFrame DEF WorldTypeOK
<1> QED  BY <1>4, <1>5

\* A restore plans, looks at a volume in its turn, and ends.
LEMMA RestoreLooks ==
    ASSUME VolumesInv, NEW j \in Job, NEW v \in Volume,
           \/ ListExisting(j) \/ PlanVolume(j, v) \/ RestorePlanned(j)
           \/ RestoreQuiescent(j, v) \/ RestoreCompares(j) \/ RestoreEnds(j)
    PROVE  VolumesInv'
<1> USE AtWork
<1>1. /\ job[j].cmd = "restore" /\ job[j].step \notin {"idle"} \union Ended
      /\ UNCHANGED <<labels, data, users, dir, moves, missed, lately>>
      /\ touched' = touched \/ \E z : Looks(j, z)
  BY DEF ListExisting, PlanVolume, RestorePlanned, RestoreQuiescent, RestoreCompares, RestoreEnds,
         At, NoHistory, volumesEngine, volumesHistory, Ended, Restoring
<1>2. /\ Archiving(job[j]) /\ job[j].side = "windows" /\ RestoreKnows(j, job[j])
      /\ job[j].plan \subseteq Volume /\ job[j].seen \subseteq Volume /\ job[j].todo \subseteq Volume
  BY <1>1, ArchiveAtWork
<1>3. ASSUME NEW w, Becomes(j, w), w.cmd = "restore", w.step \in StepsOf("restore"),
             w.step \in Ended \/ w.side = "windows", RestoreKnows(j, w)'
      PROVE  VolumesInv'
  <2>1. BackupKnows(j, w)'
    BY <1>3 DEF BackupKnows
  <2>2. Knows(j, w)'
    BY <1>3, <2>1, ArchiveKnows
  <2> QED  BY <1>1, <1>2, <1>3, <2>2, QuietFrame
<1>4. CASE Fails(j)
  BY <1>1, <1>4, EndFrame DEF Fails, Ended
<1>5. CASE (ListExisting(j) \/ PlanVolume(j, v)) /\ ~Fails(j)
  <2>1. PICK w \in JobType :
           /\ job' = [job EXCEPT ![j] = w] /\ w.cmd = "restore" /\ w.step = "plan"
           /\ w.side = "windows" /\ w.at = job[j].at
    <3>1. CASE ListExisting(j)
      <4>1. PICK w : w = [job[j] EXCEPT !.step = "plan", !.plan = {x \in Volume : Exists(x)}]
        OBVIOUS
      <4>2. job' = [job EXCEPT ![j] = w]
        BY <3>1, <4>1 DEF ListExisting
      <4>3. w \in JobType
        BY <4>1 DEF JobType
      <4> QED  BY <1>1, <1>2, <4>1, <4>2, <4>3 DEF JobType
    <3>2. CASE PlanVolume(j, v)
      <4>1. PICK w : w = [job[j] EXCEPT !.todo = @ \ {v}, !.plan = @ \ {v}, !.seen = @ \union {v}]
        OBVIOUS
      <4>2. job' = [job EXCEPT ![j] = w] /\ job[j].step = "plan"
        BY <1>5, <3>2, <4>1 DEF PlanVolume, At
      <4>3. w \in JobType
        BY <4>1 DEF JobType
      <4> QED  BY <1>1, <1>2, <4>1, <4>2, <4>3 DEF JobType
    <3> QED  BY <1>5, <3>1, <3>2
  <2>2. Becomes(j, w)
    BY <2>1 DEF Becomes, VolumesTypeOK
  <2>3. job[j].at = "none"
    BY <1>1, <1>2, <1>5 DEF ListExisting, PlanVolume, At, RestoreKnows
  <2>4. RestoreKnows(j, w)'
    BY <2>1, <2>3 DEF RestoreKnows, Restoring
  <2> QED  BY <1>3, <2>1, <2>2, <2>4 DEF StepsOf
<1>6. CASE RestorePlanned(j)
  <2>1. PICK w : w = [job[j] EXCEPT !.step = "turn", !.todo = job[j].seen, !.plan = {}]
    OBVIOUS
  <2>2. job' = [job EXCEPT ![j] = w] /\ job[j].step = "plan"
    BY <1>6, <2>1 DEF RestorePlanned, At
  <2>3. w \in JobType
    BY <2>1 DEF JobType
  <2>4. /\ w.cmd = "restore" /\ w.step = "turn" /\ w.side = "windows" /\ w.at = "none"
        /\ w.seen = w.todo
    BY <1>1, <1>2, <2>1, <2>2 DEF JobType, RestoreKnows
  <2>5. Becomes(j, w)
    BY <2>2, <2>3 DEF Becomes, VolumesTypeOK
  <2>6. RestoreKnows(j, w)'
    BY <2>4 DEF RestoreKnows, Restoring
  <2> QED  BY <1>3, <2>4, <2>5, <2>6 DEF StepsOf
<1>7. CASE RestoreQuiescent(j, v) /\ ~Fails(j)
  <2>1. /\ Turns(j, "make", v, v) /\ job[j].step = "turn" /\ v \in job[j].todo /\ users[v] = {}
        /\ touched'[j] = touched[j] \ {v}
    BY <1>7 DEF RestoreQuiescent, At, HasTurn, Quiescent, Looks, WorldTypeOK
  <2>2. PICK w : w = [job[j] EXCEPT !.step = "make", !.at = v, !.todo = job[j].todo \ {v}]
    OBVIOUS
  <2>3. Becomes(j, w)
    BY <2>1, <2>2, TurnsBecomes DEF AllSteps, Restoring
  <2>4. /\ w.cmd = "restore" /\ w.step = "make" /\ w.side = "windows" /\ w.at = v
        /\ w.seen = job[j].seen /\ w.todo = job[j].todo \ {v}
    BY <1>1, <1>2, <2>2 DEF JobType
  <2>5. job[j].at \notin job[j].seen
    BY <1>1, <1>2, <2>1, VolumesDiffer DEF RestoreKnows
  <2>6. RestoreKnows(j, w)'
    BY <1>1, <1>2, <2>1, <2>4, <2>5 DEF RestoreKnows, Restoring
  <2> QED  BY <1>3, <2>3, <2>4, <2>6 DEF StepsOf, Restoring
<1>8. CASE RestoreCompares(j) /\ ~Fails(j)
  <2>1. Steps(j, "empty") /\ job[j].step = "compare" /\ UNCHANGED touched
    BY <1>8 DEF RestoreCompares, At, NoHistory, volumesHistory
  <2>2. PICK w : w = [job[j] EXCEPT !.step = "empty"]
    OBVIOUS
  <2>3. Becomes(j, w)
    BY <2>1, <2>2, StepsBecomes DEF AllSteps, Restoring
  <2>4. /\ w.cmd = "restore" /\ w.step = "empty" /\ w.side = "windows" /\ w.at = job[j].at
        /\ w.seen = job[j].seen /\ w.todo = job[j].todo
    BY <1>1, <1>2, <2>2 DEF JobType
  <2>5. RestoreKnows(j, w)'
    BY <1>1, <1>2, <2>1, <2>4 DEF RestoreKnows, Restoring
  <2> QED  BY <1>3, <2>3, <2>4, <2>5 DEF StepsOf, Restoring
<1>9. CASE RestoreEnds(j)
  <2>1. Steps(j, "done") /\ job[j].step = "turn" /\ job[j].todo = {} /\ UNCHANGED touched
    BY <1>9 DEF RestoreEnds, At, NoHistory, volumesHistory
  <2>2. PICK w : w = [job[j] EXCEPT !.step = "done"]
    OBVIOUS
  <2>3. Becomes(j, w)
    BY <2>1, <2>2, StepsBecomes DEF AllSteps, Ended
  <2>4. w.cmd = "restore" /\ w.step = "done" /\ w.seen = job[j].seen
    BY <1>1, <1>2, <2>2 DEF JobType
  <2>5. job[j].at \notin job[j].seen
    BY <1>1, <1>2, <2>1, VolumesDiffer DEF RestoreKnows
  <2>6. \A x \in w.seen : data[x] = "archive" \/ x \in touched[j]
    BY <1>1, <1>2, <2>1, <2>4, <2>5 DEF RestoreKnows
  <2>7. RestoreKnows(j, w)'
    BY <1>1, <2>1, <2>4, <2>6 DEF RestoreKnows, Restoring
  <2> QED  BY <1>3, <2>3, <2>4, <2>7 DEF StepsOf, Ended
<1> QED  BY <1>4, <1>5, <1>6, <1>7, <1>8, <1>9

\* A restore makes a volume, looks inside and writes to it.
LEMMA RestoreWrites ==
    ASSUME VolumesInv, NEW j \in Job,
           RestoreEnsures(j) \/ RestoreLooksInside(j) \/ StartImport(j) \/ EndImport(j)
    PROVE  VolumesInv'
<1> USE AtWork
<1>1. /\ job[j].cmd = "restore" /\ job[j].step \in Restoring /\ job[j].step \notin Ended
      /\ UNCHANGED <<dir, moves, missed, lately, touched>>
  BY DEF RestoreEnsures, RestoreLooksInside, StartImport, EndImport, At, NoHistory, volumesHistory,
         Ended, Restoring
<1>2. /\ Archiving(job[j]) /\ job[j].side = "windows" /\ RestoreKnows(j, job[j])
      /\ job[j].seen \subseteq Volume
  BY <1>1, ArchiveAtWork
<1>3. /\ job[j].at \in job[j].seen \ job[j].todo /\ job[j].at \in Volume
      /\ job[j].todo \subseteq job[j].seen
      /\ \A x \in job[j].seen \ (job[j].todo \union {job[j].at}) : data[x] = "archive" \/ x \in touched[j]
  BY <1>1, <1>2 DEF RestoreKnows
<1>4. /\ labels' \in [Volume -> {"absent", "own", "none", "odd"}]
      /\ data' \in [Volume -> {"empty", "used", "partial", "archive"}]
      /\ users' \in [Volume -> SUBSET Job]
      /\ \A x \in Volume :
            /\ data'[x] # "empty" \/ users'[x] # {} => labels'[x] # "absent"
            /\ users[x] \ {j} \subseteq users'[x]
            /\ labels[x] = "own" => labels'[x] = "own"
            /\ data[x] = "archive" => data'[x] = "archive" \/ x \in touched[j]
      /\ \A x \in Volume \ {job[j].at} : data'[x] = data[x]
  <2>1. CASE RestoreEnsures(j)
    BY <1>3, <2>1 DEF RestoreEnsures, Create, Exists, WorldTypeOK
  <2>2. CASE RestoreLooksInside(j)
    BY <1>3, <2>2 DEF RestoreLooksInside, Exists, WorldTypeOK
  <2>3. CASE StartImport(j)
    <3>1. data[job[j].at] = "empty" \/ job[j].at \in touched[j]
      BY <1>1, <1>2, <2>3 DEF StartImport, At, RestoreKnows
    <3> QED  BY <1>3, <2>3, <3>1 DEF StartImport, Exists, WorldTypeOK
  <2>4. CASE EndImport(j)
    BY <1>3, <2>4 DEF EndImport, Unmount, Exists, WorldTypeOK
  <2> QED  BY <2>1, <2>2, <2>3, <2>4
<1>5. PICK w : Becomes(j, w) /\ w.cmd = "restore" /\ Knows(j, w)'
  <2>1. CASE Fails(j)
    <3>1. PICK w : w = Over(job[j].cmd, "failed")
      OBVIOUS
    <3>2. Becomes(j, w)
      BY <2>1, <3>1, EndsBecomes DEF Fails, Ended
    <3>3. Knows(j, w)'
      BY <1>1, <3>1, OverKnows DEF Ended
    <3> QED  BY <1>1, <3>1, <3>2, <3>3 DEF Over, Idle
  <2>2. CASE (RestoreEnsures(j) \/ RestoreLooksInside(j) \/ StartImport(j)) /\ ~Fails(j)
    <3>1. PICK step \in {"compare", "import", "importing"} :
             /\ Steps(j, step)
             /\ step = "importing" => data'[job[j].at] = "partial"
             /\ step # "importing" => UNCHANGED <<users, data>> /\ job[j].step \in {"make", "empty"}
             /\ step = "import" => data[job[j].at] = "empty"
      <4>1. CASE RestoreEnsures(j)
        <5>1. data' = data
          BY <4>1 DEF RestoreEnsures, Create, Exists, WorldTypeOK
        <5> QED  BY <4>1, <5>1 DEF RestoreEnsures, At
      <4>2. CASE RestoreLooksInside(j)
        BY <2>2, <4>2 DEF RestoreLooksInside, At
      <4>3. CASE StartImport(j)
        BY <1>3, <4>3 DEF StartImport, WorldTypeOK
      <4> QED  BY <2>2, <4>1, <4>2, <4>3
    <3>2. PICK w : w = [job[j] EXCEPT !.step = step]
      OBVIOUS
    <3>3. Becomes(j, w)
      BY <3>1, <3>2, StepsBecomes DEF AllSteps, Restoring
    <3>4. /\ w.cmd = "restore" /\ w.step = step /\ w.side = "windows" /\ w.at = job[j].at
          /\ w.seen = job[j].seen /\ w.todo = job[j].todo
      BY <1>1, <1>2, <3>2 DEF JobType
    <3>5. RestoreKnows(j, w)'
      BY <1>1, <1>2, <1>3, <1>4, <3>1, <3>4 DEF RestoreKnows, Restoring
    <3>6. BackupKnows(j, w)'
      BY <3>4 DEF BackupKnows
    <3>7. Knows(j, w)'
      BY <3>4, <3>5, <3>6, ArchiveKnows DEF StepsOf, Restoring
    <3> QED  BY <3>3, <3>4, <3>7
  <2>3. CASE EndImport(j) /\ ~Fails(j)
    <3>1. /\ job' = [job EXCEPT ![j].step = "turn", ![j].at = "none"]
          /\ job[j].step = "importing"
          /\ data' = [data EXCEPT ![job[j].at] = IF @ = "partial" THEN "archive" ELSE @]
      BY <2>3 DEF EndImport, At
    <3>2. PICK w : w = [job[j] EXCEPT !.step = "turn", !.at = "none"]
      OBVIOUS
    <3>3. w \in JobType
      BY <3>2 DEF JobType
    <3>4. Becomes(j, w)
      BY <3>1, <3>2, <3>3 DEF Becomes, VolumesTypeOK
    <3>5. /\ w.cmd = "restore" /\ w.step = "turn" /\ w.side = "windows" /\ w.at = "none"
          /\ w.seen = job[j].seen /\ w.todo = job[j].todo
      BY <1>1, <1>2, <3>2 DEF JobType
    <3>6. data'[job[j].at] = "archive" \/ job[j].at \in touched[j]
      BY <1>1, <1>2, <1>3, <3>1 DEF RestoreKnows, WorldTypeOK
    <3>7. RestoreKnows(j, w)'
      BY <1>1, <1>2, <1>3, <1>4, <3>5, <3>6 DEF RestoreKnows, Restoring
    <3>8. BackupKnows(j, w)'
      BY <3>5 DEF BackupKnows
    <3>9. Knows(j, w)'
      BY <3>5, <3>7, <3>8, ArchiveKnows DEF StepsOf
    <3> QED  BY <3>4, <3>5, <3>9
  <2> QED  BY <2>1, <2>2, <2>3
<1> QED  BY <1>1, <1>2, <1>4, <1>5, ArchiveFrame

-----------------------------------------------------------------------------
(* Commands begin and fail, directories change *)

\* A command that begins knows no more than which directories are missing.
LEMMA BeginFrame ==
    ASSUME VolumesInv, NEW j \in Job, NEW cmd, NEW side, NEW p, NEW step, NEW todo \in SUBSET Volume,
           Starts(j, cmd, side, p, step, todo),
           <<cmd, step>> \in {<<"run", "ensure">>, <<"gc", "list">>, <<"orphans", "list">>,
                              <<"backup", "labels">>, <<"restore", "existing">>},
           cmd \in {"run", "gc"} =>
              p \in Project /\ side = (IF p \in WinProject THEN "windows" ELSE "wsl"),
           cmd \notin {"run", "gc"} => p = "none",
           cmd = "orphans" => side \in {"windows", "wsl"},
           cmd \in {"backup", "restore"} => side = "windows" /\ LockFree
    PROVE  VolumesInv'
<1> USE AtWork
<1>1. PICK w : w = [Idle EXCEPT !.cmd = cmd, !.side = side, !.p = p, !.step = step, !.todo = todo]
  OBVIOUS
<1>2. /\ w.cmd = cmd /\ w.side = side /\ w.p = p /\ w.step = step /\ w.todo = todo
      /\ w.plan = {} /\ w.seen = {} /\ w.at = "none"
  BY <1>1 DEF Idle
<1>3. side \in {"windows", "wsl"} /\ cmd \in {"run", "gc", "orphans", "backup", "restore"}
      /\ step \in {"ensure", "list", "labels", "existing"} /\ p \in Project \union {"none"}
  OBVIOUS
<1>4. w \in JobType
  BY <1>1, <1>3 DEF Idle, JobType
<1>5. Becomes(j, w)
  BY <1>1, <1>4 DEF Starts, Becomes, VolumesTypeOK
<1>6. /\ UNCHANGED <<labels, data, users, dir, moves, lately, touched>>
      /\ missed' = IF cmd = "orphans" THEN [missed EXCEPT ![j] = Gone] ELSE missed
      /\ job[j].cmd = "none" /\ Gone' = Gone
  BY DEF Starts, volumesEngine, Idle, Gone
<1>7. WorldTypeOK'
  <2>1. Gone \subseteq Project
    BY DEF Gone
  <2> QED  BY <1>6, <2>1 DEF WorldTypeOK
<1>8. \A v \in Volume : (data[v] # "empty" \/ users[v] # {} => Exists(v))'
  BY <1>6 DEF Exists
<1>9. touched[j] = {}
  BY <1>6 DEF VolumesInv
<1>10. \A k \in Job : job'[k].cmd = "none" => touched'[k] = {}
  BY <1>5, <1>6, <1>9 DEF Becomes, VolumesInv
<1>11. OneArchive'
  <2>1. ASSUME NEW a \in Job, NEW k \in Job, Archiving(job'[a])
        PROVE  /\ Archiving(job'[k]) => a = k
               /\ job'[k].cmd \in {"backup", "restore"} /\ job'[k].step \in Ended
                     => touched'[a] \subseteq touched'[k]
    <3>1. step \notin Ended
      BY <1>3 DEF Ended
    <3>2. CASE cmd \in {"backup", "restore"}
      <4>1. \A b \in Job : ~Archiving(job[b])
        BY <3>2 DEF LockFree, Archiving, Ended
      <4> QED  BY <1>5, <1>6, <1>9, <2>1, <4>1 DEF Becomes
    <3>3. CASE cmd \notin {"backup", "restore"}
      <4>1. a # j
        BY <1>2, <1>5, <2>1, <3>3 DEF Becomes, Archiving
      <4>2. k = j => job'[k].cmd \notin {"backup", "restore"}
        BY <1>2, <1>5, <3>3 DEF Becomes
      <4>3. Archiving(job[a]) /\ job'[a] = job[a]
        BY <1>5, <2>1, <4>1 DEF Becomes
      <4>4. k # j => job'[k] = job[k]
        BY <1>5 DEF Becomes
      <4> QED  BY <1>6, <4>2, <4>3, <4>4 DEF Archiving, VolumesInv, OneArchive
    <3> QED  BY <3>2, <3>3
  <2> QED  BY <2>1 DEF OneArchive, Archiving
<1>12. Knows(j, w)'
  <2>1. w.step \in StepsOf(w.cmd)
    BY <1>2 DEF StepsOf, Ended
  <2>2. InShape(w)
    BY <1>2, <1>3, <2>1 DEF InShape, Ended, Applying, AtHand
  <2>3. Judged(j, w)'
    BY <1>2, <1>6, <1>3 DEF Judged, WorldTypeOK, Applying
  <2>4. Proved(j, w)' /\ BackupKnows(j, w)' /\ RestoreKnows(j, w)'
    BY <1>2, <1>3 DEF Proved, BackupKnows, RestoreKnows, Restoring
  <2> QED  BY <2>2, <2>3, <2>4 DEF Knows, InShape
<1>13. ASSUME NEW k \in Job \ {j} PROVE Knows(k, job[k])'
  <2>1. missed'[k] = missed[k]
    BY <1>6 DEF WorldTypeOK
  <2>2. LeftTo(k)
    BY <1>6, <2>1 DEF LeftTo
  <2>3. PICK z : z = job[k]
    OBVIOUS
  <2>4. Knows(k, z)'
    BY <2>2, <2>3, OthersKnow
  <2> QED  BY <1>5, <2>3, <2>4 DEF Becomes
<1>14. Knows(j, job[j])'
  BY <1>5, <1>12 DEF Becomes
<1>15. VolumesTypeOK'
  BY <1>5, <1>7 DEF Becomes, VolumesTypeOK
<1> QED  BY <1>8, <1>10, <1>11, <1>13, <1>14, <1>15 DEF VolumesInv

\* Every way to begin a command.
LEMMA CommandsBegin ==
    ASSUME VolumesInv, NEW j \in Job,
           \/ \E p \in Project : StartInProject(j, p)
           \/ \E side \in {"windows", "wsl"} : StartOrphans(j, side)
           \/ \E vs \in SUBSET WindowsVolume : StartArchive(j, vs)
    PROVE  VolumesInv'
<1>1. CASE \E p \in Project : StartInProject(j, p)
  <2>1. PICK p \in Project, side \in {"windows", "wsl"} :
           /\ side = (IF p \in WinProject THEN "windows" ELSE "wsl")
           /\ \/ Starts(j, "run", side, p, "ensure", Needed(p))
              \/ Starts(j, "gc", side, p, "list", {})
    BY <1>1 DEF StartInProject
  <2>2. Needed(p) \in SUBSET Volume
    BY VolumesDiffer
  <2> QED  BY <2>1, <2>2, BeginFrame
<1>2. CASE \E side \in {"windows", "wsl"} : StartOrphans(j, side)
  BY <1>2, BeginFrame DEF StartOrphans
<1>3. CASE \E vs \in SUBSET WindowsVolume : StartArchive(j, vs)
  <2>1. PICK vs \in SUBSET Volume :
           /\ LockFree
           /\ \/ Starts(j, "backup", "windows", "none", "labels", vs)
              \/ Starts(j, "restore", "windows", "none", "existing", vs)
    BY <1>3 DEF StartArchive, Volume
  <2> QED  BY <2>1, BeginFrame
<1> QED  BY <1>1, <1>2, <1>3

\* A request may fail.
LEMMA FailureKeeps ==
    ASSUME VolumesInv, NEW j \in Job, RequestFails(j)
    PROVE  VolumesInv'
<1>1. Ends(j, "failed") /\ job[j].step \notin {"idle"} \union Ended
      /\ UNCHANGED <<labels, data, users, dir, moves, missed, lately, touched>>
  BY DEF RequestFails, Fails, NoHistory, volumesEngine, volumesHistory, Ended
<1> QED  BY <1>1, AtWork, EndFrame DEF Ended

\* A directory changes: gc --orphans is told of one that is missing now.
LEMMA MovesKeep ==
    ASSUME VolumesInv, NEW p \in Project, MoveDirectory(p)
    PROVE  VolumesInv'
<1> USE DEF VolumesInv, VolumesTypeOK
<1> DEFINE now == {q \in {p} : dir'[q] = "missing" \/ (dir'[q] = "unsafe" /\ q \in WinProject)}
<1>1. /\ UNCHANGED <<labels, data, users, job, touched>> /\ moves' = moves + 1
      /\ \E d \in {"dir", "missing", "unsafe"} : dir' = [dir EXCEPT ![p] = d]
      /\ missed' = [j \in Job |-> IF job[j].cmd = "orphans" THEN missed[j] \union now ELSE missed[j]]
      /\ lately' = [j \in Job |-> IF job[j].cmd = "orphans" THEN lately[j] \union now ELSE lately[j]]
  BY DEF MoveDirectory, volumesEngine
<1>2. PICK ns \in SUBSET Project : ns = now
  OBVIOUS
<1>3. Gone' \subseteq Gone \union ns
  BY <1>1, <1>2 DEF WorldTypeOK, Gone
<1>4. /\ missed' = [j \in Job |-> IF job[j].cmd = "orphans" THEN missed[j] \union ns ELSE missed[j]]
      /\ lately' = [j \in Job |-> IF job[j].cmd = "orphans" THEN lately[j] \union ns ELSE lately[j]]
  BY <1>1, <1>2
<1> HIDE DEF now
<1>5. VolumesTypeOK'
  <2>1. dir' \in [Project -> {"dir", "missing", "unsafe"}] /\ moves' \in Nat
    <3>1. PICK d \in {"dir", "missing", "unsafe"} : dir' = [dir EXCEPT ![p] = d]
      BY <1>1
    <3>2. moves \in Nat /\ dir \in [Project -> {"dir", "missing", "unsafe"}]
      BY DEF WorldTypeOK
    <3> QED  BY <1>1, <3>1, <3>2
  <2>2. missed' \in [Job -> SUBSET Project] /\ lately' \in [Job -> SUBSET Project]
    BY <1>4 DEF WorldTypeOK
  <2>3. UNCHANGED <<labels, data, users, job, touched>>
    BY <1>1
  <2> QED  BY <2>1, <2>2, <2>3 DEF VolumesTypeOK, WorldTypeOK
<1>6. ASSUME NEW k \in Job PROVE Knows(k, job[k])'
  <2>1. LeftTo(k)
    BY <1>1, <1>3, <1>4 DEF LeftTo
  <2>2. PICK z : z = job[k]
    OBVIOUS
  <2>3. Knows(k, z)'
    BY <2>1, <2>2, OthersKnow
  <2> QED  BY <1>1, <2>2, <2>3
<1>7. /\ \A v \in Volume : (data[v] # "empty" \/ users[v] # {} => Exists(v))'
      /\ (\A k \in Job : job[k].cmd = "none" => touched[k] = {})'
      /\ OneArchive'
  BY <1>1 DEF VolumesInv, OneArchive, Exists, Archiving
<1> QED  BY <1>5, <1>6, <1>7 DEF VolumesInv

-----------------------------------------------------------------------------
(* The invariant *)

\* At first nobody runs, and nothing is mounted.
LEMMA VolumesBegins ==
    ASSUME VolumesInit
    PROVE  VolumesInv
<1>1. Idle \in JobType /\ InShape(Idle)
  BY DEF Idle, JobType, InShape, StepsOf, Ended, Applying, AtHand
<1>2. WorldTypeOK
  BY DEF VolumesInit, WorldTypeOK
<1>3. VolumesTypeOK
  BY <1>1, <1>2 DEF VolumesInit, VolumesTypeOK
<1>4. \A v \in Volume : data[v] # "empty" \/ users[v] # {} => Exists(v)
  BY DEF VolumesInit, Exists
<1>5. OneArchive
  BY DEF VolumesInit, OneArchive, Archiving, Idle
<1>6. ASSUME NEW k \in Job PROVE Knows(k, job[k])
  <2>1. job[k] = Idle
    BY DEF VolumesInit
  <2>2. Judged(k, Idle) /\ Proved(k, Idle) /\ BackupKnows(k, Idle) /\ RestoreKnows(k, Idle)
    BY DEF Judged, Proved, BackupKnows, RestoreKnows, Idle
  <2> QED  BY <1>1, <2>1, <2>2 DEF Knows
<1>7. \A k \in Job : touched[k] = {}
  BY DEF VolumesInit
<1> QED  BY <1>3, <1>4, <1>5, <1>6, <1>7 DEF VolumesInv

\* Every step keeps the invariant.
LEMMA VolumesStepKeeps ==
    ASSUME VolumesInv, [VolumesNext]_volumesVars
    PROVE  VolumesInv'
<1>1. CASE VolumesNext
  <2>1. CASE \E p \in Project : MoveDirectory(p)
    BY <2>1, MovesKeep
  <2>2. ASSUME NEW j \in Job,
               \/ \E p \in Project : StartInProject(j, p)
               \/ \E side \in {"windows", "wsl"} : StartOrphans(j, side)
               \/ \E vs \in SUBSET WindowsVolume : StartArchive(j, vs)
        PROVE  VolumesInv'
    BY <2>2, CommandsBegin
  <2>3. ASSUME NEW j \in Job, NEW v \in Volume,
               \/ EnsureManaged(j, v) \/ Inspect(j, v) \/ ProveMount(j, v) \/ ToolWrites(j, v)
               \/ Remove(j, v) \/ LookAgain(j, v) \/ BackupLabels(j, v)
               \/ PlanVolume(j, v) \/ RestoreQuiescent(j, v)
        PROVE  VolumesInv'
    BY <2>3, RunLooks, RunEnsures, RunMounts, GcRemoves, GcProves, BackupLooks, RestoreLooks
  <2>4. ASSUME NEW j \in Job, NEW p \in Project, LookAtPath(j, p)
        PROVE  VolumesInv'
    BY <2>4, OrphansPlan
  <2>5. "winShared" \in Volume
    BY DEF Volume, WindowsVolume
  <2>6. ASSUME NEW j \in Job,
               \/ CreateManaged(j) \/ Reinspect(j) \/ AllEnsured(j) \/ StartTool(j) \/ ToolEnds(j)
               \/ ListCurrent(j) \/ ListLabeled(j) \/ ReadLabels(j) \/ DiscoverProven(j)
        PROVE  VolumesInv'
    BY <2>5, <2>6, RunLooks, RunEnsures, RunMounts, GcLists
  <2>7. ASSUME NEW j \in Job,
               \/ InspectExact(j) \/ DeleteProven(j) \/ VerifyGone(j) \/ AllRemoved(j)
               \/ BackupQuiescent(j) \/ StartExport(j) \/ EndExport(j) \/ BackupEnds(j)
        PROVE  VolumesInv'
    BY <2>5, <2>7, GcProves, GcRemoves, BackupLooks, BackupReads
  <2>8. ASSUME NEW j \in Job,
               \/ ListExisting(j) \/ RestorePlanned(j) \/ RestoreEnsures(j) \/ RestoreCompares(j)
               \/ RestoreLooksInside(j) \/ StartImport(j) \/ EndImport(j) \/ RestoreEnds(j)
               \/ RequestFails(j)
        PROVE  VolumesInv'
    BY <2>5, <2>8, RestoreLooks, RestoreWrites, FailureKeeps
  <2>9. ASSUME NEW j \in Job, PlanMade(j) PROVE VolumesInv'
    BY <2>9, OrphansPlan
  <2> QED  BY <1>1, <2>1, <2>2, <2>3, <2>4, <2>6, <2>7, <2>8, <2>9 DEF VolumesNext
<1>2. CASE UNCHANGED volumesVars
  BY <1>2 DEF volumesVars, VolumesInv, VolumesTypeOK, WorldTypeOK, OneArchive, Archiving, Exists,
              Knows, Judged, Gone, Proved, Exact, BackupKnows, RestoreKnows
<1> QED  BY <1>1, <1>2

\* The invariant holds in every behaviour.
LEMMA VolumesInvariance == VolumesSpec => []VolumesInv
<1>1. VolumesInit => VolumesInv
  BY VolumesBegins
<1>2. VolumesInv /\ [VolumesNext]_volumesVars => VolumesInv'
  BY VolumesStepKeeps
<1> QED  BY <1>1, <1>2, PTL DEF VolumesSpec

-----------------------------------------------------------------------------
(* The theorems *)

\* A restore that reports success has left in each volume what the archive
\* holds, a backup that does has read no volume a tool was mounting: except
\* volumes that others took up after they had been looked at.
THEOREM ArchivesHold == VolumesSpec => []ArchivesTrue
<1>1. VolumesInv => ArchivesTrue
  BY DEF VolumesInv, Knows, BackupKnows, RestoreKnows, ArchivesTrue
<1> QED  BY <1>1, VolumesInvariance, PTL

\* Volumes go only by a removal of gc.
LEMMA WhoDeletes ==
    ASSUME VolumesInv, [VolumesNext]_volumesVars, NEW j \in Job, NEW v \in Volume, Deletes(j, v)
    PROVE  Remove(j, v) \/ (DeleteProven(j) /\ v = job[j].at)
<1>1. labels \in [Volume -> {"absent", "own", "none", "odd"}] /\ job \in [Job -> JobType]
  BY DEF VolumesInv, VolumesTypeOK, WorldTypeOK
<1>2. labels[v] # "absent" /\ labels'[v] = "absent" /\ job'[j] # job[j]
  BY DEF Deletes, Exists
<1>3. VolumesNext
  BY <1>2 DEF volumesVars
<1>4. ASSUME NEW x, Create(x) PROVE labels'[v] # "absent"
  BY <1>1, <1>2, <1>4 DEF Create, Exists
<1>5. ASSUME NEW k, NEW vs, Mount(k, vs) PROVE labels'[v] # "absent"
  BY <1>1, <1>2, <1>5 DEF Mount, Exists
<1>6. ASSUME NEW x, labels' = IF Exists(x) THEN labels ELSE [labels EXCEPT ![x] = "none"]
      PROVE  labels'[v] # "absent"
  BY <1>1, <1>2, <1>6
<1>7. labels' # labels
  BY <1>2
<1>8. ASSUME NEW k \in Job, NEW x \in Volume, Remove(k, x) PROVE k = j /\ x = v
  <2>1. k = j
    BY <1>1, <1>2, <1>8 DEF Remove, Turns, Fails, Ends
  <2>2. x = v
    BY <1>1, <1>2, <1>8 DEF Remove, DeleteVolume
  <2> QED  BY <2>1, <2>2
<1>9. ASSUME NEW k \in Job, DeleteProven(k) PROVE k = j /\ job[k].at = v
  <2>1. k = j
    BY <1>1, <1>2, <1>9 DEF DeleteProven, Steps, Fails, Ends
  <2>2. job[k].at = v
    BY <1>1, <1>2, <1>9 DEF DeleteProven, DeleteVolume
  <2> QED  BY <2>1, <2>2
<1>10. ~\E p \in Project : MoveDirectory(p)
  BY <1>7 DEF MoveDirectory, volumesEngine
<1>11. ASSUME NEW k \in Job
       PROVE  /\ ~\E p \in Project : StartInProject(k, p) \/ LookAtPath(k, p)
              /\ ~\E side \in {"windows", "wsl"} : StartOrphans(k, side)
              /\ ~\E vs \in SUBSET WindowsVolume : StartArchive(k, vs)
  BY <1>7 DEF StartInProject, LookAtPath, StartOrphans, StartArchive, Starts, volumesEngine
<1>12. ASSUME NEW k \in Job, NEW x \in Volume
       PROVE  ~(\/ EnsureManaged(k, x) \/ Inspect(k, x) \/ ProveMount(k, x) \/ ToolWrites(k, x)
                \/ LookAgain(k, x) \/ BackupLabels(k, x)
                \/ PlanVolume(k, x) \/ RestoreQuiescent(k, x))
  BY <1>2, <1>4, <1>7 DEF EnsureManaged, Inspect, ProveMount, ToolWrites, LookAgain, BackupLabels,
     PlanVolume, RestoreQuiescent, volumesEngine
<1>13. ASSUME NEW k \in Job
       PROVE  ~(\/ Reinspect(k) \/ AllEnsured(k) \/ ToolEnds(k)
                \/ ListCurrent(k) \/ ListLabeled(k) \/ ReadLabels(k) \/ DiscoverProven(k)
                \/ PlanMade(k) \/ InspectExact(k) \/ VerifyGone(k) \/ AllRemoved(k))
  BY <1>7 DEF Reinspect, AllEnsured, ToolEnds, ListCurrent, ListLabeled, ReadLabels,
     DiscoverProven, PlanMade, InspectExact, VerifyGone, AllRemoved, volumesEngine
<1>14. ASSUME NEW k \in Job
       PROVE  ~(\/ BackupQuiescent(k) \/ EndExport(k) \/ BackupEnds(k)
                \/ ListExisting(k) \/ RestorePlanned(k) \/ RestoreCompares(k)
                \/ EndImport(k) \/ RestoreEnds(k) \/ RequestFails(k))
  BY <1>7 DEF BackupQuiescent, EndExport, BackupEnds, ListExisting, RestorePlanned,
     RestoreCompares, EndImport, RestoreEnds, RequestFails, volumesEngine
<1>15. ASSUME NEW k \in Job
       PROVE  ~(\/ CreateManaged(k) \/ StartTool(k) \/ StartExport(k)
                \/ RestoreEnsures(k) \/ RestoreLooksInside(k) \/ StartImport(k))
  BY <1>2, <1>4, <1>5, <1>6 DEF CreateManaged, StartTool, StartExport, RestoreEnsures,
     RestoreLooksInside, StartImport
<1>16. PICK k \in Job : DeleteProven(k) \/ \E x \in Volume : Remove(k, x)
  BY <1>3, <1>10, <1>11, <1>12, <1>13, <1>14, <1>15 DEF VolumesNext
<1>17. CASE DeleteProven(k)
  BY <1>9, <1>17
<1>18. CASE \E x \in Volume : Remove(k, x)
  <2>1. PICK x \in Volume : Remove(k, x)
    BY <1>18
  <2>2. k = j /\ x = v
    BY <1>8, <2>1
  <2> QED  BY <2>1, <2>2
<1> QED  BY <1>16, <1>17, <1>18

\* Volumes are mounted only by tools and by the helpers of archives.
LEMMA WhoMounts ==
    ASSUME VolumesInv, [VolumesNext]_volumesVars, NEW j \in Job, NEW v \in Volume, Mounts(j, v)
    PROVE  \/ StartTool(j) /\ v \in Needed(job[j].p)
           \/ (StartExport(j) \/ StartImport(j)) /\ v = job[j].at
<1>1. users \in [Volume -> SUBSET Job]
  BY DEF VolumesInv, VolumesTypeOK, WorldTypeOK
<1>2. j \notin users[v] /\ j \in users'[v]
  BY DEF Mounts
<1>3. VolumesNext
  BY <1>2 DEF volumesVars
<1>4. users' # users
  BY <1>2
<1>5. ASSUME NEW k, NEW vs PROVE ~Unmount(k, vs)
  BY <1>1, <1>2 DEF Unmount
<1>6. ASSUME NEW k, NEW vs, Mount(k, vs) PROVE k = j /\ v \in vs
  BY <1>1, <1>2, <1>6 DEF Mount
<1>7. ~\E p \in Project : MoveDirectory(p)
  BY <1>4 DEF MoveDirectory, volumesEngine
<1>8. ASSUME NEW k \in Job
      PROVE  /\ ~\E p \in Project : StartInProject(k, p) \/ LookAtPath(k, p)
             /\ ~\E side \in {"windows", "wsl"} : StartOrphans(k, side)
             /\ ~\E vs \in SUBSET WindowsVolume : StartArchive(k, vs)
  BY <1>4 DEF StartInProject, LookAtPath, StartOrphans, StartArchive, Starts, volumesEngine
<1>9. ASSUME NEW k \in Job, NEW x \in Volume
      PROVE  ~(\/ EnsureManaged(k, x) \/ Inspect(k, x) \/ ProveMount(k, x) \/ ToolWrites(k, x)
               \/ Remove(k, x) \/ LookAgain(k, x) \/ BackupLabels(k, x)
               \/ PlanVolume(k, x) \/ RestoreQuiescent(k, x))
  BY <1>4 DEF EnsureManaged, Inspect, ProveMount, ToolWrites, Remove, LookAgain, BackupLabels,
     PlanVolume, RestoreQuiescent, volumesEngine
<1>10. ASSUME NEW k \in Job
       PROVE  ~(\/ CreateManaged(k) \/ Reinspect(k) \/ AllEnsured(k) \/ ToolEnds(k)
                \/ ListCurrent(k) \/ ListLabeled(k) \/ ReadLabels(k) \/ DiscoverProven(k)
                \/ PlanMade(k) \/ InspectExact(k) \/ DeleteProven(k) \/ VerifyGone(k) \/ AllRemoved(k))
  BY <1>4, <1>5 DEF CreateManaged, Reinspect, AllEnsured, ToolEnds, ListCurrent, ListLabeled,
     ReadLabels, DiscoverProven, PlanMade, InspectExact, DeleteProven, VerifyGone, AllRemoved,
     volumesEngine
<1>11. ASSUME NEW k \in Job
       PROVE  ~(\/ BackupQuiescent(k) \/ EndExport(k) \/ BackupEnds(k)
                \/ ListExisting(k) \/ RestorePlanned(k) \/ RestoreEnsures(k) \/ RestoreCompares(k)
                \/ RestoreLooksInside(k) \/ EndImport(k) \/ RestoreEnds(k) \/ RequestFails(k))
  BY <1>4, <1>5 DEF BackupQuiescent, EndExport, BackupEnds, ListExisting, RestorePlanned,
     RestoreEnsures, RestoreCompares, RestoreLooksInside, EndImport, RestoreEnds, RequestFails,
     volumesEngine
<1>12. PICK k \in Job : StartTool(k) \/ StartExport(k) \/ StartImport(k)
  BY <1>3, <1>7, <1>8, <1>9, <1>10, <1>11 DEF VolumesNext
<1>13. CASE StartTool(k)
  BY <1>6, <1>13 DEF StartTool
<1>14. CASE StartExport(k)
  <2>1. Mount(k, {job[k].at})
    BY <1>14 DEF StartExport
  <2>2. k = j /\ v \in {job[k].at}
    BY <1>6, <2>1
  <2> QED  BY <1>14, <2>2
<1>15. CASE StartImport(k)
  BY <1>1, <1>2, <1>15 DEF StartImport
<1> QED  BY <1>12, <1>13, <1>14, <1>15

\* gc --orphans removes a volume of its own side only when the project had no
\* directory at a moment of this command, in WSL since it turned to the volume.
THEOREM OrphansAreJudged == VolumesSpec => OrphansJudgedInTime
<1> DEFINE P == \A j \in Job, p \in Project :
          Deletes(j, p) /\ job[j].cmd = "orphans" =>
             /\ Native(j) => p \in lately[j]
             /\ p \in WinProject => p \in missed[j]
<1>1. ASSUME VolumesInv, [VolumesNext]_volumesVars PROVE P
  <2> SUFFICES ASSUME NEW j \in Job, NEW p \in Project, Deletes(j, p), job[j].cmd = "orphans"
               PROVE  /\ Native(j) => p \in lately[j]
                      /\ p \in WinProject => p \in missed[j]
    OBVIOUS
  <2>1. Remove(j, p) \/ (DeleteProven(j) /\ p = job[j].at)
    BY <1>1, WhoDeletes, VolumesDiffer
  <2>2. Knows(j, job[j])
    BY <1>1 DEF VolumesInv
  <2>3. CASE Remove(j, p)
    <3>1. job[j].step = "remove" /\ p \in job[j].todo
      BY <2>3 DEF Remove, At, HasTurn
    <3> QED  BY <2>2, <3>1 DEF Knows, InShape, Judged, Native
  <2>4. CASE DeleteProven(j) /\ p = job[j].at
    <3>1. job[j].step = "delete" /\ job[j].at \in WslProject
      BY <2>2, <2>4 DEF DeleteProven, At, Knows, InShape, AtHand
    <3> QED  BY <2>2, <2>4, <3>1, VolumesDiffer DEF Knows, Judged
  <2> QED  BY <2>1, <2>3, <2>4
<1>2. VolumesInv /\ [VolumesNext]_volumesVars => [P]_volumesVars
  BY <1>1
<1> QED  BY <1>2, VolumesInvariance, PTL DEF VolumesSpec, OrphansJudgedInTime

\* A WSL command mounts or removes a volume that is not exactly its own only if
\* another command took it up after the proof; and no gc removes what projects
\* share.
THEOREM ProvedOrReplacedHolds == VolumesSpec => ProvedOrReplaced
<1> DEFINE P == \A j \in Job, v \in Volume :
          /\ Native(j) /\ (Deletes(j, v) \/ Mounts(j, v)) => Exact(v) \/ v \in touched[j]
          /\ Deletes(j, v) => v \in Project
<1>1. ASSUME VolumesInv, [VolumesNext]_volumesVars PROVE P
  <2> SUFFICES ASSUME NEW j \in Job, NEW v \in Volume
               PROVE  /\ Native(j) /\ (Deletes(j, v) \/ Mounts(j, v)) => Exact(v) \/ v \in touched[j]
                      /\ Deletes(j, v) => v \in Project
    OBVIOUS
  <2>1. Knows(j, job[j])
    BY <1>1 DEF VolumesInv
  <2>2. ASSUME Deletes(j, v)
        PROVE  (Native(j) => Exact(v) \/ v \in touched[j]) /\ v \in Project
    <3>1. CASE Remove(j, v)
      <4>1. job[j].step = "remove" /\ v \in job[j].todo
        BY <3>1 DEF Remove, At, HasTurn
      <4> QED  BY <2>1, <4>1 DEF Knows, InShape, Native
    <3>2. CASE DeleteProven(j) /\ v = job[j].at
      <4>1. job[j].step = "delete" /\ job[j].at \in WslProject
        BY <2>1, <3>2 DEF DeleteProven, At, Knows, InShape, AtHand
      <4> QED  BY <2>1, <3>2, <4>1 DEF Knows, Proved, Project
    <3> QED  BY <1>1, <2>2, <3>1, <3>2, WhoDeletes
  <2>3. ASSUME Mounts(j, v), Native(j) PROVE Exact(v) \/ v \in touched[j]
    <3>1. CASE StartTool(j) /\ v \in Needed(job[j].p)
      BY <2>1, <2>3, <3>1 DEF StartTool, At, Knows, Proved, Native
    <3>2. CASE StartExport(j) \/ StartImport(j)
      <4>1. job[j].cmd \in {"backup", "restore"} /\ job[j].step \notin Ended
        BY <3>2 DEF StartExport, StartImport, At, Ended
      <4> QED  BY <2>1, <2>3, <4>1 DEF Knows, InShape, Native
    <3> QED  BY <1>1, <2>3, <3>1, <3>2, WhoMounts
  <2> QED  BY <2>2, <2>3
<1>2. VolumesInv /\ [VolumesNext]_volumesVars => [P]_volumesVars
  BY <1>1
<1> QED  BY <1>2, VolumesInvariance, PTL DEF VolumesSpec, ProvedOrReplaced

\* An import begins in an empty volume that no container mounts, unless somebody
\* came after restore had looked at the volume in its turn.
THEOREM ImportsHold == VolumesSpec => ImportsIntoEmpty
<1> DEFINE P == \A j \in Job, v \in Volume :
          job[j].cmd = "restore" /\ Mounts(j, v)
             => (data[v] = "empty" /\ Quiescent(v)) \/ v \in touched[j]
<1>1. ASSUME VolumesInv, [VolumesNext]_volumesVars PROVE P
  <2> SUFFICES ASSUME NEW j \in Job, NEW v \in Volume, job[j].cmd = "restore", Mounts(j, v)
               PROVE  (data[v] = "empty" /\ Quiescent(v)) \/ v \in touched[j]
    OBVIOUS
  <2>1. StartImport(j) /\ v = job[j].at
    BY <1>1, WhoMounts DEF StartTool, StartExport, At
  <2>2. job[j].step = "import" /\ RestoreKnows(j, job[j])
    BY <1>1, <2>1 DEF VolumesInv, Knows, StartImport, At
  <2> QED  BY <2>1, <2>2 DEF RestoreKnows, Quiescent
<1>2. VolumesInv /\ [VolumesNext]_volumesVars => [P]_volumesVars
  BY <1>1
<1> QED  BY <1>2, VolumesInvariance, PTL DEF VolumesSpec, ImportsIntoEmpty

=============================================================================
