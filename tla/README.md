# container-bin in TLA+

`container-bin` (`cb`) is a Go program that runs command-line tools inside containers. One binary is both the
manager (`cb install`, `cb add`, `cb lock`, `cb wsl cleanup`, ...) and, under the name of a shim, the tool itself.
Nothing of it stays resident: every invocation is a process of its own, and all that two invocations share is
files, advisory locks, Docker objects and the clock. What is hard about it is therefore what happens *between*
two invocations, and *after* one that did not finish.

This directory holds TLA+ modules of that part of the program, TLC runs over small instances, and TLAPS proofs
for instances of every size.

1. [The system](#1-the-system)
2. [The modules and the code](#2-the-modules-and-the-code)
3. [The runs](#3-the-runs)
4. [Fairness](#4-fairness)
5. [What is proved](#5-what-is-proved)
6. [Where code and documentation disagree](#6-where-code-and-documentation-disagree)
7. [What is not modelled](#7-what-is-not-modelled)
8. [The plan](#8-the-plan)

## 1. The system

Paths are relative to `src/`. "Shared" is what other processes can see change.

| Component | Shared state | Operations | What is hard | What makes it correct |
|---|---|---|---|---|
| **Mutation lock** `internal/mutationlock`, `main.go` `withMutationLock` | `container-bin.mutation.lock` beside the registry: one line with pid and token | `Acquire` (create exclusively, retry up to 5 s), the release function, the interrupt goroutine that releases and exits | two goroutines may release; compare and remove are two operations; a killed holder leaves the file; the user may delete it | writers exclude one another; nobody loses a lock it holds; only a killed holder leaves the file; nobody waits for ever |
| **Atomic replacement** `internal/atomicio` | a file and its `.bak` | `WriteFile`, `RecoverFromBackup` | a window with only the backup; recoveries run without the lock | old or new content, never neither |
| **Registry file** `internal/registry/file.go` | `container-bin.toml`, `.bak` | `loadPath`, `EnsureFile`, the appends and rewrites | load and recovery are several operations and take no lock before dispatch | every edit starts from what is on disk; none is lost; a load sees what there is |
| **Registry commands** `main.go`, `internal/cli` | all of the above | `install`, `setup`, `add`, `expose`, `unexpose`, `uninstall`, `default set`, `restore`, ... | order of load, ensure and edit differs by command | each command is one change of the registry |
| **Native-WSL reconciliation** `internal/wslreconcile` | state directory: `coordinator` flock, `run-*.lease` files; the Engine's containers | `BeginRun`, `Adopt`, `Close`, `Check`, `Apply` | crash of either side at any point; a pass that stops half way; lost and late Engine requests; two locks taken in both orders | never touches a live run; a success leaves no orphan; a lease outlives its container; no deadlock |
| **Native-WSL execution** `internal/wslrun` | its container | `executeTool`: create, adopt, attach, start, session, deferred cleanup | cleanup after a failure anywhere; start that was not answered | container removed or its lease left as evidence |
| **Engine client** `internal/wsldocker` | - | create, inspect, start, kill, wait, delete, attach, images, volumes | answers that never come | callers learn what they can be sure of |
| **Image lock** `internal/lockfile`, `internal/wsllock`, `internal/cli` | `container-bin.lock`, `.bak` | `cb lock`, `cb update`, `cb wsl lock`, `--check`, the restore; read at run time without a lock | the same load race as the registry; missing lock means mutable tag; four files restored one after the other | a locked tool runs its digest or nothing; a refresh keeps the other entries |
| **Machine policy** `internal/policy` | policy file (read-only) | load, authorize images, lock targets, lock entries and registries | rules meet lock, evidence and signature, each replaced at any time | fail closed |
| **Image signatures** `internal/imagetrust`, `internal/cli/image_trust.go` | the files a policy pins | pin, download, verify, record evidence | evidence must belong to the digest, rule, verifier and policy it is used with | fail closed; a refresh helps |
| **Project overlay, trust** `internal/projectconfig` | overlays; `project-trust.toml` of the user, `.bak` | find, load, merge, inspect, trust, untrust | the overlay changes between review and record; the store belongs to the user, the lock to the installation | an unreviewed overlay is never active; a decision leaves the others alone |
| **Self-update** `internal/selfupdate` | executable, shims, staging directory | check, stage, verify, apply, roll back, helper hand-over | several files replaced one by one, beside other hands | all new, all old, or a kept recovery executable |
| **Backup, restore** `internal/cli`, `internal/statearchive` | registry, lock, signature, volumes | archive, validate, replace each | failure between files | old or new state, or an error that says so |
| **Project state, gc** `internal/state`, `internal/dockervol`, `internal/wslstate`, `internal/wslvolume` | Docker volumes of both sides | ensure, mount, list, prove, remove, export, import | plan made earlier than it is applied; no common lock; two runs ensure one volume; one engine for Windows and WSL | never removes a volume of a project that exists |
| **WSL installation** `internal/wslinstall`, `internal/wslshim`, `internal/wslfs` | directories, managed binary, links | prepare the layout, registry, binary, management link, tool links | directories are prepared and rolled back without the lock; the executable may be overwritten while it is copied | a link leads to a whole binary; foreign objects stay |
| **Path mapping, identity** `internal/pathmap`, `internal/wslpathmap`, `internal/wslproject` | - | pure functions | aliases, prefixes, case | a path maps under its mount and back |
| **Registry schema, TOML** `internal/registry`, `internal/toml` | - | pure functions | aliases, defaults, validation | edits keep the file valid |
| **Windows execution** `internal/dockerrun` | trace file | build one `docker run` line and hand over | - | - |
| **Diagnostics, audits** `internal/diag`, `internal/aclaudit` | - | read-only reports | - | - |
| **Host, terminal** `internal/hostenv`, `internal/terminal`, `internal/pythonenv` | - | platform detection | - | - |

How they meet:

```
          user, Ctrl-C                          Docker Engine
               |                                  ^       ^
   main.go  --- withMutationLock ---> cli.*       |       |
     |              |                 |           |       |
     | load before  v                 v           |       |
     | dispatch  mutationlock      registry     state   wslrun <--> wslreconcile
     |           (lock file)          |        (volumes)  |           |
     |                                v                   |     coordinator, leases
     +--------------------------> atomicio <-- lockfile --+     (state directory)
                                (file, .bak)
```

- Every invocation first loads the registry *without* the mutation lock (`main.go:148`); that load may itself
  change the disk, by renaming a backup into place. Mutating commands then take the lock and load again.
- Registry, image lock and trust store are all replaced through `atomicio`, so they share its windows.
- On native WSL the mutation lock plays no part in running tools: there the *coordinator* serialises
  reconciliation and the birth of a container, and the *lease lock* of a run says whether it is still alive.

## 2. The modules and the code

| Module | Models | Instance or extension of |
|---|---|---|
| `MutationLock` | `mutationlock.Acquire` and its release function, `main.go` `withMutationLock` | - |
| `AtomicRegistry` | what the registry promises: each command changes it once | abstract specification |
| `RegistryStore` | `registry` loads and edits, `atomicio`, the commands around them | EXTENDS `MutationLock`; `INSTANCE AtomicRegistry WITH reg <- Current, exposed <- PutBackFailed` |
| `WslRuntime` | `wslrun.executeTool`, all of `wslreconcile`, the Engine as they use it | `Run(c) == INSTANCE ToolRun` for each run `c` |
| `RegistryStoreProofs`, `WslRuntimeProofs`, `SelfUpdateProofs`, `ImageLockProofs`, `TrustProofs`, `ProjectVolumesProofs`, `ToolSessionProofs`, `WslInstallProofs` | theorems about the module of that name; the first also about `MutationLock`, whose actions the store runs; `TrustProofs` about `ImageTrust` and `ProjectTrust` | EXTENDS the module and `TLAPS` |
| `SelfUpdate` | `selfupdate` from the chosen plan to the helper's end, with rollback, beside shim commands | - |
| `ProjectVolumes` | `dockerrun`, `wslvolume` as runs ensure and mount volumes; `state` and `wslstate` garbage collection; `statearchive` backup and restore; one engine | - |
| `ImageLock` | `lockfile`, `wsllock`, the lock commands and the restore of `cli`, `atomicio` under them | - |
| `MachinePolicy` | the decisions of `policy`, as operators | - |
| `ImageTrust` | the steps between loading a policy and running an image: `policy`, `imagetrust`, `cli/image_trust.go` | EXTENDS `MachinePolicy` |
| `ProjectTrust` | `projectconfig` with the `trust` and `untrust` commands and the runs that use an overlay | - |
| `ToolRun` | what one tool run promises about its container | abstract specification |
| `ToolSession` | `wslrun.executeTool` from the adopted container on, with the attach stream of `wsldocker` | `INSTANCE ToolRun WITH tool <- ToolSeen, run <- Course` |
| `WslInstall` | `wslinstall`, `wslfs`, `wslshim` | - |
| `MCMachine` | one instance of each of the six components from `ProjectVolumes` to `WslInstall`, side by side | EXTENDS them |
| `MCRegistryStore`, `MCWslRuntime`, `MCSelfUpdate`, `MCProjectVolumes` | initial values, symmetry and the bounds on kills and late requests for TLC | EXTENDS the module and `TLC` |

### MutationLock

A *process* is one invocation. It acquires at most once, so the random token in its line is the process itself.

| Variable | Code |
|---|---|
| `lock` | the lock file: its creator, and whether the line has been written |
| `pc` | the main goroutine: `acquiring`, `opened` (created, not yet written), `acquired`, `body` (`fn()`), `unwind` (deferred release), and the ways to end |
| `sig` | the interrupt goroutine: not registered, waiting on the channel, signal received |
| `once` | the `sync.Once` of the release function and how far its two file operations have got |

Every file operation is a step. The create (`O_EXCL`) and the write of the line are separate steps, and so are
the comparison and the removal inside release. `Refuse` stands for the end of the five-second wait; the
retries before it change nothing. Four switches turn parts of the environment on: `Interrupts`, `Crashes`,
`IOFaults` (any file operation on the lock file may fail) and `ManualDelete` (the user follows the advice of
the error message).

### RegistryStore over AtomicRegistry

`live` and `bak` are `container-bin.toml` and its backup: absent, or a set of tool sections. `cmd` is the
command an invocation is, one of six that between them take every path through load, ensure and edit:
`add`, `uninstall` (also unexpose and default set, which rewrite the file in the same way), `install`,
`restore`, `view` (any reader that recovers) and `inspect` (`LoadReadOnly`). `phase` is the routine it is in and
`step` the next file operation of that routine; `got` is the last load's answer and where it came from; `tmp`
the finished temporary file, private until its rename; `committed` a history variable.

Each of `loadPath`'s read, `RecoverFromBackup`'s two `Stat`s and its rename, the second read, and
`WriteFile`'s remove, `Stat`, two renames and final remove is one step. The lock's actions are those of
`MutationLock` itself, so the lock in this module is not a second model of it. With `IOFaults` the temporary file
cannot be written, a rename fails, the removals of the backup fail unnoticed, and so may the rename that puts
the old file back (`atomicio.go:43`): the command then ends at step `unrestored`, the lock free and only the backup left.

`AtomicRegistry` has one registry, created with the defaults by whoever needs it first, and one `Take(p)` per
command. It also says what is left of the promise when a put-back has failed: after that (`Expose`) an install or a
restore, which write without a load under the lock, may lose the registry or put the defaults in its place (`Lose(p)`);
no other command may, and none before. The refinement maps its `reg` to `Current`: the file, or, where there is none, its
backup, which is what the next load recovers; and its `exposed` to `PutBackFailed`. Publishing the temporary file is then the step at which a command takes effect, and
everything else must be a stutter. `SoloLoads` restricts the environment: no other process touches the files in
the middle of a load. With it the refinement holds; without it it does not, and section 6 says what happens.

### WslRuntime

| Variable | Code |
|---|---|
| `box` | the container of each run, as the Engine has it: `absent`, `created`, `running`, `dying` (killed, not yet dead), `exited`, `removed` |
| `wire` | requests whose sender gave up: the Engine may still act on them, or never |
| `coord` | who holds the flock on `coordinator` |
| `path`, `flock` | which `run-*.lease` files exist, and who holds the lock on each |
| `pc` | the next step of each process |
| `todo`, `names`, `target`, `running`, `orphans`, `residue` | local variables of `reconcileLocked`; one copy, since only the holder of the coordinator is in there |
| `owed` | history: the containers whose runs had ended when the pass listed them |

A *Runner* is one tool run: coordinator, a pass, container, lease, coordinator released, attach, start,
session, and the deferred cleanup with `Close(removed)`. A *Cleaner* is `cb wsl cleanup --apply`, a *Checker*
`--check`. A runner's container and lease bear its random run identity and are named by the runner.
`Crash` drops the locks of a process as the kernel does and may leave its outstanding request behind. Each
request that can go unanswered has an action for that, and a failed request never tells its sender whether the
Engine acted.

### ToolRun under WslRuntime and ToolSession

`executeTool` is modelled twice: beside reconciliation, with its session as one step, and from the adopted container on,
with the session's goroutines and no other process. `ToolRun` is what both implement: the tool starts at most once;
while its run is open nobody kills or removes it; a container is removed only when no tool runs in it, and stays
removed; and a run that has been given up does not come back, although what it left behind may start late, be
stopped and be removed by others. In `WslRuntime` the map is `ToolOf(c)`, the container as the Engine has it, and
`RunOf(c)`, where the run is in `executeTool`; every run has an instance, and the steps of passes, of other runs, of
crashes and of late requests are its steps too. In `ToolSession` it is `ToolSeen` and `Course`. `ToolRun` joins two steps
in one where the code does: a start that fails or a removal may close the run as it acts.

### SelfUpdate

A release is the bytes of its executable; a file of the installation holds a release, foreign bytes, bytes that an
unverified download put there, or is gone.

| Variable | Code |
|---|---|
| `file` | `cb.exe` and each shim: the bytes it holds |
| `staged`, `request`, `copy` | the staging directory, the helper directory with its request, and the rollback executable of each update |
| `lock` | the mutation lock, here only who holds it: `MutationLock` has the rest |
| `parent`, `helper` | the next step of `updateCommand.run` and of `helperRunner.run` of each update |
| `version`, `target` | the bytes an update starts from (`oldDigest`) and those it installs (`stagedDigest`) |
| `outcome` | what a transaction reported: `updated`, `restored`, or that the rollback executable is `kept` |
| `managed`, `todo`, `shim`, `restored`, `clean` | locals of `apply` and `rollback`; one copy, since only the lock's holder is in there |
| `late` | history: others changed the file at hand between its digest check and its replacement |

Reading a digest and replacing a file are separate steps, because the code cannot join them: what `rollback`
refuses is decided on a digest read before. A replacement that reports an error may have left the old bytes, the
new ones or no readable file. `VerifyStaged` and `VerifyAgain` stand for all of `Verify`: genuine bytes may pass and
others never do. A parent whose start of the helper failed cleans up while that helper may already be running.

### ProjectVolumes

`labels`, `data` and `users` are the engine's volumes: whose labels a volume carries (exactly its own, none, or odd
ones), what it holds, and which commands' containers mount it. `job` holds the commands: a tool run, `cb gc`,
`cb gc --orphans` of either side, `cb backup --state`, `cb restore --state --apply`. `dir` is what is at each
project's path; on WSL `unsafe` is a path that cannot be proved gone (storage away, a link on the way).

Each request to the engine is a step. On Windows `EnsureManaged` is `docker volume create` and nothing is looked at
again; in WSL a volume is inspected, created, inspected again, and proved once more before the container is created.
Windows collects whatever it listed; WSL looks at the path, inspects, deletes and verifies each volume in its turn.
A backup and a restore hold the mutation lock, and nothing else here does. The history variables
`missed`, `lately` and `touched` say what was true of directories and volumes *since a command looked*, so that the
properties can allow exactly the gaps that requests of their own leave and no more.

### ImageLock

`lockFile` and `lockBak` are functions from images to entries, or absent. The steps of `ReadLock` to `RereadLock` and
of `DropLockBak` to `CleanLockBak` are those of `atomicio`; the digest behind a tag is a number that `PushTag`
increases. `work` holds the commands: `lock` (which takes nothing from the old lock), `preserving` (one of a trusted
project, which keeps the others' entries), `update`, `wslLock`, `restore` with and without an archived lock, `run`
and `check`. Errors the code ignores are outcomes here: a backup or lock that is not removed (`lockfile` by way of
`atomicio.go:36,46`, `cli.go:1400-1401`), a put-back that fails. Two histories: `effective`, the locks in effect since a
run or refresh began, and `replaced`, whether another command put a lock file in place, by publishing, recovering or
putting back, at one of the two moments that matter (`Exposed`): between the two looks of the command's own `Load`,
or before the last step of its own write or removal.

### MachinePolicy and ImageTrust

`MachinePolicy` is what `policy` computes and no more: `CanonicalRepository` with the three names of Docker Hub,
`CanonicalRule` for boundaries, `Within`, `Accepted` for a document, and the four authorizations. A document is a
record; equal fingerprints are equal documents. `lockfile` matches repositories by a normal form of its own, which
is `LockRepository` here.

`ImageTrust` puts steps around them. Each command loads the policy once, reads the registry once, checks the signature,
and then either refreshes one entry (authorize, pull, pin the verifier and its files, download, verify, write) or
runs the image its entry stands for. Between any two steps the administrator replaces the policy, a pinned file, the
registry or its signature, publishers move tags and add bundles, and the clock advances. A verifier that is not the
pinned one may say anything. `verified` is the history of what a pinned verifier has confirmed.

### ProjectTrust

`overlay` is what is at each project's `.container-bin.toml`, a content standing for its digest; `trustFile` and
`trustBak` the store; `visit` the commands. `Climb` looks at one directory and goes on to its `Parent`, so that an
overlay may appear behind a search or vanish before it; `Find`, `LoadOverlay`, `ReadStore`, `ReadBackup`, `Judge` are
`InspectDefault`; `Approve` to `RecheckAfterShims` are `Trust`; the rest is `saveStore`. `approved` is the history of
what the user approved and has not withdrawn.

### ToolSession

| Variable | Code |
|---|---|
| `session` | `executeTool`: its step, `running`, the result; `untidy`: the removal failed |
| `engine` | the container, its exit status, how much it sent, and the Engine's end of the stream |
| `copied` | pieces of output written; a frame is two pieces, so that a stream may end inside one |
| `ends` | the channels `outputDone`, `inputDone`, `waitDone` and the goroutines behind them |
| `host`, `queue` | terminal mode, whether catchable signals are intercepted, and the events not yet taken |
| `broken` | history: something failed that is no race with the tool's exit |

`TakeWait`, `TakeOutput`, `TakeInput`, `TakeEvent` are the cases of the `select`, in any order; `DrainOutput` and
`DrainTimesOut` the inner one. `ctx.Done()` never fires: `run_linux.go` passes a background context. `Start` covers
a start that acted without an answer. What a kill leaves behind is `WslRuntime`'s subject.

### WslInstall

`dirs` are the three directories of the layout, `links` what is at the name of each link, `binary` the managed binary as
two halves of builds, `install` the jobs. Directories are made, and taken back on failure, before the lock is
asked for; everything from `CheckLayout` on is under it. The user puts objects at link names and
overwrites the executable while it is hashed and copied.

## 3. The runs

| Run | Instance | Checks | Outcome |
|---|---|---|---|
| `mutation_lock` | 3 commands; interrupts, crashes, failing I/O, manual deletion | `LockTypeOK`, `LockedExclusion`, `OnlyKilledLeaveLock`, `NeverRobbed`, `EveryCommandEnds` | hold |
| `interrupt_overlap` | 2 commands, interrupts | `MutualExclusion` | violated, finding 1 |
| `registry_solo` | 3 commands of add, install, restore, view, one of which may be killed and two killed or failed; failing I/O, put-backs and removals included, manual deletion; registry there or not; undisturbed loads | `NoLostUpdate`, `LoadsSeeCurrent`, `ImplementsAtomicRegistry` | hold |
| `registry_races` | 2 commands of all six; the same faults, any number of kills; loads interleave with everything | `RegistryKept` | holds |
| `registry_lost_update` | 2 commands, interleaved loads, no faults at all | `NoLostUpdate` | violated, finding 2 |
| `registry_silent_defaults` | the same | `NoSilentDefaults` | violated, finding 3 |
| `registry_interrupted` | 2 commands, interrupts, undisturbed loads | `RegistryNeverVanishes` | violated, finding 4 |
| `wsl_runtime` | 2 runs and 1 cleanup; crashes, failing requests, two late ones at a time | `LiveRunsLeftAlone`, `PassLeavesNoOrphan`, `LeaseOutlivesContainer` | hold |
| `wsl_runtime_live` | 2 runs and 1 check; crashes | `NobodyWaitsForAnother`, `RunsAreToolRuns` | hold |
| `self_update` | 2 updates, 1 shim, 2 releases; failing operations; one kill or change by another program | `UpdateTypeOK`, `RecoveryKept`, `ReportsAreTrue`, `OnlyKnownBytesReplaced`, `StagingHeld`, `StagingOwned` | hold |
| `machine_state` | for each of the six components below, 2 commands beside their world | 20 properties, listed below | hold |
| `gc_orphans_windows` | 2 commands, one project on each side | `OrphansHaveNoProject` | violated, finding 5 |

In words:

- **LockedExclusion.** At most one command in its critical section has not given the lock back, whatever is
  interrupted, killed, failing or deleted by hand.
- **NeverRobbed.** No step of another process takes the lock file from an uninterrupted command inside: the
  removal in a release or in a failed acquire never hits a file that is not its own.
- **OnlyKilledLeaveLock.** A lock file belongs to a command that is still running, was killed, or whose own
  removal failed.
- **EveryCommandEnds.** Whoever asks for the lock returns, is refused or is interrupted.
- **NoLostUpdate.** A tool that was added stays, unless a restore replaced the registry, or a put-back failed and
  there is an install or a restore that may have come upon the lone backup.
- **LoadsSeeCurrent.** A load returns the registry there is, and the defaults only when there is none.
- **RegistryKept.** Where there was a file or a backup there is one after every step, but for one: after a put-back has
  failed, the removal of the backup with which the write of an install or a restore begins. Without that exception
  it is **RegistryNeverVanishes**, which only `registry_interrupted` checks: there no operation fails, and an interrupt
  takes the part of the failed put-back.
- **ImplementsAtomicRegistry.** All of the above in one formula: the file operations behave as one-step commands, and
  only an install or a restore after a failed put-back may lose the registry.
- **LiveRunsLeftAlone.** No pass and no late request kills or removes the container of a live run that is using it.
- **PassLeavesNoOrphan.** A pass that reports success removed every container whose run had ended when it
  listed them, also after earlier passes that failed or were killed half way.
- **LeaseOutlivesContainer.** A lease file goes away after its container, or by the run that could not lock it.
- **NobodyWaitsForAnother.** A run gets to its own tool or its end, a check to its end, with no help from others.
- **RunsAreToolRuns.** Each run implements `ToolRun`, whatever happens around it. `LiveRunsLeftAlone` says only that others
  leave a live run alone; this adds the run itself and the whole order: started once, given up, stopped, removed.
- **RecoveryKept.** Whenever the installation is a mix of releases, or its executable was lost in a replacement, a
  rollback executable with the bytes from before an update exists: in a transaction, after it, and after a crash.
- **ReportsAreTrue.** A reported update leaves no file with the old bytes, a reported restoration none with the new.
- **OnlyKnownBytesReplaced.** A replacement overwrites only bytes the transaction started from or wrote, unless
  they were changed between its last look and the replacement; that gap cannot be closed and is the whole exception.
- **StagingHeld**, **StagingOwned.** The parent never removes a staged release its helper has verified, and a
  staging directory always has somebody who will remove it, except after a kill, a failed removal, or a helper that
  could not load its request: that one returns before it has deferred any clean-up (`helper.go:335-348`).

Of `machine_state`:

- **OrphansJudgedInTime.** `gc --orphans` removes a volume of its own side only if the project's directory was
  missing at some moment of the command; in WSL, at some moment since it turned to that very volume.
- **ProvedOrReplaced.** A WSL command mounts or removes a volume that is not exactly its own only if another
  command remade it after the proof; no gc removes a shared volume.
- **ImportsIntoEmpty**, **ArchivesTrue.** An import starts in an empty, unmounted volume and a success means that the
  volumes hold the archive, and were not read under a tool's hands: except volumes somebody took up
  in between, a gap the code cannot close.
- **RunsLocked.** What runs is the entry of a lock that was in effect since the run began, or the bare tag where
  none was. The one exception is a lock file that another command put in place between the two looks of the run's own
  `Load`: there the tag runs although a lock exists, by the window of finding 3; `require_lock` excludes it.
- **RefreshKeepsOthers.** A refresh keeps every other entry and the kind of a local one. The exception is the same: when
  a reader puts the recovered file in place between the two looks of the refresh's own `Load`, that load answers "no
  lock", and the refresh writes a lock without the entries of the others. A reader that recovers the file
  at any other moment, and a refresh that recovers it itself, do no harm.
- **LockNeverLost.** Only the commands that replace the lock unread can leave none.
- **RestoresTogether.** Every step of a restore that changes the lock in effect finds the archived registry with its
  signature in place, so one that fails or is killed half way never leaves a new lock, or none where there was one, beside the old
  registry. One that reports success has put its lock in place too, and
  no lock where the archive has none, with two exceptions: another command recovered the old lock
  before the restore's last step, or, for an archive without a lock, the old lock or its backup could not be
  removed. `runRestore` sees neither and prints that it restored "atomically" (`cli.go:1400-1406`).
- **RunsVerified.** Where the loaded policy has a rule for the image, what runs was confirmed by the pinned verifier
  for that policy, rule, repository and digest.
- **RefreshAuthorizes.** The entry a refresh has written authorizes the image under the policy it was made with.
- **ActsOnSignedRegistry.** Bytes acted upon were signed by a key the loaded policy trusted while the command ran.
- **RunsApproved.** An overlay's tool runs with the contents the user approved for that root and had not withdrawn
  when the command began, or later.
- **OthersKept.** A trust decision, however it ends, changes no other project's record.
- **ResultTrue.** A status that is returned is the tool's, after all its output was written in whole frames.
- **RacesAreNotFailures.** A signal, size or input that races with the exit does not fail the run.
- **NoStrandedTool.** No catchable signal ends the shim while a container or a raw terminal depends on it.
- **NeverWaitsOnHost.** Once the tool has exited the shim always has a step of its own to take.
- **ImplementsToolRun.** The session implements `ToolRun`: it does not signal or remove its own tool before its clean-up.
- **LinksReachWholeBinary.** A managed link leads to one build of the binary, in a directory that exists.
- **ForeignUntouched.** No install replaces or removes an object that is not its link.

**Why one run.** The components of `machine_state` share no variable and no property relates two of them. `MCMachine`
therefore does not interleave them, which would multiply their states and add no case: a variable `part` says at the
start which component's behaviour this is, and the others rest. Each part is explored to its end (volumes 138, image
trust 87, session 85, image lock 51, overlays 47 and installation 45 thousand distinct states).

**Bounds of `machine_state`.** Two commands (`MaxCommands`, `MaxOverlayCommands`, `MaxInstalls`), so that any two overlap
or follow one another. `MaxMoves = 1`: directories begin as present or as missing, and one comes or goes under a
command; those that begin as missing do so beside well labelled volumes only. `MaxDigest = 2`: a tag moves once.
`MaxChanges = 1`, `MaxClock = 1`: one replacement, between any two steps, from initial states that hold each kind of
registry and bundle, and a key or a policy that expires meanwhile; four policy documents, of signed images, offline bundles,
a signed registry with a revoked key, and an outdated schema. `MaxEdits = 1` of an overlay or of the global registry in each
of three directories, one inside another and one that contains the trust store. `MaxFrames = 2` frames of two
pieces, `MaxSignals = 2` with a queue of one, so that it overflows. `MaxMeddling = 2` objects placed or executables
overwritten, so that one can come and go. The commands of all parts are the same two, interchangeable. A third
command, a directory that goes and comes back and a second replacement are left to the theorems of section 5, which
put no bound on any of them. Deadlock is not checked: commands end, and the bounds are used up.

**Bounds of the other runs.** An invocation runs one command and a run one tool, so that the number of processes is the
first bound. Two processes show each of the pairwise races; the third in `mutation_lock` and `registry_solo` is the one
that arrives after an accident of the first beside the second. `registry_solo` bounds the kills as well (`MaxKilled`, in
`MCRegistryStore`) and the failures (`MaxFailed`): one command may be killed anywhere, any operation of any command may
fail, and of the three at most two are killed or failed, so that one is left to meet what they left. In `wsl_runtime` two runs and a
cleanup are the least in which a pass meets a live run and a dead one, and in which the residue of one failed pass is found
by another; here everybody may be killed, and two requests may be on their way at a time whose senders have given up
(`MaxLate`, in `MCWslRuntime`). In `self_update` `cb.exe` and one shim are two files replaced in turn, two
updates meet between their checks and the lock, and each may go from either release to the other, so that a second
update undoes a first. There the accidents that no step of the code answers for, a kill or a change of a file by
another program, are counted: one may happen (`MaxAccidents`, in `MCSelfUpdate`), anywhere, while any operation may fail
any time. Apart from these, no guard caps anything, and every instance is explored to its end. The theorems cover
the sizes TLC does not. Symmetry is used only where every property treats the permuted processes alike and none is a
liveness property. Deadlock is checked in these runs: `Quiescent` allows stuttering only after every process has ended.

## 4. Fairness

`FairLockSpec` is weakly fair to every step of a command in which nothing fails: the scheduler runs goroutines
that can run. `CreateLockFile \/ Refuse` is always enabled for a process that asks, because `Acquire` gives up
after five seconds. That the body of a command ends is assumed. Nothing is assumed of interrupts, crashes,
failures or the user.

`FairRuntimeSpec` is weakly fair to `Progress(p)`, the non-failing steps of each process: processes are
scheduled and bounded waits expire. Weak fairness is all the coordinator's polling deserves, and it is enough,
because every holder lets go in the end *for good*: a run needs the coordinator twice and no more. It is also
fair to `KilledContainerDies`, as the Engine stops a container it has been told to kill. A tool need not exit,
so `session` is where a run may stay.

## 5. What is proved

Each theorem holds for every set of processes, commands, directories and policy documents, every setting of the
switches and every bound of the module, under the assumptions named in the modules: switches are Booleans, bounds are
numbers, commands are commands, the kinds of processes are disjoint and none is a section of the registry
(`SectionsAssumption`), the repositories of a rule are sequences of names (`PolicyFileAssumption`), every directory has a
parent and `Enclosing` (the one around the trust store) does not exhaust them (`ProjectTrustAssumption`), no shim or
release is called like `cb` or like bytes that are no release (`UpdateAssumption`), and no project is of both sides or
called like the volumes that projects share (`VolumesAssumption`). TLC
evaluates them in the runs. The session's theorems need none: its bounds are guards of the environment only.

| Theorem | States |
|---|---|
| `LockTypeCorrect`, `LockExcludes`, `LockNeverRobbed`, `LockLeftOnlyByKilled` | the safety properties of `mutation_lock` |
| `ExclusionWithoutInterrupts` | without interrupts, plain mutual exclusion |
| `StoreImplementsLock`, `StoreExcludes` | `StoreSpec => LockSpec`, so every lock theorem holds in the store |
| `StoreTypeCorrect` | type correctness of the store |
| `RegistryAlwaysRecoverable` | without interrupts, `RegistryKept`, with loads interleaved freely |
| `StoreImplementsAtomicRegistry` | without interrupts and with undisturbed loads, the refinement `ImplementsAtomicRegistry` |
| `AddsAreKept`, `LoadsAreCurrent` | under the same conditions, `NoLostUpdate` (with its exception after a failed put-back) and `LoadsSeeCurrent` |
| `RuntimeTypeCorrect`, `RuntimeInvariant` | types, and the first inductive invariant of the WSL runtime |
| `LiveRunsUntouched` | `LiveRunsLeftAlone` |
| `RunnersAreToolRuns` | `RunsAreToolRuns`, for every number of runs, cleanups and checks |
| `HoldersDoNotWait` | whoever holds the coordinator is at a step that needs no other process (`CoordinatorComesFree`) |
| `ProtocolInvariant`, `PassesComplete`, `LeasesOutliveContainers` | the second invariant, `PassLeavesNoOrphan`, `LeaseOutlivesContainer` |
| `UpdateTypeCorrect`, `RecoveryIsKept`, `StagingIsHeld`, `StagingIsOwned` | the four invariants of `self_update`, for every number of updates, shims and releases |
| `KnownBytesAreReplaced`, `ReportsHold` | its action properties `OnlyKnownBytesReplaced` and `ReportsAreTrue` |
| `SessionInvHolds` | types, and the inductive invariant of one tool session |
| `ResultTrueHolds`, `RacesAreNotFailuresHolds`, `NoStrandedToolHolds` | `ResultTrue`, `RacesAreNotFailures`, `NoStrandedTool` for any number of frames and signals |
| `SessionIsToolRun` | the refinement `ImplementsToolRun` |
| `SessionNeverStuck` | a session that is not over has a step of its own, or waits for the exit of its tool alone |
| `LockInvariance` | types, and the inductive invariant of the image lock |
| `RunsAreLocked`, `LockIsNotLost`, `RefreshesKeepOthers`, `RestoresAreTogether` | all four properties of the image lock, with the exceptions section 3 names: `RunsLocked`, `LockNeverLost`, `RefreshKeepsOthers`, `RestoresTogether` |
| `RunsAreVerified`, `RefreshesAuthorize`, `ActsOnWhatWasSigned` | `RunsVerified`, `RefreshAuthorizes`, `ActsOnSignedRegistry`, for every set of policy documents and images |
| `RunsAreApproved`, `DecisionsKeepOthers` | `RunsApproved` and `OthersKept`, for every tree of directories |
| `ArchivesHold`, `OrphansAreJudged`, `ProvedOrReplacedHolds`, `ImportsHold` | all four properties of the volumes: `ArchivesTrue`, `OrphansJudgedInTime`, `ProvedOrReplaced`, `ImportsIntoEmpty`, for every number of commands and projects |
| `LinksReachBinary`, `ForeignIsKept` | `LinksReachWholeBinary` and `ForeignUntouched`, for every number of installs |

**The lock.** `LockInv` adds to the types `OwnFile` (from its create to its removal, the file under the lock's
name is the holder's own, line included) and `HandlerInStep` (the release function is untouched until a signal
is caught or the body is over). Exclusion alone is not inductive: it says nothing of the file, and the next
create is excluded by the file, not by the other process.

**The registry.** `StoreInv` adds `Coherent` (where a process is in its command fits where it is at the lock),
`WritersHold` (a writer that has loaded the registry under the lock has recovered it, and one that edits what it has read
has the file) and `Recoverable`: the state "only a backup" occurs while the lock's owner, alive or killed, is between
the two renames, or before any process has got past its first load, or after a put-back failed. `BodySafe` follows: a
command in its critical section has its file, or neither file nor backup, or a put-back has failed. The argument needs the
first load: a killed writer leaves the lock too, so whoever comes next has to be refused, and the user deletes the
lock only when no command runs; the next command's unlocked load then recovers the file before anyone asks for the
lock. A failed put-back frees the lock *in* the window. Then `WritersHold` is what is left: the commands that load
under the lock recover the file there, and only those in `WritesUnread` (`OnlyUnreadDrops`), an install or a restore,
can remove a lone backup. An interrupt frees the lock in the window too, and for any command that writes;
that is why the theorem assumes none, and why finding 4 exists.

**The refinement.** With undisturbed loads `SoloInv` adds what a command knows at each file operation: what a load has
seen of the two files is still so (`MidLoad`), at most one of the two names is taken between the two renames (`OneName`,
which failing removals make worth saying), a writer's temporary file is its edit of what the registry holds now
(`EditsTrue`; after a failed put-back an install may hold the defaults ready instead), and a command that has taken
effect does not get to another edit (`CommittedInStep`). Every step is then a `Take` of the abstract registry, leaves
`Current` alone, or is the `Expose` or `Lose` of a failed put-back, by one case for each action.
`NoLostUpdate` and `LoadsSeeCurrent` follow from the same invariant. The two conditions cannot go: findings 1 to
4 are what happens without them.

**The WSL runtime.** `RuntimeInv` says who holds the coordinator when (`CoordinatorHeld`), that nothing of a run
exists before it asks for it (`NothingBefore`), that a run holds its lease from publication to `Close`, or the
coordinator when publication failed (`LeaseHeld`), that what a pass may remove belongs to runs past their use of
it (`OrphansAbandoned`), and the same of late kills and deletes (`LateRequests`). `LiveRunsUntouched` is one case
analysis over it. `ProtocolInv` adds what a pass knows: its lists are true of the Engine (`ListsTrue`), a lease
that is locked is locked by its live run or by the pass itself (`LocksExplained`), and a container owed to the
pass is removed, listed or at hand (`OwedInSight`).

That each run is a tool run needs two things more. A tool starts once because a start is only on its way, or still to
be sent, while its container has not run (`StartedOnce`), and a run that is past its start has sent it; a request
that acts late acts on a run that has been given up. What a run may do to its own container follows from where it is in
`executeTool`, and what others may do to it from `OrphansAbandoned` and `LateRequests`: `ContainerMoves` lists, once, in
which ways a step changes a container, and `ToolRunStep` finds a step of `ToolRun` for each.

`CoordinatorComesFree` is the part of the liveness property that is an invariant, for any number of processes. Two locks
are taken in both orders: a run holds its lease and asks for the coordinator to close, a pass holds the coordinator
and probes leases. There is no deadlock because whoever has the coordinator never waits for a lease: the pass only
probes, and the lease a run locks in front of the coordinator is a file nobody else can have locked (`HolderKnown`).

**Self-update.** `UpdateInv` has three parts. `StageKnows` is what the parent and the helper of one update leave to one
another: who has started, who is gone, whose the staging directory is. `TxKnows` is what the one transaction knows of the
files at each of its steps: from the first replacement to the last check the rollback executable holds the old bytes, the
shims it does not manage do not hold them, and what has been proved new, or restored, has not become anything but
foreign. Other programs are why each of these is about bytes that only fade: their changes take a file out of the two releases and
never into one, and a change between a look and its replacement is in `late`. `RecoveryKept` alone is not inductive,
because a transaction drops its rollback executable in the end: `FilesKnown` says that it does so only where no mix is left,
which in turn needs that there was none when it began. That is only true as long as no earlier update has left its
rollback executable behind (`RecoveryLeft`); once one has, it stays and the property holds for good. Two updates
cannot spoil this for each other, since the one that waits for the lock has made no copy. TLC has checked `UpdateInv`
on the instance of `self_update` without its bound on accidents, 4.3 million states up to symmetry, before the proof.

**The session.** `ResultTrue` speaks of the end only, so `SessionInv` carries its grounds from step to step. A result
proves something when it arrives (`ResultsTrue`): an `eof` of the output that the stream ended between two frames
with everything written, a status that the tool had exited by itself. `CompleteStays` keeps that true until the end:
after it nothing is sent or copied. `OutcomeInStep` says that the outcome is open until the clean-up, and then an
error or a status with all its output; `ToolInStep` is needed because a status read after the clean-up's kill would
be the kill's. `FailuresExplained` gives every error its cause, and has to know that a sound stream ends on
an even count. `Guarded` is what the order of the deferred steps is for: the interception outlasts the container
and the raw terminal. The refinement of `ToolRun` follows from the same invariant, step by step. `SessionNeverStuck`
needs `ResultsDue`: whatever the loop and the drain wait for has been asked for and not been taken yet.

**The image lock.** `LockInv` says of each command what it may rely on at its next file operation, although readers
that hold no lock recover the file under its hands. There is one writer at a time (`OneWriter`). Between the
looks of a load there is no file, or another command has put one in place there (`LoadKnows`); what the load returns is
then the lock in effect, or nothing because of that other. What a refresh loads is among the locks in effect since it
began (`SeesLock`), and it keeps one of them entry by entry (`RefreshKnows`, with `KeptOf` for what it is about to
write); it has recovered the lock before it removes the backup, and its file is there when it removes the backup again
(`WriteKnows`). A restore has the parts in place that come before its present step, and the lock it has written or
removed last, unless another command recovered the old one since (`RestoreKnows`); the lemma `LockAfterRegistry` is
the order of its parts. A step of a command changes the files as their writer or by recovering them; the lemma
`OthersKnow` shows once that neither takes from any other command what it knows. The case of a refresh that found
no lock showed that two branches of `Kept` overlapped; they are disjoint now.

**Image trust.** `TrustInv` keeps the grounds of every decision on the way to a run or a write (`OnItsWay`): the policy a
command holds was accepted, whatever it captured of the pinned files is genuine, at the verification it has
captured all that its rules pin, and evidence anywhere, in the lock or at hand, is that of a verification that took place
(`Entries`). `OneRuleApplies` and `EvidenceSuffices` are about the operators of `MachinePolicy`: an accepted policy has
one rule for a repository, and evidence that `AuthorizeLocked` accepts was given for that policy, rule,
repository and digest. What the administrator and the publishers replace between two steps does not touch what a command
has captured: that is the design, and the frame lemmas say so.

**Project trust.** `OverlayInv` has one conjunct about the store and three about commands. The store records
nothing that the user has not approved: `RecordsOf(Recorded)` is within `approved`, also while a save has moved it
aside. A run knows that the contents it read, if the store has them, were recorded at a time since it began (`RunKnows`);
a decision that its copy of the store is the store's with its own project's record changed (`DecisionKnows`, which needs
that only one command decides at a time).

**The installation.** `InstallInv` says that every managed link has the binary and both have their directories
(`LinksHeld`), that what an install has read of the executable is one build as long as its modification time has not moved
(`CopyKnows`), and that the checks an install has passed still hold (`InstallKnows`). Installs overlap before they ask for the lock, so what one of them relies on must only
grow under the others (`Grown`): a directory that holds a staged binary cannot be rolled back.

**The volumes.** No lock protects a volume from a tool or a gc, so `VolumesInv` says of each command what it *knows*: of
the directories it has judged (`Judged`), of the volumes a WSL command has proved (`Proved`), of those a backup has read
(`BackupKnows`) and a restore has written (`RestoreKnows`), each time "or another has taken it up since". `OthersKnow`
shows once that a step keeps what another command knows if whatever it takes away is in that command's history
(`LeftTo`); the frame lemmas then show that every step of the engine leaves that much. Three things are needed besides.
A volume with contents or a mount exists, so that neither creating nor mounting one ever changes contents. A running
tool mounts all of its volumes, so that nobody removes one it writes to. And the steps of a backup or restore that are
not in anyone's history need `OneArchive`: there is one at a time, by the mutation lock, and one that has ended
has been told everything the present one has. `WhoDeletes` and `WhoMounts` reduce the action properties to the
two removals and the three mounts of the module. TLC has checked `VolumesInv` with two commands on the instance of
`MCProjectVolumes`, 515,504 states up to symmetry, before the proof.

**Model-checked only.** `NeverWaitsOnHost`, `EveryCommandEnds` and `NobodyWaitsForAnother`: liveness under fairness,
and `ENABLED`, are beyond the prover. Of the first and the last, `SessionNeverStuck` and `HoldersDoNotWait` prove what can be
said without: the guards are written out as a formula, and that these are the guards is left to the reader and to
TLC. Every other property of a passing run is a theorem. Induction over data is beyond the prover too, which is why operators
that recurse over a sequence or take a minimum are kept out of the modules with theorems.

## 6. Where code and documentation disagree

1. **An interrupt opens the lock early** (`interrupt_overlap`). The handler calls `release()` while `fn()` is
   still running (`main.go:605`); until the exit takes effect, another command may enter.
   `docs/architecture.md:285-288` says the lock is held across the whole sequence.
2. **A reader can undo an edit** (`registry_lost_update`). A load before dispatch sees the file missing in a
   writer's window, stats, and renames the backup over the file the writer has published in between
   (`atomicio.go:60`). `docs/architecture.md:289-292` says that the load cannot cause a lost update.
3. **A reader can fall back to defaults silently** (`registry_silent_defaults`). `RecoverFromBackup` answers
   "not recovered" also when the file has come back, and `loadPath` then returns the built-in defaults
   (`file.go:283`), which `docs/architecture.md:277-279` excludes.
4. **An interrupt in the window can cost the registry** (`registry_interrupted`). Only the backup is left and the
   lock is free; an `install` already waiting runs `EnsureFile`, whose `WriteFile` begins by removing the backup
   (`atomicio.go:34`). `docs/architecture.md:273-274` says a crash leaves the old or new file, or the backup,
   for the next load. It takes an interrupt in that window and a second command past its own load. A put-back that
   fails after a failing rename leaves the same state without an interrupt, its error ignored (`atomicio.go:43`): that
   is the step `RegistryKept` excepts.
5. **Windows collects WSL volumes** (`gc_orphans_windows`). `cb gc --orphans` on Windows takes every volume with
   `cb.managed=true` (`dockervol.go:59-78`), which the volumes of native WSL projects carry too
   (`wslvolume.go:113-124`), and asks the Windows `os.Stat` for their Linux path (`state.go:163`), which finds nothing:
   with `--apply` the volumes of live WSL projects go. `docs/security-model.md:216-219` says a volume is an orphan
   only if its labels record a path that no longer exists.

Seen on the way, and documented or harmless enough to be no finding: a host that takes longer than five seconds to read
the rest of the output loses it and the exit status with it (`docs/wsl-process-contract.md:111-113` announces that);
`Archive.Restore` and the WSL mount proof leave a gap between the look and the mount that no Docker request closes, in
which Docker creates an unlabelled volume if a gc has just removed it; the window of finding 3 exists for the image lock
too (`lockfile.go:112`), where a tool runs the bare tag, or a refresh forgets the entries it should keep
(`docs/architecture.md:174-176`, `277-279`), the exceptions of `RunsLocked` and `RefreshKeepsOthers`; a restore says
"atomically" although an old lock is back or could not be removed, the exceptions of `RestoresTogether`; and the trust store is the user's while the
mutation lock is an installation's, so that the writers of two installations are not ordered.

## 7. What is not modelled

- *Signature mode of the registry.* A signed registry is authenticated before it is used and a missing file is
  then an error without recovery; the modules follow the unsigned path.
- *The temporary file* of `WriteFile` is private to its writer and leaves no state the next command reads. That it
  cannot be written is modelled, as a command that fails before it touches anything.
- *`trust` and `inspect --project`*, whose load before dispatch is read-only, take the path of `inspect`.
- *The TOML edit* is an edit of a set of sections. That the text edit does this to the text is not shown.
- *The session* in `WslRuntime` is one step that ends or fails; its event loop is `ToolSession`, which has no other
  process. The two do not match step by step: `WslRuntime` leaves its session at once with a clean-up to do, and lets
  others kill and late requests act, which `ToolSession` leaves out. They are related through `ToolRun`, which both implement.
- *Checks of identity and permission* of the state directory, the lease files and the containers: a file or
  a container under the program's own name and labels is its own.
- *In self-update*, the choice of a release, what verification parses, and the ARM64 archive, whose extraction
  is part of the verification step.
- *Reboots* end every process and every lock at once, as crashes of each in turn do.
- *Two installations that share one trust store*: `ProjectTrust` has one, with one mutation lock.
- *Text*: TOML, labels, archive entries and paths are values; parsing, quoting, the ZIP container, symbolic links
  inside a path and the composition of a `docker run` command line are not modelled.
- *Ownership and permission checks* of policy, pinned files, layout and links.
- *Shared Python environments* and the discovery of exposed commands.
- *Path mapping, project identity, the registry's schema and TOML* are pure functions on text with fuzz tests beside
  them; a model of them would be their code again.
- Components with status `not_modelled` in `PROJECT.json`, with the reason there.

## 8. The plan

Done: every module of section 2, every property of the passing runs that the prover can reach, and the session and the
runtime as implementations of one abstract tool run. What could come next:

1. **Two installations and one trust store**, the one hazard in `PROJECT.json` that no property covers: `ProjectTrust` with
   a mutation lock per installation.
2. **The signed registry** in `RegistryStore`: a load that authenticates and does not recover.
