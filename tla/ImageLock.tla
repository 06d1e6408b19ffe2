------------------------------ MODULE ImageLock ------------------------------
(***************************************************************************)
(* The image lock container-bin.lock and its .bak (internal/lockfile): the *)
(* commands that refresh it under the mutation lock (cb lock, cb update,   *)
(* cb wsl lock), the restore that replaces or removes it after the         *)
(* registry (internal/cli), and the tool runs and checks that read it      *)
(* without any lock and may recover it from its backup.  One step is one   *)
(* file operation, or one image resolved.                                  *)
(***************************************************************************)
EXTENDS Naturals, FiniteSets

CONSTANTS
    LockJob,     \* concurrent commands
    MaxCommands, \* bound: commands started in a behaviour
    MaxDigest    \* bound: digests the tags have had

ASSUME ImageLockAssumption == MaxCommands \in Nat /\ MaxDigest \in Nat \ {0}

\* "own" is configured by the machine's registry, "other" by the overlay of one
\* project and by the archived registry.
Image == {"own", "other"}
Entry == {<<"none", 0>>} \union ({"registry", "local"} \X (1 .. MaxDigest))
NoEntry == <<"none", 0>>
Lock == [Image -> Entry]
NoFile == [i \in Image |-> <<"nofile", 0>>]
EmptyLock == [i \in Image |-> NoEntry]
ArchivedLock == [i \in Image |-> IF i = "other" THEN <<"registry", 1>> ELSE NoEntry]

Policies ==
    {[managed |-> FALSE, requireLock |-> FALSE, allowLocal |-> FALSE],
     [managed |-> TRUE, requireLock |-> TRUE, allowLocal |-> FALSE]}

VARIABLES
    lockFile,  \* container-bin.lock
    lockBak,   \* container-bin.lock.bak
    registry,  \* whose registry is in place: "own" or "archived"
    signature, \* ... whose detached signature, or "none"
    tag,       \* the digest the images' tags have now
    mode,      \* the frontend and the machine policy
    work,      \* the commands
    commands,  \* ... and how many were started
    \* history:
    effective, \* run, update, preserving: the locks in effect since it started
               \* (what they have for its image, for a run)
    replaced   \* did another command put a lock file in place under it (Exposed)

lockFiles == <<lockFile, lockBak>>
lockWorld == <<registry, signature, tag, mode, commands>>
imageLockVars == <<lockFile, lockBak, registry, signature, tag, mode, work, commands,
                   effective, replaced>>

NoWork == [cmd |-> "none", images |-> {}, kind |-> "", step |-> "idle", todo |-> {},
           got |-> NoFile, next |-> NoFile, ref |-> NoEntry]

\* The lock that counts: the file or, once it is recovered, its backup.
InEffect == IF lockFile # NoFile THEN lockFile ELSE lockBak

ImageLockInit ==
    /\ lockFile \in {NoFile, [i \in Image |-> <<IF i = "own" THEN "local" ELSE "registry", 1>>]}
    /\ lockBak = NoFile
    /\ registry = "own" /\ signature = "own"
    /\ tag = 1
    /\ mode \in [frontend : {"windows", "wsl"}, policy : Policies]
    /\ work = [j \in LockJob |-> NoWork]
    /\ commands = 0
    /\ effective = [j \in LockJob |-> {}]
    /\ replaced = [j \in LockJob |-> FALSE]

-----------------------------------------------------------------------------
(* Commands *)

Busy(j) == work[j].step \notin {"idle", "done"}
Writers == {"lock", "preserving", "update", "wslLock", "restore", "restoreBare"}

\* cb lock takes the whole effective registry, a trusted project's with its
\* overlay; cb update one tool or all.
Configured == IF registry = "own" THEN {"own"} ELSE {"other"}
Targets(c) ==
    CASE c \in {"lock", "wslLock"} -> {Configured}
      [] c = "preserving" -> {Configured, Configured \union {"other"}}
      [] c = "update" -> {{i} : i \in Configured \union {"other"}} \union {Configured}
      [] c = "run" -> {{i} : i \in Configured \union {"other"}}
      [] OTHER -> {{}}
Kinds(c) ==
    CASE c = "update" -> {"", "local", "registry"}
      [] c \in {"lock", "preserving", "wslLock"} -> {"local", "registry"}
      [] OTHER -> {""}
\* A restore is authorized as a whole first (authorizeRegistrySnapshot).
Offered ==
    IF mode.frontend = "wsl" THEN {"wslLock", "run", "check"}
    ELSE {"lock", "preserving", "update", "restore", "run", "check"}
         \union (IF mode.policy.requireLock THEN {} ELSE {"restoreBare"})

\* Does the policy let a lock entry of that kind be made (AuthorizeLockTarget)?
MayLock(local) == mode.policy.managed /\ local => mode.policy.allowLocal

\* Every refresh fixes the kind of each entry before it resolves any: --local
\* names tools (here the first, "own"), update without it keeps the old kind.
IsLocal(w, i) ==
    IF w.cmd = "update"
    THEN w.kind = "local" \/ (w.kind = "" /\ w.got[i][1] = "local")
    ELSE w.kind = "local" /\ i = "own"

FirstLockStep(c) ==
    CASE c = "lock" -> "resolve"
      [] c = "restore" \/ c = "restoreBare" -> "restoreSig"
      [] OTHER -> "readLock"

\* Where a lock file put in place by another command escapes this one: between
\* the two looks of Load (ReadFile, RecoverFromBackup), and before the last step
\* of a write or a removal.
Exposed == {"statLock", "statBak", "cleanBak", "removeBak"}

\* The histories are those of running commands.
Seen ==
    effective' = [k \in LockJob |->
        LET w == work'[k] IN
        IF ~Busy(k)' THEN {}
        ELSE IF w.cmd = "run" THEN effective[k] \union {[i \in w.images |-> InEffect'[i]]}
        ELSE IF w.cmd \in {"update", "preserving"} THEN effective[k] \union {InEffect'}
        ELSE {}]
Watch == Seen /\ replaced' = [k \in LockJob |-> replaced[k] /\ Busy(k)']
Replaces(j) ==
    /\ Seen
    /\ replaced' = [k \in LockJob |->
                        Busy(k)' /\ (replaced[k] \/ (k # j /\ work[k].step \in Exposed))]

StartLockJob(j) ==
    /\ ~Busy(j) /\ commands < MaxCommands
    /\ commands' = commands + 1
    /\ \E c \in Offered :
          /\ c \in Writers => \A k \in LockJob : ~(Busy(k) /\ work[k].cmd \in Writers)
          /\ \E is \in Targets(c), k \in Kinds(c) :
                work' = [work EXCEPT ![j] =
                            [NoWork EXCEPT !.cmd = c, !.images = is, !.kind = k, !.todo = is,
                                           !.next = EmptyLock, !.step = FirstLockStep(c)]]
    /\ UNCHANGED <<lockFiles, registry, signature, tag, mode>>
    /\ Watch

On(j, step) == work[j].step = step
Goes(j, step) == work' = [work EXCEPT ![j].step = step]
Succeeds(w) == [NoWork EXCEPT !.cmd = w.cmd, !.step = "done"]
Completes(j) == work' = [work EXCEPT ![j] = Succeeds(@)]
GivesUp(j) == work' = [work EXCEPT ![j] = NoWork]

-----------------------------------------------------------------------------
(* lockfile.Load: a file that has come back between the two looks means "not *)
(* recovered", which Load takes for "there is no lock".  (got = NoFile)      *)

\* The tag itself runs only where there is no lock; an image the lock does not
\* have never does (runtimeImageForTool).
Mutant_RuntimeImage(i, l) == IF l[i] = NoEntry THEN NoFile[i] ELSE l[i]
RuntimeImage(i, l) == IF l = NoFile THEN NoFile[i] ELSE l[i]

Runs(w) ==
    LET i == CHOOSE i \in w.images : TRUE
        ref == RuntimeImage(i, w.got)
        allowed == /\ ref # NoEntry
                   /\ mode.policy.requireLock => ref # NoFile[i]
                   /\ mode.policy.managed /\ ref[1] = "local" => mode.policy.allowLocal
    IN  IF allowed THEN [w EXCEPT !.step = "run", !.ref = ref, !.got = NoFile] ELSE NoWork

\* What a refresh keeps of the lock it has loaded.
Mutant_Kept(w, l) == EmptyLock
Kept(w, l) ==
    IF l = NoFile \/ w.cmd = "wslLock" THEN EmptyLock
    ELSE [i \in Image |-> IF w.cmd # "update" /\ i \in w.images THEN NoEntry ELSE l[i]]

Refreshes(w) ==
    LET kept == Kept(w, w.got)
        allowed == /\ \A i \in w.images : MayLock(IsLocal(w, i))
                   /\ w.cmd = "preserving" => \A i \in Image : MayLock(kept[i][1] = "local")
    IN  IF allowed THEN [w EXCEPT !.step = "resolve", !.next = kept]
        ELSE NoWork

AfterLoad(w) ==
    CASE w.cmd = "run" -> Runs(w)
      [] w.cmd = "check" -> IF w.got = NoFile THEN NoWork ELSE Succeeds(w)
      [] OTHER -> Refreshes(w)

Loaded(j, l) == work' = [work EXCEPT ![j] = AfterLoad([@ EXCEPT !.got = l])]

ReadLock(j) ==
    /\ On(j, "readLock")
    /\ IF lockFile # NoFile THEN Loaded(j, lockFile)
       \* cb wsl lock --check never recovers (LoadReadOnly).
       ELSE IF work[j].cmd = "check" /\ mode.frontend = "wsl" THEN GivesUp(j)
       ELSE Goes(j, "statLock")
    /\ UNCHANGED <<lockFiles, lockWorld>> /\ Watch

StatLock(j) ==
    /\ On(j, "statLock")
    /\ IF lockFile # NoFile THEN Loaded(j, NoFile) ELSE Goes(j, "statBak")
    /\ UNCHANGED <<lockFiles, lockWorld>> /\ Watch

StatLockBak(j) ==
    /\ On(j, "statBak")
    /\ IF lockBak # NoFile THEN Goes(j, "renameBak") ELSE Loaded(j, NoFile)
    /\ UNCHANGED <<lockFiles, lockWorld>> /\ Watch

\* os.Rename replaces a file that has appeared under the new name meanwhile.
RenameLockBak(j) ==
    /\ On(j, "renameBak")
    /\ IF lockBak # NoFile
       THEN /\ lockFile' = lockBak /\ lockBak' = NoFile
            /\ Goes(j, "rereadLock")
            /\ Replaces(j)
       ELSE GivesUp(j) /\ UNCHANGED lockFiles /\ Watch
    /\ UNCHANGED lockWorld

RereadLock(j) ==
    /\ On(j, "rereadLock")
    /\ IF lockFile # NoFile THEN Loaded(j, lockFile) ELSE GivesUp(j)
    /\ UNCHANGED <<lockFiles, lockWorld>> /\ Watch

-----------------------------------------------------------------------------
(* Refreshing: pull or inspect every image, then lockfile.Write *)

ResolveImage(j) ==
    /\ On(j, "resolve")
    /\ \E i \in work[j].todo :
          LET w == work[j]
              local == IsLocal(w, i)
              rest == w.todo \ {i}
          IN  /\ MayLock(local)
              /\ work' = [work EXCEPT ![j] =
                     [w EXCEPT !.todo = rest, !.got = IF rest = {} THEN NoFile ELSE @,
                               !.next[i] = <<IF local THEN "local" ELSE "registry", tag>>,
                               !.step = IF rest = {} THEN "dropBak" ELSE "resolve"]]
    /\ UNCHANGED <<lockFiles, lockWorld>> /\ Watch

\* The policy denies the target, or docker fails.
ResolveFails(j) ==
    /\ On(j, "resolve")
    /\ GivesUp(j)
    /\ UNCHANGED <<lockFiles, lockWorld>> /\ Watch

Mutant_DropLockBak(j) ==  \* the old lock goes before the new one is in place
    /\ On(j, "dropBak")
    /\ lockFile' = NoFile /\ lockBak' = NoFile
    /\ Goes(j, "publish")
    /\ UNCHANGED lockWorld
    /\ Watch

\* Nobody looks at what os.Remove returns.
LockBakRemoved == lockBak' \in {NoFile, lockBak}

DropLockBak(j) ==
    /\ On(j, "dropBak")
    /\ \/ GivesUp(j) /\ UNCHANGED lockBak  \* the temporary file cannot be written
       \/ /\ LockBakRemoved
          /\ Goes(j, IF lockFile # NoFile THEN "moveAside" ELSE "publish")
    /\ UNCHANGED <<lockFile, lockWorld>>
    /\ Watch

MoveLockAside(j) ==
    /\ On(j, "moveAside")
    /\ \/ /\ lockFile # NoFile
          /\ lockBak' = lockFile /\ lockFile' = NoFile
          /\ Goes(j, "publish")
       \/ GivesUp(j) /\ UNCHANGED lockFiles  \* the file is gone or in use
    /\ UNCHANGED lockWorld
    /\ Watch

PublishLock(j) ==
    /\ On(j, "publish")
    /\ \/ /\ lockFile' = work[j].next
          /\ Goes(j, "cleanBak")
          /\ UNCHANGED lockBak
          /\ Replaces(j)
       \/ /\ Goes(j, "putBack")
          /\ UNCHANGED lockFiles /\ Watch
    /\ UNCHANGED lockWorld

\* Nor at what the os.Rename of the put-back returns: the command fails anyway.
PutLockBack(j) ==
    /\ On(j, "putBack")
    /\ GivesUp(j)
    /\ \/ lockBak # NoFile /\ lockFile' = lockBak /\ lockBak' = NoFile /\ Replaces(j)
       \/ UNCHANGED lockFiles /\ Watch
    /\ UNCHANGED lockWorld

CleanLockBak(j) ==
    /\ On(j, "cleanBak")
    /\ LockBakRemoved
    /\ Completes(j)
    /\ UNCHANGED <<lockFile, lockWorld>>
    /\ Watch

-----------------------------------------------------------------------------
(* cb restore --apply, after the volumes: signature, registry, lock *)

Mutant_RestoreSignature(j) ==  \* the signature of the old registry stays
    /\ On(j, "restoreSig")
    /\ Goes(j, "restoreRegistry") \/ Goes(j, "restoreSigned")
    /\ UNCHANGED <<lockFiles, registry, signature, tag, mode, commands>> /\ Watch

\* The signature of an archive that has none goes first, one it has comes after
\* the registry.
RestoreSignature(j) ==
    /\ On(j, "restoreSig")
    /\ \/ signature' = "none" /\ Goes(j, "restoreRegistry")
       \/ UNCHANGED signature /\ Goes(j, "restoreSigned")
    /\ UNCHANGED <<lockFiles, registry, tag, mode, commands>> /\ Watch

LastPart(w) == IF w.cmd = "restore" THEN [w EXCEPT !.step = "dropBak", !.next = ArchivedLock]
               ELSE [w EXCEPT !.step = "removeLock"]

RestoreRegistry(j) ==
    /\ On(j, "restoreRegistry") \/ On(j, "restoreSigned")
    /\ registry' = "archived"
    /\ work' = [work EXCEPT ![j] = IF On(j, "restoreRegistry") THEN LastPart(@)
                                   ELSE [@ EXCEPT !.step = "restoreNewSig"]]
    /\ UNCHANGED <<lockFiles, signature, tag, mode, commands>> /\ Watch

RestoreNewSignature(j) ==
    /\ On(j, "restoreNewSig")
    /\ signature' = "archived"
    /\ work' = [work EXCEPT ![j] = LastPart(@)]
    /\ UNCHANGED <<lockFiles, registry, tag, mode, commands>> /\ Watch

\* restore ignores what os.Remove returns, and reports success.
RemoveLock(j) ==
    /\ On(j, "removeLock")
    /\ lockFile' \in {NoFile, lockFile}
    /\ work' = [work EXCEPT ![j].step = "removeBak", ![j].got = lockFile']
    /\ UNCHANGED <<lockBak, lockWorld>>
    /\ Watch

RemoveLockBak(j) ==
    /\ On(j, "removeBak")
    /\ LockBakRemoved
    /\ Completes(j)
    /\ UNCHANGED <<lockFile, lockWorld>>
    /\ Watch

-----------------------------------------------------------------------------

RunLocked(j) ==
    /\ On(j, "run")
    /\ Completes(j)
    /\ UNCHANGED <<lockFiles, lockWorld>> /\ Watch

KillLockJob(j) ==
    /\ Busy(j)
    /\ GivesUp(j)
    /\ UNCHANGED <<lockFiles, lockWorld>> /\ Watch

\* The tags move on, upstream or by a local build.
PushTag ==
    /\ tag < MaxDigest /\ tag' = tag + 1
    /\ UNCHANGED <<lockFiles, registry, signature, mode, work, commands, effective, replaced>>

LockLoad(j) ==
    ReadLock(j) \/ StatLock(j) \/ StatLockBak(j) \/ RenameLockBak(j) \/ RereadLock(j)
LockWrite(j) ==
    DropLockBak(j) \/ MoveLockAside(j) \/ PublishLock(j) \/ PutLockBack(j) \/ CleanLockBak(j)
LockRestore(j) ==
    RestoreSignature(j) \/ RestoreRegistry(j) \/ RestoreNewSignature(j)
    \/ RemoveLock(j) \/ RemoveLockBak(j)

ImageLockNext ==
    \/ \E j \in LockJob : \/ StartLockJob(j) \/ LockLoad(j)
                          \/ RunLocked(j) \/ ResolveImage(j) \/ ResolveFails(j)
                          \/ LockWrite(j) \/ LockRestore(j) \/ KillLockJob(j)
    \/ PushTag

ImageLockSpec == ImageLockInit /\ [][ImageLockNext]_imageLockVars

-----------------------------------------------------------------------------
(* Properties *)

\* A tool runs exactly what a lock that was in effect since its command began
\* has for its image; it runs the bare tag only where no lock was in effect, or
\* where another command put a lock file in place between the two looks of its
\* own Load, and never under a policy that requires a lock (runtimeImageForTool).
RunsLocked ==
    \A j \in LockJob : LET w == work[j] IN
        w.step = "run" =>
            \A i \in w.images :
                IF w.ref = NoFile[i]
                THEN /\ (\E l \in effective[j] : l[i] = w.ref) \/ replaced[j]
                     /\ ~mode.policy.requireLock
                ELSE \E l \in effective[j] : l[i] = w.ref

PublishesRefresh(j) ==
    /\ work[j].cmd \in {"preserving", "update"} /\ On(j, "publish")
    /\ lockFile' # lockFile /\ work'[j].step = "cleanBak"

\* A refresh of some images keeps the entries of all others as a lock in effect
\* since it began has them, and keeps a local entry local unless it is told
\* otherwise, unless another command put the lock file in place between the two
\* looks of the refresh's own Load (lockFileForRefresh, Update).
RefreshKeepsOthers ==
    [][\A j \in LockJob : PublishesRefresh(j) /\ ~replaced[j] =>
          LET w == work[j] IN
          \E l \in effective[j] : \A i \in Image :
              LET old == IF l = NoFile THEN NoEntry ELSE l[i] IN
              IF i \notin w.images THEN lockFile'[i] = old
              ELSE w.cmd = "update" /\ w.kind = "" /\ old[1] = "local" =>
                       lockFile'[i][1] = "local"]_imageLockVars

\* There is a lock at every moment once there is one, whatever crashes or fails:
\* only cb lock and cb restore, which replace it without loading it first, can
\* leave none (WriteFile, RecoverFromBackup, wsllock "Force validation/recovery
\* of an interrupted prior write before a new complete refresh").
LockNeverLost ==
    [][InEffect # NoFile /\ InEffect' = NoFile =>
          \E j \in LockJob : work[j].cmd \in {"lock", "restore", "restoreBare"}
                             /\ work'[j] # work[j]]_imageLockVars

Restores(j) == work[j].cmd \in {"restore", "restoreBare"} /\ Busy(j) /\ work'[j] # work[j]
ArchiveInPlace == registry = "archived" /\ signature \in {"archived", "none"}

\* A restore touches the lock in effect only when the archived registry is in
\* place with its signature, wherever it fails or is killed; and one that reports
\* success has put its lock in place too, and no lock where the archive has none,
\* unless another command recovered the old lock before the restore's last step,
\* or the old lock or its backup could not be removed (runRestore ignores that).
RestoresTogether ==
    [][\A j \in LockJob : LET w == work[j] IN
          /\ Restores(j) /\ InEffect' # InEffect => ArchiveInPlace
          /\ Restores(j) /\ work'[j].step = "done" =>
                /\ ArchiveInPlace'
                /\ \/ InEffect' = IF w.cmd = "restore" THEN ArchivedLock ELSE NoFile
                   \/ replaced[j]
                   \/ w.cmd = "restoreBare" /\ (w.got # NoFile \/ lockBak' # NoFile)]_imageLockVars
=============================================================================
