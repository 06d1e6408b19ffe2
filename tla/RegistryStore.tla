--------------------------- MODULE RegistryStore ----------------------------
(***************************************************************************)
(* The registry file container-bin.toml and its .bak under concurrent cb   *)
(* commands: every command first loads the registry without the mutation   *)
(* lock (internal/registry loadPath, with the recovery of                  *)
(* internal/atomicio RecoverFromBackup), and the mutating ones then load,  *)
(* edit and replace it (atomicio.WriteFile) under the lock.  One step is   *)
(* one file operation.  The lock is MutationLock's, action by action.      *)
(***************************************************************************)
EXTENDS MutationLock

CONSTANTS
    Command,   \* commands the processes may run, a subset of AllCommands
    Initial,   \* what the registry may hold at first
    SoloLoads  \* no other process touches the files in the middle of a load

AllCommands == {"add", "uninstall", "install", "restore", "view", "inspect"}
Reading == {"view", "inspect"}

ASSUME StoreAssumption ==
    /\ Command \subseteq AllCommands
    /\ SoloLoads \in BOOLEAN

VARIABLES
    live,      \* container-bin.toml
    bak,       \* container-bin.toml.bak
    cmd,       \* the command each process is
    phase,     \* which routine of its command a process is in
    step,      \* the next file operation of that routine
    got,       \* what the last Load returned, and where from
    tmp,       \* what a process writes to its temporary file
    committed  \* the processes whose edit has been renamed into place

fileVars == <<live, bak>>
localVars == <<cmd, phase, step, got, tmp, committed>>
storeVars == <<live, bak, cmd, phase, step, got, tmp, committed>>
vars == <<lockVars, storeVars>>

\* What the next load recovers: the file, or else its backup.
Current == IF live.exists THEN live ELSE bak

\* A command has returned from a write that failed and could not put the old
\* file back: until a load recovers it only the backup is left.
PutBackFailed == \E p \in Process : step[p] = "unrestored"

Atomic == INSTANCE AtomicRegistry WITH reg <- Current, exposed <- PutBackFailed

Absent == Atomic!Absent
File(tools) == Atomic!File(tools)
ASSUME InitialAssumption == Initial \subseteq {Absent, File({"custom"})}
\* The section an add appends is its own.
ASSUME SectionsAssumption == {"custom", "builtin"} \intersect Process = {}

Nothing == [from |-> "nothing", tools |-> {}]
Error == [from |-> "error", tools |-> {}]

\* The routines of a command, in order: the load before dispatch, then, under
\* the lock, add: load, ensure, edit; uninstall: load, edit; install: ensure,
\* edit, load; restore: edit.
NextPhase(c, ph) ==
    IF ph = "preload" THEN IF c \in Reading THEN "done" ELSE "locked"
    ELSE IF ph = "locked" /\ c \in {"add", "uninstall"} THEN "load"
    ELSE IF (ph = "load" /\ c = "add") \/ (ph = "locked" /\ c = "install") THEN "ensure"
    ELSE IF ph \in {"locked", "ensure"} \/ (ph = "load" /\ c = "uninstall") THEN "edit"
    ELSE IF ph = "edit" /\ c = "install" THEN "load"
    ELSE "done"

FirstStep(c, ph) ==
    IF ph = "load" THEN "readLive"
    ELSE IF ph = "ensure" THEN "ensureStat"
    ELSE IF ph = "edit" THEN IF c = "restore" THEN "dropBak" ELSE "readRaw"
    ELSE "ok"

\* The routine is over: go to the first operation of the next one.
Proceed(p) ==
    /\ phase' = [phase EXCEPT ![p] = NextPhase(cmd[p], @)]
    /\ step' = [step EXCEPT ![p] = FirstStep(cmd[p], NextPhase(cmd[p], phase[p]))]

FailWith(p, s) ==
    /\ phase' = [phase EXCEPT ![p] = "done"]
    /\ step' = [step EXCEPT ![p] = s]

Fail(p) == FailWith(p, "failed")

StepTo(p, s) ==
    /\ step' = [step EXCEPT ![p] = s]
    /\ UNCHANGED phase

MidLoadSteps == {"statLive", "statBak", "renameBak", "reread", "readBak"}
Active(p) == (phase[p] = "preload" /\ pc[p] = "start") \/ pc[p] = "body"
Undisturbed(p) ==
    SoloLoads => \A q \in Process \ {p} : ~(Active(q) /\ step[q] \in MidLoadSteps)

\* Process p performs the file operation s.
Performs(p, s) ==
    /\ Active(p)
    /\ step[p] = s
    /\ Undisturbed(p)

StoreInit ==
    /\ LockInit
    /\ live \in Initial
    /\ bak = Absent
    /\ cmd \in [Process -> Command]
    /\ phase = [p \in Process |-> "preload"]
    /\ step = [p \in Process |-> "readLive"]
    /\ got = [p \in Process |-> Nothing]
    /\ tmp = [p \in Process |-> {}]
    /\ committed = {}

-----------------------------------------------------------------------------
(* loadPath and RecoverFromBackup *)

\* uninstall refuses a tool the registry it loaded does not have; add one that
\* it has.
Rejects(p, tools) ==
    /\ phase[p] = "load"
    /\ \/ cmd[p] = "uninstall" /\ "custom" \notin tools
       \/ cmd[p] = "add" /\ p \in tools

LoadReturns(p, from, tools) ==
    /\ got' = [got EXCEPT ![p] = [from |-> from, tools |-> tools]]
    /\ IF Rejects(p, tools) THEN Fail(p) ELSE Proceed(p)

LoadFails(p) ==
    /\ got' = [got EXCEPT ![p] = Error]
    /\ Fail(p)

ReadLive(p) ==
    /\ Performs(p, "readLive")
    /\ IF live.exists
       THEN LoadReturns(p, "file", live.tools)
       ELSE /\ StepTo(p, IF cmd[p] = "inspect" THEN "readBak" ELSE "statLive")
            /\ UNCHANGED got
    /\ UNCHANGED <<fileVars, cmd, tmp, committed, lockVars>>

\* LoadReadOnly reads the backup where it is.
ReadBak(p) ==
    /\ Performs(p, "readBak")
    /\ IF bak.exists
       THEN LoadReturns(p, "backup", bak.tools)
       ELSE LoadReturns(p, "defaults", Atomic!Defaults)
    /\ UNCHANGED <<fileVars, cmd, tmp, committed, lockVars>>

Mutant_StatLive(p) ==  \* the backup is never looked for
    /\ Performs(p, "statLive")
    /\ LoadReturns(p, "defaults", Atomic!Defaults)
    /\ UNCHANGED <<fileVars, cmd, tmp, committed, lockVars>>

\* A file that has come back since the read means "not recovered", which
\* loadPath takes for "there is no registry".
StatLive(p) ==
    /\ Performs(p, "statLive")
    /\ IF live.exists
       THEN LoadReturns(p, "defaults", Atomic!Defaults)
       ELSE StepTo(p, "statBak") /\ UNCHANGED got
    /\ UNCHANGED <<fileVars, cmd, tmp, committed, lockVars>>

StatBak(p) ==
    /\ Performs(p, "statBak")
    /\ IF bak.exists
       THEN StepTo(p, "renameBak") /\ UNCHANGED got
       ELSE LoadReturns(p, "defaults", Atomic!Defaults)
    /\ UNCHANGED <<fileVars, cmd, tmp, committed, lockVars>>

\* os.Rename replaces a file that has appeared under the new name meanwhile.
RenameBak(p) ==
    /\ Performs(p, "renameBak")
    /\ IF bak.exists
       THEN /\ live' = bak
            /\ bak' = Absent
            /\ StepTo(p, "reread")
            /\ UNCHANGED got
       ELSE LoadFails(p) /\ UNCHANGED fileVars
    /\ UNCHANGED <<cmd, tmp, committed, lockVars>>

Reread(p) ==
    /\ Performs(p, "reread")
    /\ IF live.exists THEN LoadReturns(p, "file", live.tools) ELSE LoadFails(p)
    /\ UNCHANGED <<fileVars, cmd, tmp, committed, lockVars>>

-----------------------------------------------------------------------------
(* EnsureFile and the edits *)

Mutant_EnsureStat(p) ==  \* the defaults are written over an existing file
    /\ Performs(p, "ensureStat")
    /\ tmp' = [tmp EXCEPT ![p] = Atomic!Defaults]
    /\ StepTo(p, "dropBak")
    /\ UNCHANGED <<fileVars, cmd, got, committed, lockVars>>

EnsureStat(p) ==
    /\ Performs(p, "ensureStat")
    /\ IF live.exists
       THEN Proceed(p) /\ UNCHANGED tmp
       ELSE /\ tmp' = [tmp EXCEPT ![p] = Atomic!Defaults]
            /\ StepTo(p, "dropBak")
    /\ UNCHANGED <<fileVars, cmd, got, committed, lockVars>>

Mutant_ReadRaw(p) ==  \* the edit starts from the registry loaded last
    /\ Performs(p, "readRaw")
    /\ tmp' = [tmp EXCEPT ![p] = Atomic!Effect(cmd[p], p, got[p].tools)]
    /\ StepTo(p, "dropBak")
    /\ UNCHANGED <<fileVars, cmd, got, committed, lockVars>>

\* The edit starts from the bytes on disk, not from the registry loaded before;
\* install writes nothing when no built-in section is missing.
ReadRaw(p) ==
    /\ Performs(p, "readRaw")
    /\ IF ~live.exists
       THEN Fail(p) /\ UNCHANGED tmp
       ELSE IF cmd[p] = "install" /\ Atomic!Defaults \subseteq live.tools
       THEN Proceed(p) /\ UNCHANGED tmp
       ELSE /\ tmp' = [tmp EXCEPT ![p] = Atomic!Effect(cmd[p], p, live.tools)]
            /\ StepTo(p, "dropBak")
    /\ UNCHANGED <<fileVars, cmd, got, committed, lockVars>>

-----------------------------------------------------------------------------
(* atomicio.WriteFile *)

\* What becomes of the backup when it is removed, whatever that returns.
BakRemoved == bak' = Absent \/ (IOFaults /\ bak' = bak)

\* The temporary file is complete, or could not be written; restore writes the
\* archived bytes.
DropBak(p) ==
    /\ Performs(p, "dropBak")
    /\ \/ /\ BakRemoved
          /\ tmp' = IF cmd[p] = "restore" THEN [tmp EXCEPT ![p] = Atomic!Snapshot] ELSE tmp
          /\ StepTo(p, "statOld")
       \/ IOFaults /\ Fail(p) /\ UNCHANGED <<bak, tmp>>
    /\ UNCHANGED <<live, cmd, got, committed, lockVars>>

StatOld(p) ==
    /\ Performs(p, "statOld")
    /\ StepTo(p, IF live.exists THEN "moveAside" ELSE "publish")
    /\ UNCHANGED <<fileVars, cmd, got, tmp, committed, lockVars>>

Mutant_MoveAside(p) ==  \* the old file is removed, not renamed
    /\ Performs(p, "moveAside")
    /\ live' = Absent
    /\ StepTo(p, "publish")
    /\ UNCHANGED <<bak, cmd, got, tmp, committed, lockVars>>

MoveAside(p) ==
    /\ Performs(p, "moveAside")
    /\ \/ /\ live.exists
          /\ bak' = live
          /\ live' = Absent
          /\ StepTo(p, "publish")
       \/ /\ ~live.exists \/ IOFaults
          /\ Fail(p)
          /\ UNCHANGED fileVars
    /\ UNCHANGED <<cmd, got, tmp, committed, lockVars>>

Publish(p) ==
    /\ Performs(p, "publish")
    /\ \/ /\ live' = File(tmp[p])
          /\ committed' = IF phase[p] = "edit" THEN committed \union {p} ELSE committed
          /\ StepTo(p, "cleanBak")
       \/ /\ IOFaults
          /\ StepTo(p, "putBack")
          /\ UNCHANGED <<live, committed>>
    /\ UNCHANGED <<bak, cmd, got, tmp, lockVars>>

\* The rename failed: the old file is put back, whatever that returns.
PutBack(p) ==
    /\ Performs(p, "putBack")
    /\ \/ bak.exists /\ live' = bak /\ bak' = Absent /\ Fail(p)
       \/ ~bak.exists /\ UNCHANGED fileVars /\ Fail(p)
       \/ bak.exists /\ IOFaults /\ UNCHANGED fileVars /\ FailWith(p, "unrestored")
    /\ UNCHANGED <<cmd, got, tmp, committed, lockVars>>

CleanBak(p) ==
    /\ Performs(p, "cleanBak")
    /\ BakRemoved
    /\ Proceed(p)
    /\ UNCHANGED <<live, cmd, got, tmp, committed, lockVars>>

-----------------------------------------------------------------------------
(* The command around them *)

\* A mutating command asks for the lock once the load before dispatch succeeded.
Ask(p) ==
    /\ phase[p] = "locked"
    /\ StartAcquire(p)
    /\ UNCHANGED storeVars

Enter(p) ==
    /\ WatchInterrupt(p)
    /\ Proceed(p)
    /\ UNCHANGED <<fileVars, cmd, got, tmp, committed>>

Leave(p) ==
    /\ phase[p] = "done"
    /\ FinishBody(p)
    /\ UNCHANGED storeVars

LockOnly(p) ==
    /\ AcquireStep(p) \/ LineStep(p) \/ Interrupt(p) \/ ReleaseStep(p) \/ Kill(p)
    /\ UNCHANGED storeVars

\* The user deletes a stale lock only when no cb process runs.
UserRepairs ==
    /\ \A p \in Process :
          pc[p] = "start" => phase[p] = "done" \/ (phase[p] = "preload" /\ step[p] = "readLive")
    /\ UserDeletes
    /\ UNCHANGED storeVars

StoreQuiescent ==
    /\ \A p \in Process : pc[p] \in Ended \/ (pc[p] = "start" /\ phase[p] = "done")
    /\ UNCHANGED vars

LoadStep(p) ==
    ReadLive(p) \/ ReadBak(p) \/ StatLive(p) \/ StatBak(p) \/ RenameBak(p) \/ Reread(p)
WriteStep(p) ==
    DropBak(p) \/ StatOld(p) \/ MoveAside(p) \/ Publish(p) \/ PutBack(p) \/ CleanBak(p)

StoreStep(p) ==
    \/ LoadStep(p)
    \/ EnsureStat(p) \/ ReadRaw(p)
    \/ WriteStep(p)
    \/ Ask(p) \/ Enter(p) \/ Leave(p)
    \/ LockOnly(p)

StoreNext == (\E p \in Process : StoreStep(p)) \/ UserRepairs \/ StoreQuiescent

StoreSpec == StoreInit /\ [][StoreNext]_vars

-----------------------------------------------------------------------------
(* Properties *)

\* Every variable of the store keeps its type.
StoreTypeOK ==
    /\ LockTypeOK
    /\ live \in Atomic!Content /\ bak \in Atomic!Content
    /\ cmd \in [Process -> Command]
    /\ phase \in [Process -> {"preload", "locked", "load", "ensure", "edit", "done"}]
    /\ step \in [Process -> MidLoadSteps \union
                    {"readLive", "ensureStat", "readRaw", "dropBak", "statOld", "moveAside",
                     "publish", "putBack", "cleanBak", "ok", "failed", "unrestored"}]
    /\ got \in [Process -> [from : {"nothing", "file", "backup", "defaults", "error"},
                            tools : SUBSET Atomic!Sections]]
    /\ tmp \in [Process -> SUBSET Atomic!Sections]
    /\ committed \subseteq Process

\* The files and the steps of WriteFile, recovery and the edits implement a
\* registry every command changes in one step: no update is lost, none is undone
\* by a recovery, and a crash leaves the registry before or after the edit.  Only
\* once a put-back has failed may an install or a restore lose it.
ImplementsAtomicRegistry == Atomic!Spec

\* A tool whose add took effect stays in the registry (docs/architecture.md: the
\* pre-dispatch load "cannot cause a lost update"), unless restore replaced it, or
\* a put-back failed and a command that writes without loading came upon that.
NoLostUpdate ==
    \A p \in committed :
        /\ cmd[p] = "add"
        /\ \A q \in committed : cmd[q] # "restore"
        /\ PutBackFailed => \A q \in Process : cmd[q] \notin Atomic!WritesUnread
        => p \in Current.tools

\* Every load returns what the registry holds at that moment, the built-in
\* defaults only when there is none (loadPath, LoadReadOnly).
LoadsSeeCurrent ==
    [][\A p \in Process :
          got'[p] # got[p] /\ got'[p].from # "error" =>
              got'[p].tools = IF Current.exists THEN Current.tools ELSE Atomic!Defaults]_vars

\* Where a registry file or its backup exists, no load falls back to the
\* defaults (docs/architecture.md: "loading stops with a hard error rather than
\* falling back to defaults").
NoSilentDefaults ==
    [][\A p \in Process :
          got[p].from # "defaults" /\ got'[p].from = "defaults" => ~Current.exists]_vars

\* Once there is a registry there always is one, in the file or in its backup:
\* the sequence of removals and renames of WriteFile never leaves neither.
RegistryNeverVanishes == [][Current.exists => Current'.exists]_vars

\* So it is however lock-free loads, writers, kills and failing renames
\* interleave, but for one step: the removal of the backup that starts the write
\* of an install or a restore, after a put-back failed.
RegistryKept ==
    [][Current.exists /\ ~Current'.exists =>
          /\ PutBackFailed
          /\ \E p \in Process :
                /\ cmd[p] \in Atomic!WritesUnread
                /\ step[p] = "dropBak" /\ step'[p] = "statOld"]_vars
=============================================================================
