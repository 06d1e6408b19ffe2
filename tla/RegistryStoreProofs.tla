------------------------- MODULE RegistryStoreProofs -------------------------
(***************************************************************************)
(* Proofs about the mutation lock and the registry store that runs its     *)
(* actions, for every set of processes and commands.                       *)
(*                                                                         *)
(* The lock's inductive invariant ties the lock file to the process that   *)
(* must own it: from the create to the release that removes it, the file   *)
(* under the lock's name is the process's own.  What holds of the lock     *)
(* holds of the store; with it, the file and its backup are never both     *)
(* lost, however lock-free loads interleave with a writer.                 *)
(***************************************************************************)
EXTENDS RegistryStore, TLAPS

-----------------------------------------------------------------------------
(* The mutation lock *)

\* The file under the lock's name is the one each holder created.
OwnFile ==
    \A p \in Process :
        /\ pc[p] = "opened" => lock = Created(p)
        /\ pc[p] = "acquired" => lock = LineOf(p)
        /\ pc[p] \in Inside /\ once[p] \notin Over => lock = LineOf(p)

\* The handler and the release function are untouched before the critical
\* section; in it the handler watches until it catches a signal, and only a
\* caught signal starts the release before the section ends.
HandlerInStep ==
    \A p \in Process :
        /\ pc[p] \in {"start", "acquiring", "opened", "acquired"}
              => sig[p] = "off" /\ once[p] = "fresh"
        /\ pc[p] = "body" => sig[p] # "off"
        /\ pc[p] = "body" /\ sig[p] = "watching" => once[p] = "fresh"

LockInv == LockTypeOK /\ OwnFile /\ HandlerInStep

LEMMA LockFilesDiffer ==
    /\ \A p, q : LineOf(p) = LineOf(q) => p = q
    /\ \A p, q : Created(p) = Created(q) => p = q
    /\ \A p, q : Created(p) # LineOf(q)
    /\ \A p : Created(p) # NoFile /\ LineOf(p) # NoFile
<1>1. \A p, q : LineOf(p) = LineOf(q) => p = q
  <2> TAKE p, q
  <2> HAVE LineOf(p) = LineOf(q)
  <2>1. LineOf(p).creator = {p} /\ LineOf(q).creator = {q}  BY DEF LineOf
  <2> QED  BY <2>1
<1>2. \A p, q : Created(p) = Created(q) => p = q
  <2> TAKE p, q
  <2> HAVE Created(p) = Created(q)
  <2>1. Created(p).creator = {p} /\ Created(q).creator = {q}  BY DEF Created
  <2> QED  BY <2>1
<1>3. \A p, q : Created(p) # LineOf(q)
  <2> TAKE p, q
  <2>1. Created(p).written = FALSE /\ LineOf(q).written = TRUE  BY DEF Created, LineOf
  <2> QED  BY <2>1
<1>4. \A p : Created(p) # NoFile /\ LineOf(p) # NoFile
  <2> TAKE p
  <2>1. Created(p).creator = {p} /\ LineOf(p).creator = {p} /\ NoFile.creator = {}
    BY DEF Created, LineOf, NoFile
  <2> QED  BY <2>1
<1> QED  BY <1>1, <1>2, <1>3, <1>4

LEMMA LockFileTypes ==
    \A p \in Process : Created(p) \in LockFile /\ LineOf(p) \in LockFile
BY DEF Created, LineOf, LockFile

LEMMA LockInitInv == LockInit => LockInv
BY DEF LockInit, LockInv, LockTypeOK, OwnFile, HandlerInStep, Inside, Over

LEMMA LockTypeStep == LockTypeOK /\ [LockNext]_lockVars => LockTypeOK'
<1> SUFFICES ASSUME LockTypeOK, [LockNext]_lockVars PROVE LockTypeOK'
  OBVIOUS
<1> USE DEF LockTypeOK, Running, Holding, Inside, Over, Ended
<1>1. ASSUME NEW p \in Process, LockStep(p) PROVE LockTypeOK'
  <2>1. CASE StartAcquire(p)  BY <2>1 DEF StartAcquire, Goto
  <2>2. CASE CreateLockFile(p)  BY <2>2, LockFileTypes DEF CreateLockFile, Goto
  <2>3. CASE Refuse(p)  BY <2>3 DEF Refuse, Goto
  <2>4. CASE CreateFails(p)  BY <2>4 DEF CreateFails, Goto
  <2>5. CASE WriteLine(p)  BY <2>5, LockFileTypes DEF WriteLine, Goto
  <2>6. CASE WriteLineFails(p)  BY <2>6 DEF WriteLineFails, Goto
  <2>7. CASE WatchInterrupt(p)  BY <2>7 DEF WatchInterrupt, Goto
  <2>8. CASE FinishBody(p)  BY <2>8 DEF FinishBody, Goto
  <2>9. CASE Interrupt(p)  BY <2>9 DEF Interrupt
  <2>10. CASE CompareLine(p)  BY <2>10 DEF CompareLine
  <2>11. CASE RemoveLockFile(p)  BY <2>11 DEF RemoveLockFile
  <2>12. CASE Return(p)  BY <2>12 DEF Return, Goto
  <2>13. CASE ExitInterrupted(p)  BY <2>13 DEF ExitInterrupted
  <2>14. CASE Kill(p)  BY <2>14 DEF Kill
  <2> QED
    BY <1>1, <2>1, <2>2, <2>3, <2>4, <2>5, <2>6, <2>7, <2>8, <2>9, <2>10, <2>11,
       <2>12, <2>13, <2>14 DEF LockStep, AcquireStep, LineStep, ReleaseStep
<1>2. CASE UserDeletes  BY <1>2 DEF UserDeletes
<1>3. CASE UNCHANGED lockVars  BY <1>3 DEF lockVars
<1> QED  BY <1>1, <1>2, <1>3 DEF LockNext, Quiescent

\* One step of one process keeps the invariant.  Every process other than the
\* one that moves can only be disturbed by a change of the lock file, and the
\* file changes hands only when nobody owns it.
LEMMA LockStepInv ==
    ASSUME LockInv, NEW p \in Process, LockStep(p), LockTypeOK'
    PROVE  OwnFile' /\ HandlerInStep'
<1> USE DEF LockInv, LockTypeOK, OwnFile, HandlerInStep, Inside, Over
<1>1. CASE StartAcquire(p)  BY <1>1 DEF StartAcquire, Goto
<1>2. CASE CreateLockFile(p)
  <2>1. \A q \in Process : pc[q] \notin {"opened", "acquired"}
                           /\ (pc[q] \in Inside => once[q] \in Over)
    BY <1>2, LockFilesDiffer DEF CreateLockFile, Exists
  <2> QED  BY <1>2, <2>1 DEF CreateLockFile, Goto
<1>3. CASE Refuse(p)  BY <1>3 DEF Refuse, Goto
<1>4. CASE CreateFails(p)  BY <1>4 DEF CreateFails, Goto
<1>5. CASE WriteLine(p)
  <2>1. lock = Created(p) /\ lock' = LineOf(p)  BY <1>5 DEF WriteLine, Goto
  <2>2. \A q \in Process : q # p => pc[q] \notin {"opened", "acquired"}
                           /\ (pc[q] \in Inside => once[q] \in Over)
    BY <2>1, LockFilesDiffer
  <2> QED  BY <1>5, <2>1, <2>2 DEF WriteLine, Goto
<1>6. CASE WriteLineFails(p)
  <2>1. lock = Created(p)  BY <1>6 DEF WriteLineFails, Goto
  <2>2. \A q \in Process : q # p => pc[q] \notin {"opened", "acquired"}
                           /\ (pc[q] \in Inside => once[q] \in Over)
    BY <2>1, LockFilesDiffer
  <2> QED  BY <1>6, <2>2 DEF WriteLineFails, Goto
<1>7. CASE WatchInterrupt(p)  BY <1>7 DEF WatchInterrupt, Goto
<1>8. CASE FinishBody(p)  BY <1>8 DEF FinishBody, Goto
<1>9. CASE Interrupt(p)  BY <1>9 DEF Interrupt
<1>10. CASE CompareLine(p)  BY <1>10 DEF CompareLine, Releasing
<1>11. CASE RemoveLockFile(p)
  <2>1. lock = LineOf(p)  BY <1>11 DEF RemoveLockFile, Releasing
  <2>2. \A q \in Process : q # p => pc[q] \notin {"opened", "acquired"}
                           /\ (pc[q] \in Inside => once[q] \in Over)
    BY <2>1, LockFilesDiffer
  <2> QED  BY <1>11, <2>1, <2>2 DEF RemoveLockFile, Releasing
<1>12. CASE Return(p)  BY <1>12 DEF Return, Goto
<1>13. CASE ExitInterrupted(p)  BY <1>13 DEF ExitInterrupted
<1>14. CASE Kill(p)  BY <1>14 DEF Kill
<1> QED
  BY <1>1, <1>2, <1>3, <1>4, <1>5, <1>6, <1>7, <1>8, <1>9, <1>10, <1>11, <1>12,
     <1>13, <1>14 DEF LockStep, AcquireStep, LineStep, ReleaseStep

LEMMA LockInvStep == LockInv /\ [LockNext]_lockVars => LockInv'
<1> SUFFICES ASSUME LockInv, [LockNext]_lockVars PROVE LockInv'
  OBVIOUS
<1>0. LockTypeOK'  BY LockTypeStep DEF LockInv
<1>1. ASSUME NEW p \in Process, LockStep(p) PROVE LockInv'
  BY <1>0, <1>1, LockStepInv DEF LockInv
<1>2. CASE UserDeletes
  BY <1>0, <1>2 DEF UserDeletes, LockInv, OwnFile, HandlerInStep, Running, Holding, Inside
<1>3. CASE UNCHANGED lockVars
  BY <1>0, <1>3 DEF lockVars, LockInv, OwnFile, HandlerInStep
<1> QED  BY <1>1, <1>2, <1>3 DEF LockNext, Quiescent

LEMMA LockInvariant == LockSpec => []LockInv
BY LockInitInv, LockInvStep, PTL DEF LockSpec

\* Every variable of the mutation lock keeps its type.
THEOREM LockTypeCorrect == LockSpec => []LockTypeOK
BY LockInvariant, PTL DEF LockInv

\* Acquire and release exclude all commands that still hold the lock from one
\* another, and with them all commands that have not been interrupted, for any
\* number of processes and whatever fails.
THEOREM LockExcludes == LockSpec => [](LockedExclusion /\ UninterruptedExclusion)
<1>1. LockInv => LockedExclusion
  BY LockFilesDiffer DEF LockInv, OwnFile, LockedExclusion
<1>2. LockInv /\ LockedExclusion => UninterruptedExclusion
  BY DEF LockInv, HandlerInStep, LockedExclusion, UninterruptedExclusion,
         Uninterrupted, Inside, Over
<1> QED  BY <1>1, <1>2, LockInvariant, PTL

NoneCaught == \A p \in Process : sig[p] # "caught"

LEMMA NeverCaught ==
    ASSUME ~Interrupts
    PROVE  /\ LockInit => NoneCaught
           /\ LockTypeOK /\ NoneCaught /\ [LockNext]_lockVars => NoneCaught'
<1>1. LockInit => NoneCaught  BY DEF LockInit, NoneCaught
<1>2. LockTypeOK /\ NoneCaught /\ [LockNext]_lockVars => NoneCaught'
  <2> SUFFICES ASSUME LockTypeOK, NoneCaught, [LockNext]_lockVars PROVE NoneCaught'
    OBVIOUS
  <2> USE DEF LockTypeOK, NoneCaught
  <2>1. ASSUME NEW p \in Process, LockStep(p) PROVE NoneCaught'
    BY <2>1 DEF LockStep, AcquireStep, LineStep, ReleaseStep, StartAcquire,
       CreateLockFile, Refuse, CreateFails, WriteLine, WriteLineFails,
       WatchInterrupt, FinishBody, Interrupt, CompareLine, RemoveLockFile,
       Return, ExitInterrupted, Kill
  <2>2. CASE UserDeletes  BY <2>2 DEF UserDeletes
  <2>3. CASE UNCHANGED lockVars  BY <2>3 DEF lockVars
  <2> QED  BY <2>1, <2>2, <2>3 DEF LockNext, Quiescent
<1> QED  BY <1>1, <1>2

\* Without interrupts whoever runs its critical section owns the lock file.
LEMMA BodyOwnsLock ==
    ASSUME LockInv, NoneCaught, NEW p \in Process, pc[p] = "body"
    PROVE  lock = LineOf(p)
BY DEF LockInv, LockTypeOK, OwnFile, HandlerInStep, NoneCaught, Inside, Over

\* Where the user interrupts no command, at most one runs its critical section.
THEOREM ExclusionWithoutInterrupts ==
    ASSUME ~Interrupts
    PROVE  LockSpec => []MutualExclusion
<1>1. LockInv /\ NoneCaught => MutualExclusion
  BY BodyOwnsLock, LockFilesDiffer DEF MutualExclusion
<1>2. LockInv => LockTypeOK  BY DEF LockInv
<1> QED  BY <1>1, <1>2, NeverCaught, LockInvariant, PTL DEF LockSpec

\* No step, a failed acquire and a release included, changes the lock file
\* while an uninterrupted command is in its critical section.
THEOREM LockNeverRobbed == LockSpec => NeverRobbed
<1> DEFINE Kept == \A p \in Process :
                      Uninterrupted(p) /\ Uninterrupted(p)' => lock' = lock
<1>1. LockInv /\ LockInv' /\ [LockNext]_lockVars => [Kept]_lockVars
  <2> SUFFICES ASSUME LockInv, LockInv', [LockNext]_lockVars,
                      NEW q \in Process, Uninterrupted(q), Uninterrupted(q)'
               PROVE  lock' = lock
    OBVIOUS
  <2> USE DEF LockInv, OwnFile, HandlerInStep, Uninterrupted, Inside, Over
  <2>1. lock = LineOf(q) /\ lock' = LineOf(q)  OBVIOUS
  <2> QED  BY <2>1
<1> QED  BY <1>1, LockInvariant, PTL DEF LockSpec, NeverRobbed

\* Only a killed command, or one whose release met a failing file operation,
\* leaves the lock file behind.
THEOREM LockLeftOnlyByKilled == LockSpec => []OnlyKilledLeaveLock
<1> DEFINE Spent == \A p \in Process :
                       pc[p] \in Inside /\ once[p] = "spent" => p \notin lock.creator
           Left == OnlyKilledLeaveLock /\ Spent
<1>1. LockInit => Left
  BY DEF LockInit, OnlyKilledLeaveLock, NoFile, Inside
<1>2. LockInv /\ Left /\ [LockNext]_lockVars => Left'
  <2> SUFFICES ASSUME LockInv, Left, [LockNext]_lockVars PROVE Left'
    OBVIOUS
  <2> USE DEF LockInv, LockTypeOK, OwnFile, HandlerInStep, OnlyKilledLeaveLock, Holding, Inside, Over
  <2>1. ASSUME NEW p \in Process, LockStep(p) PROVE Left'
    <3>1. CASE StartAcquire(p)  BY <3>1 DEF StartAcquire, Goto
    <3>2. CASE CreateLockFile(p)
      BY <3>2 DEF CreateLockFile, Goto, Created
    <3>3. CASE Refuse(p)  BY <3>3 DEF Refuse, Goto
    <3>4. CASE CreateFails(p)  BY <3>4 DEF CreateFails, Goto
    <3>5. CASE WriteLine(p)
      BY <3>5 DEF WriteLine, Goto, LineOf, Created
    <3>6. CASE WriteLineFails(p)  BY <3>6 DEF WriteLineFails, Goto, NoFile, Created
    <3>7. CASE WatchInterrupt(p)  BY <3>7 DEF WatchInterrupt, Goto
    <3>8. CASE FinishBody(p)  BY <3>8 DEF FinishBody, Goto
    <3>9. CASE Interrupt(p)  BY <3>9 DEF Interrupt
    <3>10. CASE CompareLine(p)  BY <3>10 DEF CompareLine, Releasing
    <3>11. CASE RemoveLockFile(p)  BY <3>11 DEF RemoveLockFile, NoFile
    <3>12. CASE Return(p)  BY <3>12 DEF Return, Goto
    <3>13. CASE ExitInterrupted(p)  BY <3>13 DEF ExitInterrupted
    <3>14. CASE Kill(p)  BY <3>14 DEF Kill
    <3> QED
      BY <2>1, <3>1, <3>2, <3>3, <3>4, <3>5, <3>6, <3>7, <3>8, <3>9, <3>10, <3>11,
         <3>12, <3>13, <3>14 DEF LockStep, AcquireStep, LineStep, ReleaseStep
  <2>2. CASE UserDeletes  BY <2>2 DEF UserDeletes, NoFile
  <2>3. CASE UNCHANGED lockVars  BY <2>3 DEF lockVars
  <2> QED  BY <2>1, <2>2, <2>3 DEF LockNext, Quiescent
<1> QED  BY <1>1, <1>2, LockInvariant, PTL DEF LockSpec

-----------------------------------------------------------------------------
(* The store runs the lock *)

\* Every step of the store is a step of the mutation lock or leaves it alone.
LEMMA StoreStepIsLockStep == [StoreNext]_vars => [LockNext]_lockVars
<1> SUFFICES ASSUME [StoreNext]_vars PROVE [LockNext]_lockVars
  OBVIOUS
<1>1. ASSUME NEW p \in Process, StoreStep(p) PROVE [LockNext]_lockVars
  <2>1. CASE LoadStep(p)
    BY <2>1 DEF LoadStep, ReadLive, ReadBak, StatLive, StatBak, RenameBak, Reread, lockVars
  <2>2. CASE EnsureStat(p) \/ ReadRaw(p)
    BY <2>2 DEF EnsureStat, ReadRaw, lockVars
  <2>3. CASE WriteStep(p)
    BY <2>3 DEF WriteStep, DropBak, StatOld, MoveAside, Publish, PutBack, CleanBak, lockVars
  <2>4. CASE Ask(p) \/ Enter(p) \/ Leave(p) \/ LockOnly(p)
    BY <2>4 DEF Ask, Enter, Leave, LockOnly, LockNext, LockStep
  <2> QED  BY <1>1, <2>1, <2>2, <2>3, <2>4 DEF StoreStep
<1>2. CASE UserRepairs  BY <1>2 DEF UserRepairs, LockNext
<1>3. CASE StoreQuiescent  BY <1>3 DEF StoreQuiescent, vars
<1>4. CASE UNCHANGED vars  BY <1>4 DEF vars
<1> QED  BY <1>1, <1>2, <1>3, <1>4 DEF StoreNext

\* The registry store uses the mutation lock as the lock is specified.
THEOREM StoreImplementsLock == StoreSpec => LockSpec
<1>1. StoreInit => LockInit  BY DEF StoreInit
<1> QED  BY <1>1, StoreStepIsLockStep, PTL DEF StoreSpec, LockSpec

\* Writers of the registry exclude one another as the lock promises.
THEOREM StoreExcludes == StoreSpec => []LockedExclusion
BY StoreImplementsLock, LockExcludes, PTL

-----------------------------------------------------------------------------
(* Types *)

Phases == {"preload", "locked", "load", "ensure", "edit", "done"}
WriteSteps == {"dropBak", "statOld", "moveAside", "publish", "putBack", "cleanBak"}
Steps == MidLoadSteps \union WriteSteps
             \union {"readLive", "ensureStat", "readRaw", "ok", "failed", "unrestored"}

LEMMA RoutineTypes ==
    /\ \A c, ph : NextPhase(c, ph) \in Phases
    /\ \A c, ph : FirstStep(c, ph) \in Steps
BY DEF NextPhase, FirstStep, Phases, Steps, WriteSteps

LEMMA ContentTypes ==
    /\ Absent \in Atomic!Content
    /\ Initial \subseteq Atomic!Content
    /\ \A t \in SUBSET Atomic!Sections : File(t) \in Atomic!Content
    /\ \A f \in Atomic!Content : f.tools \in SUBSET Atomic!Sections
    /\ Atomic!Defaults \in SUBSET Atomic!Sections
    /\ Atomic!Snapshot \in SUBSET Atomic!Sections
    /\ \A c : \A p \in Process : \A t \in SUBSET Atomic!Sections :
          Atomic!Effect(c, p, t) \in SUBSET Atomic!Sections
<1> USE DEF Absent, File, Atomic!Absent, Atomic!File, Atomic!Sections, Atomic!Defaults,
         Atomic!Snapshot
<1>1. Absent \in Atomic!Content /\ Initial \subseteq Atomic!Content
  <2>1. Absent \in Atomic!Content  BY DEF Atomic!Content
  <2>2. File({"custom"}) \in Atomic!Content  BY DEF Atomic!Content
  <2> HIDE DEF Absent, File
  <2> QED  BY <2>1, <2>2, InitialAssumption
<1>2. \A t \in SUBSET Atomic!Sections : File(t) \in Atomic!Content
  BY DEF Atomic!Content
<1>3. \A f \in Atomic!Content : f.tools \in SUBSET Atomic!Sections
  BY DEF Atomic!Content
<1>4. /\ Atomic!Defaults \in SUBSET Atomic!Sections
      /\ Atomic!Snapshot \in SUBSET Atomic!Sections
  OBVIOUS
<1>5. ASSUME NEW c, NEW p \in Process, NEW t \in SUBSET Atomic!Sections
      PROVE  Atomic!Effect(c, p, t) \in SUBSET Atomic!Sections
  BY DEF Atomic!Effect
<1> QED  BY <1>1, <1>2, <1>3, <1>4, <1>5
-----------------------------------------------------------------------------

GotTypes == [from : {"nothing", "file", "backup", "defaults", "error"},
             tools : SUBSET Atomic!Sections]

\* The routines of the load, the edit and the write keep the types of the
\* variables they share.
LEMMA RoutineStepTypes ==
    ASSUME StoreTypeOK, NEW p \in Process
    PROVE  /\ Proceed(p) => phase' \in [Process -> Phases] /\ step' \in [Process -> Steps]
           /\ \A s \in Steps : FailWith(p, s) =>
                 phase' \in [Process -> Phases] /\ step' \in [Process -> Steps]
           /\ Fail(p) => phase' \in [Process -> Phases] /\ step' \in [Process -> Steps]
           /\ \A s \in Steps : StepTo(p, s) =>
                 phase' \in [Process -> Phases] /\ step' \in [Process -> Steps]
           /\ \A from \in {"file", "backup", "defaults"}, t \in SUBSET Atomic!Sections :
                 LoadReturns(p, from, t) =>
                     /\ got' \in [Process -> GotTypes]
                     /\ phase' \in [Process -> Phases] /\ step' \in [Process -> Steps]
           /\ LoadFails(p) =>
                 /\ got' \in [Process -> GotTypes]
                 /\ phase' \in [Process -> Phases] /\ step' \in [Process -> Steps]
<1>0. /\ phase \in [Process -> Phases] /\ step \in [Process -> Steps]
      /\ got \in [Process -> GotTypes]
  BY DEF StoreTypeOK, Phases, Steps, WriteSteps, GotTypes
<1>1. Proceed(p) => phase' \in [Process -> Phases] /\ step' \in [Process -> Steps]
  BY <1>0, RoutineTypes DEF Proceed
<1>2. /\ \A s \in Steps : FailWith(p, s) =>
             phase' \in [Process -> Phases] /\ step' \in [Process -> Steps]
      /\ Fail(p) => phase' \in [Process -> Phases] /\ step' \in [Process -> Steps]
  BY <1>0 DEF Fail, FailWith, Phases, Steps
<1>3. \A s \in Steps : StepTo(p, s) =>
          phase' \in [Process -> Phases] /\ step' \in [Process -> Steps]
  BY <1>0 DEF StepTo
<1>4. ASSUME NEW from \in {"file", "backup", "defaults"},
             NEW t \in SUBSET Atomic!Sections, LoadReturns(p, from, t)
      PROVE  /\ got' \in [Process -> GotTypes]
             /\ phase' \in [Process -> Phases] /\ step' \in [Process -> Steps]
  <2>1. [from |-> from, tools |-> t] \in GotTypes  BY DEF GotTypes
  <2> QED  BY <1>0, <1>1, <1>2, <1>4, <2>1 DEF LoadReturns
<1>5. ASSUME LoadFails(p)
      PROVE  /\ got' \in [Process -> GotTypes]
             /\ phase' \in [Process -> Phases] /\ step' \in [Process -> Steps]
  <2>1. Error \in GotTypes  BY DEF Error, GotTypes
  <2> QED  BY <1>0, <1>2, <1>5, <2>1 DEF LoadFails
<1> QED  BY <1>1, <1>2, <1>3, <1>4, <1>5

LEMMA StoreInitTypes == StoreInit => StoreTypeOK
<1> SUFFICES ASSUME StoreInit PROVE StoreTypeOK
  OBVIOUS
<1>1. LockTypeOK  BY LockInitInv DEF StoreInit, LockInv
<1>2. Nothing \in GotTypes  BY DEF Nothing, GotTypes
<1> QED
  BY <1>1, <1>2, ContentTypes
  DEF StoreInit, StoreTypeOK, GotTypes

LEMMA StoreTypeStep == StoreTypeOK /\ [StoreNext]_vars => StoreTypeOK'
<1> SUFFICES ASSUME StoreTypeOK, [StoreNext]_vars PROVE StoreTypeOK'
  OBVIOUS
<1>0. LockTypeOK'
  BY StoreStepIsLockStep, LockTypeStep DEF StoreTypeOK
<1> DEFINE Local == /\ live \in Atomic!Content /\ bak \in Atomic!Content
                    /\ cmd \in [Process -> Command]
                    /\ phase \in [Process -> Phases] /\ step \in [Process -> Steps]
                    /\ got \in [Process -> GotTypes]
                    /\ tmp \in [Process -> SUBSET Atomic!Sections]
                    /\ committed \subseteq Process
<1>1. Local
  BY DEF StoreTypeOK, Phases, Steps, WriteSteps, GotTypes
<1>2. Local' => StoreTypeOK'
  BY <1>0 DEF StoreTypeOK, Phases, Steps, WriteSteps, GotTypes
<1>3. ASSUME NEW p \in Process, StoreStep(p) PROVE Local'
  <2>1. CASE ReadLive(p)
    BY <1>1, <2>1, RoutineStepTypes, ContentTypes DEF ReadLive, Steps, fileVars, MidLoadSteps
  <2>2. CASE ReadBak(p)
    BY <1>1, <2>2, RoutineStepTypes, ContentTypes DEF ReadBak, fileVars
  <2>3. CASE StatLive(p)
    BY <1>1, <2>3, RoutineStepTypes, ContentTypes DEF StatLive, Steps, fileVars, MidLoadSteps
  <2>4. CASE StatBak(p)
    BY <1>1, <2>4, RoutineStepTypes, ContentTypes DEF StatBak, Steps, fileVars, MidLoadSteps
  <2>5. CASE RenameBak(p)
    BY <1>1, <2>5, RoutineStepTypes, ContentTypes DEF RenameBak, Steps, fileVars, MidLoadSteps
  <2>6. CASE Reread(p)
    BY <1>1, <2>6, RoutineStepTypes, ContentTypes DEF Reread, fileVars
  <2>7. CASE EnsureStat(p)
    BY <1>1, <2>7, RoutineStepTypes, ContentTypes DEF EnsureStat, Steps, WriteSteps, fileVars
  <2>8. CASE ReadRaw(p)
    BY <1>1, <2>8, RoutineStepTypes, ContentTypes DEF ReadRaw, Steps, WriteSteps, fileVars
  <2>9. CASE DropBak(p)
    BY <1>1, <2>9, RoutineStepTypes, ContentTypes DEF DropBak, BakRemoved, Steps, WriteSteps
  <2>10. CASE StatOld(p)
    BY <1>1, <2>10, RoutineStepTypes DEF StatOld, Steps, WriteSteps, fileVars
  <2>11. CASE MoveAside(p)
    BY <1>1, <2>11, RoutineStepTypes, ContentTypes DEF MoveAside, Steps, WriteSteps, fileVars
  <2>12. CASE Publish(p)
    BY <1>1, <2>12, RoutineStepTypes, ContentTypes DEF Publish, Steps, WriteSteps
  <2>13. CASE PutBack(p)
    BY <1>1, <2>13, RoutineStepTypes, ContentTypes DEF PutBack, Steps, fileVars
  <2>14. CASE CleanBak(p)
    BY <1>1, <2>14, RoutineStepTypes, ContentTypes DEF CleanBak, BakRemoved
  <2>15. CASE Enter(p)
    BY <1>1, <2>15, RoutineStepTypes DEF Enter, fileVars
  <2>16. CASE Ask(p) \/ Leave(p) \/ LockOnly(p)
    BY <1>1, <2>16 DEF Ask, Leave, LockOnly, storeVars
  <2> QED
    BY <1>3, <2>1, <2>2, <2>3, <2>4, <2>5, <2>6, <2>7, <2>8, <2>9, <2>10, <2>11, <2>12,
       <2>13, <2>14, <2>15, <2>16 DEF StoreStep, LoadStep, WriteStep
<1>4. CASE UserRepairs  BY <1>1, <1>2, <1>4 DEF UserRepairs, storeVars
<1>5. CASE UNCHANGED vars  BY <1>1, <1>2, <1>5 DEF vars, storeVars
<1> QED  BY <1>2, <1>3, <1>4, <1>5 DEF StoreNext, StoreQuiescent

\* Every variable of the registry store keeps its type.
THEOREM StoreTypeCorrect == StoreSpec => []StoreTypeOK
BY StoreInitTypes, StoreTypeStep, PTL DEF StoreSpec

-----------------------------------------------------------------------------
(* The registry never vanishes *)

WindowSteps == {"publish", "putBack"}

\* Where each process is fits what it does next: lock-free loads before the
\* lock, writes inside it.
Coherent ==
    \A p \in Process :
        /\ pc[p] = "start" => phase[p] \in {"preload", "locked", "done"}
        /\ pc[p] \in {"acquiring", "opened", "acquired"} => phase[p] = "locked"
        /\ pc[p] = "body" => phase[p] \notin {"preload", "locked"}
        /\ phase[p] = "preload" => step[p] \in MidLoadSteps \union {"readLive"}
        /\ phase[p] = "locked" => step[p] = "ok"
        /\ phase[p] = "done" => step[p] \in {"ok", "failed", "unrestored"}
        /\ step[p] = "readBak" => cmd[p] = "inspect"

\* The file is missing and its backup is there only while the owner of the lock
\* is between the two renames of WriteFile, alive or killed there, when no
\* command has got past its first load, which recovers it, or when a writer
\* could not put the file back.
Safe == live.exists \/ ~bak.exists
InWindow(q) ==
    lock = LineOf(q) /\ pc[q] \in {"body", "killed"} /\ step[q] \in WindowSteps
Admitted(p) == pc[p] \in Running \/ (pc[p] = "start" /\ phase[p] = "locked")
Recoverable ==
    \/ Safe \/ PutBackFailed
    \/ \E q \in Process : InWindow(q)
    \/ \A p \in Process : ~Admitted(p)

\* A writer that has loaded the registry under the lock has recovered it; one
\* that edits what it has read, or has published, has the file.
Held(p) ==
    /\ step[p] \in WriteSteps => phase[p] \in {"ensure", "edit"}
    /\ step[p] = "readRaw" => phase[p] = "edit"
    /\ step[p] = "ensureStat" => phase[p] = "ensure"
    /\ phase[p] = "ensure" => cmd[p] \in {"add", "install"}
    /\ step[p] \in {"ensureStat"} \union (WriteSteps \ WindowSteps)
          => Safe \/ cmd[p] \in Atomic!WritesUnread
    /\ step[p] \in {"dropBak", "statOld", "moveAside"} /\ phase[p] = "edit"
          => live.exists \/ cmd[p] = "restore"
    /\ step[p] = "cleanBak" => live.exists
WritersHold == \A p \in Process : pc[p] = "body" => Held(p)

StoreInv ==
    StoreTypeOK /\ LockInv /\ NoneCaught /\ Coherent /\ Recoverable /\ WritersHold

\* A command in its critical section and outside the window finds the file, or
\* neither the file nor a backup, unless a put-back failed.
LEMMA BodySafe ==
    ASSUME StoreInv, NEW p \in Process, pc[p] = "body", step[p] \notin WindowSteps
    PROVE  Safe \/ PutBackFailed
<1>1. lock = LineOf(p)  BY BodyOwnsLock DEF StoreInv
<1>2. \A q \in Process : ~InWindow(q)
  BY <1>1, LockFilesDiffer DEF InWindow
<1>3. Admitted(p)  BY DEF Admitted, Running, Holding, Inside
<1> QED  BY <1>2, <1>3 DEF StoreInv, Recoverable

\* A routine fails, whichever way.
Fails(p) == Fail(p) \/ FailWith(p, "unrestored")

LEMMA CoherentStep ==
    ASSUME StoreInv, [StoreNext]_vars
    PROVE  Coherent'
<1> USE DEF StoreInv, StoreTypeOK, LockTypeOK, Coherent
<1>1. ASSUME NEW p \in Process, StoreStep(p) PROVE Coherent'
  <2> DEFINE Next(c, ph) == FirstStep(c, NextPhase(c, ph))
  <2>1. ASSUME NEW c, NEW ph
        PROVE  /\ NextPhase(c, "preload") \in {"locked", "done"}
               /\ ph # "preload" => NextPhase(c, ph) \notin {"preload", "locked"}
               /\ NextPhase(c, ph) = "locked" => Next(c, ph) = "ok"
               /\ NextPhase(c, ph) = "done" => Next(c, ph) = "ok"
               /\ Next(c, ph) # "readBak"
    BY DEF NextPhase, FirstStep
  <2> HIDE DEF Next
  <2>2. ASSUME Active(p), Proceed(p), cmd' = cmd, lockVars' = lockVars
        PROVE  Coherent'
    BY <2>1, <2>2 DEF Proceed, Active, lockVars, Next
  <2>3. ASSUME Active(p), Fails(p), cmd' = cmd, lockVars' = lockVars
        PROVE  Coherent'
    BY <2>3 DEF Fails, Fail, FailWith, Active, lockVars
  <2>4. ASSUME Active(p), NEW t, StepTo(p, t), cmd' = cmd, lockVars' = lockVars,
               phase[p] = "preload" => t \in MidLoadSteps,
               phase[p] # "done", t = "readBak" => cmd[p] = "inspect"
        PROVE  Coherent'
    BY <2>4 DEF StepTo, Active, lockVars
  <2>5. CASE LoadStep(p)
    <3>1. Active(p) /\ cmd' = cmd /\ lockVars' = lockVars
      BY <2>5 DEF LoadStep, ReadLive, ReadBak, StatLive, StatBak, RenameBak, Reread, Performs
    <3>2. phase[p] # "done"
      BY <2>5 DEF LoadStep, ReadLive, ReadBak, StatLive, StatBak, RenameBak, Reread, Performs
    <3>3. \/ Proceed(p) \/ Fails(p)
          \/ \E t \in MidLoadSteps : StepTo(p, t) /\ (t = "readBak" => cmd[p] = "inspect")
      BY <2>5 DEF LoadStep, ReadLive, ReadBak, StatLive, StatBak, RenameBak, Reread,
         LoadReturns, LoadFails, Fails, MidLoadSteps
    <3> QED  BY <2>2, <2>3, <2>4, <3>1, <3>2, <3>3
  <2>6. CASE EnsureStat(p) \/ ReadRaw(p) \/ WriteStep(p)
    <3>1. /\ Active(p) /\ cmd' = cmd /\ lockVars' = lockVars
          /\ step[p] \in {"ensureStat", "readRaw"} \union WriteSteps
      BY <2>6 DEF EnsureStat, ReadRaw, WriteStep, DropBak, StatOld, MoveAside, Publish,
         PutBack, CleanBak, Performs, WriteSteps
    <3>2. phase[p] \notin {"preload", "done"}
      BY <3>1 DEF MidLoadSteps, WriteSteps
    <3>3. Proceed(p) \/ Fails(p) \/ \E t \in WriteSteps : StepTo(p, t)
      BY <2>6 DEF EnsureStat, ReadRaw, WriteStep, DropBak, StatOld, MoveAside, Publish,
         PutBack, CleanBak, Fails, WriteSteps
    <3> QED  BY <2>2, <2>3, <2>4, <3>1, <3>2, <3>3 DEF WriteSteps
  <2>7. CASE Ask(p)
    BY <2>7 DEF Ask, StartAcquire, Goto, storeVars
  <2>8. CASE Enter(p)
    BY <2>1, <2>8 DEF Enter, WatchInterrupt, Goto, Proceed, Next
  <2>9. CASE Leave(p)
    BY <2>9 DEF Leave, FinishBody, Goto, storeVars
  <2>10. CASE LockOnly(p)
    BY <2>10 DEF LockOnly, AcquireStep, LineStep, ReleaseStep, CreateLockFile, Refuse,
       CreateFails, WriteLine, WriteLineFails, Interrupt, CompareLine, RemoveLockFile,
       Return, ExitInterrupted, Kill, Goto, storeVars
  <2> QED  BY <1>1, <2>5, <2>6, <2>7, <2>8, <2>9, <2>10 DEF StoreStep
<1>2. CASE UserRepairs  BY <1>2 DEF UserRepairs, UserDeletes, storeVars
<1>3. CASE UNCHANGED vars  BY <1>3 DEF vars, storeVars, lockVars
<1> QED  BY <1>1, <1>2, <1>3 DEF StoreNext, StoreQuiescent

\* Only one process is in its critical section, and only it writes.
LEMMA OneWriter ==
    ASSUME StoreInv, NEW p \in Process
    PROVE  /\ EnsureStat(p) \/ ReadRaw(p) \/ WriteStep(p) => pc[p] = "body"
           /\ \A q \in Process : pc[p] = "body" /\ pc[q] = "body" => p = q
<1>1. EnsureStat(p) \/ ReadRaw(p) \/ WriteStep(p) => pc[p] = "body"
  BY DEF EnsureStat, ReadRaw, WriteStep, DropBak, StatOld, MoveAside, Publish, PutBack,
     CleanBak, Performs, Active, StoreInv, Coherent, MidLoadSteps
<1>2. \A q \in Process : pc[p] = "body" /\ pc[q] = "body" => p = q
  BY BodyOwnsLock, LockFilesDiffer DEF StoreInv
<1> QED  BY <1>1, <1>2

FileStep(p) == LoadStep(p) \/ EnsureStat(p) \/ ReadRaw(p) \/ WriteStep(p)

\* A file operation moves the process on in one of three ways and leaves the
\* lock and every other process alone; the others leave the files alone.
LEMMA StepShape ==
    ASSUME StoreInv, NEW p \in Process, StoreStep(p)
    PROVE  /\ cmd' = cmd
           /\ \A q \in Process \ {p} :
                 /\ pc'[q] = pc[q] /\ phase'[q] = phase[q] /\ step'[q] = step[q]
                 /\ tmp'[q] = tmp[q] /\ (q \in committed' <=> q \in committed)
           /\ FileStep(p) => /\ pc' = pc /\ Active(p)
                             /\ Proceed(p) \/ Fails(p) \/ \E t \in Steps : StepTo(p, t)
           /\ ~FileStep(p) => /\ UNCHANGED <<live, bak, tmp, committed, got>>
                              /\ Enter(p) \/ UNCHANGED <<phase, step>>
<1> USE DEF StoreInv, StoreTypeOK, LockTypeOK
<1>1. CASE FileStep(p)
  <2>1. cmd' = cmd /\ pc' = pc /\ Active(p)
    BY <1>1 DEF FileStep, LoadStep, ReadLive, ReadBak, StatLive, StatBak, RenameBak, Reread,
       EnsureStat, ReadRaw, WriteStep, DropBak, StatOld, MoveAside, Publish, PutBack,
       CleanBak, Performs, lockVars
  <2>2. Proceed(p) \/ Fails(p) \/ \E t \in Steps : StepTo(p, t)
    BY <1>1 DEF FileStep, LoadStep, ReadLive, ReadBak, StatLive, StatBak, RenameBak, Reread,
       EnsureStat, ReadRaw, WriteStep, DropBak, StatOld, MoveAside, Publish, PutBack,
       CleanBak, LoadReturns, LoadFails, Fails, Steps, MidLoadSteps, WriteSteps
  <2>3. \A q \in Process \ {p} : phase'[q] = phase[q] /\ step'[q] = step[q]
    BY <2>2 DEF Proceed, Fails, Fail, FailWith, StepTo
  <2>4. \A q \in Process \ {p} : tmp'[q] = tmp[q] /\ (q \in committed' <=> q \in committed)
    BY <1>1 DEF FileStep, LoadStep, ReadLive, ReadBak, StatLive, StatBak, RenameBak, Reread,
       EnsureStat, ReadRaw, WriteStep, DropBak, StatOld, MoveAside, Publish, PutBack, CleanBak
  <2> QED  BY <1>1, <2>1, <2>2, <2>3, <2>4
<1>2. CASE ~FileStep(p)
  <2>1. Ask(p) \/ Enter(p) \/ Leave(p) \/ LockOnly(p)
    BY <1>2 DEF StoreStep, FileStep
  <2>2. /\ cmd' = cmd /\ UNCHANGED <<live, bak, tmp, committed, got>>
        /\ Enter(p) \/ UNCHANGED <<phase, step>>
    BY <2>1 DEF Ask, Enter, Leave, LockOnly, storeVars, fileVars
  <2>3. \A q \in Process \ {p} : pc'[q] = pc[q]
    BY <2>1 DEF Ask, Enter, Leave, StartAcquire, WatchInterrupt, FinishBody, Goto, LockOnly,
       AcquireStep, LineStep, ReleaseStep, CreateLockFile, Refuse, CreateFails, WriteLine,
       WriteLineFails, Interrupt, CompareLine, RemoveLockFile, Return, ExitInterrupted, Kill
  <2>4. \A q \in Process \ {p} : phase'[q] = phase[q] /\ step'[q] = step[q]
    BY <2>2 DEF Enter, Proceed
  <2> QED  BY <1>2, <2>2, <2>3, <2>4
<1> QED  BY <1>1, <1>2

\* A failed put-back is not undone: its command is over.
LEMMA PutBackStaysFailed ==
    ASSUME StoreInv, [StoreNext]_vars, PutBackFailed
    PROVE  PutBackFailed'
<1>1. PICK q \in Process : step[q] = "unrestored"
  BY DEF PutBackFailed
<1>2. ASSUME NEW p \in Process, StoreStep(p) PROVE step'[q] = "unrestored"
  <2>1. CASE p # q
    BY <1>1, <1>2, <2>1, StepShape
  <2>2. CASE p = q /\ FileStep(p)
    BY <1>1, <2>2 DEF FileStep, LoadStep, ReadLive, ReadBak, StatLive, StatBak, RenameBak,
       Reread, EnsureStat, ReadRaw, WriteStep, DropBak, StatOld, MoveAside, Publish, PutBack,
       CleanBak, Performs
  <2>3. CASE p = q /\ ~FileStep(p)
    <3>1. ~Enter(p)
      BY <1>1, <2>3 DEF Enter, WatchInterrupt, Goto, StoreInv, Coherent
    <3> QED  BY <1>1, <1>2, <2>3, <3>1, StepShape
  <2> QED  BY <2>1, <2>2, <2>3
<1>3. CASE UserRepairs \/ StoreQuiescent \/ UNCHANGED vars
  BY <1>1, <1>3 DEF UserRepairs, StoreQuiescent, vars, storeVars, PutBackFailed
<1> QED  BY <1>2, <1>3 DEF StoreNext, PutBackFailed

\* A window stays open until its owner closes it.
LEMMA WindowKept ==
    ASSUME StoreInv, NEW q \in Process, InWindow(q), NEW p \in Process, p # q,
           StoreStep(p)
    PROVE  InWindow(q)'
<1> USE DEF StoreInv, StoreTypeOK, LockTypeOK, InWindow
<1>1. pc'[q] = pc[q] /\ step'[q] = step[q]
  <2>1. CASE LoadStep(p) \/ EnsureStat(p) \/ ReadRaw(p) \/ WriteStep(p)
    BY <2>1 DEF LoadStep, ReadLive, ReadBak, StatLive, StatBak, RenameBak, Reread,
       EnsureStat, ReadRaw, WriteStep, DropBak, StatOld, MoveAside, Publish, PutBack,
       CleanBak, LoadReturns, LoadFails, Proceed, Fail, FailWith, StepTo, lockVars
  <2>2. CASE Ask(p) \/ Enter(p) \/ Leave(p)
    BY <2>2 DEF Ask, Enter, Leave, StartAcquire, WatchInterrupt, FinishBody, Goto,
       Proceed, storeVars
  <2>3. CASE LockOnly(p)
    BY <2>3 DEF LockOnly, AcquireStep, LineStep, ReleaseStep, CreateLockFile, Refuse,
       CreateFails, WriteLine, WriteLineFails, Interrupt, CompareLine, RemoveLockFile,
       Return, ExitInterrupted, Kill, Goto, storeVars
  <2> QED  BY <2>1, <2>2, <2>3 DEF StoreStep
<1>2. lock' = lock
  <2>1. lock # Created(p) /\ lock # LineOf(p) /\ lock # NoFile
    BY LockFilesDiffer
  <2>2. CASE LoadStep(p) \/ EnsureStat(p) \/ ReadRaw(p) \/ WriteStep(p)
    BY <2>2 DEF LoadStep, ReadLive, ReadBak, StatLive, StatBak, RenameBak, Reread,
       EnsureStat, ReadRaw, WriteStep, DropBak, StatOld, MoveAside, Publish, PutBack,
       CleanBak, lockVars
  <2>3. CASE Ask(p) \/ Enter(p) \/ Leave(p)
    BY <2>3 DEF Ask, Enter, Leave, StartAcquire, WatchInterrupt, FinishBody
  <2>4. CASE LockOnly(p)
    BY <2>1, <2>4 DEF LockOnly, AcquireStep, LineStep, ReleaseStep, CreateLockFile, Refuse,
       CreateFails, WriteLine, WriteLineFails, Interrupt, CompareLine, RemoveLockFile,
       Return, ExitInterrupted, Kill, Goto, Exists, LockInv, OwnFile, HandlerInStep,
       NoneCaught, Releasing, Inside, Over
  <2> QED  BY <2>2, <2>3, <2>4 DEF StoreStep
<1> QED  BY <1>1, <1>2

LEMMA RecoverableStep ==
    ASSUME StoreInv, [StoreNext]_vars
    PROVE  Recoverable'
<1> USE DEF StoreInv, StoreTypeOK, LockTypeOK
<1>0. CASE PutBackFailed
  BY <1>0, PutBackStaysFailed DEF Recoverable
<1>1. ASSUME NEW p \in Process, ~PutBackFailed, LoadStep(p) PROVE Recoverable'
  <2>1. /\ step[p] \notin WindowSteps /\ Active(p) /\ lockVars' = lockVars
        /\ \A q \in Process \ {p} : phase'[q] = phase[q] /\ pc'[q] = pc[q]
    BY <1>1 DEF LoadStep, ReadLive, ReadBak, StatLive, StatBak, RenameBak, Reread, Performs,
       LoadReturns, LoadFails, Proceed, Fail, FailWith, StepTo, WindowSteps, lockVars
  <2>2. Safe => Safe'
    BY <1>1 DEF LoadStep, ReadLive, ReadBak, StatLive, StatBak, RenameBak, Reread, Safe,
       fileVars
  <2>3. ASSUME NEW q \in Process, InWindow(q) PROVE InWindow(q)'
    BY <1>1, <2>1, <2>3, WindowKept DEF InWindow, StoreStep
  <2>4. ASSUME \A q \in Process : ~Admitted(q), ~Safe
        PROVE  Safe' \/ \A q \in Process : ~Admitted(q)'
    <3>1. pc[p] = "start" /\ phase[p] = "preload"
      BY <2>1, <2>4 DEF Admitted, Active, Running, Holding, Inside
    <3>2. ~live.exists /\ bak.exists  BY <2>4 DEF Safe
    <3>3. Safe' \/ phase'[p] # "locked"
      BY <1>1, <3>1, <3>2 DEF LoadStep, ReadLive, ReadBak, StatLive, StatBak, RenameBak,
         Reread, Performs, LoadReturns, LoadFails, Proceed, Fail, FailWith, StepTo, NextPhase, Safe,
         Coherent, Reading
    <3> QED  BY <2>1, <2>4, <3>1, <3>3 DEF Admitted, lockVars, Running, Holding, Inside
  <2> QED  BY <1>1, <2>2, <2>3, <2>4 DEF Recoverable
<1>2. ASSUME NEW p \in Process, ~PutBackFailed, EnsureStat(p) \/ ReadRaw(p) \/ WriteStep(p)
      PROVE  Recoverable'
  <2>1. /\ Active(p) /\ lockVars' = lockVars
        /\ step[p] \in {"ensureStat", "readRaw"} \union WriteSteps
    BY <1>2 DEF EnsureStat, ReadRaw, WriteStep, DropBak, StatOld, MoveAside, Publish,
       PutBack, CleanBak, Performs, WriteSteps
  <2>2. pc[p] = "body" /\ lock = LineOf(p)
    BY <2>1, BodyOwnsLock DEF Active, Coherent, MidLoadSteps, WriteSteps
  <2>3. CASE EnsureStat(p) \/ ReadRaw(p) \/ DropBak(p) \/ StatOld(p) \/ CleanBak(p)
    <3>1. Safe
      BY <1>2, <2>2, <2>3, BodySafe DEF EnsureStat, ReadRaw, DropBak, StatOld, CleanBak,
         Performs, WindowSteps
    <3> QED
      BY <2>3, <3>1 DEF EnsureStat, ReadRaw, DropBak, StatOld, CleanBak, BakRemoved, Safe,
         Recoverable, fileVars, Absent, Atomic!Absent
  <2>4. CASE MoveAside(p)
    <3>1. Safe
      BY <1>2, <2>2, <2>4, BodySafe DEF MoveAside, Performs, WindowSteps
    <3>2. CASE StepTo(p, "publish")
      BY <2>1, <2>2, <3>2 DEF StepTo, Recoverable, InWindow, WindowSteps, lockVars
    <3>3. CASE UNCHANGED fileVars
      BY <3>1, <3>3 DEF Safe, Recoverable, fileVars
    <3> QED  BY <2>4, <3>2, <3>3 DEF MoveAside
  <2>5. CASE Publish(p)
    <3>1. CASE live' = File(tmp[p])
      BY <3>1 DEF Safe, Recoverable, File, Atomic!File
    <3>2. CASE StepTo(p, "putBack")
      BY <2>1, <2>2, <3>2 DEF StepTo, Recoverable, InWindow, WindowSteps, lockVars
    <3> QED  BY <2>5, <3>1, <3>2 DEF Publish
  <2>6. CASE PutBack(p)
    <3>1. CASE Fail(p)
      BY <2>6, <3>1 DEF PutBack, Fail, FailWith, Safe, Recoverable, fileVars
    <3>2. CASE FailWith(p, "unrestored")
      BY <3>2 DEF FailWith, PutBackFailed, Recoverable
    <3> QED  BY <2>6, <3>1, <3>2 DEF PutBack
  <2> QED  BY <1>2, <2>3, <2>4, <2>5, <2>6 DEF WriteStep
<1>3. ASSUME NEW p \in Process, ~PutBackFailed, Ask(p) \/ Enter(p) \/ Leave(p) \/ LockOnly(p)
      PROVE  Recoverable'
  <2>1. Safe => Safe'
    BY <1>3 DEF Ask, Enter, Leave, LockOnly, Safe, storeVars, fileVars
  <2>2. ASSUME NEW q \in Process, q # p, InWindow(q) PROVE InWindow(q)'
    BY <1>3, <2>2, WindowKept DEF StoreStep
  <2>3. ASSUME InWindow(p) PROVE InWindow(p)'
    <3>1. ~Ask(p) /\ ~Enter(p)
      BY <2>3 DEF InWindow, Ask, Enter, StartAcquire, WatchInterrupt, Goto
    <3>2. ~Leave(p)
      BY <2>3 DEF InWindow, Leave, Coherent, WindowSteps
    <3>3. ASSUME LockOnly(p) PROVE InWindow(p)'
      BY <2>3, <3>3 DEF InWindow, LockOnly, AcquireStep, LineStep, ReleaseStep,
         CreateLockFile, Refuse, CreateFails, WriteLine, WriteLineFails, Interrupt,
         CompareLine, RemoveLockFile, Return, ExitInterrupted, Kill, Goto, Releasing,
         NoneCaught, Inside, storeVars
    <3> QED  BY <1>3, <3>1, <3>2, <3>3
  <2>4. Admitted(p)
    BY <1>3 DEF Ask, Enter, Leave, LockOnly, StartAcquire, WatchInterrupt, FinishBody,
       AcquireStep, LineStep, ReleaseStep, CreateLockFile, Refuse, CreateFails, WriteLine,
       WriteLineFails, Interrupt, CompareLine, RemoveLockFile, Return, ExitInterrupted,
       Kill, Goto, Releasing, Admitted, Running, Holding, Inside
  <2> QED  BY <1>3, <2>1, <2>2, <2>3, <2>4 DEF Recoverable
<1>4. CASE UserRepairs
  BY <1>4 DEF UserRepairs, UserDeletes, storeVars, Recoverable, Admitted, PutBackFailed
<1>5. CASE UNCHANGED vars
  BY <1>5 DEF vars, storeVars, lockVars, Recoverable, Safe, InWindow, Admitted, PutBackFailed
<1> QED  BY <1>0, <1>1, <1>2, <1>3, <1>4, <1>5 DEF StoreNext, StoreStep, StoreQuiescent

\* What a writer has done to the files under the lock is not undone by others:
\* they can only recover.
LEMMA OthersRecover ==
    ASSUME StoreInv, NEW p \in Process, StoreStep(p), pc[p] # "body"
    PROVE  (Safe => Safe') /\ (live.exists => live'.exists)
<1>1. CASE LoadStep(p)
  BY <1>1 DEF LoadStep, ReadLive, ReadBak, StatLive, StatBak, RenameBak, Reread, Safe, fileVars
<1>2. CASE ~FileStep(p)
  BY <1>2, StepShape DEF Safe
<1> QED  BY <1>1, <1>2, OneWriter DEF FileStep

LEMMA AbsentFacts ==
    /\ ~Absent.exists
    /\ \A t : File(t).exists /\ File(t).tools = t
BY DEF Absent, File, Atomic!Absent, Atomic!File

LEMMA RoutineOrder ==
    ASSUME NEW c, NEW ph
    PROVE  /\ FirstStep(c, ph) \in WriteSteps =>
                 ph = "edit" /\ c = "restore" /\ FirstStep(c, ph) = "dropBak"
           /\ FirstStep(c, ph) \notin MidLoadSteps
           /\ FirstStep(c, ph) = "readRaw" => ph = "edit"
           /\ FirstStep(c, ph) = "ensureStat" => ph = "ensure"
           /\ NextPhase(c, ph) = "ensure" => c \in {"add", "install"}
           /\ NextPhase("install", "load") = "done"
           /\ NextPhase(c, "edit") = IF c = "install" THEN "load" ELSE "done"
BY DEF FirstStep, NextPhase, WriteSteps, MidLoadSteps

LEMMA WritersHoldStep ==
    ASSUME StoreInv, [StoreNext]_vars
    PROVE  WritersHold'
<1>0. /\ WritersHold /\ Coherent
      /\ pc \in [Process -> {"start"} \union Running \union Ended]
      /\ phase \in [Process -> Phases] /\ step \in [Process -> Steps]
  BY DEF StoreInv, StoreTypeOK, LockTypeOK, Phases, Steps, WriteSteps
<1>1. ASSUME NEW p \in Process, StoreStep(p), NEW q \in Process \ {p}, pc'[q] = "body"
      PROVE  Held(q)'
  <2>1. pc[q] = "body" /\ phase'[q] = phase[q] /\ step'[q] = step[q] /\ cmd' = cmd
    BY <1>1, StepShape
  <2>2. (Safe => Safe') /\ (live.exists => live'.exists)
    BY <1>1, <2>1, OneWriter, OthersRecover
  <2> QED  BY <1>0, <2>1, <2>2 DEF WritersHold, Held
<1>2. ASSUME NEW p \in Process, StoreStep(p), pc'[p] = "body"
      PROVE  Held(p)'
  <2>0. cmd' = cmd  BY <1>2, StepShape
  <2>1. ASSUME Proceed(p), NextPhase(cmd[p], phase[p]) = "ensure" => Safe' \/ cmd[p] = "install"
        PROVE  Held(p)'
    <3> DEFINE ph == NextPhase(cmd[p], phase[p])
    <3>1. phase'[p] = ph /\ step'[p] = FirstStep(cmd[p], ph)
      BY <1>0, <2>1 DEF Proceed
    <3>2. /\ FirstStep(cmd[p], ph) \in WriteSteps =>
                 ph = "edit" /\ cmd[p] = "restore" /\ FirstStep(cmd[p], ph) = "dropBak"
          /\ FirstStep(cmd[p], ph) = "readRaw" => ph = "edit"
          /\ FirstStep(cmd[p], ph) = "ensureStat" => ph = "ensure"
          /\ ph = "ensure" => cmd[p] \in {"add", "install"}
      BY RoutineOrder
    <3> QED
      BY <2>0, <2>1, <3>1, <3>2 DEF Held, WriteSteps, WindowSteps, Atomic!WritesUnread
  <2>2. ASSUME Fails(p) PROVE Held(p)'
    BY <1>0, <2>2 DEF Fails, Fail, FailWith, Held, WriteSteps
  <2>3. ASSUME NEW t \in MidLoadSteps, StepTo(p, t), Held(p) PROVE Held(p)'
    BY <1>0, <2>0, <2>3 DEF StepTo, Held, MidLoadSteps, WriteSteps
  <2>4. CASE LoadStep(p)
    <3>1. CASE ReadBak(p)
      <4>1. cmd[p] = "inspect" /\ (Proceed(p) \/ Fails(p))
        BY <1>0, <3>1 DEF Coherent, ReadBak, Performs, LoadReturns, Fails
      <4>2. NextPhase(cmd[p], phase[p]) # "ensure"
        BY <4>1, RoutineOrder
      <4> QED  BY <2>1, <2>2, <4>1, <4>2
    <3>2. CASE ~ReadBak(p)
      <4>1. \/ Proceed(p) /\ Safe'
            \/ Fails(p)
            \/ \E t \in MidLoadSteps : StepTo(p, t)
        BY <2>4, <3>2 DEF LoadStep, ReadLive, StatLive, StatBak, RenameBak, Reread,
           LoadReturns, LoadFails, Fails, MidLoadSteps, Safe, fileVars
      <4>2. Held(p)
        BY <1>0, <1>2, <2>4, StepShape DEF WritersHold, FileStep
      <4> QED  BY <2>1, <2>2, <2>3, <4>1, <4>2
    <3> QED  BY <3>1, <3>2
  <2>5. CASE EnsureStat(p) \/ ReadRaw(p) \/ WriteStep(p)
    <3>0. pc[p] = "body" /\ Held(p)
      BY <1>0, <2>5, OneWriter DEF StoreInv, WritersHold
    <3>1. CASE EnsureStat(p)
      <4>1. CASE live.exists
        BY <2>1, <3>1, <4>1 DEF EnsureStat, Safe, fileVars
      <4>2. CASE ~live.exists
        BY <1>0, <2>0, <3>0, <3>1, <4>2 DEF EnsureStat, Performs, StepTo, Held, Safe, fileVars,
           WriteSteps, WindowSteps
      <4> QED  BY <4>1, <4>2
    <3>2. CASE ReadRaw(p)
      <4>1. \/ Fails(p)
            \/ Proceed(p) /\ phase[p] = "edit"
            \/ StepTo(p, "dropBak") /\ live'.exists /\ phase[p] = "edit"
        BY <3>0, <3>2 DEF ReadRaw, Performs, Held, Fails, fileVars
      <4>2. ASSUME StepTo(p, "dropBak"), live'.exists, phase[p] = "edit" PROVE Held(p)'
        BY <1>0, <2>0, <4>2 DEF StepTo, Held, Safe, WriteSteps, WindowSteps
      <4>3. phase[p] = "edit" => NextPhase(cmd[p], phase[p]) # "ensure"
        BY RoutineOrder
      <4> QED  BY <2>1, <2>2, <4>1, <4>2, <4>3
    <3>3. CASE DropBak(p) \/ StatOld(p)
      <4>1. \/ Fails(p)
            \/ /\ StepTo(p, "statOld") \/ StepTo(p, "moveAside") \/ StepTo(p, "publish")
               /\ Safe => Safe'
               /\ live.exists => live'.exists
        BY <3>3 DEF DropBak, StatOld, BakRemoved, Fails, Safe, Absent, Atomic!Absent, fileVars
      <4>2. step[p] \in {"dropBak", "statOld"}
        BY <3>3 DEF DropBak, StatOld, Performs
      <4>3. ASSUME NEW t \in {"statOld", "moveAside", "publish"}, StepTo(p, t),
                   Safe => Safe', live.exists => live'.exists
            PROVE  Held(p)'
        BY <1>0, <2>0, <3>0, <4>2, <4>3 DEF StepTo, Held, WriteSteps, WindowSteps
      <4> QED  BY <2>2, <4>1, <4>3
    <3>4. CASE MoveAside(p) \/ Publish(p)
      <4>1. \/ Fails(p)
            \/ StepTo(p, "publish") \/ StepTo(p, "putBack")
            \/ StepTo(p, "cleanBak") /\ live'.exists
        BY <3>4, AbsentFacts DEF MoveAside, Publish, Fails
      <4>2. step[p] \in {"moveAside", "publish"}
        BY <3>4 DEF MoveAside, Publish, Performs
      <4>3. ASSUME NEW t \in WindowSteps \union {"cleanBak"}, StepTo(p, t),
                   t = "cleanBak" => live'.exists
            PROVE  Held(p)'
        BY <1>0, <2>0, <3>0, <4>2, <4>3 DEF StepTo, Held, Safe, WriteSteps, WindowSteps
      <4> QED  BY <2>2, <4>1, <4>3 DEF WindowSteps
    <3>5. CASE PutBack(p)
      BY <2>2, <3>5 DEF PutBack, Fails
    <3>6. CASE CleanBak(p)
      <4>1. live.exists /\ live' = live /\ Proceed(p)
        BY <3>0, <3>6 DEF CleanBak, Performs, Held
      <4> QED  BY <2>1, <4>1 DEF Safe
    <3> QED  BY <2>5, <3>1, <3>2, <3>3, <3>4, <3>5, <3>6 DEF WriteStep
  <2>6. CASE ~FileStep(p)
    <3>1. CASE Enter(p)
      <4>1. phase[p] = "locked" /\ Proceed(p)
        BY <1>0, <3>1 DEF Enter, WatchInterrupt, Goto, Coherent
      <4>2. NextPhase(cmd[p], "locked") = "ensure" => cmd[p] = "install"
        BY DEF NextPhase
      <4> QED  BY <2>1, <4>1, <4>2
    <3>2. CASE ~Enter(p)
      <4>1. pc[p] = "body"
        BY <1>0, <1>2, <2>6, <3>2 DEF StoreStep, FileStep, Ask, Leave, StartAcquire, FinishBody,
           Goto, LockOnly, AcquireStep, LineStep, ReleaseStep, CreateLockFile, Refuse,
           CreateFails, WriteLine, WriteLineFails, Interrupt, CompareLine, RemoveLockFile,
           Return, ExitInterrupted, Kill
      <4>2. UNCHANGED <<live, bak, phase, step>>
        BY <1>2, <2>6, <3>2, StepShape
      <4> QED  BY <1>0, <2>0, <4>1, <4>2 DEF WritersHold, Held, Safe
    <3> QED  BY <3>1, <3>2
  <2> QED  BY <2>4, <2>5, <2>6 DEF FileStep
<1>3. CASE UNCHANGED <<live, bak, cmd, phase, step, pc>>
  BY <1>0, <1>3 DEF WritersHold, Held, Safe
<1>4. UserRepairs \/ StoreQuiescent \/ UNCHANGED vars
         => UNCHANGED <<live, bak, cmd, phase, step, pc>>
  BY DEF UserRepairs, UserDeletes, StoreQuiescent, vars, storeVars, lockVars
<1> QED  BY <1>1, <1>2, <1>3, <1>4 DEF StoreNext, WritersHold


LEMMA StoreInitInv ==
    ASSUME ~Interrupts
    PROVE  StoreInit => StoreInv
<1> SUFFICES ASSUME StoreInit PROVE StoreInv
  OBVIOUS
<1>1. StoreTypeOK /\ LockInv /\ NoneCaught
  BY StoreInitTypes, LockInitInv, NeverCaught DEF StoreInit
<1>2. Coherent
  BY DEF StoreInit, LockInit, Coherent
<1>3. Recoverable
  BY DEF StoreInit, LockInit, Recoverable, Admitted, Running, Holding, Inside
<1>4. WritersHold
  BY DEF StoreInit, LockInit, WritersHold
<1> QED  BY <1>1, <1>2, <1>3, <1>4 DEF StoreInv

LEMMA StoreInvariant ==
    ASSUME ~Interrupts
    PROVE  StoreSpec => []StoreInv
<1>1. StoreInit => StoreInv  BY StoreInitInv
<1>2. StoreInv /\ [StoreNext]_vars => StoreInv'
  BY StoreTypeStep, StoreStepIsLockStep, LockInvStep, NeverCaught, CoherentStep,
     RecoverableStep, WritersHoldStep DEF StoreInv, StoreTypeOK
<1> QED  BY <1>1, <1>2, PTL DEF StoreSpec

\* The backup goes without the file being there only where a command that has
\* not loaded the registry under the lock starts to write, after a failed
\* put-back; at the end of a write the file is there.
LEMMA OnlyUnreadDrops ==
    ASSUME StoreInv, NEW p \in Process
    PROVE  /\ DropBak(p) => Safe \/ (PutBackFailed /\ cmd[p] \in Atomic!WritesUnread)
           /\ CleanBak(p) => live.exists
<1>1. ASSUME DropBak(p) \/ CleanBak(p) PROVE pc[p] = "body" /\ Held(p)
  BY <1>1, OneWriter DEF StoreInv, WritersHold, WriteStep
<1>2. ASSUME DropBak(p) PROVE Safe \/ (PutBackFailed /\ cmd[p] \in Atomic!WritesUnread)
  <2>1. step[p] = "dropBak" /\ pc[p] = "body" /\ Held(p)
    BY <1>1, <1>2 DEF DropBak, Performs
  <2> QED  BY <2>1, BodySafe DEF Held, WriteSteps, WindowSteps
<1>3. ASSUME CleanBak(p) PROVE live.exists
  BY <1>1, <1>3 DEF CleanBak, Performs, Held
<1> QED  BY <1>2, <1>3

\* Without interrupts, and however lock-free loads with their recoveries, crashes
\* and failing renames and removals interleave with the writers, a registry that
\* exists once exists for ever, as the file or as its backup, but for one step:
\* after a put-back failed, the write of an install or a restore, which do not
\* load under the lock, may remove the backup.
THEOREM RegistryAlwaysRecoverable ==
    ASSUME ~Interrupts
    PROVE  StoreSpec => RegistryKept
<1> DEFINE Dropped == \E p \in Process : /\ cmd[p] \in Atomic!WritesUnread
                                         /\ step[p] = "dropBak" /\ step'[p] = "statOld"
           Kept == Current.exists /\ ~Current'.exists => PutBackFailed /\ Dropped
<1>1. StoreInv /\ [StoreNext]_vars => [Kept]_vars
  <2> SUFFICES ASSUME StoreInv, [StoreNext]_vars, Current.exists, vars' # vars
               PROVE  live'.exists \/ bak'.exists \/ (PutBackFailed /\ Dropped)
    BY DEF Current
  <2> HIDE DEF Dropped
  <2>0. live.exists \/ bak.exists  BY DEF Current
  <2>1. ASSUME NEW p \in Process, LoadStep(p) PROVE live'.exists \/ bak'.exists
    BY <2>0, <2>1 DEF LoadStep, ReadLive, ReadBak, StatLive, StatBak, RenameBak, Reread, fileVars
  <2>2. ASSUME NEW p \in Process, DropBak(p)
        PROVE  live'.exists \/ bak'.exists \/ (PutBackFailed /\ Dropped)
    <3>1. CASE Safe \/ bak' = bak
      BY <2>0, <2>2, <3>1 DEF DropBak, Safe
    <3>2. CASE ~Safe /\ bak' # bak
      <4>1. PutBackFailed /\ cmd[p] \in Atomic!WritesUnread
        BY <2>2, <3>2, OnlyUnreadDrops
      <4>2. step \in [Process -> Steps]
        BY DEF StoreInv, StoreTypeOK, Steps, WriteSteps
      <4>3. step[p] = "dropBak" /\ step'[p] = "statOld"
        BY <2>2, <3>2, <4>2 DEF DropBak, Performs, StepTo
      <4> QED  BY <4>1, <4>3 DEF Dropped
    <3> QED  BY <3>1, <3>2
  <2>3. ASSUME NEW p \in Process, CleanBak(p) PROVE live'.exists \/ bak'.exists
    BY <2>3, OnlyUnreadDrops DEF CleanBak
  <2>4. ASSUME NEW p \in Process, StatOld(p) \/ MoveAside(p) \/ Publish(p) \/ PutBack(p)
        PROVE  live'.exists \/ bak'.exists
    BY <2>0, <2>4 DEF StatOld, MoveAside, Publish, PutBack, File, Atomic!File, fileVars
  <2>5. ASSUME NEW p \in Process, EnsureStat(p) \/ ReadRaw(p) \/ Enter(p)
        PROVE  live'.exists \/ bak'.exists
    BY <2>0, <2>5 DEF EnsureStat, ReadRaw, Enter, fileVars
  <2>6. ASSUME NEW p \in Process, Ask(p) \/ Leave(p) \/ LockOnly(p)
        PROVE  live'.exists \/ bak'.exists
    BY <2>0, <2>6 DEF Ask, Leave, LockOnly, storeVars
  <2>7. CASE UserRepairs  BY <2>0, <2>7 DEF UserRepairs, storeVars
  <2> QED
    BY <2>1, <2>2, <2>3, <2>4, <2>5, <2>6, <2>7
    DEF StoreNext, StoreStep, WriteStep, StoreQuiescent
<1> QED  BY <1>1, StoreInvariant, PTL DEF StoreSpec, RegistryKept

-----------------------------------------------------------------------------
(* Every edit takes effect once: the refinement                             *)
(*                                                                         *)
(* Where no other command touches the files in the middle of a load, the   *)
(* store implements AtomicRegistry.  A file that is missing when a load    *)
(* looks is missing until that load has recovered it, and the registry a   *)
(* writer has read under the lock is the registry until it publishes.      *)

WellFormed == (live.exists \/ live = Absent) /\ (bak.exists \/ bak = Absent)

\* What a load has seen is still so.
MidLoad ==
    \A p \in Process : Active(p) =>
        /\ step[p] \in {"statLive", "statBak", "renameBak", "readBak"} => ~live.exists
        /\ step[p] = "renameBak" => bak.exists
        /\ step[p] = "reread" => live.exists

\* In the window of a writer there is at most one of the two names.
OneName ==
    \A p \in Process :
        pc[p] = "body" /\ step[p] \in WindowSteps => ~live.exists \/ ~bak.exists

\* What a writer is about to publish is its edit of what the registry holds;
\* after a failed put-back an install may hold the defaults ready instead.
EditsTrue ==
    \A p \in Process : pc[p] = "body" /\ step[p] \in WriteSteps \ {"cleanBak"} =>
        /\ phase[p] = "ensure" =>
              /\ tmp[p] = Atomic!Defaults
              /\ ~Current.exists \/ (PutBackFailed /\ cmd[p] = "install")
        /\ phase[p] = "edit" /\ cmd[p] # "restore" =>
              Current.exists /\ tmp[p] = Atomic!Effect(cmd[p], p, Current.tools)
        /\ phase[p] = "edit" /\ cmd[p] = "restore" /\ step[p] # "dropBak" =>
              tmp[p] = Atomic!Snapshot

\* A command that has taken effect does not get to another edit.
CommittedInStep ==
    \A p \in committed :
        \/ phase[p] = "done"
        \/ phase[p] = "edit" /\ step[p] = "cleanBak"
        \/ phase[p] = "load" /\ cmd[p] = "install"

SoloInv ==
    StoreInv /\ WellFormed /\ MidLoad /\ OneName /\ EditsTrue /\ CommittedInStep

\* The step that removes the backup although it is all there is.
Loses(p) ==
    /\ DropBak(p)
    /\ Current.exists /\ Current' = Absent /\ ~live.exists
    /\ PutBackFailed /\ cmd[p] \in Atomic!WritesUnread

\* No step but a publication and such a removal changes the registry.
LEMMA CurrentKept ==
    ASSUME SoloInv, NEW p \in Process, StoreStep(p), ~Publish(p)
    PROVE  Current' = Current \/ Loses(p)
<1>0. StoreInv /\ WellFormed  BY DEF SoloInv
<1> USE DEF SoloInv, Current
<1>1. CASE LoadStep(p)
  <2>1. CASE RenameBak(p)
    BY <2>1 DEF RenameBak, Performs, MidLoad, fileVars
  <2>2. CASE ~RenameBak(p)
    BY <1>1, <2>2 DEF LoadStep, ReadLive, ReadBak, StatLive, StatBak, Reread, fileVars
  <2> QED  BY <2>1, <2>2
<1>2. CASE DropBak(p)
  <2>1. live' = live /\ (bak' = bak \/ bak' = Absent)
    BY <1>2 DEF DropBak, BakRemoved
  <2>2. CASE Safe
    BY <1>0, <2>1, <2>2, AbsentFacts DEF Safe, WellFormed
  <2>3. CASE ~Safe
    <3>1. PutBackFailed /\ cmd[p] \in Atomic!WritesUnread
      BY <1>0, <1>2, <2>3, OnlyUnreadDrops
    <3> QED  BY <1>2, <2>1, <2>3, <3>1 DEF Safe, Loses
  <2> QED  BY <2>2, <2>3
<1>3. CASE CleanBak(p)
  BY <1>0, <1>3, OnlyUnreadDrops DEF CleanBak
<1>4. CASE MoveAside(p)
  BY <1>4, AbsentFacts DEF MoveAside, fileVars
<1>5. CASE PutBack(p)
  <2>1. bak.exists => ~live.exists
    BY <1>5, OneWriter DEF PutBack, Performs, WriteStep, OneName, WindowSteps
  <2> QED  BY <1>5, <2>1 DEF PutBack, fileVars
<1>6. CASE EnsureStat(p) \/ ReadRaw(p) \/ StatOld(p)
  BY <1>6 DEF EnsureStat, ReadRaw, StatOld, fileVars
<1>7. CASE ~FileStep(p)
  BY <1>7, StepShape
<1> QED  BY <1>1, <1>2, <1>3, <1>4, <1>5, <1>6, <1>7 DEF FileStep, WriteStep

LEMMA WellFormedStep ==
    ASSUME SoloInv, NEW p \in Process, StoreStep(p)
    PROVE  WellFormed'
<1> USE DEF SoloInv, WellFormed
<1>1. CASE LoadStep(p)
  BY <1>1 DEF LoadStep, ReadLive, ReadBak, StatLive, StatBak, RenameBak, Reread, fileVars
<1>2. CASE EnsureStat(p) \/ ReadRaw(p) \/ StatOld(p)
  BY <1>2 DEF EnsureStat, ReadRaw, StatOld, fileVars
<1>3. CASE DropBak(p) \/ MoveAside(p) \/ PutBack(p) \/ CleanBak(p)
  BY <1>3 DEF DropBak, MoveAside, PutBack, CleanBak, BakRemoved, fileVars
<1>4. CASE Publish(p)
  BY <1>4, AbsentFacts DEF Publish
<1>5. CASE ~FileStep(p)
  BY <1>5, StepShape
<1> QED  BY <1>1, <1>2, <1>3, <1>4, <1>5 DEF FileStep, WriteStep

\* While one process is in the middle of a load no other touches the files.
LEMMA OthersWait ==
    ASSUME SoloLoads, NEW p \in Process, FileStep(p)
    PROVE  \A q \in Process \ {p} : Active(q) => step[q] \notin MidLoadSteps
BY DEF FileStep, LoadStep, ReadLive, ReadBak, StatLive, StatBak, RenameBak, Reread,
   EnsureStat, ReadRaw, WriteStep, DropBak, StatOld, MoveAside, Publish, PutBack,
   CleanBak, Performs, Undisturbed

\* What the leaves of the step lemmas need of the type invariant.
LEMMA SoloTypes ==
    ASSUME SoloInv
    PROVE  /\ pc \in [Process -> {"start"} \union Running \union Ended]
           /\ phase \in [Process -> Phases] /\ step \in [Process -> Steps]
           /\ tmp \in [Process -> SUBSET Atomic!Sections]
           /\ live \in Atomic!Content /\ bak \in Atomic!Content
BY DEF SoloInv, StoreInv, StoreTypeOK, LockTypeOK, Phases, Steps, WriteSteps

\* The operation after a load's is a load's only where the load goes on.
LEMMA LoadShape ==
    ASSUME NEW p \in Process, phase \in [Process -> Phases], step \in [Process -> Steps]
    PROVE  /\ Proceed(p) \/ Fails(p) => step'[p] \notin MidLoadSteps
           /\ Fail(p) => Fails(p)
           /\ \A s : StepTo(p, s) => step'[p] = s
           /\ \A from, t : LoadReturns(p, from, t) => Proceed(p) \/ Fail(p)
           /\ LoadFails(p) => Fail(p)
BY RoutineOrder DEF Proceed, Fails, Fail, FailWith, StepTo, LoadReturns, LoadFails, MidLoadSteps

LEMMA MidLoadStep ==
    ASSUME SoloInv, SoloLoads, NEW p \in Process, StoreStep(p)
    PROVE  MidLoad'
<1>0. StoreInv /\ MidLoad  BY DEF SoloInv
<1>1. ASSUME NEW q \in Process \ {p}, Active(q)'
      PROVE  Active(q) /\ (step'[q] \notin MidLoadSteps \/ ~FileStep(p)) /\ step'[q] = step[q]
  BY <1>0, <1>1, StepShape, OthersWait DEF Active
<1>2. CASE ~FileStep(p)
  <2>1. \A q \in Process \ {p} : Active(q)' => Active(q) /\ step'[q] = step[q]
    BY <1>1
  <2>2. Active(p)' => (Active(p) /\ step'[p] = step[p]) \/ step'[p] \notin MidLoadSteps
    <3>1. CASE Enter(p)
      BY <3>1, SoloTypes, LoadShape DEF Enter
    <3>2. CASE Ask(p) \/ Leave(p) \/ LockOnly(p)
      BY <3>2, SoloTypes DEF Ask, Leave, StartAcquire, FinishBody, Goto, LockOnly, Active,
         storeVars, AcquireStep, LineStep, ReleaseStep, CreateLockFile, Refuse, CreateFails,
         WriteLine, WriteLineFails, Interrupt, CompareLine, RemoveLockFile, Return,
         ExitInterrupted, Kill
    <3> QED  BY <1>2, <3>1, <3>2 DEF StoreStep, FileStep
  <2>3. UNCHANGED <<live, bak>>  BY <1>0, <1>2, StepShape
  <2> QED  BY <1>0, <2>1, <2>2, <2>3 DEF MidLoad, MidLoadSteps
<1>3. CASE FileStep(p)
  <2>1. \A q \in Process \ {p} : Active(q)' => step'[q] \notin MidLoadSteps
    BY <1>1, <1>3
  <2> DEFINE Seen == /\ step'[p] \in {"statLive", "statBak", "renameBak", "readBak"} => ~live'.exists
                     /\ step'[p] = "renameBak" => bak'.exists
                     /\ step'[p] = "reread" => live'.exists
  <2>2. step'[p] \notin MidLoadSteps => Seen
    BY DEF MidLoadSteps
  <2>3. ASSUME LoadStep(p) PROVE Seen
    <3>1. CASE ReadLive(p)
      <4>1. UNCHANGED fileVars /\ (Proceed(p) \/ Fail(p) \/
               (~live.exists /\ step'[p] \in {"readBak", "statLive"}))
        BY <3>1, SoloTypes, LoadShape DEF ReadLive, StepTo, fileVars
      <4> QED  BY <2>2, <4>1, SoloTypes, LoadShape DEF fileVars
    <3>2. CASE ReadBak(p)
      <4>1. Proceed(p) \/ Fail(p)
        BY <3>2, SoloTypes, LoadShape DEF ReadBak
      <4> QED  BY <2>2, <4>1, SoloTypes, LoadShape
    <3>3. CASE StatLive(p)
      <4>1. UNCHANGED fileVars /\ (Proceed(p) \/ Fail(p) \/
               (~live.exists /\ step'[p] = "statBak"))
        BY <3>3, SoloTypes, LoadShape DEF StatLive, StepTo, fileVars
      <4> QED  BY <2>2, <4>1, SoloTypes, LoadShape DEF fileVars
    <3>4. CASE StatBak(p)
      <4>1. ~live.exists
        BY <1>0, <3>4 DEF StatBak, Performs, MidLoad
      <4>2. UNCHANGED fileVars /\ (Proceed(p) \/ Fail(p) \/
               (bak.exists /\ step'[p] = "renameBak"))
        BY <3>4, SoloTypes, LoadShape DEF StatBak, StepTo, fileVars
      <4> QED  BY <2>2, <4>1, <4>2, SoloTypes, LoadShape DEF fileVars
    <3>5. CASE RenameBak(p)
      <4>1. Fail(p) \/ (live'.exists /\ step'[p] = "reread")
        BY <3>5, SoloTypes, LoadShape DEF RenameBak, StepTo
      <4> QED  BY <2>2, <4>1, SoloTypes, LoadShape
    <3>6. CASE Reread(p)
      <4>1. Proceed(p) \/ Fail(p)
        BY <3>6, SoloTypes, LoadShape DEF Reread
      <4> QED  BY <2>2, <4>1, SoloTypes, LoadShape
    <3> QED  BY <2>3, <3>1, <3>2, <3>3, <3>4, <3>5, <3>6 DEF LoadStep
  <2>4. ASSUME EnsureStat(p) \/ ReadRaw(p) \/ WriteStep(p) PROVE Seen
    <3>1. Proceed(p) \/ Fails(p) \/ \E s \in WriteSteps : StepTo(p, s)
      BY <2>4 DEF EnsureStat, ReadRaw, WriteStep, DropBak, StatOld, MoveAside, Publish,
         PutBack, CleanBak, Fails, WriteSteps
    <3>2. step'[p] \notin MidLoadSteps
      BY <3>1, SoloTypes, LoadShape DEF WriteSteps, MidLoadSteps
    <3> QED  BY <2>2, <3>2
  <2>5. Seen  BY <1>3, <2>3, <2>4 DEF FileStep
  <2> QED  BY <2>1, <2>5 DEF MidLoad, MidLoadSteps
<1> QED  BY <1>2, <1>3

\* The steps of another process leave a writer's part of the state alone: it
\* can only load.
LEMMA WriterAlone ==
    ASSUME SoloInv, NEW p \in Process, StoreStep(p),
           NEW q \in Process \ {p}, pc'[q] = "body"
    PROVE  /\ pc[q] = "body" /\ phase'[q] = phase[q] /\ step'[q] = step[q]
           /\ cmd' = cmd /\ tmp'[q] = tmp[q] /\ Current' = Current
           /\ ~live'.exists \/ ~bak'.exists \/ UNCHANGED fileVars
<1>0. StoreInv  BY DEF SoloInv
<1>1. /\ pc[q] = "body" /\ phase'[q] = phase[q] /\ step'[q] = step[q]
      /\ cmd' = cmd /\ tmp'[q] = tmp[q]
  BY <1>0, StepShape
<1>2. pc[p] # "body"  BY <1>0, <1>1, OneWriter
<1>3. LoadStep(p) \/ ~FileStep(p)
  BY <1>0, <1>2, OneWriter DEF FileStep
<1>4. Current' = Current
  BY <1>0, <1>2, CurrentKept, OneWriter DEF WriteStep, Loses
<1>5. ~live'.exists \/ ~bak'.exists \/ UNCHANGED fileVars
  <2>1. CASE ~FileStep(p)
    BY <1>0, <2>1, StepShape DEF fileVars
  <2>2. CASE LoadStep(p)
    BY <2>2, AbsentFacts DEF LoadStep, ReadLive, ReadBak, StatLive, StatBak, RenameBak, Reread
  <2> QED  BY <1>3, <2>1, <2>2
<1> QED  BY <1>1, <1>4, <1>5

\* How a process in its critical section got to the operation it is at.
LEMMA BodyStep ==
    ASSUME SoloInv, NEW p \in Process, StoreStep(p), pc'[p] = "body"
    PROVE  \/ Enter(p)
           \/ FileStep(p) /\ pc[p] = "body"
           \/ /\ pc[p] = "body"
              /\ UNCHANGED <<live, bak, cmd, phase, step, tmp, committed>>
<1>0. StoreInv  BY DEF SoloInv
<1>1. CASE FileStep(p)  BY <1>0, <1>1, StepShape
<1>2. CASE ~FileStep(p) /\ ~Enter(p)
  <2>1. UNCHANGED <<live, bak, cmd, phase, step, tmp, committed>>
    BY <1>0, <1>2, StepShape
  <2>2. pc[p] = "body"
    BY <1>2, SoloTypes DEF StoreStep, FileStep, Ask, Leave, StartAcquire, FinishBody, Goto,
       LockOnly, AcquireStep, LineStep, ReleaseStep, CreateLockFile, Refuse, CreateFails,
       WriteLine, WriteLineFails, Interrupt, CompareLine, RemoveLockFile, Return,
       ExitInterrupted, Kill
  <2> QED  BY <2>1, <2>2
<1> QED  BY <1>1, <1>2

LEMMA OneNameStep ==
    ASSUME SoloInv, NEW p \in Process, StoreStep(p)
    PROVE  OneName'
<1>0. StoreInv /\ OneName  BY DEF SoloInv
<1>1. ASSUME NEW q \in Process \ {p}, pc'[q] = "body", step'[q] \in WindowSteps
      PROVE  ~live'.exists \/ ~bak'.exists
  BY <1>0, <1>1, WriterAlone DEF OneName, fileVars, WindowSteps
<1>2. ASSUME pc'[p] = "body", step'[p] \in WindowSteps
      PROVE  ~live'.exists \/ ~bak'.exists
  <2>1. ASSUME Proceed(p) PROVE FALSE
    BY <1>2, <2>1, RoutineOrder, SoloTypes DEF Proceed, WriteSteps, WindowSteps
  <2>2. ~Fails(p)
    BY <1>2, SoloTypes DEF Fails, Fail, FailWith, WindowSteps
  <2>3. ~Enter(p)  BY <2>1 DEF Enter
  <2>4. CASE pc[p] = "body" /\ UNCHANGED <<live, bak, cmd, phase, step, tmp, committed>>
    BY <1>0, <1>2, <2>4 DEF OneName
  <2>5. CASE FileStep(p) /\ pc[p] = "body"
    <3>1. CASE LoadStep(p)
      <4>1. \E t \in MidLoadSteps : StepTo(p, t)
        BY <2>1, <2>2, <3>1 DEF LoadStep, ReadLive, ReadBak, StatLive, StatBak, RenameBak,
           Reread, LoadReturns, LoadFails, Fails, MidLoadSteps
      <4> QED  BY <1>2, <4>1, SoloTypes DEF StepTo, MidLoadSteps, WindowSteps
    <3>2. CASE EnsureStat(p) \/ ReadRaw(p)
      <4>1. StepTo(p, "dropBak")
        BY <2>1, <2>2, <3>2 DEF EnsureStat, ReadRaw, Fails
      <4> QED  BY <1>2, <4>1, SoloTypes DEF StepTo, WindowSteps
    <3>3. CASE WriteStep(p)
      <4>1. \/ StepTo(p, "statOld") \/ StepTo(p, "moveAside") \/ StepTo(p, "cleanBak")
            \/ ~live'.exists \/ ~bak'.exists
        BY <1>0, <2>1, <2>2, <2>5, <3>3, AbsentFacts DEF WriteStep, DropBak, StatOld, MoveAside,
           Publish, PutBack, CleanBak, Performs, Fails, OneName, WindowSteps, fileVars
      <4> QED  BY <1>2, <4>1, SoloTypes DEF StepTo, WindowSteps
    <3> QED  BY <2>5, <3>1, <3>2, <3>3 DEF FileStep
  <2> QED  BY <1>2, <2>3, <2>4, <2>5, BodyStep
<1> QED  BY <1>1, <1>2 DEF OneName

LEMMA EditsTrueStep ==
    ASSUME SoloInv, NEW p \in Process, StoreStep(p)
    PROVE  EditsTrue'
<1>0. StoreInv /\ WritersHold /\ EditsTrue  BY DEF SoloInv, StoreInv
<1>s. PutBackFailed => PutBackFailed'
  BY <1>0, PutBackStaysFailed DEF StoreNext
<1> DEFINE True(q) ==
        step[q] \in WriteSteps \ {"cleanBak"} =>
        /\ phase[q] = "ensure" =>
              /\ tmp[q] = Atomic!Defaults
              /\ ~Current.exists \/ (PutBackFailed /\ cmd[q] = "install")
        /\ phase[q] = "edit" /\ cmd[q] # "restore" =>
              Current.exists /\ tmp[q] = Atomic!Effect(cmd[q], q, Current.tools)
        /\ phase[q] = "edit" /\ cmd[q] = "restore" /\ step[q] # "dropBak" =>
              tmp[q] = Atomic!Snapshot
<1>a. \A q \in Process : pc[q] = "body" => True(q)
  BY <1>0 DEF EditsTrue
<1>1. ASSUME NEW q \in Process \ {p}, pc'[q] = "body" PROVE True(q)'
  <2>1. True(q)  BY <1>a, <1>1, WriterAlone
  <2>2. /\ phase'[q] = phase[q] /\ step'[q] = step[q] /\ cmd' = cmd /\ tmp'[q] = tmp[q]
        /\ Current' = Current
    BY <1>1, WriterAlone
  <2> QED  BY <1>s, <2>1, <2>2
<1>2. ASSUME pc'[p] = "body" PROVE True(p)'
  <2>1. ASSUME Proceed(p), cmd' = cmd PROVE True(p)'
    BY <2>1, RoutineOrder, SoloTypes DEF Proceed
  <2>2. CASE Enter(p)
    BY <2>1, <2>2, <1>0, StepShape
    DEF Enter
  <2>3. CASE pc[p] = "body" /\ UNCHANGED <<live, bak, cmd, phase, step, tmp, committed>>
    BY <1>a, <1>s, <2>3 DEF Current
  <2>4. CASE FileStep(p) /\ pc[p] = "body"
    <3>1. True(p) /\ cmd' = cmd  BY <1>0, <1>a, <2>4, StepShape
    <3>2. step'[p] \notin WriteSteps => True(p)'
      OBVIOUS
    <3>0. Held(p)  BY <1>0, <2>4 DEF WritersHold
    <3>3. ASSUME Fails(p) PROVE True(p)'
      BY <3>2, <3>3, SoloTypes DEF Fails, Fail, FailWith, WriteSteps
    <3>4. CASE LoadStep(p)
      <4>1. \/ Proceed(p) \/ Fails(p)
            \/ \E t \in MidLoadSteps : StepTo(p, t)
        BY <3>4 DEF LoadStep, ReadLive, ReadBak, StatLive, StatBak, RenameBak, Reread,
           LoadReturns, LoadFails, Fails, MidLoadSteps
      <4>2. ASSUME NEW t \in MidLoadSteps, StepTo(p, t) PROVE True(p)'
        BY <3>2, <4>2, SoloTypes DEF StepTo, MidLoadSteps, WriteSteps
      <4> QED  BY <2>1, <3>1, <3>3, <4>1, <4>2
    <3>5. CASE EnsureStat(p)
      <4>1. phase[p] = "ensure" /\ (Safe \/ (PutBackFailed /\ cmd[p] = "install"))
        <5>1. /\ step[p] = "ensureStat" /\ phase[p] = "ensure"
              /\ cmd[p] \in {"add", "install"}
              /\ Safe \/ cmd[p] \in Atomic!WritesUnread
          BY <3>0, <3>5 DEF EnsureStat, Performs, Held
        <5>2. Safe \/ PutBackFailed
          BY <1>0, <2>4, <5>1, BodySafe DEF WindowSteps
        <5> QED  BY <5>1, <5>2 DEF Atomic!WritesUnread
      <4>2. CASE ~Proceed(p)
        <5>1. /\ ~live.exists /\ tmp' = [tmp EXCEPT ![p] = Atomic!Defaults]
              /\ StepTo(p, "dropBak") /\ UNCHANGED fileVars
          BY <3>5, <4>2 DEF EnsureStat, fileVars
        <5>2. /\ ~Current'.exists \/ (PutBackFailed' /\ cmd[p] = "install")
              /\ tmp'[p] = Atomic!Defaults /\ phase'[p] = "ensure"
          BY <1>s, <4>1, <5>1, SoloTypes DEF Safe, Current, fileVars, StepTo
        <5> QED  BY <3>1, <5>2
      <4> QED  BY <2>1, <3>1, <4>2
    <3>6. CASE ReadRaw(p)
      <4>1. phase[p] = "edit"
        BY <3>0, <3>6 DEF ReadRaw, Performs, Held
      <4>2. CASE ~Proceed(p) /\ ~Fails(p)
        <5>1. /\ live.exists
              /\ tmp' = [tmp EXCEPT ![p] = Atomic!Effect(cmd[p], p, live.tools)]
              /\ StepTo(p, "dropBak") /\ UNCHANGED fileVars
          BY <3>6, <4>2 DEF ReadRaw, Fails, fileVars
        <5>2. /\ Current'.exists /\ Current'.tools = live.tools
              /\ tmp'[p] = Atomic!Effect(cmd[p], p, live.tools)
              /\ phase'[p] = "edit" /\ step'[p] = "dropBak"
          BY <4>1, <5>1, SoloTypes DEF Current, fileVars, StepTo
        <5> QED  BY <3>1, <5>2
      <4> QED  BY <2>1, <3>1, <3>3, <4>2
    <3>7. CASE WriteStep(p)
      <4>1. CASE Publish(p)
        <5>1. CASE StepTo(p, "cleanBak")
          BY <5>1, SoloTypes DEF StepTo
        <5>2. CASE StepTo(p, "putBack") /\ UNCHANGED <<live, committed>>
          <6>1. UNCHANGED <<live, bak, tmp, phase>> /\ step[p] = "publish"
            BY <4>1, <5>2 DEF Publish, Performs, StepTo
          <6>2. Current' = Current  BY <6>1 DEF Current
          <6> QED  BY <1>s, <3>1, <6>1, <6>2 DEF WriteSteps
        <5> QED  BY <4>1, <5>1, <5>2 DEF Publish
      <4>2. CASE DropBak(p)
        <5>1. step[p] = "dropBak" /\ ~Publish(p)
          BY <4>2 DEF DropBak, Publish, Performs
        <5>2. Current' = Current \/ (~Current'.exists /\ ~live.exists)
          BY <2>4, <4>2, <5>1, CurrentKept, AbsentFacts DEF Loses
        <5>3. CASE ~Fails(p)
          <6>1. /\ phase' = phase
                /\ tmp' = IF cmd[p] = "restore" THEN [tmp EXCEPT ![p] = Atomic!Snapshot] ELSE tmp
            BY <4>2, <5>3 DEF DropBak, Fails, StepTo
          <6>2. /\ phase[p] = "ensure" => cmd[p] # "restore"
                /\ phase[p] = "edit" => live.exists \/ cmd[p] = "restore"
            BY <3>0, <5>1 DEF Held
          <6> QED  BY <1>s, <3>1, <5>1, <5>2, <6>1, <6>2, SoloTypes DEF WriteSteps
        <5> QED  BY <3>3, <5>3
      <4>3. CASE CleanBak(p)
        BY <2>1, <3>1, <4>3 DEF CleanBak
      <4>4. CASE PutBack(p)
        BY <3>3, <4>4 DEF PutBack, Fails
      <4>5. CASE StatOld(p) \/ MoveAside(p)
        <5>1. Current' = Current
          BY <3>7, <4>5, CurrentKept DEF StatOld, MoveAside, Publish, DropBak, Loses, Performs
        <5>2. CASE ~Fails(p)
          <6>1. UNCHANGED <<tmp, phase>> /\ step[p] \in {"statOld", "moveAside"}
            BY <4>5, <5>2 DEF StatOld, MoveAside, Performs, Fails, StepTo
          <6> QED  BY <1>s, <3>1, <5>1, <6>1 DEF WriteSteps
        <5> QED  BY <3>3, <5>2
      <4> QED  BY <3>7, <4>1, <4>2, <4>3, <4>4, <4>5 DEF WriteStep
    <3> QED  BY <2>4, <3>4, <3>5, <3>6, <3>7 DEF FileStep
  <2> QED  BY <1>2, <2>2, <2>3, <2>4, BodyStep
<1> QED  BY <1>1, <1>2 DEF EditsTrue

LEMMA CommittedStep ==
    ASSUME SoloInv, NEW p \in Process, StoreStep(p)
    PROVE  CommittedInStep'
<1>0. StoreInv /\ Coherent /\ WritersHold /\ CommittedInStep
  BY DEF SoloInv, StoreInv
<1> DEFINE Past(q) == \/ phase[q] = "done"
                      \/ phase[q] = "edit" /\ step[q] = "cleanBak"
                      \/ phase[q] = "load" /\ cmd[q] = "install"
<1>1. ASSUME NEW q \in committed' \ {p} PROVE Past(q)'
  <2>1. q \in Process /\ q \in committed
    BY <1>0, <1>1, StoreTypeStep, StepShape DEF StoreInv, StoreTypeOK, StoreNext
  <2> QED  BY <1>0, <1>1, <2>1, StepShape DEF CommittedInStep
<1>2. ASSUME p \in committed' PROVE Past(p)'
  <2>1. CASE ~FileStep(p)
    <3>1. p \in committed /\ Past(p) /\ cmd' = cmd
      BY <1>0, <1>2, <2>1, StepShape DEF CommittedInStep
    <3>2. ~Enter(p)
      BY <1>0, <3>1 DEF Enter, WatchInterrupt, Goto, Coherent
    <3> QED  BY <1>0, <2>1, <3>1, <3>2, StepShape
  <2>2. CASE FileStep(p) /\ p \notin committed
    <3>1. Publish(p) /\ phase[p] = "edit" /\ StepTo(p, "cleanBak")
      BY <1>2, <2>2 DEF FileStep, LoadStep, ReadLive, ReadBak, StatLive, StatBak, RenameBak,
         Reread, EnsureStat, ReadRaw, WriteStep, DropBak, StatOld, MoveAside, Publish,
         PutBack, CleanBak
    <3> QED  BY <3>1, SoloTypes DEF StepTo
  <2>3. CASE FileStep(p) /\ p \in committed
    <3>1. Past(p) /\ cmd' = cmd /\ Active(p)
      BY <1>0, <2>3, StepShape DEF CommittedInStep
    <3>2. pc[p] = "body"  BY <3>1 DEF Active
    <3>3. CASE LoadStep(p)
      <4>1. phase[p] = "load" /\ cmd[p] = "install"
        BY <1>0, <3>1, <3>3 DEF Coherent, LoadStep, ReadLive, ReadBak, StatLive, StatBak,
           RenameBak, Reread, Performs
      <4>2. Proceed(p) \/ Fails(p) \/ \E t \in Steps : StepTo(p, t)
        BY <1>0, <2>3, StepShape
      <4> QED
        BY <3>1, <4>1, <4>2, RoutineOrder, SoloTypes DEF Proceed, Fails, Fail, FailWith, StepTo
    <3>4. CASE CleanBak(p)
      <4>1. phase[p] = "edit"
        BY <1>0, <3>1, <3>2, <3>4 DEF CleanBak, Performs, Coherent, WritersHold, Held, WriteSteps
      <4> QED  BY <3>1, <3>4, <4>1, RoutineOrder, SoloTypes DEF CleanBak, Proceed
    <3>5. ~(EnsureStat(p) \/ ReadRaw(p) \/ (WriteStep(p) /\ ~CleanBak(p)))
      BY <1>0, <3>1, <3>2 DEF EnsureStat, ReadRaw, WriteStep, DropBak, StatOld, MoveAside,
         Publish, PutBack, Performs, Coherent, WritersHold, Held, WriteSteps
    <3> QED  BY <2>3, <3>3, <3>4, <3>5 DEF FileStep
  <2> QED  BY <2>1, <2>2, <2>3
<1> QED  BY <1>1, <1>2 DEF CommittedInStep

LEMMA SoloInvStep ==
    ASSUME ~Interrupts, SoloLoads, SoloInv, [StoreNext]_vars
    PROVE  SoloInv'
<1>1. StoreInv'
  BY StoreTypeStep, StoreStepIsLockStep, LockInvStep, NeverCaught, CoherentStep,
     RecoverableStep, WritersHoldStep DEF SoloInv, StoreInv, StoreTypeOK
<1>2. ASSUME NEW p \in Process, StoreStep(p) PROVE SoloInv'
  BY <1>1, <1>2, WellFormedStep, MidLoadStep, OneNameStep, EditsTrueStep, CommittedStep
  DEF SoloInv
<1>3. CASE UNCHANGED <<storeVars, pc>>
  BY <1>1, <1>3 DEF SoloInv, storeVars, WellFormed, MidLoad, Active, OneName, EditsTrue,
     CommittedInStep, Current, PutBackFailed
<1>4. UserRepairs \/ StoreQuiescent \/ UNCHANGED vars => UNCHANGED <<storeVars, pc>>
  BY DEF UserRepairs, UserDeletes, StoreQuiescent, vars, lockVars
<1> QED  BY <1>2, <1>3, <1>4 DEF StoreNext

LEMMA SoloInvariant ==
    ASSUME ~Interrupts, SoloLoads
    PROVE  StoreSpec => []SoloInv
<1>1. StoreInit => StoreInv
  BY StoreInitInv
<1>2. StoreInit => SoloInv
  <2> SUFFICES ASSUME StoreInit PROVE SoloInv
    OBVIOUS
  <2>1. WellFormed
    BY InitialAssumption, AbsentFacts DEF StoreInit, WellFormed
  <2>2. MidLoad /\ OneName /\ EditsTrue /\ CommittedInStep
    BY DEF StoreInit, LockInit, MidLoad, OneName, EditsTrue, CommittedInStep
  <2> QED  BY <1>1, <2>1, <2>2 DEF SoloInv
<1>3. SoloInv /\ [StoreNext]_vars => SoloInv'
  BY SoloInvStep
<1> QED  BY <1>2, <1>3, PTL DEF StoreSpec

\* A step of the store is the atomic edit of the process whose rename publishes
\* it, the creation of the default registry, the failure of a put-back or a loss
\* that follows one, or leaves the registry alone.
LEMMA AtomicStep ==
    ASSUME ~Interrupts, SoloLoads, SoloInv, [StoreNext]_vars
    PROVE  [Atomic!Next]_<<Current, PutBackFailed, cmd, committed>>
<1>0. /\ StoreInv /\ WritersHold /\ EditsTrue /\ CommittedInStep
      /\ PutBackFailed \in BOOLEAN /\ PutBackFailed' \in BOOLEAN
      /\ PutBackFailed => PutBackFailed'
  BY PutBackStaysFailed DEF SoloInv, StoreInv, PutBackFailed
<1>1. ASSUME NEW p \in Process, Publish(p)
      PROVE  [Atomic!Next]_<<Current, PutBackFailed, cmd, committed>>
  <2>1. /\ pc[p] = "body" /\ step[p] = "publish" /\ bak' = bak /\ cmd' = cmd
        /\ phase[p] \in {"ensure", "edit"}
    BY <1>1, <1>0, OneWriter DEF Publish, Performs, WriteStep, WritersHold, Held, WriteSteps
  <2>2. PutBackFailed' = PutBackFailed
    <3>1. \A q \in Process : step'[q] = "unrestored" => step[q] = "unrestored"
      BY <1>1, SoloTypes DEF Publish, StepTo
    <3> QED  BY <1>0, <3>1 DEF PutBackFailed
  <2>3. CASE UNCHANGED <<live, committed>>
    BY <2>1, <2>2, <2>3 DEF Current
  <2>4. CASE live' = File(tmp[p]) /\ phase[p] = "edit" /\ committed' = committed \union {p}
    <3>1. p \notin committed
      BY <1>0, <2>1, <2>4 DEF CommittedInStep
    <3>2. Current' = File(tmp[p])
      BY <2>4, AbsentFacts DEF Current
    <3>3. CASE cmd[p] = "restore"
      <4>1. tmp[p] = Atomic!Effect(cmd[p], p, Current.tools)
        BY <1>0, <2>1, <2>4, <3>3 DEF EditsTrue, Atomic!Effect, WriteSteps
      <4> QED  BY <2>1, <2>2, <2>4, <3>1, <3>2, <3>3, <4>1 DEF Atomic!Next, Atomic!Take, File
    <3>4. CASE cmd[p] # "restore"
      <4>1. Current.exists /\ tmp[p] = Atomic!Effect(cmd[p], p, Current.tools)
        BY <1>0, <2>1, <2>4, <3>4 DEF EditsTrue, WriteSteps
      <4> QED  BY <2>1, <2>2, <2>4, <3>1, <3>2, <4>1 DEF Atomic!Next, Atomic!Take, File
    <3> QED  BY <3>3, <3>4
  <2>5. CASE live' = File(tmp[p]) /\ phase[p] # "edit" /\ committed' = committed
    <3>1. /\ tmp[p] = Atomic!Defaults
          /\ ~Current.exists \/ (PutBackFailed /\ cmd[p] = "install")
      BY <1>0, <2>1, <2>5 DEF EditsTrue, WriteSteps
    <3>2. Current' = File(Atomic!Defaults)
      BY <2>5, <3>1, AbsentFacts DEF Current
    <3>3. CASE ~Current.exists
      BY <2>1, <2>2, <2>5, <3>2, <3>3 DEF Atomic!Next, Atomic!Create, File
    <3>4. CASE Current.exists
      BY <2>1, <2>2, <2>5, <3>1, <3>2, <3>4 DEF Atomic!Next, Atomic!Lose, File
    <3> QED  BY <3>3, <3>4
  <2> QED  BY <1>1, <2>3, <2>4, <2>5 DEF Publish
<1>2. ASSUME NEW p \in Process, StoreStep(p), ~Publish(p)
      PROVE  [Atomic!Next]_<<Current, PutBackFailed, cmd, committed>>
  <2>1. cmd' = cmd /\ (Current' = Current \/ Loses(p))
    BY <1>0, <1>2, CurrentKept, StepShape
  <2>2. committed' = committed
    BY <1>2 DEF StoreStep, LoadStep, ReadLive, ReadBak, StatLive, StatBak, RenameBak, Reread,
       EnsureStat, ReadRaw, WriteStep, DropBak, StatOld, MoveAside, PutBack, CleanBak, Ask,
       Enter, Leave, LockOnly, storeVars
  <2>3. CASE Current' = Current
    <3>1. PutBackFailed' = PutBackFailed \/ PutBackFailed' = TRUE
      BY <1>0
    <3> QED  BY <2>1, <2>2, <2>3, <3>1 DEF Atomic!Next, Atomic!Expose
  <2>4. CASE Loses(p)
    <3>1. /\ Current.exists /\ Current' = Absent /\ cmd[p] \in Atomic!WritesUnread
          /\ PutBackFailed /\ PutBackFailed' = PutBackFailed
      BY <1>0, <2>4 DEF Loses
    <3> QED  BY <2>1, <2>2, <3>1 DEF Atomic!Next, Atomic!Lose, Absent
  <2> QED  BY <2>1, <2>3, <2>4
<1>3. CASE UserRepairs \/ StoreQuiescent \/ UNCHANGED vars
  BY <1>3 DEF UserRepairs, StoreQuiescent, vars, storeVars, Current, PutBackFailed
<1> QED  BY <1>1, <1>2, <1>3 DEF StoreNext

\* The files, the recovery of a lock-free load and the steps of WriteFile
\* implement a registry that each command changes once, in one step, from what
\* it holds at that moment, and that only an install or a restore can lose, once
\* a put-back has failed: for any processes, crashes and failing renames and
\* removals, as long as no interrupt comes and loads are not disturbed.
THEOREM StoreImplementsAtomicRegistry ==
    ASSUME ~Interrupts, SoloLoads
    PROVE  StoreSpec => ImplementsAtomicRegistry
<1>1. StoreInit => Atomic!Init
  BY InitialAssumption, AbsentFacts
  DEF StoreInit, Atomic!Init, Current, Absent, File, PutBackFailed
<1>2. SoloInv /\ [StoreNext]_vars
         => [Atomic!Next]_<<Current, PutBackFailed, cmd, committed>>
  BY AtomicStep
<1> QED
  BY <1>1, <1>2, SoloInvariant, PTL DEF StoreSpec, ImplementsAtomicRegistry, Atomic!Spec

\* An add that took effect stays in the registry whatever other commands do
\* after it, unless one of them restores an archive or, after a failed put-back,
\* is one that writes without loading first.
THEOREM AddsAreKept ==
    ASSUME ~Interrupts, SoloLoads
    PROVE  StoreSpec => []NoLostUpdate
<1> DEFINE Spared == PutBackFailed => \A q \in Process : cmd[q] \notin Atomic!WritesUnread
           Kept == (Spared /\ committed # {} => Current.exists) /\ NoLostUpdate
<1>1. StoreInit => Kept
  BY DEF StoreInit, NoLostUpdate
<1>2. SoloInv /\ Kept /\ [StoreNext]_vars => Kept'
  <2> SUFFICES ASSUME SoloInv, Kept, [StoreNext]_vars PROVE Kept'
    OBVIOUS
  <2>0. PutBackFailed => PutBackFailed'
    BY PutBackStaysFailed DEF SoloInv
  <2>1. CASE UNCHANGED <<Current, cmd, committed>>
    BY <2>0, <2>1 DEF NoLostUpdate
  <2>2. CASE Atomic!Create
    BY <2>0, <2>2, AbsentFacts DEF Atomic!Create, NoLostUpdate, File
  <2>3. ASSUME NEW q \in Process, Atomic!Take(q) PROVE Kept'
    <3>1. /\ Current'.exists /\ Current'.tools = Atomic!Effect(cmd[q], q, Current.tools)
          /\ committed' = committed \union {q} /\ cmd' = cmd
      BY <2>3, AbsentFacts DEF Atomic!Take, File
    <3>2. ASSUME NEW p \in committed', cmd[p] = "add", Spared,
                 \A r \in committed' : cmd[r] # "restore"
          PROVE  p \in Current'.tools
      <4>1. cmd[q] # "restore" /\ p \in Process
        BY <3>1, <3>2, StoreTypeStep DEF SoloInv, StoreInv, StoreTypeOK
      <4>2. p = q \/ p \in Current.tools
        BY <3>1, <3>2 DEF NoLostUpdate
      <4> QED  BY <3>1, <3>2, <4>1, <4>2, SectionsAssumption DEF Atomic!Effect
    <3>3. Spared' => Spared
      BY <2>0, <3>1
    <3> QED  BY <3>1, <3>2, <3>3 DEF NoLostUpdate
  <2>4. ASSUME NEW q \in Process, Atomic!Lose(q) PROVE Kept'
    <3>1. /\ PutBackFailed /\ cmd' = cmd
          /\ cmd[q] \in Atomic!WritesUnread
      BY <2>4 DEF Atomic!Lose, Atomic!WritesUnread
    <3> QED  BY <2>0, <3>1 DEF NoLostUpdate
  <2> QED  BY <2>1, <2>2, <2>3, <2>4, AtomicStep DEF Atomic!Next, Atomic!Expose
<1> QED  BY <1>1, <1>2, SoloInvariant, PTL DEF StoreSpec

\* A load that is not disturbed returns what the registry holds at that moment,
\* recovered from the backup where the file is missing, and the defaults only
\* where there is neither.
THEOREM LoadsAreCurrent ==
    ASSUME ~Interrupts, SoloLoads
    PROVE  StoreSpec => LoadsSeeCurrent
<1> DEFINE Holds == IF Current.exists THEN Current.tools ELSE Atomic!Defaults
           Sees(p) == got'[p] # got[p] /\ got'[p].from # "error" => got'[p].tools = Holds
<1>1. ASSUME SoloInv, [StoreNext]_vars PROVE [\A p \in Process : Sees(p)]_vars
  <2> HIDE DEF Holds
  <2>0. /\ got \in [Process -> GotTypes] /\ MidLoad
        /\ Holds = IF live.exists THEN live.tools
                   ELSE IF bak.exists THEN bak.tools ELSE Atomic!Defaults
    BY <1>1 DEF SoloInv, StoreInv, StoreTypeOK, GotTypes, Current, Holds
  <2>1. ASSUME NEW q \in Process, LoadStep(q) PROVE \A p \in Process : Sees(p)
    <3>1. /\ \A from : LoadReturns(q, from, Holds) => \A p \in Process : Sees(p)
          /\ LoadFails(q) => \A p \in Process : Sees(p)
          /\ got' = got => \A p \in Process : Sees(p)
      BY <2>0 DEF LoadReturns, LoadFails, Error
    <3> HIDE DEF Sees
    <3>2. CASE ReadLive(q)
      BY <2>0, <3>1, <3>2 DEF ReadLive
    <3>3. CASE ReadBak(q) \/ StatLive(q) \/ StatBak(q)
      <4>1. ~live.exists
        BY <2>0, <3>3 DEF ReadBak, StatLive, StatBak, Performs, MidLoad
      <4> QED  BY <2>0, <3>1, <3>3, <4>1 DEF ReadBak, StatLive, StatBak
    <3>4. CASE RenameBak(q) \/ Reread(q)
      BY <2>0, <3>1, <3>4 DEF RenameBak, Reread
    <3> QED  BY <2>1, <3>2, <3>3, <3>4 DEF LoadStep
  <2>2. ASSUME NEW q \in Process, StoreStep(q), ~LoadStep(q) PROVE got' = got
    BY <2>2 DEF StoreStep, EnsureStat, ReadRaw, WriteStep, DropBak, StatOld, MoveAside,
       Publish, PutBack, CleanBak, Ask, Enter, Leave, LockOnly, storeVars
  <2>3. UserRepairs \/ StoreQuiescent \/ UNCHANGED vars => got' = got
    BY DEF UserRepairs, StoreQuiescent, vars, storeVars
  <2> QED  BY <1>1, <2>1, <2>2, <2>3 DEF StoreNext
<1> QED  BY <1>1, SoloInvariant, PTL DEF StoreSpec, LoadsSeeCurrent
=============================================================================
