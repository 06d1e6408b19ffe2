---------------------------- MODULE MutationLock ----------------------------
(***************************************************************************)
(* The registry mutation lock of container-bin: an exclusive lock file     *)
(* (internal/mutationlock) and the wrapper in main.go that holds it around *)
(* every mutating command, releases it on return, and releases it from a   *)
(* second goroutine when the user interrupts the command.                  *)
(*                                                                         *)
(* A Process is one invocation of cb.  It acquires the lock at most once,  *)
(* so the unique token in the line it writes is the process itself.        *)
(***************************************************************************)
EXTENDS FiniteSets

CONSTANTS
    Process,     \* invocations of mutating commands
    Interrupts,  \* the user may press Ctrl-C
    Crashes,     \* a process may be killed, or the machine may stop
    IOFaults,    \* a file operation on the lock file may fail
    ManualDelete \* the user may delete a lock file left behind, as told to

ASSUME SwitchesAssumption ==
    /\ Interrupts \in BOOLEAN
    /\ Crashes \in BOOLEAN
    /\ IOFaults \in BOOLEAN
    /\ ManualDelete \in BOOLEAN

VARIABLES
    lock,  \* the lock file: who created it, and whether its line is written
    pc,    \* where the main goroutine of each process is
    sig,   \* the interrupt goroutine: off, watching for a signal, or caught one
    once   \* progress of the release function, which sync.Once runs once;
           \* "gaveUp" when a failing call made it leave the file

lockVars == <<lock, pc, sig, once>>

NoFile == [creator |-> {}, written |-> FALSE]
LockFile == [creator : {{p} : p \in Process}, written : BOOLEAN]
Created(p) == [creator |-> {p}, written |-> FALSE]
LineOf(p) == [creator |-> {p}, written |-> TRUE]
Exists == lock # NoFile

Inside == {"body", "unwind"}
Holding == {"opened", "acquired"} \union Inside
Running == {"acquiring"} \union Holding
Over == {"spent", "gaveUp"}
Ended == {"refused", "failed", "returned", "interrupted", "killed"}

LockInit ==
    /\ lock = NoFile
    /\ pc = [p \in Process |-> "start"]
    /\ sig = [p \in Process |-> "off"]
    /\ once = [p \in Process |-> "fresh"]

Goto(p, from, to) == pc[p] = from /\ pc' = [pc EXCEPT ![p] = to]

-----------------------------------------------------------------------------
(* Acquire *)

StartAcquire(p) ==
    /\ Goto(p, "start", "acquiring")
    /\ UNCHANGED <<lock, sig, once>>

Mutant_CreateLockFile(p) ==  \* O_EXCL forgotten: the file is opened and shared
    /\ Goto(p, "acquiring", "opened")
    /\ lock' = [lock EXCEPT !.creator = @ \union {p}]
    /\ UNCHANGED <<sig, once>>

\* O_CREATE|O_EXCL succeeds only when there is no file.
CreateLockFile(p) ==
    /\ Goto(p, "acquiring", "opened")
    /\ ~Exists
    /\ lock' = Created(p)
    /\ UNCHANGED <<sig, once>>

Mutant_RefuseNever(p) ==  \* no limit on the wait
    /\ Goto(p, "acquiring", "acquiring")
    /\ Exists
    /\ UNCHANGED <<lock, sig, once>>

Mutant_RefuseSteals(p) ==  \* a lock older than the wait is taken for stale
    /\ Goto(p, "acquiring", "acquiring")
    /\ Exists
    /\ lock' = NoFile
    /\ UNCHANGED <<sig, once>>

\* The file still exists when the wait is over; the retries before that
\* change nothing.
Refuse(p) ==
    /\ Goto(p, "acquiring", "refused")
    /\ Exists
    /\ UNCHANGED <<lock, sig, once>>

\* Any other error of the create ends the command at once.
CreateFails(p) ==
    /\ IOFaults
    /\ Goto(p, "acquiring", "failed")
    /\ UNCHANGED <<lock, sig, once>>

\* The line goes through the open handle: it reaches the file under the lock's
\* name only while that file is still the one this process created.
WriteLine(p) ==
    /\ Goto(p, "opened", "acquired")
    /\ lock' = IF lock = Created(p) THEN LineOf(p) ELSE lock
    /\ UNCHANGED <<sig, once>>

\* When the token, the write or the close fails the name is removed; the error
\* of that removal is ignored.
WriteLineFails(p) ==
    /\ IOFaults
    /\ Goto(p, "opened", "failed")
    /\ \/ lock' = NoFile /\ once' = once
       \/ lock' = lock /\ once' = [once EXCEPT ![p] = "gaveUp"]
    /\ UNCHANGED sig

-----------------------------------------------------------------------------
(* withMutationLock *)

WatchInterrupt(p) ==
    /\ Goto(p, "acquired", "body")
    /\ sig' = [sig EXCEPT ![p] = "watching"]
    /\ UNCHANGED <<lock, once>>

\* fn has returned: signal.Stop and close(done), the first deferred call to run.
\* A signal already caught stays with the interrupt goroutine.
FinishBody(p) ==
    /\ Goto(p, "body", "unwind")
    /\ sig' = [sig EXCEPT ![p] = IF @ = "watching" THEN "off" ELSE @]
    /\ UNCHANGED <<lock, once>>

Interrupt(p) ==
    /\ Interrupts
    /\ pc[p] \in Inside
    /\ sig[p] = "watching"
    /\ sig' = [sig EXCEPT ![p] = "caught"]
    /\ UNCHANGED <<lock, pc, once>>

\* Both goroutines may call the release function.
Releasing(p) == pc[p] = "unwind" \/ (pc[p] = "body" /\ sig[p] = "caught")

CompareLine(p) ==
    /\ Releasing(p)
    /\ once[p] = "fresh"
    /\ \/ once' = [once EXCEPT ![p] = IF lock = LineOf(p) THEN "remove" ELSE "spent"]
       \/ IOFaults /\ once' = [once EXCEPT ![p] = "gaveUp"]
    /\ UNCHANGED <<lock, pc, sig>>

\* os.Remove unlinks whatever bears the name now; its error is ignored.
RemoveLockFile(p) ==
    /\ Releasing(p)
    /\ once[p] = "remove"
    /\ \/ lock' = NoFile /\ once' = [once EXCEPT ![p] = "spent"]
       \/ IOFaults /\ lock' = lock /\ once' = [once EXCEPT ![p] = "gaveUp"]
    /\ UNCHANGED <<pc, sig>>

Return(p) ==
    /\ Goto(p, "unwind", "returned")
    /\ once[p] \in Over
    /\ UNCHANGED <<lock, sig, once>>

Mutant_ExitInterrupted(p) ==  \* the handler exits without releasing
    /\ pc[p] \in Inside
    /\ sig[p] = "caught"
    /\ pc' = [pc EXCEPT ![p] = "interrupted"]
    /\ UNCHANGED <<lock, sig, once>>

\* osExit(130), while fn may still be running in the main goroutine.
ExitInterrupted(p) ==
    /\ pc[p] \in Inside
    /\ sig[p] = "caught"
    /\ once[p] \in Over
    /\ pc' = [pc EXCEPT ![p] = "interrupted"]
    /\ UNCHANGED <<lock, sig, once>>

-----------------------------------------------------------------------------
(* Environment *)

\* A crash, or an interrupt that finds no handler registered.
Kill(p) ==
    /\ Crashes \/ (Interrupts /\ sig[p] = "off")
    /\ pc[p] \in Running
    /\ pc' = [pc EXCEPT ![p] = "killed"]
    /\ UNCHANGED <<lock, sig, once>>

\* "delete the file if no cb process is running"
UserDeletes ==
    /\ ManualDelete
    /\ Exists
    /\ \A p \in Process : pc[p] \notin Running
    /\ lock' = NoFile
    /\ UNCHANGED <<pc, sig, once>>

Quiescent ==
    /\ \A p \in Process : pc[p] \in Ended
    /\ UNCHANGED lockVars

AcquireStep(p) == CreateLockFile(p) \/ Refuse(p) \/ CreateFails(p)
LineStep(p) == WriteLine(p) \/ WriteLineFails(p)
ReleaseStep(p) == CompareLine(p) \/ RemoveLockFile(p) \/ Return(p) \/ ExitInterrupted(p)

LockStep(p) ==
    \/ StartAcquire(p)
    \/ AcquireStep(p)
    \/ LineStep(p)
    \/ WatchInterrupt(p)
    \/ FinishBody(p)
    \/ Interrupt(p)
    \/ ReleaseStep(p)
    \/ Kill(p)

LockNext == (\E p \in Process : LockStep(p)) \/ UserDeletes \/ Quiescent

LockSpec == LockInit /\ [][LockNext]_lockVars

(***************************************************************************)
(* The scheduler runs every goroutine that can run; nothing has to fail.   *)
(* Acquire either finds the name free or, after its 5 seconds, gives up,   *)
(* so one of the two is always enabled; that fn itself ends is assumed.    *)
(***************************************************************************)
LockFairness ==
    \A p \in Process :
        /\ WF_lockVars(CreateLockFile(p) \/ Refuse(p))
        /\ WF_lockVars(WriteLine(p))
        /\ WF_lockVars(WatchInterrupt(p))
        /\ WF_lockVars(FinishBody(p))
        /\ WF_lockVars(ReleaseStep(p))

FairLockSpec == LockSpec /\ LockFairness

-----------------------------------------------------------------------------
(* Properties *)

\* Every variable keeps its type.
LockTypeOK ==
    /\ lock \in LockFile \union {NoFile}
    /\ pc \in [Process -> {"start"} \union Running \union Ended]
    /\ sig \in [Process -> {"off", "watching", "caught"}]
    /\ once \in [Process -> {"fresh", "remove"} \union Over]

Uninterrupted(p) == pc[p] = "body" /\ sig[p] = "watching"

\* At most one command that has not been interrupted runs its critical section
\* at a time, whatever crashes, interrupts, failing writes and manual deletions
\* happened before (Acquire, release, withMutationLock).
UninterruptedExclusion ==
    \A p, q \in Process : Uninterrupted(p) /\ Uninterrupted(q) => p = q

\* Of all commands still running their critical section at most one has not
\* given the lock back: the same for interrupted commands whose handler has
\* not removed the file yet.
LockedExclusion ==
    \A p, q \in Process :
        (/\ pc[p] \in Inside /\ once[p] \notin Over
         /\ pc[q] \in Inside /\ once[q] \notin Over) => p = q

\* At most one command runs its critical section (docs/architecture.md: the
\* mutating commands "hold the lock across their whole read-modify-write
\* sequence").
MutualExclusion ==
    \A p, q \in Process : pc[p] = "body" /\ pc[q] = "body" => p = q

\* No step takes the lock file away from an uninterrupted command in its
\* critical section, neither another command's release nor a failed acquire.
NeverRobbed ==
    [][\A p \in Process :
          Uninterrupted(p) /\ Uninterrupted(p)' => lock' = lock]_lockVars

\* A command that returned, was refused or was interrupted in its critical
\* section leaves no lock file behind: only a killed one does, or one whose
\* release met a failing file operation.
OnlyKilledLeaveLock ==
    \A p \in Process :
        p \in lock.creator =>
            pc[p] \in Holding \union {"killed"} \/ once[p] = "gaveUp"

\* Every command that asks for the lock ends: the wait is bounded, and no
\* goroutine waits for another one for ever.
EveryCommandEnds == \A p \in Process : pc[p] = "acquiring" ~> pc[p] \in Ended
=============================================================================
