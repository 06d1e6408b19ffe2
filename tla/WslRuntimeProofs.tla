--------------------------- MODULE WslRuntimeProofs ---------------------------
(***************************************************************************)
(* Proofs about native-WSL runs and reconciliation, for any number of      *)
(* runs, cleanups and checks, with crashes and failing requests.           *)
(***************************************************************************)
EXTENDS WslRuntime, TLAPS

NotYet == {"begin", "passed", "abandon", "create"} \union InPass
Locked == {"letGo", "attach", "start", "session", "kill", "await"}
AfterUse == {"reacquire", "retire", "unlock", "giveBack"} \union Over
Steps == NotYet \union Publishing \union Locked \union {"inspect", "delete"} \union AfterUse
Boxes == Present \union Gone

\* RuntimeTypeOK, with the steps of a process in the order of a run.
TypeInv ==
    /\ box \in [Runner -> Boxes]
    /\ wire \subseteq Request
    /\ coord \in Holder
    /\ path \subseteq Runner
    /\ flock \in [Runner -> Holder]
    /\ pc \in [Process -> Steps]
    /\ todo \subseteq Runner /\ names \subseteq Runner /\ target \subseteq Runner
    /\ running \subseteq Runner /\ orphans \subseteq Runner /\ residue \subseteq Runner
    /\ owed \subseteq Runner

\* A lock taken or dropped is still held by nobody or by one process.
LEMMA HolderTypes ==
    /\ {} \in Holder
    /\ \A p \in Process : {p} \in Holder
    /\ \A h \in Holder, p \in Process : h \ {p} \in Holder
BY DEF Holder

\* The Engine leaves a container in one of its states.
LEMMA DoTypes ==
    ASSUME box \in [Runner -> Boxes], NEW kind, NEW c \in Runner, Do(kind, c)
    PROVE  box' \in [Runner -> Boxes]
<1>1. \A b \in Boxes : After(kind, b) \in Boxes
  BY DEF After, Boxes, Present, Gone, Live, Stopped
<1> QED  BY <1>1 DEF Do

\* Only the requests of the protocol are sent.
LEMMA UnansweredTypes ==
    ASSUME wire \subseteq Request, NEW p, Unanswered(p)
    PROVE  wire' \subseteq Request
BY DEF Unanswered, Submitted

Kinds == {"create", "start", "kill", "delete"}

\* A request is a kind and a container.
LEMMA RequestTypes ==
    \A r \in Request : r[1] \in Kinds /\ r[2] \in Runner /\ r = <<r[1], r[2]>>
BY DEF Request, Kinds

\* A runner is a process.
LEMMA RunnerIsProcess == Runner \subseteq Process
BY DEF Process

\* Every step keeps the types.
LEMMA TypeStep == TypeInv /\ [RuntimeNext]_vars => TypeInv'
<1> SUFFICES ASSUME TypeInv, [RuntimeNext]_vars PROVE TypeInv'
  OBVIOUS
<1> USE RunnerIsProcess DEF TypeInv, Goto, pass
<1> USE DEF Steps, NotYet, Publishing, Locked, AfterUse, Over, InPass
<1>1. ASSUME NEW p \in Process, AcquireCoordinator(p) \/ AcquireFails(p)
               \/ GiveCoordinatorBack(p)
      PROVE  TypeInv'
  BY <1>1, HolderTypes DEF AcquireCoordinator, AcquireFails, GiveCoordinatorBack
<1>2. ASSUME NEW p \in Process, Discover(p) \/ EnumerateLeases(p) \/ Prove(p)
               \/ SkipVanished(p) \/ AllProved(p) \/ AllProbed(p)
      PROVE  TypeInv'
  BY <1>2 DEF Discover, EnumerateLeases, Prove, SkipVanished, AllProved, AllProbed
<1>3. ASSUME NEW p \in Process, ProbeLease(p) \/ ProbeDetachedLease(p)
      PROVE  TypeInv'
  BY <1>3, HolderTypes DEF ProbeLease, ProbeDetachedLease, TakeLock
<1>4. ASSUME NEW p \in Process, NextOrphan(p) \/ AllSwept(p) \/ UnlinkLease(p)
               \/ ReapLease(p) \/ AllReaped(p)
      PROVE  TypeInv'
  BY <1>4 DEF NextOrphan, AllSwept, UnlinkLease, ReapLease, AllReaped
<1>5. ASSUME NEW p \in Process, StopOrphan(p) \/ PurgeOrphan(p)
      PROVE  TypeInv'
  BY <1>5, DoTypes DEF StopOrphan, PurgeOrphan
<1>6. ASSUME NEW p \in Process, WaitOrphan(p) \/ WaitTimesOut(p) \/ CheckOrphan(p)
      PROVE  TypeInv'
  BY <1>6 DEF WaitOrphan, WaitTimesOut, CheckOrphan
<1>7. ASSUME NEW p \in Process, EndPass(p) \/ AbandonPass(p)
      PROVE  TypeInv'
  BY <1>7, HolderTypes DEF EndPass, AbandonPass, DropProbedLocks
<1>8. ASSUME NEW p \in Process, PassFails(p)
      PROVE  TypeInv'
  BY <1>8, UnansweredTypes DEF PassFails
<1>9. ASSUME NEW p \in Runner, CreateContainer(p) \/ StartContainer(p) \/ KillOwn(p)
      PROVE  TypeInv'
  BY <1>9, DoTypes DEF CreateContainer, StartContainer, KillOwn
<1>10. ASSUME NEW p \in Runner, DeleteOwn(p)
      PROVE  TypeInv'
  BY <1>10, DoTypes DEF DeleteOwn, ToClose
<1>11. ASSUME NEW p \in Runner, OpenLease(p) \/ LeaseFails(p) \/ RetireLease(p)
      PROVE  TypeInv'
  BY <1>11 DEF OpenLease, LeaseFails, RetireLease
<1>12. ASSUME NEW p \in Runner, LockLease(p) \/ UnlockLease(p)
      PROVE  TypeInv'
  BY <1>12, HolderTypes DEF LockLease, UnlockLease
<1>13. ASSUME NEW p \in Runner, LetCoordinatorGo(p) \/ Attach(p) \/ Reacquire(p)
               \/ ReacquireTimesOut(p)
      PROVE  TypeInv'
  BY <1>13, HolderTypes DEF LetCoordinatorGo, Attach, Reacquire, ReacquireTimesOut
<1>14. ASSUME NEW p \in Runner, SessionEnds(p) \/ SessionFails(p) \/ AwaitOwn(p)
      PROVE  TypeInv'
  BY <1>14 DEF SessionEnds, SessionFails, AwaitOwn
<1>15. ASSUME NEW p \in Runner, InspectOwn(p)
      PROVE  TypeInv'
  BY <1>15 DEF InspectOwn, ToClose
<1>16. ASSUME NEW p \in Runner, StartFails(p) \/ KillOwnFails(p)
      PROVE  TypeInv'
  BY <1>16, UnansweredTypes DEF StartFails, KillOwnFails
<1>17. ASSUME NEW p \in Runner, RemoveOwnFails(p)
      PROVE  TypeInv'
  BY <1>17, UnansweredTypes DEF RemoveOwnFails, ToClose
<1>18. ASSUME NEW p \in Runner, CreateFails(p)
      PROVE  TypeInv'
  <2>1. <<"delete", p>> \in Request  BY DEF Request
  <2>2. "removed" \in Boxes  BY DEF Boxes, Gone
  <2> QED  BY <1>18, <2>1, <2>2, DoTypes, UnansweredTypes DEF CreateFails
<1>19. ASSUME NEW p \in Process, Crash(p)
      PROVE  TypeInv'
  BY <1>19, HolderTypes, UnansweredTypes DEF Crash, DropProbedLocks
<1>20. ASSUME NEW c \in Runner, ToolExits(c) \/ KilledContainerDies(c)
      PROVE  TypeInv'
  BY <1>20 DEF ToolExits, KilledContainerDies, Boxes, Present, Stopped
<1>21. ASSUME Deliver PROVE TypeInv'
  BY <1>21, DoTypes, RequestTypes DEF Deliver
<1>22. ASSUME UNCHANGED vars PROVE TypeInv'
  BY <1>22 DEF vars
<1> QED
  BY <1>1, <1>2, <1>3, <1>4, <1>5, <1>6, <1>7, <1>8, <1>9, <1>10, <1>11, <1>12, <1>13, <1>14,
      <1>15, <1>16, <1>17, <1>18, <1>19, <1>20, <1>21, <1>22
  DEF RuntimeNext, Progress, Failure, Reconcile, Execute, CleanUp, Quiescent

\* The variables start with their types.
LEMMA TypeInit == RuntimeInit => TypeInv
BY RunnerIsProcess DEF RuntimeInit, TypeInv, Holder, Boxes, Gone, Steps, NotYet

\* Every variable keeps its type in every run.
THEOREM RuntimeTypeCorrect == RuntimeSpec => []RuntimeTypeOK
<1>1. TypeInv => RuntimeTypeOK
  BY DEF TypeInv, RuntimeTypeOK, Boxes, Steps, NotYet, Locked, AfterUse, Cleaning, Publishing
<1> QED  BY <1>1, TypeInit, TypeStep, PTL DEF RuntimeSpec

-----------------------------------------------------------------------------
(* The coordinator, the leases, and who is reconciled *)

HoldsCoordinator == InPass \union {"passed", "abandon", "create", "retire", "giveBack"} \union Publishing

\* A process in a pass, or between its pass and its lease, holds the coordinator.
CoordinatorHeld == \A p \in Process : pc[p] \in HoldsCoordinator => coord = {p}

\* Before a run asks for its container there is none, no lease and no request.
NothingBefore ==
    /\ \A c \in Runner : pc[c] \in NotYet => box[c] = "absent"
    /\ \A c \in Runner : pc[c] \in NotYet \union {"adopt"} => c \notin path
    /\ \A kind \in Kinds, c \in Runner : <<kind, c>> \in wire => pc[c] \notin NotYet

\* A run has its lease locked from its publication to its own Close, except
\* after a failed Adopt, when it holds the coordinator instead.
LeaseHeld ==
    \A c \in Runner :
        /\ pc[c] = "lockLease" => c \in path
        /\ pc[c] \in Locked => flock[c] = {c} /\ c \in path
        /\ pc[c] \in {"inspect", "delete"} => coord = {c} \/ (flock[c] = {c} /\ c \in path)
        /\ pc[c] \in {"reacquire", "retire", "unlock"} => flock[c] = {c}

\* What a pass removes belongs to runs that no longer use it.
OrphansAbandoned ==
    /\ \A c \in orphans \union residue : pc[c] \in AfterUse
    /\ \A p \in Process :
          /\ pc[p] = "probe" => \A c \in target : pc[c] \notin NotYet
          /\ pc[p] \in {"stop", "waitStop", "check", "purge", "unlink"} => target \subseteq orphans

\* Requests to kill or to remove are sent by the run's own cleanup or later.
LateRequests ==
    \A kind \in {"kill", "delete"}, c \in Runner :
        <<kind, c>> \in wire => pc[c] \in Cleaning \union AfterUse

RuntimeInv ==
    /\ TypeInv
    /\ CoordinatorHeld
    /\ NothingBefore
    /\ LeaseHeld
    /\ OrphansAbandoned
    /\ LateRequests

\* Nothing is held, listed or sent initially.
LEMMA InvInit == RuntimeInit => RuntimeInv
BY TypeInit, RunnerIsProcess
DEF RuntimeInit, RuntimeInv, CoordinatorHeld, NothingBefore, LeaseHeld, OrphansAbandoned,
    LateRequests,
    HoldsCoordinator, InPass, Publishing, Locked, NotYet

\* The coordinator stays with its holder through a pass and a publication.
LEMMA CoordinatorStep == RuntimeInv /\ [RuntimeNext]_vars => CoordinatorHeld'
<1> SUFFICES ASSUME RuntimeInv, [RuntimeNext]_vars PROVE CoordinatorHeld'
  OBVIOUS
<1> USE RunnerIsProcess DEF RuntimeInv, TypeInv, Goto, pass, CoordinatorHeld
<1> USE DEF Steps, NotYet, Publishing, Locked, AfterUse, Over, InPass, HoldsCoordinator
<1>1. ASSUME NEW p \in Process, AcquireCoordinator(p) \/ AcquireFails(p)
               \/ GiveCoordinatorBack(p)
      PROVE  CoordinatorHeld'
  BY <1>1 DEF AcquireCoordinator, AcquireFails, GiveCoordinatorBack
<1>2. ASSUME NEW p \in Process, Discover(p) \/ EnumerateLeases(p) \/ Prove(p)
               \/ SkipVanished(p) \/ AllProved(p) \/ AllProbed(p)
      PROVE  CoordinatorHeld'
  BY <1>2 DEF Discover, EnumerateLeases, Prove, SkipVanished, AllProved, AllProbed
<1>3. ASSUME NEW p \in Process, ProbeLease(p) \/ ProbeDetachedLease(p)
      PROVE  CoordinatorHeld'
  BY <1>3 DEF ProbeLease, ProbeDetachedLease, TakeLock, ActiveLeases, OrphanedLeases
<1>4. ASSUME NEW p \in Process, NextOrphan(p) \/ AllSwept(p) \/ UnlinkLease(p)
               \/ ReapLease(p) \/ AllReaped(p)
      PROVE  CoordinatorHeld'
  BY <1>4 DEF NextOrphan, AllSwept, UnlinkLease, ReapLease, AllReaped
<1>5. ASSUME NEW p \in Process, StopOrphan(p) \/ PurgeOrphan(p)
      PROVE  CoordinatorHeld'
  BY <1>5 DEF StopOrphan, PurgeOrphan, Do, After
<1>6. ASSUME NEW p \in Process, WaitOrphan(p) \/ WaitTimesOut(p) \/ CheckOrphan(p)
      PROVE  CoordinatorHeld'
  BY <1>6 DEF WaitOrphan, WaitTimesOut, CheckOrphan
<1>7. ASSUME NEW p \in Process, EndPass(p) \/ AbandonPass(p)
      PROVE  CoordinatorHeld'
  BY <1>7 DEF EndPass, AbandonPass, DropProbedLocks
<1>8. ASSUME NEW p \in Process, PassFails(p)
      PROVE  CoordinatorHeld'
  BY <1>8 DEF PassFails, Unanswered, Submitted, Request
<1>9. ASSUME NEW p \in Process, Crash(p)
      PROVE  CoordinatorHeld'
  BY <1>9 DEF Crash, DropProbedLocks, Unanswered, Submitted, Request
<1>10. ASSUME NEW p \in Runner, CreateContainer(p) \/ StartContainer(p) \/ KillOwn(p)
               \/ DeleteOwn(p)
      PROVE  CoordinatorHeld'
  BY <1>10 DEF CreateContainer, StartContainer, KillOwn, DeleteOwn, Do, After, ToClose,
      LeaseHeld
<1>11. ASSUME NEW p \in Runner, OpenLease(p) \/ LeaseFails(p) \/ RetireLease(p)
               \/ LockLease(p) \/ UnlockLease(p)
      PROVE  CoordinatorHeld'
  BY <1>11 DEF OpenLease, LeaseFails, RetireLease, LockLease, UnlockLease
<1>12. ASSUME NEW p \in Runner, LetCoordinatorGo(p) \/ Attach(p) \/ Reacquire(p)
               \/ ReacquireTimesOut(p)
      PROVE  CoordinatorHeld'
  BY <1>12 DEF LetCoordinatorGo, Attach, Reacquire, ReacquireTimesOut
<1>13. ASSUME NEW p \in Runner, SessionEnds(p) \/ SessionFails(p) \/ AwaitOwn(p)
               \/ InspectOwn(p)
      PROVE  CoordinatorHeld'
  BY <1>13 DEF SessionEnds, SessionFails, AwaitOwn, InspectOwn, ToClose, LeaseHeld
<1>14. ASSUME NEW p \in Runner, CreateFails(p)
      PROVE  CoordinatorHeld'
  BY <1>14 DEF CreateFails, Unanswered, Submitted, Request, Do, After
<1>15. ASSUME NEW p \in Runner, StartFails(p) \/ KillOwnFails(p) \/ RemoveOwnFails(p)
      PROVE  CoordinatorHeld'
  BY <1>15 DEF StartFails, KillOwnFails, RemoveOwnFails, Unanswered, Submitted, Request,
      ToClose, LeaseHeld
<1>16. ASSUME NEW c \in Runner, ToolExits(c) \/ KilledContainerDies(c)
      PROVE  CoordinatorHeld'
  BY <1>16 DEF ToolExits, KilledContainerDies
<1>17. ASSUME Deliver PROVE CoordinatorHeld'
  BY <1>17, RequestTypes DEF Deliver, Do, After
<1>18. ASSUME UNCHANGED vars PROVE CoordinatorHeld'
  BY <1>18 DEF vars
<1> QED
  BY <1>1, <1>2, <1>3, <1>4, <1>5, <1>6, <1>7, <1>8, <1>9, <1>10, <1>11, <1>12, <1>13, <1>14,
      <1>15, <1>16, <1>17, <1>18
  DEF RuntimeNext, Progress, Failure, Reconcile, Execute, CleanUp, Quiescent

\* Only a run asks for its container and its lease, after its own pass.
LEMMA NothingBeforeStep == RuntimeInv /\ [RuntimeNext]_vars => NothingBefore'
<1> SUFFICES ASSUME RuntimeInv, [RuntimeNext]_vars PROVE NothingBefore'
  OBVIOUS
<1> USE RunnerIsProcess DEF RuntimeInv, TypeInv, Goto, pass, NothingBefore
<1> USE DEF Steps, NotYet, Publishing, Locked, AfterUse, Over, InPass, Kinds
<1>1. ASSUME NEW p \in Process, AcquireCoordinator(p) \/ AcquireFails(p)
               \/ GiveCoordinatorBack(p)
      PROVE  NothingBefore'
  BY <1>1 DEF AcquireCoordinator, AcquireFails, GiveCoordinatorBack
<1>2. ASSUME NEW p \in Process, Discover(p) \/ EnumerateLeases(p) \/ Prove(p)
               \/ SkipVanished(p) \/ AllProved(p) \/ AllProbed(p)
      PROVE  NothingBefore'
  BY <1>2 DEF Discover, EnumerateLeases, Prove, SkipVanished, AllProved, AllProbed
<1>3. ASSUME NEW p \in Process, ProbeLease(p) \/ ProbeDetachedLease(p)
      PROVE  NothingBefore'
  BY <1>3 DEF ProbeLease, ProbeDetachedLease, TakeLock, ActiveLeases, OrphanedLeases
<1>4. ASSUME NEW p \in Process, NextOrphan(p) \/ AllSwept(p) \/ UnlinkLease(p)
               \/ ReapLease(p) \/ AllReaped(p)
      PROVE  NothingBefore'
  BY <1>4 DEF NextOrphan, AllSwept, UnlinkLease, ReapLease, AllReaped
<1>5. ASSUME NEW p \in Process, StopOrphan(p) \/ PurgeOrphan(p)
      PROVE  NothingBefore'
  BY <1>5 DEF StopOrphan, PurgeOrphan, Do, After, OrphansAbandoned
<1>6. ASSUME NEW p \in Process, WaitOrphan(p) \/ WaitTimesOut(p) \/ CheckOrphan(p)
      PROVE  NothingBefore'
  BY <1>6 DEF WaitOrphan, WaitTimesOut, CheckOrphan
<1>7. ASSUME NEW p \in Process, EndPass(p) \/ AbandonPass(p)
      PROVE  NothingBefore'
  BY <1>7 DEF EndPass, AbandonPass, DropProbedLocks
<1>8. ASSUME NEW p \in Process, PassFails(p)
      PROVE  NothingBefore'
  BY <1>8 DEF PassFails, Unanswered, Submitted, Request, OrphansAbandoned
<1>9. ASSUME NEW p \in Process, Crash(p)
      PROVE  NothingBefore'
  BY <1>9 DEF Crash, DropProbedLocks, Unanswered, Submitted, Request, OrphansAbandoned
<1>10. ASSUME NEW p \in Runner, CreateContainer(p) \/ StartContainer(p) \/ KillOwn(p)
               \/ DeleteOwn(p)
      PROVE  NothingBefore'
  BY <1>10 DEF CreateContainer, StartContainer, KillOwn, DeleteOwn, Do, After, ToClose
<1>11. ASSUME NEW p \in Runner, OpenLease(p) \/ LeaseFails(p) \/ RetireLease(p)
               \/ LockLease(p) \/ UnlockLease(p)
      PROVE  NothingBefore'
  BY <1>11 DEF OpenLease, LeaseFails, RetireLease, LockLease, UnlockLease
<1>12. ASSUME NEW p \in Runner, LetCoordinatorGo(p) \/ Attach(p) \/ Reacquire(p)
               \/ ReacquireTimesOut(p)
      PROVE  NothingBefore'
  BY <1>12 DEF LetCoordinatorGo, Attach, Reacquire, ReacquireTimesOut
<1>13. ASSUME NEW p \in Runner, SessionEnds(p) \/ SessionFails(p) \/ AwaitOwn(p)
               \/ InspectOwn(p)
      PROVE  NothingBefore'
  BY <1>13 DEF SessionEnds, SessionFails, AwaitOwn, InspectOwn, ToClose
<1>14. ASSUME NEW p \in Runner, CreateFails(p)
      PROVE  NothingBefore'
  BY <1>14 DEF CreateFails, Unanswered, Submitted, Request, Do, After
<1>15. ASSUME NEW p \in Runner, StartFails(p) \/ KillOwnFails(p) \/ RemoveOwnFails(p)
      PROVE  NothingBefore'
  BY <1>15 DEF StartFails, KillOwnFails, RemoveOwnFails, Unanswered, Submitted, Request,
      ToClose
<1>16. ASSUME NEW c \in Runner, ToolExits(c) \/ KilledContainerDies(c)
      PROVE  NothingBefore'
  BY <1>16 DEF ToolExits, KilledContainerDies
<1>17. ASSUME Deliver PROVE NothingBefore'
  BY <1>17, RequestTypes DEF Deliver, Do, After
<1>18. ASSUME UNCHANGED vars PROVE NothingBefore'
  BY <1>18 DEF vars
<1> QED
  BY <1>1, <1>2, <1>3, <1>4, <1>5, <1>6, <1>7, <1>8, <1>9, <1>10, <1>11, <1>12, <1>13, <1>14,
      <1>15, <1>16, <1>17, <1>18
  DEF RuntimeNext, Progress, Failure, Reconcile, Execute, CleanUp, Quiescent

\* A run keeps its lease locked: a pass only takes locks that are free.
LEMMA LeaseStep == RuntimeInv /\ [RuntimeNext]_vars => LeaseHeld'
<1> SUFFICES ASSUME RuntimeInv, [RuntimeNext]_vars PROVE LeaseHeld'
  OBVIOUS
<1> USE RunnerIsProcess DEF RuntimeInv, TypeInv, Goto, pass, LeaseHeld
<1> USE DEF Steps, NotYet, Publishing, Locked, AfterUse, Over, InPass, HoldsCoordinator,
    CoordinatorHeld
<1>1. ASSUME NEW p \in Process, AcquireCoordinator(p) \/ AcquireFails(p)
               \/ GiveCoordinatorBack(p)
      PROVE  LeaseHeld'
  BY <1>1 DEF AcquireCoordinator, AcquireFails, GiveCoordinatorBack
<1>2. ASSUME NEW p \in Process, Discover(p) \/ EnumerateLeases(p) \/ Prove(p)
               \/ SkipVanished(p) \/ AllProved(p) \/ AllProbed(p)
      PROVE  LeaseHeld'
  BY <1>2 DEF Discover, EnumerateLeases, Prove, SkipVanished, AllProved, AllProbed
<1>3. ASSUME NEW p \in Process, ProbeLease(p) \/ ProbeDetachedLease(p)
      PROVE  LeaseHeld'
  BY <1>3 DEF ProbeLease, ProbeDetachedLease, TakeLock, ActiveLeases, OrphanedLeases
<1>4. ASSUME NEW p \in Process, NextOrphan(p) \/ AllSwept(p) \/ UnlinkLease(p)
               \/ ReapLease(p) \/ AllReaped(p)
      PROVE  LeaseHeld'
  BY <1>4 DEF NextOrphan, AllSwept, UnlinkLease, ReapLease, AllReaped, OrphansAbandoned
<1>5. ASSUME NEW p \in Process, StopOrphan(p) \/ PurgeOrphan(p)
      PROVE  LeaseHeld'
  BY <1>5 DEF StopOrphan, PurgeOrphan, Do, After
<1>6. ASSUME NEW p \in Process, WaitOrphan(p) \/ WaitTimesOut(p) \/ CheckOrphan(p)
      PROVE  LeaseHeld'
  BY <1>6 DEF WaitOrphan, WaitTimesOut, CheckOrphan
<1>7. ASSUME NEW p \in Process, EndPass(p) \/ AbandonPass(p)
      PROVE  LeaseHeld'
  BY <1>7 DEF EndPass, AbandonPass, DropProbedLocks
<1>8. ASSUME NEW p \in Process, PassFails(p)
      PROVE  LeaseHeld'
  BY <1>8 DEF PassFails, Unanswered, Submitted, Request
<1>9. ASSUME NEW p \in Process, Crash(p)
      PROVE  LeaseHeld'
  BY <1>9 DEF Crash, DropProbedLocks, Unanswered, Submitted, Request
<1>10. ASSUME NEW p \in Runner, CreateContainer(p) \/ StartContainer(p) \/ KillOwn(p)
               \/ DeleteOwn(p)
      PROVE  LeaseHeld'
  BY <1>10 DEF CreateContainer, StartContainer, KillOwn, DeleteOwn, Do, After, ToClose
<1>11. ASSUME NEW p \in Runner, OpenLease(p) \/ LeaseFails(p) \/ RetireLease(p)
               \/ LockLease(p) \/ UnlockLease(p)
      PROVE  LeaseHeld'
  BY <1>11 DEF OpenLease, LeaseFails, RetireLease, LockLease, UnlockLease
<1>12. ASSUME NEW p \in Runner, LetCoordinatorGo(p) \/ Attach(p) \/ Reacquire(p)
               \/ ReacquireTimesOut(p)
      PROVE  LeaseHeld'
  BY <1>12 DEF LetCoordinatorGo, Attach, Reacquire, ReacquireTimesOut
<1>13. ASSUME NEW p \in Runner, SessionEnds(p) \/ SessionFails(p) \/ AwaitOwn(p)
               \/ InspectOwn(p)
      PROVE  LeaseHeld'
  BY <1>13 DEF SessionEnds, SessionFails, AwaitOwn, InspectOwn, ToClose
<1>14. ASSUME NEW p \in Runner, CreateFails(p)
      PROVE  LeaseHeld'
  BY <1>14 DEF CreateFails, Unanswered, Submitted, Request, Do, After
<1>15. ASSUME NEW p \in Runner, StartFails(p) \/ KillOwnFails(p) \/ RemoveOwnFails(p)
      PROVE  LeaseHeld'
  BY <1>15 DEF StartFails, KillOwnFails, RemoveOwnFails, Unanswered, Submitted, Request,
      ToClose
<1>16. ASSUME NEW c \in Runner, ToolExits(c) \/ KilledContainerDies(c)
      PROVE  LeaseHeld'
  BY <1>16 DEF ToolExits, KilledContainerDies
<1>17. ASSUME Deliver PROVE LeaseHeld'
  BY <1>17, RequestTypes DEF Deliver, Do, After
<1>18. ASSUME UNCHANGED vars PROVE LeaseHeld'
  BY <1>18 DEF vars
<1> QED
  BY <1>1, <1>2, <1>3, <1>4, <1>5, <1>6, <1>7, <1>8, <1>9, <1>10, <1>11, <1>12, <1>13, <1>14,
      <1>15, <1>16, <1>17, <1>18
  DEF RuntimeNext, Progress, Failure, Reconcile, Execute, CleanUp, Quiescent

\* A pass takes up a container only when its lease is not locked.
LEMMA OrphanStep == RuntimeInv /\ [RuntimeNext]_vars => OrphansAbandoned'
<1> SUFFICES ASSUME RuntimeInv, [RuntimeNext]_vars PROVE OrphansAbandoned'
  OBVIOUS
<1> USE RunnerIsProcess DEF RuntimeInv, TypeInv, Goto, pass, OrphansAbandoned
<1> USE DEF Steps, NotYet, Publishing, Locked, AfterUse, Over, InPass, HoldsCoordinator,
    CoordinatorHeld, NothingBefore, LeaseHeld
<1>1. ASSUME NEW p \in Process, AcquireCoordinator(p) \/ AcquireFails(p)
               \/ GiveCoordinatorBack(p)
      PROVE  OrphansAbandoned'
  BY <1>1 DEF AcquireCoordinator, AcquireFails, GiveCoordinatorBack
<1>2. ASSUME NEW p \in Process, Discover(p) \/ EnumerateLeases(p) \/ Prove(p)
               \/ SkipVanished(p) \/ AllProved(p) \/ AllProbed(p)
      PROVE  OrphansAbandoned'
  BY <1>2 DEF Discover, EnumerateLeases, Prove, SkipVanished, AllProved, AllProbed, Present,
      Live, Stopped
<1>3. ASSUME NEW p \in Process, ProbeLease(p) \/ ProbeDetachedLease(p)
      PROVE  OrphansAbandoned'
  BY <1>3 DEF ProbeLease, ProbeDetachedLease, TakeLock, ActiveLeases, OrphanedLeases
<1>4. ASSUME NEW p \in Process, NextOrphan(p) \/ AllSwept(p) \/ UnlinkLease(p)
               \/ ReapLease(p) \/ AllReaped(p)
      PROVE  OrphansAbandoned'
  BY <1>4 DEF NextOrphan, AllSwept, UnlinkLease, ReapLease, AllReaped
<1>5. ASSUME NEW p \in Process, StopOrphan(p) \/ PurgeOrphan(p)
      PROVE  OrphansAbandoned'
  BY <1>5 DEF StopOrphan, PurgeOrphan, Do, After
<1>6. ASSUME NEW p \in Process, WaitOrphan(p) \/ WaitTimesOut(p) \/ CheckOrphan(p)
      PROVE  OrphansAbandoned'
  BY <1>6 DEF WaitOrphan, WaitTimesOut, CheckOrphan
<1>7. ASSUME NEW p \in Process, EndPass(p) \/ AbandonPass(p)
      PROVE  OrphansAbandoned'
  BY <1>7 DEF EndPass, AbandonPass, DropProbedLocks
<1>8. ASSUME NEW p \in Process, PassFails(p)
      PROVE  OrphansAbandoned'
  BY <1>8 DEF PassFails, Unanswered, Submitted, Request
<1>9. ASSUME NEW p \in Process, Crash(p)
      PROVE  OrphansAbandoned'
  BY <1>9 DEF Crash, DropProbedLocks, Unanswered, Submitted, Request
<1>10. ASSUME NEW p \in Runner, CreateContainer(p) \/ StartContainer(p) \/ KillOwn(p)
               \/ DeleteOwn(p)
      PROVE  OrphansAbandoned'
  BY <1>10 DEF CreateContainer, StartContainer, KillOwn, DeleteOwn, Do, After, ToClose
<1>11. ASSUME NEW p \in Runner, OpenLease(p) \/ LeaseFails(p) \/ RetireLease(p)
               \/ LockLease(p) \/ UnlockLease(p)
      PROVE  OrphansAbandoned'
  BY <1>11 DEF OpenLease, LeaseFails, RetireLease, LockLease, UnlockLease
<1>12. ASSUME NEW p \in Runner, LetCoordinatorGo(p) \/ Attach(p) \/ Reacquire(p)
               \/ ReacquireTimesOut(p)
      PROVE  OrphansAbandoned'
  BY <1>12 DEF LetCoordinatorGo, Attach, Reacquire, ReacquireTimesOut
<1>13. ASSUME NEW p \in Runner, SessionEnds(p) \/ SessionFails(p) \/ AwaitOwn(p)
               \/ InspectOwn(p)
      PROVE  OrphansAbandoned'
  BY <1>13 DEF SessionEnds, SessionFails, AwaitOwn, InspectOwn, ToClose
<1>14. ASSUME NEW p \in Runner, CreateFails(p)
      PROVE  OrphansAbandoned'
  BY <1>14 DEF CreateFails, Unanswered, Submitted, Request, Do, After
<1>15. ASSUME NEW p \in Runner, StartFails(p) \/ KillOwnFails(p) \/ RemoveOwnFails(p)
      PROVE  OrphansAbandoned'
  BY <1>15 DEF StartFails, KillOwnFails, RemoveOwnFails, Unanswered, Submitted, Request,
      ToClose
<1>16. ASSUME NEW c \in Runner, ToolExits(c) \/ KilledContainerDies(c)
      PROVE  OrphansAbandoned'
  BY <1>16 DEF ToolExits, KilledContainerDies
<1>17. ASSUME Deliver PROVE OrphansAbandoned'
  BY <1>17, RequestTypes DEF Deliver, Do, After
<1>18. ASSUME UNCHANGED vars PROVE OrphansAbandoned'
  BY <1>18 DEF vars
<1> QED
  BY <1>1, <1>2, <1>3, <1>4, <1>5, <1>6, <1>7, <1>8, <1>9, <1>10, <1>11, <1>12, <1>13, <1>14,
      <1>15, <1>16, <1>17, <1>18
  DEF RuntimeNext, Progress, Failure, Reconcile, Execute, CleanUp, Quiescent

\* Nobody sends a kill or a delete while the run uses its container.
LEMMA LateStep == RuntimeInv /\ [RuntimeNext]_vars => LateRequests'
<1> SUFFICES ASSUME RuntimeInv, [RuntimeNext]_vars PROVE LateRequests'
  OBVIOUS
<1> USE RunnerIsProcess DEF RuntimeInv, TypeInv, Goto, pass, LateRequests
<1> USE DEF Steps, NotYet, Publishing, Locked, AfterUse, Over, InPass, Cleaning,
    OrphansAbandoned
<1>1. ASSUME NEW p \in Process, AcquireCoordinator(p) \/ AcquireFails(p)
               \/ GiveCoordinatorBack(p)
      PROVE  LateRequests'
  BY <1>1 DEF AcquireCoordinator, AcquireFails, GiveCoordinatorBack
<1>2. ASSUME NEW p \in Process, Discover(p) \/ EnumerateLeases(p) \/ Prove(p)
               \/ SkipVanished(p) \/ AllProved(p) \/ AllProbed(p)
      PROVE  LateRequests'
  BY <1>2 DEF Discover, EnumerateLeases, Prove, SkipVanished, AllProved, AllProbed
<1>3. ASSUME NEW p \in Process, ProbeLease(p) \/ ProbeDetachedLease(p)
      PROVE  LateRequests'
  BY <1>3 DEF ProbeLease, ProbeDetachedLease, TakeLock, ActiveLeases, OrphanedLeases
<1>4. ASSUME NEW p \in Process, NextOrphan(p) \/ AllSwept(p) \/ UnlinkLease(p)
               \/ ReapLease(p) \/ AllReaped(p)
      PROVE  LateRequests'
  BY <1>4 DEF NextOrphan, AllSwept, UnlinkLease, ReapLease, AllReaped
<1>5. ASSUME NEW p \in Process, StopOrphan(p) \/ PurgeOrphan(p)
      PROVE  LateRequests'
  BY <1>5 DEF StopOrphan, PurgeOrphan, Do, After
<1>6. ASSUME NEW p \in Process, WaitOrphan(p) \/ WaitTimesOut(p) \/ CheckOrphan(p)
      PROVE  LateRequests'
  BY <1>6 DEF WaitOrphan, WaitTimesOut, CheckOrphan
<1>7. ASSUME NEW p \in Process, EndPass(p) \/ AbandonPass(p)
      PROVE  LateRequests'
  BY <1>7 DEF EndPass, AbandonPass, DropProbedLocks
<1>8. ASSUME NEW p \in Process, PassFails(p)
      PROVE  LateRequests'
  BY <1>8 DEF PassFails, Unanswered, Submitted, Request
<1>9. ASSUME NEW p \in Process, Crash(p)
      PROVE  LateRequests'
  BY <1>9 DEF Crash, DropProbedLocks, Unanswered, Submitted, Request
<1>10. ASSUME NEW p \in Runner, CreateContainer(p) \/ StartContainer(p) \/ KillOwn(p)
               \/ DeleteOwn(p)
      PROVE  LateRequests'
  BY <1>10 DEF CreateContainer, StartContainer, KillOwn, DeleteOwn, Do, After, ToClose
<1>11. ASSUME NEW p \in Runner, OpenLease(p) \/ LeaseFails(p) \/ RetireLease(p)
               \/ LockLease(p) \/ UnlockLease(p)
      PROVE  LateRequests'
  BY <1>11 DEF OpenLease, LeaseFails, RetireLease, LockLease, UnlockLease
<1>12. ASSUME NEW p \in Runner, LetCoordinatorGo(p) \/ Attach(p) \/ Reacquire(p)
               \/ ReacquireTimesOut(p)
      PROVE  LateRequests'
  BY <1>12 DEF LetCoordinatorGo, Attach, Reacquire, ReacquireTimesOut
<1>13. ASSUME NEW p \in Runner, SessionEnds(p) \/ SessionFails(p) \/ AwaitOwn(p)
               \/ InspectOwn(p)
      PROVE  LateRequests'
  BY <1>13 DEF SessionEnds, SessionFails, AwaitOwn, InspectOwn, ToClose
<1>14. ASSUME NEW p \in Runner, CreateFails(p)
      PROVE  LateRequests'
  BY <1>14 DEF CreateFails, Unanswered, Submitted, Request, Do, After
<1>15. ASSUME NEW p \in Runner, StartFails(p) \/ KillOwnFails(p) \/ RemoveOwnFails(p)
      PROVE  LateRequests'
  BY <1>15 DEF StartFails, KillOwnFails, RemoveOwnFails, Unanswered, Submitted, Request,
      ToClose
<1>16. ASSUME NEW c \in Runner, ToolExits(c) \/ KilledContainerDies(c)
      PROVE  LateRequests'
  BY <1>16 DEF ToolExits, KilledContainerDies
<1>17. ASSUME Deliver PROVE LateRequests'
  BY <1>17, RequestTypes DEF Deliver, Do, After
<1>18. ASSUME UNCHANGED vars PROVE LateRequests'
  BY <1>18 DEF vars
<1> QED
  BY <1>1, <1>2, <1>3, <1>4, <1>5, <1>6, <1>7, <1>8, <1>9, <1>10, <1>11, <1>12, <1>13, <1>14,
      <1>15, <1>16, <1>17, <1>18
  DEF RuntimeNext, Progress, Failure, Reconcile, Execute, CleanUp, Quiescent

\* The parts of RuntimeInv are inductive together.
LEMMA InvStep == RuntimeInv /\ [RuntimeNext]_vars => RuntimeInv'
<1> SUFFICES ASSUME RuntimeInv, [RuntimeNext]_vars PROVE RuntimeInv'
  OBVIOUS
<1> QED  BY TypeStep, CoordinatorStep, NothingBeforeStep, LeaseStep, OrphanStep,
    LateStep DEF RuntimeInv

\* Every run keeps RuntimeInv: locks, leases and requests belong to whom they should.
THEOREM RuntimeInvariant == RuntimeSpec => []RuntimeInv
BY InvInit, InvStep, PTL DEF RuntimeSpec

\* The containers of runs in progress are signalled and removed by nobody else.
THEOREM LiveRunsUntouched == RuntimeSpec => LiveRunsLeftAlone
<1> DEFINE Untouched == \A c \in Runner :
              /\ Using(c) /\ pc[c] \notin Cleaning
              /\ Using(c)'
              => /\ box[c] # "dying" => box'[c] # "dying"
                 /\ box[c] \in Present => box'[c] \in Present
<1>1. RuntimeInv /\ [RuntimeNext]_vars => [Untouched]_vars
  <2> SUFFICES ASSUME RuntimeInv, [RuntimeNext]_vars, NEW c \in Runner,
                      Using(c), pc[c] \notin Cleaning
               PROVE  /\ box[c] # "dying" => box'[c] # "dying"
                      /\ box[c] \in Present => box'[c] \in Present
    OBVIOUS
  <2> USE RunnerIsProcess DEF RuntimeInv, TypeInv, Using, Cleaning, Present, Live, Stopped
  <2>0. pc[c] \notin AfterUse  BY DEF AfterUse, Over, Publishing
  <2>1. ASSUME NEW p \in Process, StopOrphan(p) \/ PurgeOrphan(p), NEW x \in target
        PROVE  x # c
    BY <2>0, <2>1 DEF StopOrphan, PurgeOrphan, OrphansAbandoned, Goto
  <2>2. ASSUME NEW p \in Process, StopOrphan(p) \/ PurgeOrphan(p)
        PROVE  box'[c] = box[c]
    BY <2>1, <2>2 DEF StopOrphan, PurgeOrphan, Do
  <2>3. ASSUME NEW p \in Runner, KillOwn(p) \/ DeleteOwn(p)
        PROVE  box'[c] = box[c]
    BY <2>3 DEF KillOwn, DeleteOwn, Do
  <2>4. ASSUME NEW p \in Runner, CreateContainer(p) \/ StartContainer(p)
        PROVE  box'[c] \in {box[c], "created", "running"}
    BY <2>4 DEF CreateContainer, StartContainer, Do, After
  <2>5. ASSUME NEW p \in Runner, CreateFails(p)
        PROVE  box'[c] = box[c]
    BY <2>5 DEF CreateFails, Do, Goto, Publishing
  <2>6. ASSUME NEW x \in Runner, ToolExits(x) \/ KilledContainerDies(x)
        PROVE  box'[c] \in {box[c], "exited"}
    BY <2>6 DEF ToolExits, KilledContainerDies
  <2>7. ASSUME Deliver
        PROVE  box'[c] \in {box[c], "created", "running"}
    <3>1. PICK r \in wire : Do(r[1], r[2]) \/ UNCHANGED box  BY <2>7 DEF Deliver
    <3>2. r[1] \in Kinds /\ r[2] \in Runner /\ r = <<r[1], r[2]>>  BY RequestTypes
    <3>3. CASE r[2] = c
      <4>1. r[1] \notin {"kill", "delete"}  BY <2>0, <3>2, <3>3 DEF LateRequests
      <4> QED  BY <3>1, <3>2, <3>3, <4>1 DEF Do, After, Kinds
    <3>4. CASE r[2] # c  BY <3>1, <3>2, <3>4 DEF Do
    <3> QED  BY <3>3, <3>4
  <2>8. CASE UNCHANGED box  BY <2>8
  <2> QED
    <3>1. ASSUME NEW p \in Process, Reconcile(p)
          PROVE  (StopOrphan(p) \/ PurgeOrphan(p)) \/ UNCHANGED box
      BY <3>1 DEF Reconcile, Discover, EnumerateLeases, Prove, SkipVanished, AllProved,
          ProbeLease,
           ProbeDetachedLease, AllProbed, NextOrphan, AllSwept, WaitOrphan, WaitTimesOut, CheckOrphan,
           UnlinkLease, ReapLease, AllReaped, EndPass, AbandonPass
    <3>2. ASSUME NEW p \in Process, AcquireCoordinator(p) \/ GiveCoordinatorBack(p)
               \/ AcquireFails(p)
                   \/ PassFails(p) \/ Crash(p)
          PROVE  UNCHANGED box
      BY <3>2 DEF AcquireCoordinator, GiveCoordinatorBack, AcquireFails, PassFails, Crash
    <3>3. ASSUME NEW p \in Runner, Execute(p)
          PROVE  (CreateContainer(p) \/ StartContainer(p)) \/ UNCHANGED box
      BY <3>3 DEF Execute, OpenLease, LockLease, LetCoordinatorGo, Attach, SessionEnds
    <3>4. ASSUME NEW p \in Runner, CleanUp(p)
          PROVE  (KillOwn(p) \/ DeleteOwn(p)) \/ UNCHANGED box
      BY <3>4 DEF CleanUp, AwaitOwn, InspectOwn, Reacquire, ReacquireTimesOut, RetireLease,
          UnlockLease
    <3>5. ASSUME NEW p \in Runner, LeaseFails(p) \/ StartFails(p) \/ SessionFails(p)
                   \/ KillOwnFails(p) \/ RemoveOwnFails(p)
          PROVE  UNCHANGED box
      BY <3>5 DEF LeaseFails, StartFails, SessionFails, KillOwnFails, RemoveOwnFails
    <3>6. ASSUME UNCHANGED vars PROVE UNCHANGED box  BY <3>6 DEF vars
    <3> QED
      BY <2>2, <2>3, <2>4, <2>5, <2>6, <2>7, <2>8, <3>1, <3>2, <3>3, <3>4, <3>5, <3>6
      DEF RuntimeNext, Progress, Failure, Quiescent
<1> QED  BY <1>1, RuntimeInvariant, PTL DEF RuntimeSpec, LiveRunsLeftAlone

-----------------------------------------------------------------------------
(* Leases go after their containers *)

Removing == {"sweep", "stop", "waitStop", "check", "purge", "unlink", "reap"}

\* The lists of a pass are true of the Engine: what it lists has existed, what
\* it takes for gone has been removed for good.
ListsTrue ==
    /\ \A c \in todo \union target \union orphans \union path : box[c] # "absent"
    /\ \A c \in Runner :
          /\ Using(c) => box[c] # "absent"
          /\ pc[c] \in {"reacquire", "retire"} => box[c] = "removed"
    /\ \A c, d \in target : c = d
    /\ \A c \in residue : box[c] = "removed"
    /\ \A p \in Process :
          /\ pc[p] = "enumerate" => \A c \in path : c \in todo \/ box[c] = "removed"
          /\ pc[p] \in {"prove", "probe", "probeRest"} =>
                \A c \in names : c \in todo \/ box[c] = "removed"
          /\ pc[p] \in Removing \union {"probeRest", "passed"} => todo = {}
          /\ pc[p] = "unlink" => \A c \in target : box[c] = "removed"

\* Nobody is in the way of a pass: a lease is locked by its run, which is not
\* over, or by the pass that counts its container among the orphans.
LocksExplained ==
    \A c \in Runner, q \in Process :
        q \in flock[c] =>
            \/ q = c /\ pc[c] \in Locked \union {"inspect", "delete", "reacquire", "retire", "unlock"}
            \/ /\ pc[q] \in (InPass \ {"discover", "enumerate"}) \union {"passed", "abandon"}
               /\ pc[q] \in {"prove", "probe"} => c \in orphans

\* No container of a finished run is lost sight of during a pass.
OwedInSight ==
    \A p \in Process :
        /\ pc[p] \in (InPass \ {"discover"}) \union {"passed"} =>
              \A c \in owed :
                  /\ pc[c] \in Over
                  /\ \/ box[c] = "removed"
                     \/ c \in todo \union orphans
                     \/ pc[p] = "probe" /\ c \in target
        /\ pc[p] \in {"reap", "passed"} /\ p \notin Checker => orphans = {}

\* A removed container stays removed, and a listed one has existed.
LEMMA ListsStep == RuntimeInv /\ ListsTrue /\ [RuntimeNext]_vars => ListsTrue'
<1> SUFFICES ASSUME RuntimeInv /\ ListsTrue, [RuntimeNext]_vars PROVE ListsTrue'
  OBVIOUS
<1> USE RunnerIsProcess DEF RuntimeInv, TypeInv, Goto, pass, ListsTrue
<1> USE DEF Steps, NotYet, Publishing, Locked, AfterUse, Over, InPass, Present, Live, Stopped,
    Gone, Boxes, Using, Cleaning, Removing, HoldsCoordinator, CoordinatorHeld, NothingBefore
<1>1. ASSUME NEW p \in Process, AcquireCoordinator(p) \/ AcquireFails(p)
               \/ GiveCoordinatorBack(p)
      PROVE  ListsTrue'
  BY <1>1 DEF AcquireCoordinator, AcquireFails, GiveCoordinatorBack
<1>2. ASSUME NEW p \in Process, Discover(p) \/ EnumerateLeases(p) \/ Prove(p)
               \/ SkipVanished(p) \/ AllProved(p) \/ AllProbed(p)
      PROVE  ListsTrue'
  BY <1>2 DEF Discover, EnumerateLeases, Prove, SkipVanished, AllProved, AllProbed
<1>3. ASSUME NEW p \in Process, ProbeLease(p) \/ ProbeDetachedLease(p)
      PROVE  ListsTrue'
  BY <1>3 DEF ProbeLease, ProbeDetachedLease, TakeLock, ActiveLeases, OrphanedLeases
<1>4. ASSUME NEW p \in Process, NextOrphan(p) \/ AllSwept(p) \/ UnlinkLease(p)
               \/ ReapLease(p) \/ AllReaped(p)
      PROVE  ListsTrue'
  BY <1>4 DEF NextOrphan, AllSwept, UnlinkLease, ReapLease, AllReaped
<1>5. ASSUME NEW p \in Process, StopOrphan(p) \/ PurgeOrphan(p)
      PROVE  ListsTrue'
  BY <1>5 DEF StopOrphan, PurgeOrphan, Do, After, OrphansAbandoned
<1>6. ASSUME NEW p \in Process, WaitOrphan(p) \/ WaitTimesOut(p) \/ CheckOrphan(p)
      PROVE  ListsTrue'
  BY <1>6 DEF WaitOrphan, WaitTimesOut, CheckOrphan, OrphansAbandoned
<1>7. ASSUME NEW p \in Process, EndPass(p) \/ AbandonPass(p)
      PROVE  ListsTrue'
  BY <1>7 DEF EndPass, AbandonPass, DropProbedLocks
<1>8. ASSUME NEW p \in Process, PassFails(p)
      PROVE  ListsTrue'
  BY <1>8 DEF PassFails, Unanswered, Submitted, Request
<1>9. ASSUME NEW p \in Process, Crash(p)
      PROVE  ListsTrue'
  BY <1>9 DEF Crash, DropProbedLocks, Unanswered, Submitted, Request
<1>10. ASSUME NEW p \in Runner, CreateContainer(p) \/ StartContainer(p) \/ KillOwn(p)
               \/ DeleteOwn(p)
      PROVE  ListsTrue'
  BY <1>10 DEF CreateContainer, StartContainer, KillOwn, DeleteOwn, Do, After, ToClose
<1>11. ASSUME NEW p \in Runner, OpenLease(p) \/ LeaseFails(p) \/ RetireLease(p)
               \/ LockLease(p) \/ UnlockLease(p)
      PROVE  ListsTrue'
  BY <1>11 DEF OpenLease, LeaseFails, RetireLease, LockLease, UnlockLease
<1>12. ASSUME NEW p \in Runner, LetCoordinatorGo(p) \/ Attach(p) \/ Reacquire(p)
               \/ ReacquireTimesOut(p)
      PROVE  ListsTrue'
  BY <1>12 DEF LetCoordinatorGo, Attach, Reacquire, ReacquireTimesOut
<1>13. ASSUME NEW p \in Runner, SessionEnds(p) \/ SessionFails(p) \/ AwaitOwn(p)
               \/ InspectOwn(p)
      PROVE  ListsTrue'
  BY <1>13 DEF SessionEnds, SessionFails, AwaitOwn, InspectOwn, ToClose
<1>14. ASSUME NEW p \in Runner, CreateFails(p)
      PROVE  ListsTrue'
  BY <1>14 DEF CreateFails, Unanswered, Submitted, Request, Do, After
<1>15. ASSUME NEW p \in Runner, StartFails(p) \/ KillOwnFails(p) \/ RemoveOwnFails(p)
      PROVE  ListsTrue'
  BY <1>15 DEF StartFails, KillOwnFails, RemoveOwnFails, Unanswered, Submitted, Request,
      ToClose
<1>16. ASSUME NEW c \in Runner, ToolExits(c) \/ KilledContainerDies(c)
      PROVE  ListsTrue'
  BY <1>16 DEF ToolExits, KilledContainerDies
<1>17. ASSUME Deliver PROVE ListsTrue'
  BY <1>17, RequestTypes DEF Deliver, Do, After
<1>18. ASSUME UNCHANGED vars PROVE ListsTrue'
  BY <1>18 DEF vars
<1> QED
  BY <1>1, <1>2, <1>3, <1>4, <1>5, <1>6, <1>7, <1>8, <1>9, <1>10, <1>11, <1>12, <1>13, <1>14,
      <1>15, <1>16, <1>17, <1>18
  DEF RuntimeNext, Progress, Failure, Reconcile, Execute, CleanUp, Quiescent

\* Locks come and go with runs and passes.
LEMMA LocksStep == RuntimeInv /\ LocksExplained /\ [RuntimeNext]_vars => LocksExplained'
<1> SUFFICES ASSUME RuntimeInv /\ LocksExplained, [RuntimeNext]_vars PROVE LocksExplained'
  OBVIOUS
<1> USE RunnerIsProcess DEF RuntimeInv, TypeInv, Goto, pass, LocksExplained
<1> USE DEF Steps, NotYet, Publishing, Locked, AfterUse, Over, InPass, Holder,
    HoldsCoordinator, CoordinatorHeld, LeaseHeld
<1>1. ASSUME NEW p \in Process, AcquireCoordinator(p) \/ AcquireFails(p)
               \/ GiveCoordinatorBack(p)
      PROVE  LocksExplained'
  BY <1>1 DEF AcquireCoordinator, AcquireFails, GiveCoordinatorBack
<1>2. ASSUME NEW p \in Process, Discover(p) \/ EnumerateLeases(p) \/ Prove(p)
               \/ SkipVanished(p) \/ AllProved(p) \/ AllProbed(p)
      PROVE  LocksExplained'
  BY <1>2 DEF Discover, EnumerateLeases, Prove, SkipVanished, AllProved, AllProbed
<1>3. ASSUME NEW p \in Process, ProbeLease(p) \/ ProbeDetachedLease(p)
      PROVE  LocksExplained'
  BY <1>3 DEF ProbeLease, ProbeDetachedLease, TakeLock, ActiveLeases, OrphanedLeases
<1>4. ASSUME NEW p \in Process, NextOrphan(p) \/ AllSwept(p) \/ UnlinkLease(p)
               \/ ReapLease(p) \/ AllReaped(p)
      PROVE  LocksExplained'
  BY <1>4 DEF NextOrphan, AllSwept, UnlinkLease, ReapLease, AllReaped
<1>5. ASSUME NEW p \in Process, StopOrphan(p) \/ PurgeOrphan(p)
      PROVE  LocksExplained'
  BY <1>5 DEF StopOrphan, PurgeOrphan, Do, After
<1>6. ASSUME NEW p \in Process, WaitOrphan(p) \/ WaitTimesOut(p) \/ CheckOrphan(p)
      PROVE  LocksExplained'
  BY <1>6 DEF WaitOrphan, WaitTimesOut, CheckOrphan
<1>7. ASSUME NEW p \in Process, EndPass(p) \/ AbandonPass(p)
      PROVE  LocksExplained'
  BY <1>7 DEF EndPass, AbandonPass, DropProbedLocks
<1>8. ASSUME NEW p \in Process, PassFails(p)
      PROVE  LocksExplained'
  BY <1>8 DEF PassFails, Unanswered, Submitted, Request
<1>9. ASSUME NEW p \in Process, Crash(p)
      PROVE  LocksExplained'
  BY <1>9 DEF Crash, DropProbedLocks, Unanswered, Submitted, Request
<1>10. ASSUME NEW p \in Runner, CreateContainer(p) \/ StartContainer(p) \/ KillOwn(p)
               \/ DeleteOwn(p)
      PROVE  LocksExplained'
  BY <1>10 DEF CreateContainer, StartContainer, KillOwn, DeleteOwn, Do, After, ToClose
<1>11. ASSUME NEW p \in Runner, OpenLease(p) \/ LeaseFails(p) \/ RetireLease(p)
               \/ LockLease(p) \/ UnlockLease(p)
      PROVE  LocksExplained'
  BY <1>11 DEF OpenLease, LeaseFails, RetireLease, LockLease, UnlockLease
<1>12. ASSUME NEW p \in Runner, LetCoordinatorGo(p) \/ Attach(p) \/ Reacquire(p)
               \/ ReacquireTimesOut(p)
      PROVE  LocksExplained'
  BY <1>12 DEF LetCoordinatorGo, Attach, Reacquire, ReacquireTimesOut
<1>13. ASSUME NEW p \in Runner, SessionEnds(p) \/ SessionFails(p) \/ AwaitOwn(p)
               \/ InspectOwn(p)
      PROVE  LocksExplained'
  BY <1>13 DEF SessionEnds, SessionFails, AwaitOwn, InspectOwn, ToClose
<1>14. ASSUME NEW p \in Runner, CreateFails(p)
      PROVE  LocksExplained'
  BY <1>14 DEF CreateFails, Unanswered, Submitted, Request, Do, After
<1>15. ASSUME NEW p \in Runner, StartFails(p) \/ KillOwnFails(p) \/ RemoveOwnFails(p)
      PROVE  LocksExplained'
  BY <1>15 DEF StartFails, KillOwnFails, RemoveOwnFails, Unanswered, Submitted, Request,
      ToClose
<1>16. ASSUME NEW c \in Runner, ToolExits(c) \/ KilledContainerDies(c)
      PROVE  LocksExplained'
  BY <1>16 DEF ToolExits, KilledContainerDies
<1>17. ASSUME Deliver PROVE LocksExplained'
  BY <1>17, RequestTypes DEF Deliver, Do, After
<1>18. ASSUME UNCHANGED vars PROVE LocksExplained'
  BY <1>18 DEF vars
<1> QED
  BY <1>1, <1>2, <1>3, <1>4, <1>5, <1>6, <1>7, <1>8, <1>9, <1>10, <1>11, <1>12, <1>13, <1>14,
      <1>15, <1>16, <1>17, <1>18
  DEF RuntimeNext, Progress, Failure, Reconcile, Execute, CleanUp, Quiescent

\* A listed container stays in sight until it is removed.
LEMMA OwedStep ==
    RuntimeInv /\ ListsTrue /\ LocksExplained /\ OwedInSight /\ [RuntimeNext]_vars => OwedInSight'
<1> SUFFICES ASSUME RuntimeInv /\ ListsTrue /\ LocksExplained /\ OwedInSight,
                    [RuntimeNext]_vars
             PROVE  OwedInSight'
  OBVIOUS
<1> USE RunnerIsProcess DEF RuntimeInv, TypeInv, Goto, pass, OwedInSight
<1> USE DEF Steps, NotYet, Publishing, Locked, AfterUse, Over, InPass, Present, Live, Stopped,
    Gone, Boxes, HoldsCoordinator, CoordinatorHeld, ListsTrue, Removing
<1>1. ASSUME NEW p \in Process, AcquireCoordinator(p) \/ AcquireFails(p)
               \/ GiveCoordinatorBack(p)
      PROVE  OwedInSight'
  BY <1>1 DEF AcquireCoordinator, AcquireFails, GiveCoordinatorBack
<1>2. ASSUME NEW p \in Process, Discover(p) \/ EnumerateLeases(p) \/ Prove(p)
               \/ SkipVanished(p) \/ AllProved(p) \/ AllProbed(p)
      PROVE  OwedInSight'
  BY <1>2 DEF Discover, EnumerateLeases, Prove, SkipVanished, AllProved, AllProbed
<1>3. ASSUME NEW p \in Process, ProbeLease(p) \/ ProbeDetachedLease(p)
      PROVE  OwedInSight'
  BY <1>3 DEF ProbeLease, ProbeDetachedLease, TakeLock, ActiveLeases, OrphanedLeases,
      LocksExplained, Holder
<1>4. ASSUME NEW p \in Process, NextOrphan(p) \/ AllSwept(p) \/ UnlinkLease(p)
               \/ ReapLease(p) \/ AllReaped(p)
      PROVE  OwedInSight'
  BY <1>4 DEF NextOrphan, AllSwept, UnlinkLease, ReapLease, AllReaped
<1>5. ASSUME NEW p \in Process, StopOrphan(p) \/ PurgeOrphan(p)
      PROVE  OwedInSight'
  BY <1>5 DEF StopOrphan, PurgeOrphan, Do, After
<1>6. ASSUME NEW p \in Process, WaitOrphan(p) \/ WaitTimesOut(p) \/ CheckOrphan(p)
      PROVE  OwedInSight'
  BY <1>6 DEF WaitOrphan, WaitTimesOut, CheckOrphan
<1>7. ASSUME NEW p \in Process, EndPass(p) \/ AbandonPass(p)
      PROVE  OwedInSight'
  BY <1>7 DEF EndPass, AbandonPass, DropProbedLocks
<1>8. ASSUME NEW p \in Process, PassFails(p)
      PROVE  OwedInSight'
  BY <1>8 DEF PassFails, Unanswered, Submitted, Request
<1>9. ASSUME NEW p \in Process, Crash(p)
      PROVE  OwedInSight'
  BY <1>9 DEF Crash, DropProbedLocks, Unanswered, Submitted, Request
<1>10. ASSUME NEW p \in Runner, CreateContainer(p) \/ StartContainer(p) \/ KillOwn(p)
               \/ DeleteOwn(p)
      PROVE  OwedInSight'
  BY <1>10 DEF CreateContainer, StartContainer, KillOwn, DeleteOwn, Do, After, ToClose
<1>11. ASSUME NEW p \in Runner, OpenLease(p) \/ LeaseFails(p) \/ RetireLease(p)
               \/ LockLease(p) \/ UnlockLease(p)
      PROVE  OwedInSight'
  BY <1>11 DEF OpenLease, LeaseFails, RetireLease, LockLease, UnlockLease
<1>12. ASSUME NEW p \in Runner, LetCoordinatorGo(p) \/ Attach(p) \/ Reacquire(p)
               \/ ReacquireTimesOut(p)
      PROVE  OwedInSight'
  BY <1>12 DEF LetCoordinatorGo, Attach, Reacquire, ReacquireTimesOut
<1>13. ASSUME NEW p \in Runner, SessionEnds(p) \/ SessionFails(p) \/ AwaitOwn(p)
               \/ InspectOwn(p)
      PROVE  OwedInSight'
  BY <1>13 DEF SessionEnds, SessionFails, AwaitOwn, InspectOwn, ToClose
<1>14. ASSUME NEW p \in Runner, CreateFails(p)
      PROVE  OwedInSight'
  BY <1>14 DEF CreateFails, Unanswered, Submitted, Request, Do, After
<1>15. ASSUME NEW p \in Runner, StartFails(p) \/ KillOwnFails(p) \/ RemoveOwnFails(p)
      PROVE  OwedInSight'
  BY <1>15 DEF StartFails, KillOwnFails, RemoveOwnFails, Unanswered, Submitted, Request,
      ToClose
<1>16. ASSUME NEW c \in Runner, ToolExits(c) \/ KilledContainerDies(c)
      PROVE  OwedInSight'
  BY <1>16 DEF ToolExits, KilledContainerDies
<1>17. ASSUME Deliver PROVE OwedInSight'
  BY <1>17, RequestTypes DEF Deliver, Do, After
<1>18. ASSUME UNCHANGED vars PROVE OwedInSight'
  BY <1>18 DEF vars
<1> QED
  BY <1>1, <1>2, <1>3, <1>4, <1>5, <1>6, <1>7, <1>8, <1>9, <1>10, <1>11, <1>12, <1>13, <1>14,
      <1>15, <1>16, <1>17, <1>18
  DEF RuntimeNext, Progress, Failure, Reconcile, Execute, CleanUp, Quiescent

\* Before the first pass there is nothing to list.
LEMMA PassInit == RuntimeInit => ListsTrue /\ LocksExplained /\ OwedInSight
BY RunnerIsProcess, RuntimeAssumption
DEF RuntimeInit, ListsTrue, LocksExplained, OwedInSight, Using, Publishing, Cleaning,
    Removing, InPass

\* What every step of the protocol keeps.
ProtocolInv == RuntimeInv /\ ListsTrue /\ LocksExplained /\ OwedInSight

\* Every run keeps it, crashes and failed requests included.
THEOREM ProtocolInvariant == RuntimeSpec => []ProtocolInv
<1>1. RuntimeInit => ProtocolInv
  BY InvInit, PassInit DEF ProtocolInv
<1>2. ProtocolInv /\ [RuntimeNext]_vars => ProtocolInv'
  BY InvStep, ListsStep, LocksStep, OwedStep DEF ProtocolInv
<1> QED  BY <1>1, <1>2, PTL DEF RuntimeSpec

\* A successful pass that applies has removed every container whose run had
\* ended when it listed them.
THEOREM PassesComplete == RuntimeSpec => []PassLeavesNoOrphan
<1>1. ProtocolInv => PassLeavesNoOrphan
  <2> SUFFICES ASSUME ProtocolInv, NEW p \in Runner \union Cleaner, pc[p] = "passed",
               NEW c \in owed
               PROVE  box[c] \in Gone
    BY DEF PassLeavesNoOrphan
  <2>1. p \in Process /\ p \notin Checker
    BY RuntimeAssumption DEF Process
  <2>2. todo = {} /\ orphans = {}
    BY <2>1 DEF ProtocolInv, ListsTrue, OwedInSight
  <2>3. box[c] = "removed"
    BY <2>1, <2>2 DEF ProtocolInv, OwedInSight
  <2> QED  BY <2>3 DEF Gone
<1> QED  BY <1>1, ProtocolInvariant, PTL

\* A lease file is there as long as its container is.
THEOREM LeasesOutliveContainers == RuntimeSpec => LeaseOutlivesContainer
<1> DEFINE Outlives == \A c \in path : c \notin path' => box[c] \in Gone \/ pc[c] = "lockLease"
<1>1. ProtocolInv /\ [RuntimeNext]_vars => [Outlives]_vars
  <2> SUFFICES ASSUME ProtocolInv, [RuntimeNext]_vars, NEW c \in path, c \notin path',
               pc[c] # "lockLease"
               PROVE  box[c] = "removed"
    BY DEF Gone
  <2>1. ASSUME NEW p \in Process, UnlinkLease(p) \/ ReapLease(p)
        PROVE  box[c] = "removed"
    BY <2>1 DEF ProtocolInv, ListsTrue, UnlinkLease, ReapLease, Goto
  <2>2. ASSUME NEW p \in Runner, RetireLease(p)
        PROVE  box[c] = "removed"
    BY <2>2 DEF ProtocolInv, ListsTrue, RetireLease, Goto
  <2>3. ASSUME NEW p \in Runner, LeaseFails(p)
        PROVE  FALSE
    BY <2>3 DEF ProtocolInv, RuntimeInv, NothingBefore, LeaseFails
  <2>4. ASSUME NEW p \in Process, Reconcile(p)
        PROVE  (UnlinkLease(p) \/ ReapLease(p)) \/ UNCHANGED path
    BY <2>4 DEF Reconcile, Discover, EnumerateLeases, Prove, SkipVanished, AllProved,
        ProbeLease,
         ProbeDetachedLease, AllProbed, NextOrphan, AllSwept, StopOrphan, WaitOrphan, WaitTimesOut,
         CheckOrphan, PurgeOrphan, AllReaped, EndPass, AbandonPass
  <2>5. ASSUME NEW p \in Process, AcquireCoordinator(p) \/ GiveCoordinatorBack(p)
               \/ AcquireFails(p)
                 \/ PassFails(p) \/ Crash(p)
        PROVE  UNCHANGED path
    BY <2>5 DEF AcquireCoordinator, GiveCoordinatorBack, AcquireFails, PassFails, Crash
  <2>6. ASSUME NEW p \in Runner, Execute(p) \/ CleanUp(p)
        PROVE  RetireLease(p) \/ path \subseteq path'
    BY <2>6 DEF Execute, CleanUp, CreateContainer, OpenLease, LockLease, LetCoordinatorGo,
        Attach,
         StartContainer, SessionEnds, KillOwn, AwaitOwn, InspectOwn, DeleteOwn, Reacquire,
         ReacquireTimesOut, UnlockLease
  <2>7. ASSUME NEW p \in Runner, CreateFails(p) \/ StartFails(p) \/ SessionFails(p)
                 \/ KillOwnFails(p) \/ RemoveOwnFails(p)
        PROVE  UNCHANGED path
    BY <2>7 DEF CreateFails, StartFails, SessionFails, KillOwnFails, RemoveOwnFails
  <2>8. ASSUME (\E x \in Runner : ToolExits(x) \/ KilledContainerDies(x)) \/ Deliver
               \/ UNCHANGED vars
        PROVE  UNCHANGED path
    BY <2>8 DEF ToolExits, KilledContainerDies, Deliver, vars
  <2> QED
    BY <2>1, <2>2, <2>3, <2>4, <2>5, <2>6, <2>7, <2>8
    DEF RuntimeNext, Progress, Failure, Quiescent
<1> QED  BY <1>1, ProtocolInvariant, PTL DEF RuntimeSpec, LeaseOutlivesContainer
-----------------------------------------------------------------------------
(* The holder of the coordinator waits for nobody *)

\* The steps of a pass that are about a container.
AtTarget == {"probe", "stop", "waitStop", "check", "purge", "unlink"}

\* Who holds the coordinator is at a step that uses or returns it, has no lock on its
\* own lease file until it takes it, and has a container at hand where it needs one.
HolderKnown ==
    \A p \in coord :
        /\ pc[p] \in HoldsCoordinator \union {"inspect", "delete", "unlock"}
        /\ pc[p] \in Publishing \union {"create", "inspect", "delete", "retire", "unlock"} =>
               p \in Runner
        /\ pc[p] \in {"create", "adopt", "lockLease", "inspect", "delete"} => flock[p] # {p}
        /\ pc[p] \in AtTarget => target # {}

\* The coordinator comes with a pass, and goes before the run or at its end.
LEMMA HolderStep == RuntimeInv /\ HolderKnown /\ [RuntimeNext]_vars => HolderKnown'
<1> SUFFICES ASSUME RuntimeInv /\ HolderKnown, [RuntimeNext]_vars PROVE HolderKnown'
  OBVIOUS
<1> USE RunnerIsProcess, RuntimeAssumption DEF RuntimeInv, TypeInv, Goto, pass, HolderKnown
<1> USE DEF Steps, NotYet, Publishing, Locked, AfterUse, Over, InPass, Holder,
    HoldsCoordinator, CoordinatorHeld, LeaseHeld, AtTarget
<1>1. ASSUME NEW p \in Process, AcquireCoordinator(p) \/ AcquireFails(p)
               \/ GiveCoordinatorBack(p)
      PROVE  HolderKnown'
  BY <1>1 DEF AcquireCoordinator, AcquireFails, GiveCoordinatorBack
<1>2. ASSUME NEW p \in Process, Discover(p) \/ EnumerateLeases(p) \/ Prove(p)
               \/ SkipVanished(p) \/ AllProved(p) \/ AllProbed(p)
      PROVE  HolderKnown'
  BY <1>2 DEF Discover, EnumerateLeases, Prove, SkipVanished, AllProved, AllProbed
<1>3. ASSUME NEW p \in Process, ProbeLease(p) \/ ProbeDetachedLease(p)
      PROVE  HolderKnown'
  BY <1>3 DEF ProbeLease, ProbeDetachedLease, TakeLock, ActiveLeases, OrphanedLeases
<1>4. ASSUME NEW p \in Process, NextOrphan(p) \/ AllSwept(p) \/ UnlinkLease(p)
               \/ ReapLease(p) \/ AllReaped(p)
      PROVE  HolderKnown'
  BY <1>4 DEF NextOrphan, AllSwept, UnlinkLease, ReapLease, AllReaped
<1>5. ASSUME NEW p \in Process, StopOrphan(p) \/ PurgeOrphan(p)
      PROVE  HolderKnown'
  BY <1>5 DEF StopOrphan, PurgeOrphan, Do, After
<1>6. ASSUME NEW p \in Process, WaitOrphan(p) \/ WaitTimesOut(p) \/ CheckOrphan(p)
      PROVE  HolderKnown'
  BY <1>6 DEF WaitOrphan, WaitTimesOut, CheckOrphan
<1>7. ASSUME NEW p \in Process, EndPass(p) \/ AbandonPass(p)
      PROVE  HolderKnown'
  BY <1>7 DEF EndPass, AbandonPass, DropProbedLocks
<1>8. ASSUME NEW p \in Process, PassFails(p)
      PROVE  HolderKnown'
  BY <1>8 DEF PassFails, Unanswered, Submitted, Request
<1>9. ASSUME NEW p \in Process, Crash(p)
      PROVE  HolderKnown'
  BY <1>9 DEF Crash, DropProbedLocks, Unanswered, Submitted, Request
<1>10. ASSUME NEW p \in Runner, CreateContainer(p) \/ StartContainer(p) \/ KillOwn(p)
               \/ DeleteOwn(p)
      PROVE  HolderKnown'
  BY <1>10 DEF CreateContainer, StartContainer, KillOwn, DeleteOwn, Do, After, ToClose
<1>11. ASSUME NEW p \in Runner, OpenLease(p) \/ LeaseFails(p) \/ RetireLease(p)
               \/ LockLease(p) \/ UnlockLease(p)
      PROVE  HolderKnown'
  BY <1>11 DEF OpenLease, LeaseFails, RetireLease, LockLease, UnlockLease
<1>12. ASSUME NEW p \in Runner, LetCoordinatorGo(p) \/ Attach(p) \/ Reacquire(p)
               \/ ReacquireTimesOut(p)
      PROVE  HolderKnown'
  BY <1>12 DEF LetCoordinatorGo, Attach, Reacquire, ReacquireTimesOut
<1>13. ASSUME NEW p \in Runner, SessionEnds(p) \/ SessionFails(p) \/ AwaitOwn(p)
               \/ InspectOwn(p)
      PROVE  HolderKnown'
  BY <1>13 DEF SessionEnds, SessionFails, AwaitOwn, InspectOwn, ToClose
<1>14. ASSUME NEW p \in Runner, CreateFails(p)
      PROVE  HolderKnown'
  BY <1>14 DEF CreateFails, Unanswered, Submitted, Request, Do, After
<1>15. ASSUME NEW p \in Runner, StartFails(p) \/ KillOwnFails(p) \/ RemoveOwnFails(p)
      PROVE  HolderKnown'
  BY <1>15 DEF StartFails, KillOwnFails, RemoveOwnFails, Unanswered, Submitted, Request,
      ToClose
<1>16. ASSUME NEW c \in Runner, ToolExits(c) \/ KilledContainerDies(c)
      PROVE  HolderKnown'
  BY <1>16 DEF ToolExits, KilledContainerDies
<1>17. ASSUME Deliver PROVE HolderKnown'
  BY <1>17, RequestTypes DEF Deliver, Do, After
<1>18. ASSUME UNCHANGED vars PROVE HolderKnown'
  BY <1>18 DEF vars
<1> QED
  BY <1>1, <1>2, <1>3, <1>4, <1>5, <1>6, <1>7, <1>8, <1>9, <1>10, <1>11, <1>12, <1>13, <1>14,
      <1>15, <1>16, <1>17, <1>18
  DEF RuntimeNext, Progress, Failure, Reconcile, Execute, CleanUp, Quiescent

\* No process that holds the coordinator waits: neither for the coordinator, nor for a
\* tool, nor for the lock on a lease file; the file it locks is free, and a step about
\* a container has one.  Whatever is asked of the Engine has an answer or a timeout.
CoordinatorComesFree ==
    \A p \in coord :
        /\ pc[p] \notin {"begin", "reacquire", "attach", "start", "session"} \union Over
        /\ pc[p] = "lockLease" => flock[p] = {}
        /\ pc[p] \in AtTarget => target # {}

\* The two locks of a run, coordinator and lease, do not deadlock, for any number of
\* runs, cleanups and checks and whatever fails or is killed (beginRun, Adopt, Close).
THEOREM HoldersDoNotWait == RuntimeSpec => []CoordinatorComesFree
<1>1. RuntimeInit => HolderKnown
  BY DEF RuntimeInit, HolderKnown
<1>2. ProtocolInv /\ HolderKnown /\ [RuntimeNext]_vars => HolderKnown'
  BY HolderStep DEF ProtocolInv
<1>3. ProtocolInv /\ HolderKnown => CoordinatorComesFree
  <2> SUFFICES ASSUME ProtocolInv, HolderKnown, NEW p \in coord
               PROVE  /\ pc[p] \notin {"begin", "reacquire", "attach", "start", "session"} \union Over
                      /\ pc[p] = "lockLease" => flock[p] = {}
                      /\ pc[p] \in AtTarget => target # {}
    BY DEF CoordinatorComesFree
  <2> USE RunnerIsProcess DEF ProtocolInv, RuntimeInv, TypeInv, HolderKnown
  <2>1. pc[p] \in HoldsCoordinator \union {"inspect", "delete", "unlock"}
    OBVIOUS
  <2>2. p \in Process /\ coord = {p}
    BY DEF Holder
  <2>3. ASSUME pc[p] = "lockLease", NEW q \in flock[p] PROVE FALSE
    <3>1. p \in Runner
      BY <2>3 DEF Publishing
    <3>2. flock[p] = {q} /\ q \in Process /\ q # p
      BY <2>3, <3>1 DEF Holder
    <3>3. pc[q] \in HoldsCoordinator
      BY <2>3, <3>1, <3>2 DEF LocksExplained, HoldsCoordinator
    <3> QED
      BY <2>2, <3>1, <3>2, <3>3 DEF CoordinatorHeld
  <2> QED
    BY <2>1, <2>3 DEF HoldsCoordinator, InPass, Publishing, Over
<1> QED
  BY <1>1, <1>2, <1>3, ProtocolInvariant, PTL DEF RuntimeSpec
-----------------------------------------------------------------------------
(* Every run is a tool run *)

\* A run passes from open to closing to over, and never back.
LEMMA RunMoves ==
    ASSUME TypeInv, [RuntimeNext]_vars, NEW c \in Runner
    PROVE  \/ RunOf(c)' = RunOf(c)
           \/ RunOf(c) = "open" /\ RunOf(c)' = "closing"
           \/ RunOf(c) # "over" /\ RunOf(c)' = "over"
<1> USE RunnerIsProcess DEF TypeInv, Goto, RunOf, Giving, Over, Cleaning
<1> DEFINE Moves ==
      \/ RunOf(c)' = RunOf(c)
      \/ RunOf(c) = "open" /\ RunOf(c)' = "closing"
      \/ RunOf(c) # "over" /\ RunOf(c)' = "over"
<1>1. ASSUME NEW p \in Process, AcquireCoordinator(p) \/ AcquireFails(p)
               \/ GiveCoordinatorBack(p)
      PROVE  Moves
  BY <1>1 DEF AcquireCoordinator, AcquireFails, GiveCoordinatorBack
<1>2. ASSUME NEW p \in Process, Discover(p) \/ EnumerateLeases(p) \/ Prove(p)
               \/ SkipVanished(p) \/ AllProved(p) \/ AllProbed(p)
      PROVE  Moves
  BY <1>2 DEF Discover, EnumerateLeases, Prove, SkipVanished, AllProved, AllProbed
<1>3. ASSUME NEW p \in Process, ProbeLease(p) \/ ProbeDetachedLease(p)
      PROVE  Moves
  BY <1>3 DEF ProbeLease, ProbeDetachedLease
<1>4. ASSUME NEW p \in Process, NextOrphan(p) \/ AllSwept(p) \/ UnlinkLease(p)
               \/ ReapLease(p) \/ AllReaped(p)
      PROVE  Moves
  BY <1>4 DEF NextOrphan, AllSwept, UnlinkLease, ReapLease, AllReaped
<1>5. ASSUME NEW p \in Process, StopOrphan(p) \/ PurgeOrphan(p)
      PROVE  Moves
  BY <1>5 DEF StopOrphan, PurgeOrphan
<1>6. ASSUME NEW p \in Process, WaitOrphan(p) \/ WaitTimesOut(p) \/ CheckOrphan(p)
      PROVE  Moves
  BY <1>6 DEF WaitOrphan, WaitTimesOut, CheckOrphan
<1>7. ASSUME NEW p \in Process, EndPass(p) \/ AbandonPass(p)
      PROVE  Moves
  BY <1>7 DEF EndPass, AbandonPass
<1>8. ASSUME NEW p \in Process, PassFails(p)
      PROVE  Moves
  BY <1>8 DEF PassFails, InPass
<1>9. ASSUME NEW p \in Process, Crash(p)
      PROVE  Moves
  BY <1>9 DEF Crash
<1>10. ASSUME NEW p \in Runner, CreateContainer(p) \/ StartContainer(p) \/ KillOwn(p)
               \/ DeleteOwn(p)
      PROVE  Moves
  BY <1>10 DEF CreateContainer, StartContainer, KillOwn, DeleteOwn, ToClose
<1>11. ASSUME NEW p \in Runner, OpenLease(p) \/ LeaseFails(p) \/ RetireLease(p)
               \/ LockLease(p) \/ UnlockLease(p)
      PROVE  Moves
  BY <1>11 DEF OpenLease, LeaseFails, RetireLease, LockLease, UnlockLease
<1>12. ASSUME NEW p \in Runner, LetCoordinatorGo(p) \/ Attach(p) \/ Reacquire(p)
               \/ ReacquireTimesOut(p)
      PROVE  Moves
  BY <1>12 DEF LetCoordinatorGo, Attach, Reacquire, ReacquireTimesOut
<1>13. ASSUME NEW p \in Runner, SessionEnds(p) \/ SessionFails(p) \/ AwaitOwn(p)
               \/ InspectOwn(p)
      PROVE  Moves
  BY <1>13 DEF SessionEnds, SessionFails, AwaitOwn, InspectOwn, ToClose
<1>14. ASSUME NEW p \in Runner, CreateFails(p)
      PROVE  Moves
  BY <1>14 DEF CreateFails
<1>15. ASSUME NEW p \in Runner, StartFails(p) \/ KillOwnFails(p) \/ RemoveOwnFails(p)
      PROVE  Moves
  BY <1>15 DEF StartFails, KillOwnFails, RemoveOwnFails, ToClose
<1>16. ASSUME UNCHANGED pc PROVE Moves
  BY <1>16
<1>17. ASSUME \/ \E x \in Runner : ToolExits(x) \/ KilledContainerDies(x)
              \/ Deliver \/ UNCHANGED vars
       PROVE  UNCHANGED pc
  BY <1>17 DEF ToolExits, KilledContainerDies, Deliver, vars
<1> QED
  BY <1>1, <1>2, <1>3, <1>4, <1>5, <1>6, <1>7, <1>8, <1>9, <1>10, <1>11, <1>12, <1>13, <1>14,
      <1>15, <1>16, <1>17
  DEF RuntimeNext, Progress, Failure, Reconcile, Execute, CleanUp, Quiescent

\* The steps of a run up to the request that starts its tool.
Early == NotYet \union Publishing \union {"attach", "start"}

\* No step leads back before the start.
LEMMA EarlyIsLeft ==
    ASSUME TypeInv, [RuntimeNext]_vars, NEW c \in Runner, pc'[c] \in Early
    PROVE  pc[c] \in Early
<1> USE RunnerIsProcess DEF TypeInv, Goto, Early, NotYet, Publishing, InPass, Over
<1>1. ASSUME NEW p \in Process, AcquireCoordinator(p) \/ AcquireFails(p)
               \/ GiveCoordinatorBack(p)
      PROVE  pc[c] \in Early
  BY <1>1 DEF AcquireCoordinator, AcquireFails, GiveCoordinatorBack
<1>2. ASSUME NEW p \in Process, Discover(p) \/ EnumerateLeases(p) \/ Prove(p)
               \/ SkipVanished(p) \/ AllProved(p) \/ AllProbed(p)
      PROVE  pc[c] \in Early
  BY <1>2 DEF Discover, EnumerateLeases, Prove, SkipVanished, AllProved, AllProbed
<1>3. ASSUME NEW p \in Process, ProbeLease(p) \/ ProbeDetachedLease(p) \/ NextOrphan(p)
               \/ AllSwept(p) \/ UnlinkLease(p) \/ ReapLease(p) \/ AllReaped(p)
      PROVE  pc[c] \in Early
  BY <1>3 DEF ProbeLease, ProbeDetachedLease, NextOrphan, AllSwept, UnlinkLease, ReapLease,
      AllReaped
<1>4. ASSUME NEW p \in Process, StopOrphan(p) \/ PurgeOrphan(p) \/ WaitOrphan(p)
               \/ WaitTimesOut(p) \/ CheckOrphan(p) \/ EndPass(p) \/ AbandonPass(p)
               \/ PassFails(p) \/ Crash(p)
      PROVE  pc[c] \in Early
  BY <1>4 DEF StopOrphan, PurgeOrphan, WaitOrphan, WaitTimesOut, CheckOrphan, EndPass,
      AbandonPass, PassFails, Crash
<1>5. ASSUME NEW p \in Runner, Execute(p)
      PROVE  pc[c] \in Early
  BY <1>5 DEF Execute, CreateContainer, OpenLease, LockLease, LetCoordinatorGo, Attach,
      StartContainer, SessionEnds
<1>6. ASSUME NEW p \in Runner, CleanUp(p)
      PROVE  pc[c] \in Early
  BY <1>6 DEF CleanUp, KillOwn, AwaitOwn, InspectOwn, DeleteOwn, Reacquire, ReacquireTimesOut,
      RetireLease, UnlockLease, ToClose
<1>7. ASSUME NEW p \in Runner, CreateFails(p) \/ LeaseFails(p) \/ StartFails(p)
               \/ SessionFails(p) \/ KillOwnFails(p) \/ RemoveOwnFails(p)
      PROVE  pc[c] \in Early
  BY <1>7 DEF CreateFails, LeaseFails, StartFails, SessionFails, KillOwnFails, RemoveOwnFails,
      ToClose
<1>8. ASSUME \/ \E x \in Runner : ToolExits(x) \/ KilledContainerDies(x)
             \/ Deliver \/ UNCHANGED vars
      PROVE  pc[c] \in Early
  BY <1>8 DEF ToolExits, KilledContainerDies, Deliver, vars
<1> QED
  BY <1>1, <1>2, <1>3, <1>4, <1>5, <1>6, <1>7, <1>8
  DEF RuntimeNext, Progress, Failure, Reconcile, Quiescent

\* A start that may act late was sent by a run that is then past it, and acts once.
LEMMA LateStart ==
    ASSUME TypeInv, [RuntimeNext]_vars, NEW c \in Runner, <<"start", c>> \in wire',
           <<"start", c>> \notin wire
    PROVE  pc[c] = "start" /\ pc'[c] \notin Early /\ box' = box
<1> USE RunnerIsProcess DEF TypeInv, Goto, Early, NotYet, Publishing, InPass
<1>1. ASSUME NEW p \in Process, Unanswered(p)
      PROVE  pc[p] = "start" /\ p = c
  BY <1>1 DEF Unanswered, Submitted, Request
<1>2. ASSUME NEW p \in Process, PassFails(p) PROVE FALSE
  BY <1>1, <1>2 DEF PassFails
<1>3. ASSUME NEW p \in Process, Crash(p) PROVE pc[c] = "start" /\ pc'[c] = "dead" /\ box' = box
  BY <1>1, <1>3 DEF Crash
<1>4. ASSUME NEW p \in Runner, StartFails(p)
      PROVE  pc[c] = "start" /\ pc'[c] = "kill" /\ box' = box
  BY <1>1, <1>4 DEF StartFails
<1>5. ASSUME NEW p \in Runner, CreateFails(p) \/ KillOwnFails(p) \/ RemoveOwnFails(p) PROVE FALSE
  <2>1. pc[p] # "start"
    BY <1>5 DEF CreateFails, KillOwnFails, RemoveOwnFails
  <2>2. Unanswered(p) \/ wire' \in {wire, wire \union {<<"delete", p>>}}
    BY <1>5 DEF CreateFails, KillOwnFails, RemoveOwnFails
  <2>3. <<"start", c>> # <<"delete", p>>
    OBVIOUS
  <2> QED  BY <1>1, <2>1, <2>2, <2>3
<1>6. ASSUME NEW p \in Process, Reconcile(p) \/ AcquireCoordinator(p) \/ GiveCoordinatorBack(p)
               \/ AcquireFails(p)
      PROVE  wire' = wire
  BY <1>6 DEF Reconcile, Discover, EnumerateLeases, Prove, SkipVanished, AllProved, ProbeLease,
      ProbeDetachedLease, AllProbed, NextOrphan, AllSwept, StopOrphan, WaitOrphan, WaitTimesOut,
      CheckOrphan, PurgeOrphan, UnlinkLease, ReapLease, AllReaped, EndPass, AbandonPass,
      AcquireCoordinator, GiveCoordinatorBack, AcquireFails
<1>7. ASSUME NEW p \in Runner, Execute(p) \/ CleanUp(p) \/ LeaseFails(p) \/ SessionFails(p)
      PROVE  wire' = wire
  BY <1>7 DEF Execute, CreateContainer, OpenLease, LockLease, LetCoordinatorGo, Attach,
      StartContainer, SessionEnds, CleanUp, KillOwn, AwaitOwn, InspectOwn, DeleteOwn, Reacquire,
      ReacquireTimesOut, RetireLease, UnlockLease, LeaseFails, SessionFails
<1>8. ASSUME \/ \E x \in Runner : ToolExits(x) \/ KilledContainerDies(x)
             \/ Deliver \/ UNCHANGED vars
      PROVE  wire' \subseteq wire
  BY <1>8 DEF ToolExits, KilledContainerDies, Deliver, vars
<1> QED
  BY <1>2, <1>3, <1>4, <1>5, <1>6, <1>7, <1>8 DEF RuntimeNext, Progress, Failure, Quiescent

\* What a step may do to the container of a run, and where the run is then.
ContainerMoves(c) ==
    LET stays == pc'[c] = pc[c] IN
    \/ box'[c] = box[c]
    \/ box[c] = "absent" /\ box'[c] = "created"
    \/ /\ box[c] \in Stopped /\ box'[c] = "running"
       /\ \/ pc[c] = "start" /\ pc'[c] = "session" /\ wire' = wire
          \/ <<"start", c>> \in wire /\ <<"start", c>> \notin wire' /\ stays
    \/ /\ box[c] = "running" /\ box'[c] = "dying" /\ wire' \subseteq wire
       /\ \/ pc[c] = "kill" /\ pc'[c] = "await"
          \/ stays /\ pc[c] \in Cleaning \union AfterUse
    \/ box[c] \in Live /\ box'[c] = "exited" /\ stays /\ wire' = wire
    \/ /\ box[c] \in Stopped \union {"absent"} /\ box'[c] = "removed"
       /\ \/ pc[c] = "create" /\ pc'[c] = "giveBack" /\ box[c] = "absent"
          \/ pc[c] = "delete" /\ pc'[c] \in {"giveBack", "reacquire", "unlock"}
          \/ stays /\ pc[c] \in Cleaning \union AfterUse

LEMMA ContainerStep ==
    ASSUME RuntimeInv, [RuntimeNext]_vars, NEW c \in Runner
    PROVE  ContainerMoves(c)
<1> USE RunnerIsProcess DEF RuntimeInv, TypeInv, Goto
<1>1. ASSUME UNCHANGED box PROVE ContainerMoves(c)
  BY <1>1 DEF ContainerMoves
<1>2. ASSUME NEW p \in Process, StopOrphan(p) PROVE ContainerMoves(c)
  <2>1. PICK x \in target : Do("kill", x)
    BY <1>2 DEF StopOrphan
  <2>2. x \in Runner /\ pc[x] \in AfterUse /\ wire' = wire
    BY <1>2, <2>1 DEF StopOrphan, OrphansAbandoned
  <2>3. pc'[x] = pc[x]
    BY <1>2, <2>2 DEF StopOrphan, AfterUse, Over
  <2>4. box'[c] = IF x = c THEN After("kill", box[c]) ELSE box[c]
    BY <2>1, <2>2 DEF Do
  <2> QED  BY <2>2, <2>3, <2>4 DEF ContainerMoves, After
<1>3. ASSUME NEW p \in Process, PurgeOrphan(p) PROVE ContainerMoves(c)
  <2>1. PICK x \in target : Do("delete", x)
    BY <1>3 DEF PurgeOrphan
  <2>2. x \in Runner /\ pc[x] \in AfterUse
    BY <1>3, <2>1 DEF PurgeOrphan, OrphansAbandoned
  <2>3. pc'[x] = pc[x]
    BY <1>3, <2>2 DEF PurgeOrphan, AfterUse, Over
  <2>4. box'[c] = IF x = c THEN After("delete", box[c]) ELSE box[c]
    BY <2>1, <2>2 DEF Do
  <2> QED  BY <2>2, <2>3, <2>4 DEF ContainerMoves, After
<1>4. ASSUME NEW p \in Runner, CreateContainer(p) PROVE ContainerMoves(c)
  BY <1>4 DEF CreateContainer, Do, After, ContainerMoves
<1>5. ASSUME NEW p \in Runner, CreateFails(p) PROVE ContainerMoves(c)
  <2>1. /\ pc[p] = "create" /\ pc'[p] = "giveBack"
        /\ box' = box \/ box' = [box EXCEPT ![p] = "removed"] \/ Do("create", p)
    BY <1>5 DEF CreateFails
  <2>2. box[p] = "absent"
    BY <2>1 DEF NothingBefore, NotYet
  <2> QED  BY <2>1, <2>2 DEF ContainerMoves, Do, After
<1>6. ASSUME NEW p \in Runner, StartContainer(p) PROVE ContainerMoves(c)
  BY <1>6 DEF StartContainer, Do, After, ContainerMoves
<1>7. ASSUME NEW p \in Runner, KillOwn(p) PROVE ContainerMoves(c)
  BY <1>7 DEF KillOwn, Do, After, ContainerMoves, Live
<1>8. ASSUME NEW p \in Runner, DeleteOwn(p) PROVE ContainerMoves(c)
  BY <1>8 DEF DeleteOwn, ToClose, Do, After, ContainerMoves
<1>9. ASSUME NEW x \in Runner, ToolExits(x) \/ KilledContainerDies(x) PROVE ContainerMoves(c)
  BY <1>9 DEF ToolExits, KilledContainerDies, ContainerMoves, Live
<1>10. ASSUME Deliver PROVE ContainerMoves(c)
  <2>1. PICK r \in wire : /\ wire' = wire \ {r}
                          /\ Do(r[1], r[2]) \/ UNCHANGED box
    BY <1>10 DEF Deliver
  <2>2. r[1] \in Kinds /\ r[2] \in Runner /\ r = <<r[1], r[2]>> /\ pc' = pc
    BY <1>10, RequestTypes DEF Deliver
  <2>3. CASE box'[c] = box[c]
    BY <2>3 DEF ContainerMoves
  <2>4. CASE r[2] = c /\ Do(r[1], r[2])
    <3>1. box'[c] = After(r[1], box[c])
      BY <2>2, <2>4 DEF Do
    <3>2. r[1] \in {"kill", "delete"} => pc[c] \in Cleaning \union AfterUse
      BY <2>2, <2>4 DEF LateRequests
    <3>3. r[1] = "start" => <<"start", c>> \in wire /\ <<"start", c>> \notin wire'
      BY <2>1, <2>2, <2>4
    <3> QED  BY <2>1, <2>2, <3>1, <3>2, <3>3 DEF ContainerMoves, After, Kinds
  <2> QED  BY <2>1, <2>2, <2>3, <2>4 DEF Do
<1>11. ASSUME NEW p \in Process, Reconcile(p)
       PROVE  StopOrphan(p) \/ PurgeOrphan(p) \/ UNCHANGED box
  BY <1>11 DEF Reconcile, Discover, EnumerateLeases, Prove, SkipVanished, AllProved, ProbeLease,
      ProbeDetachedLease, AllProbed, NextOrphan, AllSwept, WaitOrphan, WaitTimesOut, CheckOrphan,
      UnlinkLease, ReapLease, AllReaped, EndPass, AbandonPass
<1>12. ASSUME NEW p \in Process, AcquireCoordinator(p) \/ GiveCoordinatorBack(p)
                \/ AcquireFails(p) \/ PassFails(p) \/ Crash(p)
       PROVE  UNCHANGED box
  BY <1>12 DEF AcquireCoordinator, GiveCoordinatorBack, AcquireFails, PassFails, Crash
<1>13. ASSUME NEW p \in Runner, Execute(p)
       PROVE  CreateContainer(p) \/ StartContainer(p) \/ UNCHANGED box
  BY <1>13 DEF Execute, OpenLease, LockLease, LetCoordinatorGo, Attach, SessionEnds
<1>14. ASSUME NEW p \in Runner, CleanUp(p)
       PROVE  KillOwn(p) \/ DeleteOwn(p) \/ UNCHANGED box
  BY <1>14 DEF CleanUp, AwaitOwn, InspectOwn, Reacquire, ReacquireTimesOut, RetireLease,
      UnlockLease
<1>15. ASSUME NEW p \in Runner, LeaseFails(p) \/ StartFails(p) \/ SessionFails(p)
                \/ KillOwnFails(p) \/ RemoveOwnFails(p)
       PROVE  UNCHANGED box
  BY <1>15 DEF LeaseFails, StartFails, SessionFails, KillOwnFails, RemoveOwnFails
<1>16. ASSUME UNCHANGED vars PROVE UNCHANGED box  BY <1>16 DEF vars
<1> QED
  BY <1>1, <1>2, <1>3, <1>4, <1>5, <1>6, <1>7, <1>8, <1>9, <1>10, <1>11, <1>12, <1>13, <1>14,
      <1>15, <1>16
  DEF RuntimeNext, Progress, Failure, Quiescent

\* The start of a run acts at most once, and before anything has run in its container.
StartedOnce ==
    \A c \in Runner :
        /\ pc[c] \in Early => box[c] \in {"absent", "created"} /\ <<"start", c>> \notin wire
        /\ <<"start", c>> \in wire => box[c] \in {"absent", "created", "removed"}

LEMMA StartedStep == RuntimeInv /\ StartedOnce /\ [RuntimeNext]_vars => StartedOnce'
<1> SUFFICES ASSUME RuntimeInv, StartedOnce, [RuntimeNext]_vars, NEW c \in Runner
             PROVE  /\ pc'[c] \in Early => /\ box'[c] \in {"absent", "created"}
                                           /\ <<"start", c>> \notin wire'
                    /\ <<"start", c>> \in wire' => box'[c] \in {"absent", "created", "removed"}
  BY DEF StartedOnce
<1>1. TypeInv
  BY DEF RuntimeInv
<1>2. pc'[c] \in Early => pc[c] \in Early
  BY <1>1, EarlyIsLeft
<1>3. <<"start", c>> \in wire' /\ <<"start", c>> \notin wire =>
          pc[c] = "start" /\ pc'[c] \notin Early /\ box' = box
  BY <1>1, LateStart
<1>4. pc[c] = "start" => pc[c] \in Early
  BY DEF Early
<1>5. "session" \notin Early /\ "giveBack" \notin Early /\ "await" \notin Early
  BY DEF Early, NotYet, InPass, Publishing
<1>6. (Cleaning \union AfterUse) \intersect Early = {}
  BY DEF Early, NotYet, InPass, Publishing, Cleaning, AfterUse, Over
<1>7. "reacquire" \notin Early /\ "unlock" \notin Early
  BY DEF Early, NotYet, InPass, Publishing
<1>8. ContainerMoves(c)
  BY ContainerStep
<1>9. CASE box'[c] = box[c]
  BY <1>2, <1>3, <1>4, <1>9 DEF StartedOnce
<1>10. CASE box[c] = "absent" /\ box'[c] = "created"
  BY <1>2, <1>3, <1>4, <1>10 DEF StartedOnce
<1>11. CASE box[c] \in Stopped /\ box'[c] = "running"
  BY <1>3, <1>4, <1>5, <1>8, <1>11 DEF StartedOnce, ContainerMoves, Stopped, Live
<1>12. CASE box[c] = "running" /\ box'[c] = "dying"
  BY <1>5, <1>6, <1>8, <1>12 DEF StartedOnce, ContainerMoves, Stopped, Live
<1>13. CASE box[c] \in Live /\ box'[c] = "exited"
  BY <1>2, <1>3, <1>4, <1>13 DEF StartedOnce, Live
<1>14. CASE box[c] \in Stopped \union {"absent"} /\ box'[c] = "removed"
  BY <1>3, <1>5, <1>6, <1>7, <1>8, <1>14 DEF StartedOnce, ContainerMoves, Stopped, Live
<1> QED
  BY <1>8, <1>9, <1>10, <1>11, <1>12, <1>13, <1>14 DEF ContainerMoves

\* Each step of the protocol is for each run a step of a tool run, or none.
LEMMA ToolRunStep ==
    ASSUME RuntimeInv, StartedOnce, [RuntimeNext]_vars, NEW c \in Runner
    PROVE  [Run(c)!ToolRunNext]_(Run(c)!toolRunVars)
<1> USE DEF Run!toolRunVars, Run!ToolRunNext
<1>1. TypeInv
  BY DEF RuntimeInv
<1>2. box[c] \in Boxes /\ c \in Process
  BY <1>1, RunnerIsProcess DEF TypeInv
<1>3. \/ RunOf(c)' = RunOf(c)
      \/ RunOf(c) = "open" /\ RunOf(c)' = "closing"
      \/ RunOf(c) # "over" /\ RunOf(c)' = "over"
  BY <1>1, RunMoves
<1>4. ContainerMoves(c)
  BY ContainerStep
<1>5. ASSUME ToolOf(c)' = ToolOf(c)
      PROVE  Run(c)!CloseRun \/ Run(c)!EndRun \/ UNCHANGED Run(c)!toolRunVars
  BY <1>3, <1>5 DEF Run!CloseRun, Run!Close, Run!EndRun
<1>6. pc[c] \in Cleaning \union AfterUse => RunOf(c) # "open"
  BY DEF RunOf, Giving, AfterUse, Over
<1>7. pc'[c] = pc[c] => RunOf(c)' = RunOf(c)
  BY DEF RunOf, Giving
<1>8. CASE box'[c] = box[c] \/ (box[c] = "absent" /\ box'[c] = "created")
  BY <1>5, <1>8 DEF ToolOf
<1>9. CASE box[c] \in Stopped /\ box'[c] = "running"
  <2>1. pc[c] = "start" \/ <<"start", c>> \in wire
    BY <1>4, <1>9 DEF ContainerMoves, Stopped, Live
  <2>2. box[c] \in {"absent", "created"}
    BY <1>9, <2>1 DEF StartedOnce, Early, Stopped
  <2>3. ToolOf(c) = "none" /\ ToolOf(c)' = "running"
    BY <1>9, <2>2 DEF ToolOf
  <2>4. RunOf(c)' = RunOf(c)
    <3>1. CASE pc'[c] = pc[c]
      BY <1>7, <3>1
    <3>2. CASE pc[c] = "start" /\ pc'[c] = "session"
      BY <3>2 DEF RunOf, Giving, Over, Cleaning
    <3> QED
      BY <1>4, <1>9, <3>1, <3>2 DEF ContainerMoves, Stopped, Live
  <2> QED
    BY <2>3, <2>4 DEF Run!StartTool, Run!MayClose
<1>10. CASE box[c] = "running" /\ box'[c] = "dying"
  <2>1. ToolOf(c) = "running" /\ ToolOf(c)' = "dying"
    BY <1>10 DEF ToolOf
  <2>2. RunOf(c) # "open" /\ RunOf(c)' = RunOf(c)
    <3>1. CASE pc'[c] = pc[c] /\ pc[c] \in Cleaning \union AfterUse
      BY <1>6, <1>7, <3>1
    <3>2. CASE pc[c] = "kill" /\ pc'[c] = "await"
      BY <3>2 DEF RunOf, Giving, Over, Cleaning
    <3> QED
      BY <1>4, <1>10, <3>1, <3>2 DEF ContainerMoves, Stopped, Live
  <2> QED
    BY <2>1, <2>2 DEF Run!KillTool
<1>11. CASE box[c] \in Live /\ box'[c] = "exited" /\ pc'[c] = pc[c]
  BY <1>7, <1>11 DEF ToolOf, Live, Run!ToolExits
<1>12. CASE box[c] \in Stopped \union {"absent"} /\ box'[c] = "removed"
  <2>1. ToolOf(c) \in {"none", "exited"} /\ ToolOf(c)' = "removed"
    BY <1>12 DEF ToolOf, Stopped
  <2>2. \/ RunOf(c) # "open" /\ RunOf(c)' = RunOf(c)
        \/ RunOf(c) = "open" /\ RunOf(c)' = "closing"
    <3>1. CASE pc'[c] = pc[c] /\ pc[c] \in Cleaning \union AfterUse
      BY <1>6, <1>7, <3>1
    <3>2. CASE pc[c] = "create" /\ pc'[c] = "giveBack"
      BY <3>2 DEF RunOf, Giving, Over, Cleaning
    <3>3. CASE pc[c] = "delete" /\ pc'[c] \in {"giveBack", "reacquire", "unlock"}
      BY <3>3 DEF RunOf, Giving, Over, Cleaning
    <3> QED
      BY <1>4, <1>12, <3>1, <3>2, <3>3 DEF ContainerMoves, Stopped, Live
  <2> QED
    BY <2>1, <2>2 DEF Run!RemoveContainer, Run!MayClose, Run!Close
<1> QED
  BY <1>4, <1>8, <1>9, <1>10, <1>11, <1>12 DEF ContainerMoves

\* A run starts with a container that has run nothing, and takes only the steps of a
\* tool run: its tool starts at most once, and nobody kills or removes it before the
\* run gives it up, for any number of other runs, passes, crashes and late requests.
THEOREM RunnersAreToolRuns == RuntimeSpec => RunsAreToolRuns
<1>1. RuntimeInit => StartedOnce /\ \A c \in Runner : Run(c)!ToolRunInit
  BY RunnerIsProcess
  DEF RuntimeInit, StartedOnce, Run!ToolRunInit, ToolOf, RunOf, Giving, Over, Cleaning
<1>2. RuntimeInv /\ StartedOnce /\ [RuntimeNext]_vars =>
          [\A c \in Runner : [Run(c)!ToolRunNext]_(Run(c)!toolRunVars)]_vars
  BY ToolRunStep
<1> QED
  BY <1>1, <1>2, StartedStep, RuntimeInvariant, PTL DEF RuntimeSpec, RunsAreToolRuns

=============================================================================
