---------------------------- MODULE ImageLockProofs ----------------------------
(***************************************************************************)
(* Proofs about the image lock, for every set of commands and of digests:  *)
(* what runs was in a lock in effect, a refresh keeps the other entries,   *)
(* the lock is not lost, and a restore puts its parts in place together.   *)
(***************************************************************************)
EXTENDS ImageLock, TLAPS

Files == Lock \union {NoFile}
LockCommands == {"lock", "preserving", "update", "wslLock", "restore", "restoreBare", "run", "check"}
Keeping == {"preserving", "update"}
Restoring == {"restore", "restoreBare"}
Loading == {"readLock", "statLock", "statBak", "renameBak", "rereadLock"}
Writing == {"dropBak", "moveAside", "publish", "putBack", "cleanBak"}
RestoreSteps == {"restoreSig", "restoreRegistry", "restoreSigned", "restoreNewSig"}
Removing == {"removeLock", "removeBak"}
LockSteps ==
    {"idle", "done", "run", "resolve"} \union Loading \union Writing \union RestoreSteps
    \union Removing

LockWorks ==
    [cmd : LockCommands \union {"none"}, images : SUBSET Image, kind : {"", "local", "registry"},
     step : LockSteps, todo : SUBSET Image, got : Files, next : Files,
     ref : Entry \union {<<"nofile", 0>>}]

LockStateOK ==
    /\ lockFile \in Files /\ lockBak \in Files
    /\ registry \in {"own", "archived"} /\ signature \in {"own", "archived", "none"}
    /\ tag \in 1 .. MaxDigest
    /\ mode \in [frontend : {"windows", "wsl"}, policy : Policies]
    /\ commands \in Nat

StepsOf(cmd) ==
    CASE cmd = "run" -> Loading \union {"run"}
      [] cmd = "check" -> Loading
      [] cmd = "lock" -> {"resolve"} \union Writing
      [] cmd \in Keeping \union {"wslLock"} -> Loading \union {"resolve"} \union Writing
      [] cmd = "restore" -> RestoreSteps \union Writing
      [] cmd = "restoreBare" -> RestoreSteps \union Removing
      [] OTHER -> {}

\* What a command is doing by itself.
FitsStep(w) ==
    /\ w.step \notin {"idle", "done"} =>
          /\ w.step \in StepsOf(w.cmd) /\ w.next \in Lock /\ w.todo \subseteq w.images
          /\ w.cmd \in Restoring => w.todo = {}
    /\ w.cmd = "run" /\ w.step \notin {"idle", "done"} => \E i \in Image : w.images = {i}
    /\ w.step \in Writing => w.todo = {}
    /\ w.cmd = "restore" /\ w.step \in Writing => w.next = ArchivedLock

\* Is what a refresh is about to write what it has to keep of a lock?
KeptOf(w, l) ==
    \A i \in Image :
        LET old == IF l = NoFile THEN NoEntry ELSE l[i] IN
        IF i \notin w.images THEN w.next[i] = old
        ELSE i \notin w.todo /\ w.cmd = "update" /\ w.kind = "" /\ old[1] = "local" =>
                 w.next[i][1] = "local"

RunKnows(w, eff, rep) ==
    w.step = "run" =>
        \A i \in w.images :
            IF w.ref = NoFile[i]
            THEN ((\E l \in eff : l[i] = w.ref) \/ rep) /\ ~mode.policy.requireLock
            ELSE \E l \in eff : l[i] = w.ref

\* Between the looks of a load there is no file, unless another command put it there.
LoadKnows(w, rep) == w.step \in {"statLock", "statBak"} => lockFile = NoFile \/ rep

\* What a refresh loads is in effect, and what it keeps was.
SeesLock(w, eff) == w.cmd \in Keeping /\ w.step \in Loading => InEffect \in eff
RefreshKnows(w, eff, rep) ==
    w.cmd \in Keeping /\ ~rep =>
        /\ w.step = "resolve" => w.got \in eff /\ KeptOf(w, w.got)
        /\ w.step \in {"dropBak", "moveAside", "publish"} => \E l \in eff : KeptOf(w, l)

\* A command that has loaded the lock has recovered it.
WriteKnows(w) ==
    /\ w.cmd \in Keeping \union {"wslLock"} /\ w.step \in {"resolve", "dropBak"} =>
          (lockFile = NoFile => lockBak = NoFile)
    /\ w.step = "cleanBak" => lockFile # NoFile

RestoreKnows(w, rep) ==
    w.cmd \in Restoring =>
        /\ w.step = "restoreRegistry" => signature = "none"
        /\ w.step \in Writing \union Removing \union {"restoreNewSig"} => registry = "archived"
        /\ w.step \in Writing \union Removing => signature \in {"archived", "none"}
        /\ w.step = "cleanBak" /\ ~rep => lockFile = w.next
        /\ w.step = "removeBak" /\ ~rep => lockFile = w.got

Knows(w, eff, rep) ==
    /\ RunKnows(w, eff, rep) /\ LoadKnows(w, rep) /\ SeesLock(w, eff)
    /\ RefreshKnows(w, eff, rep) /\ WriteKnows(w) /\ RestoreKnows(w, rep)

Writer(j) == Busy(j) /\ work[j].cmd \in Writers
OneWriter == \A j, k \in LockJob : Writer(j) /\ Writer(k) => j = k

LockInv ==
    /\ LockStateOK
    /\ work \in [LockJob -> LockWorks]
    /\ \A j \in LockJob : FitsStep(work[j]) /\ Knows(work[j], effective[j], replaced[j])
    /\ OneWriter

-----------------------------------------------------------------------------
(* Locks and commands *)

\* No lock is the absent file, and no entry is that of the absent file.
LEMMA LocksDiffer ==
    /\ NoFile \notin Lock /\ EmptyLock \in Lock /\ ArchivedLock \in Lock
    /\ \A i \in Image : NoFile[i] = <<"nofile", 0>> /\ NoFile[i] \notin Entry
<1>1. \A i \in Image : NoFile[i] = <<"nofile", 0>>
  BY DEF NoFile
<1>2. <<"nofile", 0>> \notin Entry
  BY DEF Entry
<1>3. \A l \in Lock : l["own"] \in Entry
  BY DEF Lock, Image
<1>4. NoFile \notin Lock
  BY <1>1, <1>2, <1>3 DEF Image
<1>5. EmptyLock \in Lock
  BY DEF EmptyLock, Lock, NoEntry, Entry
<1>6. ArchivedLock \in Lock
  <2>1. NoEntry \in Entry
    BY DEF NoEntry, Entry
  <2>2. <<"registry", 1>> \in Entry
    BY ImageLockAssumption DEF Entry
  <2> QED  BY <2>1, <2>2 DEF ArchivedLock, Lock
<1> QED  BY <1>1, <1>2, <1>4, <1>5, <1>6

\* The updates of a command's record keep its type.
LEMMA WorkUpdates ==
    ASSUME NEW w \in LockWorks
    PROVE  /\ \A st \in LockSteps : [w EXCEPT !.step = st] \in LockWorks
           /\ \A st \in LockSteps, l \in Files : [w EXCEPT !.step = st, !.got = l] \in LockWorks
           /\ \A st \in LockSteps, l \in Files : [w EXCEPT !.step = st, !.next = l] \in LockWorks
           /\ \A l \in Files : [w EXCEPT !.got = l] \in LockWorks
           /\ \A r \in Entry \union {<<"nofile", 0>>} :
                 [w EXCEPT !.step = "run", !.ref = r, !.got = NoFile] \in LockWorks
<1>1. \A st \in LockSteps : [w EXCEPT !.step = st] \in LockWorks
  BY DEF LockWorks
<1>2. \A st \in LockSteps, l \in Files : [w EXCEPT !.step = st, !.got = l] \in LockWorks
  BY DEF LockWorks
<1>3. \A st \in LockSteps, l \in Files : [w EXCEPT !.step = st, !.next = l] \in LockWorks
  BY DEF LockWorks
<1>4. \A l \in Files : [w EXCEPT !.got = l] \in LockWorks
  BY DEF LockWorks
<1>5. \A r \in Entry \union {<<"nofile", 0>>} :
          [w EXCEPT !.step = "run", !.ref = r, !.got = NoFile] \in LockWorks
  <2>1. "run" \in LockSteps /\ NoFile \in Files
    BY DEF LockSteps, Files
  <2> QED  BY <2>1 DEF LockWorks
<1> QED  BY <1>1, <1>2, <1>3, <1>4, <1>5

\* A refresh that has resolved an image.
LEMMA ResolvedWork ==
    ASSUME NEW w \in LockWorks, NEW t \in SUBSET Image, NEW g \in Files, NEW n \in Files,
           NEW st \in LockSteps,
           NEW v, v = [w EXCEPT !.todo = t, !.got = g, !.next = n, !.step = st]
    PROVE  v \in LockWorks
BY DEF LockWorks

\* A command that only goes on with another step.
LEMMA NextStep ==
    ASSUME NEW w \in LockWorks, NEW st \in LockSteps, NEW v, v = [w EXCEPT !.step = st]
    PROVE  /\ v \in LockWorks
           /\ v.step = st /\ v.cmd = w.cmd /\ v.images = w.images /\ v.kind = w.kind
           /\ v.todo = w.todo /\ v.got = w.got /\ v.next = w.next /\ v.ref = w.ref
<1>1. v \in LockWorks
  BY WorkUpdates
<1> QED  BY <1>1 DEF LockWorks

\* A command that has ended knows nothing.
LEMMA EndedWorks ==
    /\ NoWork \in LockWorks /\ NoWork.step = "idle" /\ NoWork.cmd = "none"
    /\ \A w \in LockWorks : Succeeds(w) \in LockWorks /\ Succeeds(w).step = "done"
    /\ \A w : w.step \in {"idle", "done"} =>
          FitsStep(w) /\ \A e, r : Knows(w, e, r)
<1>1. NoWork \in LockWorks /\ NoWork.step = "idle" /\ NoWork.cmd = "none"
  <2>1. NoEntry \in Entry /\ NoFile \in Files /\ "idle" \in LockSteps
    BY DEF NoEntry, Entry, Files, LockSteps
  <2> QED  BY <2>1 DEF NoWork, LockWorks
<1>2. \A w \in LockWorks : Succeeds(w) \in LockWorks /\ Succeeds(w).step = "done"
  <2>1. "done" \in LockSteps
    BY DEF LockSteps
  <2> QED  BY <1>1, <2>1 DEF Succeeds, LockWorks, NoWork
<1>3. ASSUME NEW w, w.step \in {"idle", "done"}
      PROVE  FitsStep(w) /\ \A e, r : Knows(w, e, r)
  <2>1. w.step \notin {"run", "resolve"} \union Loading \union Writing \union Removing
                      \union {"restoreRegistry", "restoreNewSig"}
    BY <1>3 DEF Loading, Writing, Removing
  <2>2. FitsStep(w)
    <3>1. w.cmd = "run" /\ w.step # "done" => w.step = "idle"
      BY <1>3
    <3> QED  BY <1>3, <2>1 DEF FitsStep
  <2> QED
    BY <2>1, <2>2 DEF Knows, RunKnows, LoadKnows, SeesLock, RefreshKnows, WriteKnows, RestoreKnows,
                      Loading, Writing, Removing
<1> QED  BY <1>1, <1>2, <1>3

-----------------------------------------------------------------------------
(* What a step of one command leaves to the others *)

\* The histories of a command after a step of some command.
LEMMA Histories ==
    ASSUME NEW j \in LockJob, Watch \/ Replaces(j), NEW k \in LockJob
    PROVE  /\ Busy(k)' /\ work'[k].cmd = "run" =>
                 effective'[k] = effective[k] \union {[i \in work'[k].images |-> InEffect'[i]]}
           /\ Busy(k)' /\ work'[k].cmd \in Keeping =>
                 effective'[k] = effective[k] \union {InEffect'}
           /\ Watch => replaced'[k] = (replaced[k] /\ Busy(k)')
           /\ Replaces(j) =>
                 replaced'[k] = (Busy(k)' /\ (replaced[k] \/ (k # j /\ work[k].step \in Exposed)))
<1>1. Seen
  BY DEF Watch, Replaces
<1>2. effective'[k] = LET w == work'[k] IN
          IF ~Busy(k)' THEN {}
          ELSE IF w.cmd = "run" THEN effective[k] \union {[i \in w.images |-> InEffect'[i]]}
          ELSE IF w.cmd \in {"update", "preserving"} THEN effective[k] \union {InEffect'}
          ELSE {}
  BY <1>1 DEF Seen
<1>3. Busy(k)' /\ work'[k].cmd = "run" =>
          effective'[k] = effective[k] \union {[i \in work'[k].images |-> InEffect'[i]]}
  BY <1>2
<1>4. Busy(k)' /\ work'[k].cmd \in Keeping => effective'[k] = effective[k] \union {InEffect'}
  BY <1>2 DEF Keeping
<1>5. Watch => replaced'[k] = (replaced[k] /\ Busy(k)')
  BY DEF Watch
<1>6. Replaces(j) =>
          replaced'[k] = (Busy(k)' /\ (replaced[k] \/ (k # j /\ work[k].step \in Exposed)))
  BY DEF Replaces
<1> QED  BY <1>3, <1>4, <1>5, <1>6

\* The lock files and the restored parts change in three ways: by the one command
\* that writes them, when it takes the lock file away or puts one in place; and by
\* a reader that recovers it.  A file put in place is noticed where it escapes a look.
Changes(j) ==
    \/ UNCHANGED <<lockFile, lockBak, registry, signature>> /\ Watch
    \/ Writer(j) /\ lockFile' \in {lockFile, NoFile} /\ Watch
    \/ Writer(j) /\ Replaces(j)
    \/ lockFile' # NoFile /\ lockBak' = NoFile /\ UNCHANGED <<registry, signature>> /\ Replaces(j)

\* Only writers refresh, write and restore.
LEMMA WriterSteps ==
    ASSUME NEW w \in LockWorks, FitsStep(w), w.step \notin {"idle", "done"},
           w.step \in {"resolve"} \union Writing \union Removing \union RestoreSteps
    PROVE  w.cmd \in Writers
BY DEF FitsStep, StepsOf, Writers, LockWorks, LockCommands, Keeping, Loading, Writing, Removing,
       RestoreSteps

\* What a command knows survives the steps of the others.
LEMMA OthersKnow ==
    ASSUME LockInv, NEW j \in LockJob, Changes(j), mode' = mode,
           NEW k \in LockJob, k # j, work'[k] = work[k]
    PROVE  Knows(work[k], effective[k], replaced[k])'
<1> PICK w : w = work[k]  OBVIOUS
<1> PICK e : e = effective[k]  OBVIOUS
<1> PICK f : f = effective'[k]  OBVIOUS
<1> PICK r : r = replaced[k]  OBVIOUS
<1> PICK q : q = replaced'[k]  OBVIOUS
<1>1. w \in LockWorks /\ FitsStep(w) /\ Knows(w, e, r)
  BY DEF LockInv
<1>2. SUFFICES Knows(w, f, q)'
  BY DEF Knows, RunKnows, LoadKnows, SeesLock, RefreshKnows, WriteKnows, RestoreKnows
<1>3. CASE w.step \in {"idle", "done"}
  BY <1>3, EndedWorks DEF Knows, RunKnows, LoadKnows, SeesLock, RefreshKnows, WriteKnows, RestoreKnows,
                          Loading, Writing, Removing
<1>4. CASE w.step \notin {"idle", "done"}
  <2>1. Busy(k) /\ Busy(k)'
    BY <1>4 DEF Busy
  <2>2. /\ w.cmd \in Keeping \union {"run"} => e \subseteq f
        /\ w.cmd \in Keeping => InEffect' \in f
        /\ r => q
        /\ Watch => (q <=> r)
        /\ Replaces(j) /\ w.step \in Exposed => q
    <3>1. Watch \/ Replaces(j)
      BY DEF Changes
    <3>2. work'[k].cmd = w.cmd
      OBVIOUS
    <3>3. w.cmd = "run" => e \subseteq f
      BY <2>1, <3>1, <3>2, Histories
    <3>4. w.cmd \in Keeping => e \subseteq f /\ InEffect' \in f
      BY <2>1, <3>1, <3>2, Histories
    <3>5. Watch => q = (r /\ Busy(k)')
      BY <3>1, Histories
    <3>6. Replaces(j) => q = (Busy(k)' /\ (r \/ (k # j /\ w.step \in Exposed)))
      BY <3>1, Histories
    <3> QED  BY <2>1, <3>1, <3>3, <3>4, <3>5, <3>6
  <2>3. RunKnows(w, f, q)'
    <3>1. w.step = "run" => w.cmd = "run"
      BY <1>1, <1>4 DEF FitsStep, StepsOf, Loading, Writing, RestoreSteps, Removing, Keeping,
                        LockWorks, LockCommands
    <3>2. RunKnows(w, e, r) => RunKnows(w, f, q)
      BY <2>2, <3>1 DEF RunKnows
    <3> QED  BY <1>1, <3>2 DEF Knows, RunKnows
  <2>4. LoadKnows(w, q)'
    <3>1. w.step \in {"statLock", "statBak"} => lockFile' \in {lockFile, NoFile} \/ q
      BY <2>2 DEF Changes, Exposed
    <3> QED  BY <1>1, <2>2, <3>1 DEF Knows, LoadKnows
  <2>5. w.cmd \in Writers =>
            \/ UNCHANGED <<lockFile, lockBak, registry, signature>> /\ (q <=> r)
            \/ /\ lockFile' # NoFile /\ UNCHANGED <<registry, signature>>
               /\ (r => q) /\ (w.step \in Exposed => q)
    <3>1. w.cmd \in Writers => ~Writer(j)
      BY <2>1 DEF LockInv, OneWriter, Writer
    <3> QED  BY <2>2, <3>1 DEF Changes
  <2>6. RefreshKnows(w, f, q)' /\ SeesLock(w, f)'
    <3>1. RefreshKnows(w, f, q)'
      BY <1>1, <2>2 DEF Knows, RefreshKnows, KeptOf
    <3>2. SeesLock(w, f)'
      BY <2>2 DEF SeesLock
    <3> QED  BY <3>1, <3>2
  <2>7. WriteKnows(w)'
    <3>1. w.step \in {"resolve", "dropBak", "cleanBak"} => w.cmd \in Writers
      BY <1>1, <1>4, WriterSteps DEF Writing
    <3> QED  BY <1>1, <2>5, <3>1 DEF Knows, WriteKnows
  <2>8. RestoreKnows(w, q)'
    <3>1. w.cmd \in Restoring => w.cmd \in Writers
      BY DEF Restoring, Writers
    <3>2. w.step \in {"cleanBak", "removeBak"} => w.step \in Exposed
      BY DEF Exposed
    <3> QED  BY <1>1, <2>5, <3>1, <3>2 DEF Knows, RestoreKnows
  <2> QED  BY <2>3, <2>4, <2>6, <2>7, <2>8 DEF Knows
<1> QED  BY <1>3, <1>4

\* A step keeps the invariant if the command at work has found out what its next
\* step needs.
LEMMA LockFrame ==
    ASSUME LockInv, LockStateOK', NEW j \in LockJob, NEW v \in LockWorks,
           work' = [work EXCEPT ![j] = v], Changes(j), mode' = mode,
           FitsStep(v), NEW e, NEW r, e = effective'[j], r = replaced'[j], Knows(v, e, r)',
           v.step \notin {"idle", "done"} /\ v.cmd \in Writers =>
               Writer(j) \/ \A k \in LockJob : ~Writer(k)
    PROVE  LockInv'
<1>1. /\ work'[j] = v
      /\ \A k \in LockJob \ {j} : work'[k] = work[k]
      /\ work' \in [LockJob -> LockWorks]
  BY DEF LockInv
<1>2. \A k \in LockJob : FitsStep(work[k])'
  BY <1>1 DEF LockInv, FitsStep
<1>3. \A k \in LockJob \ {j} : Knows(work[k], effective[k], replaced[k])'
  BY <1>1, OthersKnow
<1>4. Knows(work[j], effective[j], replaced[j])'
  BY <1>1 DEF Knows, RunKnows, LoadKnows, SeesLock, RefreshKnows, WriteKnows, RestoreKnows
<1>5. OneWriter'
  <2> SUFFICES ASSUME NEW k \in LockJob, NEW l \in LockJob, Writer(k)', Writer(l)'
               PROVE  k = l
    BY DEF OneWriter
  <2>1. \A i \in LockJob \ {j} : Writer(i)' => Writer(i)
    BY <1>1 DEF Writer, Busy
  <2>2. Writer(j)' => v.step \notin {"idle", "done"} /\ v.cmd \in Writers
    BY <1>1 DEF Writer, Busy
  <2> QED  BY <2>1, <2>2 DEF LockInv, OneWriter
<1> QED  BY <1>1, <1>2, <1>3, <1>4, <1>5 DEF LockInv

\* A command that ends keeps the invariant.
LEMMA EndFrame ==
    ASSUME LockInv, LockStateOK', NEW j \in LockJob, Changes(j), mode' = mode,
           GivesUp(j) \/ Completes(j)
    PROVE  LockInv'
<1>1. PICK v \in LockWorks : v.step \in {"idle", "done"} /\ work' = [work EXCEPT ![j] = v]
  <2>1. work[j] \in LockWorks
    BY DEF LockInv
  <2> QED  BY <2>1, EndedWorks DEF GivesUp, Completes
<1> PICK e : e = effective'[j]  OBVIOUS
<1> PICK r : r = replaced'[j]  OBVIOUS
<1>2. FitsStep(v)
  BY <1>1, EndedWorks
<1>3. Knows(v, e, r)'
  BY <1>1 DEF Knows, RunKnows, LoadKnows, SeesLock, RefreshKnows, WriteKnows, RestoreKnows, Loading, Writing,
              Removing
<1> QED  BY <1>1, <1>2, <1>3, LockFrame

-----------------------------------------------------------------------------
(* What a step of a command leaves to itself *)

\* What the invariant says of one command.
LEMMA AtStep ==
    ASSUME LockInv, NEW j \in LockJob, NEW w, w = work[j]
    PROVE  w \in LockWorks /\ FitsStep(w) /\ Knows(w, effective[j], replaced[j])
BY DEF LockInv

\* Its own steps do not count as another command's.
LEMMA OwnHistory ==
    ASSUME LockInv, NEW j \in LockJob, Watch \/ Replaces(j), Busy(j),
           NEW v, work' = [work EXCEPT ![j] = v], v.step \notin {"idle", "done"}
    PROVE  /\ v.cmd = "run" =>
                 effective'[j] = effective[j] \union {[i \in v.images |-> InEffect'[i]]}
           /\ v.cmd \in Keeping => effective'[j] = effective[j] \union {InEffect'}
           /\ replaced'[j] <=> replaced[j]
<1>1. work'[j] = v
  BY DEF LockInv
<1>2. Busy(j)'
  BY <1>1 DEF Busy
<1>3. v.cmd = "run" => effective'[j] = effective[j] \union {[i \in v.images |-> InEffect'[i]]}
  BY <1>1, <1>2, Histories
<1>4. v.cmd \in Keeping => effective'[j] = effective[j] \union {InEffect'}
  BY <1>1, <1>2, Histories
<1>5. Watch => replaced'[j] = (replaced[j] /\ Busy(j)')
  BY Histories
<1>6. Replaces(j) =>
          replaced'[j] = (Busy(j)' /\ (replaced[j] \/ (j # j /\ work[j].step \in Exposed)))
  BY Histories
<1> QED  BY <1>2, <1>3, <1>4, <1>5, <1>6

\* A command that goes on with a step other than its run knows what that step needs.
LEMMA GoingOn ==
    ASSUME LockInv, LockStateOK', NEW j \in LockJob, NEW w, w = work[j], Busy(j),
           NEW v \in LockWorks, v.step \notin {"idle", "done", "run"}, v.cmd = w.cmd,
           work' = [work EXCEPT ![j] = v], Changes(j), mode' = mode, FitsStep(v),
           NEW e, e = effective[j], NEW r, r = replaced[j],
           LoadKnows(v, r)', RefreshKnows(v, e, r)', WriteKnows(v)', RestoreKnows(v, r)'
    PROVE  LockInv'
<1> PICK f : f = effective'[j]  OBVIOUS
<1> PICK q : q = replaced'[j]  OBVIOUS
<1>1. Watch \/ Replaces(j)
  BY DEF Changes
<1>2. (v.cmd \in Keeping => e \subseteq f /\ InEffect' \in f) /\ (q <=> r)
  BY <1>1, OwnHistory
<1>3. LoadKnows(v, q)' /\ SeesLock(v, f)' /\ RefreshKnows(v, f, q)' /\ RestoreKnows(v, q)'
  <2>1. RefreshKnows(v, f, q)'
    BY <1>2 DEF RefreshKnows, KeptOf
  <2> QED  BY <1>2, <2>1 DEF LoadKnows, SeesLock, RestoreKnows
<1>4. Knows(v, f, q)'
  BY <1>3 DEF Knows, RunKnows
<1>5. v.cmd \in Writers => Writer(j)
  BY DEF Writer
<1> QED  BY <1>4, <1>5, LockFrame

-----------------------------------------------------------------------------
(* Starting and loading *)

\* A command that starts as a writer is the only one.
LEMMA StartKeeps ==
    ASSUME LockInv, LockStateOK', NEW j \in LockJob, StartLockJob(j)
    PROVE  LockInv'
<1>0. PICK c \in Offered :
          /\ c \in Writers => \A i \in LockJob : ~(Busy(i) /\ work[i].cmd \in Writers)
          /\ \E is \in Targets(c), k \in Kinds(c) :
                work' = [work EXCEPT ![j] =
                           [NoWork EXCEPT !.cmd = c, !.images = is, !.kind = k, !.todo = is,
                                          !.next = EmptyLock, !.step = FirstLockStep(c)]]
  BY DEF StartLockJob
<1>1. PICK is \in Targets(c), k \in Kinds(c) :
          work' = [work EXCEPT ![j] =
                     [NoWork EXCEPT !.cmd = c, !.images = is, !.kind = k, !.todo = is,
                                    !.next = EmptyLock, !.step = FirstLockStep(c)]]
  BY <1>0
<1> PICK v : v = [NoWork EXCEPT !.cmd = c, !.images = is, !.kind = k, !.todo = is,
                                !.next = EmptyLock, !.step = FirstLockStep(c)]
  OBVIOUS
<1>2. /\ v.cmd = c /\ v.images = is /\ v.kind = k /\ v.todo = is /\ v.next = EmptyLock
      /\ v.step = FirstLockStep(c) /\ v.got = NoWork.got /\ v.ref = NoWork.ref
  BY DEF NoWork
<1>3. c \in LockCommands
  BY DEF Offered, LockCommands
<1>4. is \subseteq Image
  BY <1>3 DEF Targets, LockCommands, Configured, Image
<1>5. k \in {"", "local", "registry"}
  BY <1>3 DEF Kinds, LockCommands
<1>6. v \in LockWorks
  <2>1. FirstLockStep(c) \in LockSteps
    BY DEF FirstLockStep, LockSteps, Loading, RestoreSteps
  <2>2. EmptyLock \in Files
    BY LocksDiffer DEF Files
  <2> QED  BY <1>3, <1>4, <1>5, <2>1, <2>2, EndedWorks DEF LockWorks
<1>7. FitsStep(v)
  <2>1. FirstLockStep(c) \in StepsOf(c) /\ FirstLockStep(c) \notin Writing
    BY <1>3 DEF FirstLockStep, StepsOf, LockCommands, Keeping, Loading, RestoreSteps, Writing
  <2>2. c = "run" => \E i \in Image : is = {i}
    BY DEF Targets, Configured, Image
  <2>3. c \in Restoring => is = {}
    BY DEF Targets, Restoring
  <2> QED  BY <1>2, <2>1, <2>2, <2>3, LocksDiffer DEF FitsStep
<1>8. ~Busy(j) /\ Watch /\ UNCHANGED <<lockFile, lockBak, registry, signature, mode>>
  BY DEF StartLockJob, lockFiles
<1>9. Changes(j)
  BY <1>8 DEF Changes
<1> PICK f : f = effective'[j]  OBVIOUS
<1> PICK q : q = replaced'[j]  OBVIOUS
<1>10. v.step \in {"resolve", "restoreSig", "readLock"}
  BY <1>2 DEF FirstLockStep
<1>11. work'[j] = v /\ Busy(j)'
  BY <1>1, <1>10 DEF LockInv, Busy
<1>12. RefreshKnows(v, f, q)' /\ SeesLock(v, f)'
  <2>1. v.cmd \in Keeping => v.step = "readLock"
    BY <1>2 DEF FirstLockStep, Keeping
  <2>2. v.cmd \in Keeping => InEffect' \in f
    BY <1>8, <1>11, Histories
  <2> QED  BY <2>1, <2>2 DEF RefreshKnows, SeesLock
<1>13. WriteKnows(v)' /\ RunKnows(v, f, q)' /\ LoadKnows(v, q)' /\ RestoreKnows(v, q)'
  <2>1. v.cmd \in Keeping \union {"wslLock"} => v.step = "readLock"
    BY <1>2 DEF FirstLockStep, Keeping
  <2> QED  BY <1>10, <2>1 DEF WriteKnows, RunKnows, LoadKnows, RestoreKnows, Writing, Removing
<1>14. Knows(v, f, q)'
  BY <1>12, <1>13 DEF Knows
<1>15. v.cmd \in Writers => \A i \in LockJob : ~Writer(i)
  BY <1>0, <1>2 DEF Writer
<1> QED  BY <1>1, <1>6, <1>7, <1>8, <1>9, <1>14, <1>15, LockFrame

\* What Load returns is the lock in effect, or no lock where another command has
\* replaced or recovered it meanwhile: that is what a run takes.
LEMMA RunLoads ==
    ASSUME LockInv, LockStateOK', NEW j \in LockJob, work[j].step \in Loading,
           NEW l \in Files, l = InEffect \/ (l = NoFile /\ replaced[j]),
           Loaded(j, l), UNCHANGED <<lockFiles, lockWorld>>, Watch, work[j].cmd = "run"
    PROVE  LockInv'
<1> PICK w0 : w0 = work[j]  OBVIOUS
<1> PICK w : w = [w0 EXCEPT !.got = l]  OBVIOUS
<1> PICK f : f = effective'[j]  OBVIOUS
<1> PICK q : q = replaced'[j]  OBVIOUS
<1>1. w0 \in LockWorks /\ FitsStep(w0) /\ w0.step \in Loading /\ w0.cmd = "run"
  BY AtStep
<1>2. w \in LockWorks /\ w.got = l /\ w.images = w0.images /\ w.cmd = w0.cmd
      /\ w.next = w0.next /\ w.todo = w0.todo
  BY <1>1 DEF LockWorks
<1>3. PICK i \in Image : w.images = {i}
  BY <1>1, <1>2 DEF FitsStep, Loading
<1>4. (CHOOSE k \in w.images : TRUE) = i
  BY <1>3
<1> PICK ref : ref = RuntimeImage(i, l)  OBVIOUS
<1>5. Busy(j) /\ Changes(j) /\ mode' = mode
  BY <1>1 DEF Busy, Loading, Changes, lockFiles, lockWorld
<1>6. CASE GivesUp(j)
  BY <1>5, <1>6, EndFrame
<1>7. CASE ~GivesUp(j)
  <2> PICK v : v = [w EXCEPT !.step = "run", !.ref = ref, !.got = NoFile]  OBVIOUS
  <2>1. Runs(w) # NoWork /\ work' = [work EXCEPT ![j] = Runs(w)]
    BY <1>1, <1>2, <1>7 DEF Loaded, AfterLoad, GivesUp
  <2>2. /\ work' = [work EXCEPT ![j] = v]
        /\ mode.policy.requireLock => ref # NoFile[i]
    BY <1>2, <1>4, <2>1 DEF Runs
  <2>3. ref \in Entry \union {<<"nofile", 0>>} /\ (ref = NoFile[i] <=> l = NoFile)
        /\ (l # NoFile => ref = l[i])
    <3>1. l # NoFile => l[i] \in Entry
      BY DEF Files, Lock
    <3> QED  BY <3>1, LocksDiffer DEF RuntimeImage
  <2>4. v \in LockWorks
    BY <1>2, <2>3, WorkUpdates
  <2>5. v.step = "run" /\ v.cmd = "run" /\ v.images = {i} /\ v.ref = ref
        /\ v.next = w0.next /\ v.todo = w0.todo
    BY <1>1, <1>2, <1>3, <2>3 DEF LockWorks
  <2>6. FitsStep(v)
    <3>1. w0.step \notin {"idle", "done"}
      BY <1>1 DEF Loading
    <3>2. w0.next \in Lock /\ w0.todo \subseteq w0.images
      BY <1>1, <3>1 DEF FitsStep
    <3>3. "run" \in StepsOf("run")
      BY DEF StepsOf, Keeping
    <3> QED  BY <1>2, <1>3, <2>5, <3>2, <3>3 DEF FitsStep, Writing, Restoring
  <2>7. [k \in v.images |-> InEffect'[k]] \in f /\ (q <=> replaced[j])
    <3>1. v.step \notin {"idle", "done"}
      BY <2>5
    <3>2. f = effective[j] \union {[k \in v.images |-> InEffect'[k]]}
      BY <1>5, <2>2, <2>5, <3>1, OwnHistory
    <3>3. replaced'[j] <=> replaced[j]
      BY <1>5, <2>2, <3>1, OwnHistory
    <3> QED  BY <3>2, <3>3
  <2>8. InEffect' = InEffect
    BY DEF InEffect, lockFiles
  <2>9. RunKnows(v, f, q)'
    <3>1. l = InEffect => \E h \in f : h[i] = l[i]
      BY <2>5, <2>7, <2>8
    <3>2. CASE l = NoFile
      <4>1. (\E h \in f : h[i] = ref) \/ q
        BY <2>3, <2>7, <3>1, <3>2
      <4>2. ref = NoFile[i] /\ ~mode.policy.requireLock
        BY <2>2, <2>3, <3>2
      <4> QED  BY <1>5, <2>5, <4>1, <4>2 DEF RunKnows
    <3>3. CASE l # NoFile
      <4>1. ref # NoFile[i] /\ \E h \in f : h[i] = ref
        BY <2>3, <3>1, <3>3
      <4> QED  BY <2>5, <4>1 DEF RunKnows
    <3> QED  BY <3>2, <3>3
  <2>10. Knows(v, f, q)'
    BY <2>5, <2>9 DEF Knows, LoadKnows, SeesLock, RefreshKnows, WriteKnows, RestoreKnows,
                      Keeping, Restoring
  <2>11. v.cmd \notin Writers
    BY <2>5 DEF Writers
  <2> QED  BY <1>5, <2>2, <2>4, <2>6, <2>10, <2>11, LockFrame
<1> QED  BY <1>6, <1>7

\* What a refresh keeps of the lock it has loaded is what it has to keep.
LEMMA KeptLocks ==
    ASSUME NEW w \in LockWorks, NEW l \in Files
    PROVE  /\ Kept(w, l) \in Lock
           /\ w.cmd \in Keeping => KeptOf([w EXCEPT !.step = "resolve", !.next = Kept(w, l)], l)
<1> PICK v : v = [w EXCEPT !.step = "resolve", !.next = Kept(w, l)]  OBVIOUS
<1>1. v.cmd = w.cmd /\ v.images = w.images /\ v.next = Kept(w, l) /\ v.kind = w.kind
  BY DEF LockWorks
<1>2. NoEntry \in Entry
  BY DEF NoEntry, Entry
<1>3. CASE l = NoFile
  <2>1. Kept(w, l) = EmptyLock
    BY <1>3 DEF Kept
  <2>2. \A i \in Image : EmptyLock[i] = NoEntry
    BY DEF EmptyLock
  <2>3. NoEntry[1] # "local"
    BY DEF NoEntry
  <2> QED  BY <1>1, <1>3, <2>1, <2>2, <2>3, LocksDiffer DEF KeptOf
<1>4. CASE l # NoFile
  <2>1. l \in Lock
    BY <1>4 DEF Files
  <2>2. CASE w.cmd = "wslLock"
    BY <2>2, LocksDiffer DEF Kept, Keeping
  <2>3. CASE w.cmd # "wslLock"
    <3>1. Kept(w, l) =
              [i \in Image |-> IF w.cmd # "update" /\ i \in w.images THEN NoEntry ELSE l[i]]
      BY <1>4, <2>3 DEF Kept
    <3>2. Kept(w, l) \in Lock
      BY <1>2, <2>1, <3>1 DEF Lock
    <3>3. \A i \in Image : w.cmd = "update" \/ i \notin w.images => Kept(w, l)[i] = l[i]
      BY <3>1
    <3> QED  BY <1>1, <1>4, <3>2, <3>3 DEF KeptOf
  <2> QED  BY <2>2, <2>3
<1> QED  BY <1>3, <1>4

\* A refresh starts from the lock in effect, and has recovered it.
LEMMA RefreshLoads ==
    ASSUME LockInv, LockStateOK', NEW j \in LockJob, work[j].step \in Loading,
           NEW l \in Files, l = InEffect \/ (l = NoFile /\ replaced[j]),
           lockFile = NoFile => lockBak = NoFile,
           Loaded(j, l), UNCHANGED <<lockFiles, lockWorld>>, Watch, work[j].cmd # "run"
    PROVE  LockInv'
<1> PICK w0 : w0 = work[j]  OBVIOUS
<1> PICK w : w = [w0 EXCEPT !.got = l]  OBVIOUS
<1> PICK e : e = effective[j]  OBVIOUS
<1> PICK r : r = replaced[j]  OBVIOUS
<1>1. /\ w0 \in LockWorks /\ FitsStep(w0) /\ Knows(w0, e, r)
      /\ w0.step \in Loading /\ w0.step \notin {"idle", "done"} /\ w0.cmd # "run"
  BY AtStep DEF Loading
<1>2. w \in LockWorks /\ w.got = l /\ w.images = w0.images /\ w.cmd = w0.cmd
      /\ w.next = w0.next /\ w.todo = w0.todo
  BY <1>1 DEF LockWorks
<1>3. Busy(j) /\ Changes(j) /\ mode' = mode
  BY <1>1 DEF Busy, Changes, lockFiles, lockWorld
<1>4. CASE GivesUp(j) \/ Completes(j)
  BY <1>3, <1>4, EndFrame
<1>5. CASE ~(GivesUp(j) \/ Completes(j))
  <2> PICK v : v = [w EXCEPT !.step = "resolve", !.next = Kept(w, l)]  OBVIOUS
  <2>1. work' = [work EXCEPT ![j] = AfterLoad(w)]
    BY DEF Loaded
  <2>2. Succeeds(w) = Succeeds(w0)
    BY <1>2 DEF Succeeds
  <2>3. w.cmd # "check"
    BY <1>5, <1>1, <1>2, <2>1, <2>2 DEF AfterLoad, GivesUp, Completes
  <2>4. AfterLoad(w) = Refreshes(w) /\ Refreshes(w) # NoWork
    BY <1>1, <1>2, <1>5, <2>1, <2>3 DEF AfterLoad, GivesUp
  <2>5. work' = [work EXCEPT ![j] = v]
    BY <1>2, <2>1, <2>4 DEF Refreshes
  <2>6. w.cmd \in Keeping \union {"wslLock"}
    BY <1>1, <1>2, <2>3 DEF FitsStep, StepsOf, LockWorks, LockCommands, Loading, Writing,
                            RestoreSteps, Removing, Keeping
  <2>7. Kept(w, l) \in Lock /\ (w.cmd \in Keeping => KeptOf(v, l))
    BY <1>2, KeptLocks
  <2>8. v \in LockWorks
    <3>1. Kept(w, l) \in Files /\ "resolve" \in LockSteps
      BY <2>7 DEF Files, LockSteps
    <3> QED  BY <1>2, <3>1, WorkUpdates
  <2>9. v.step = "resolve" /\ v.cmd = w.cmd /\ v.got = l /\ v.images = w0.images
        /\ v.next = Kept(w, l) /\ v.todo = w0.todo
    BY <1>2 DEF LockWorks
  <2>10. FitsStep(v)
    BY <1>1, <1>2, <2>6, <2>7, <2>9 DEF FitsStep, StepsOf, Writing, Keeping, Restoring
  <2>11. RefreshKnows(v, e, r)'
    <3>1. v.cmd \in Keeping /\ ~r => l \in e
      BY <1>1, <1>2, <2>9 DEF Knows, SeesLock
    <3> QED  BY <2>7, <2>9, <3>1 DEF RefreshKnows
  <2>12. WriteKnows(v)' /\ LoadKnows(v, r)' /\ RestoreKnows(v, r)'
    <3>1. (lockFile = NoFile => lockBak = NoFile)'
      BY DEF lockFiles
    <3> QED  BY <2>6, <2>9, <3>1 DEF WriteKnows, LoadKnows, RestoreKnows, Keeping, Restoring
  <2> QED  BY <1>2, <1>3, <2>5, <2>8, <2>9, <2>10, <2>11, <2>12, GoingOn, ZenonT(40)
<1> QED  BY <1>4, <1>5

\* The two kinds of commands that load a lock.
LEMMA Loads ==
    ASSUME LockInv, LockStateOK', NEW j \in LockJob, work[j].step \in Loading,
           NEW l \in Files, l = InEffect \/ (l = NoFile /\ replaced[j]),
           lockFile = NoFile => lockBak = NoFile,
           Loaded(j, l), UNCHANGED <<lockFiles, lockWorld>>, Watch
    PROVE  LockInv'
BY RunLoads, RefreshLoads

\* A step of a load that only looks goes on to the next look.
LEMMA LooksOn ==
    ASSUME LockInv, LockStateOK', NEW j \in LockJob, work[j].step \in Loading,
           NEW st, st \in {"statLock", "statBak", "renameBak"}, Goes(j, st),
           UNCHANGED <<lockFiles, lockWorld>>, Watch, lockFile = NoFile \/ replaced[j]
    PROVE  LockInv'
<1> PICK w : w = work[j]  OBVIOUS
<1> PICK e : e = effective[j]  OBVIOUS
<1> PICK r : r = replaced[j]  OBVIOUS
<1> PICK v : v = [w EXCEPT !.step = st]  OBVIOUS
<1>1. /\ w \in LockWorks /\ FitsStep(w) /\ Knows(w, e, r)
      /\ w.step \in Loading /\ w.step \notin {"idle", "done"}
  BY AtStep DEF Loading
<1>2. Busy(j) /\ Changes(j) /\ mode' = mode
  BY <1>1 DEF Busy, Changes, lockFiles, lockWorld
<1>3. v \in LockWorks /\ v.step = st /\ v.cmd = w.cmd /\ v.images = w.images /\ v.next = w.next
      /\ v.todo = w.todo /\ v.got = w.got
  <2>1. st \in LockSteps
    BY DEF LockSteps, Loading
  <2> QED  BY <1>1, <2>1, NextStep
<1>4. st \in Loading /\ st \notin {"idle", "done", "run", "resolve"} \union Writing \union Removing
      /\ st \notin {"restoreRegistry", "restoreNewSig"}
  BY DEF Loading, Writing, Removing
<1>5. st \in StepsOf(v.cmd)
  BY <1>1, <1>3, <1>4 DEF FitsStep, StepsOf, LockWorks, LockCommands, Keeping, Writing, RestoreSteps,
                          Removing, Loading
<1>6. FitsStep(v)
  BY <1>1, <1>3, <1>4, <1>5 DEF FitsStep
<1>7. InEffect' = InEffect /\ lockFile' = lockFile
  BY DEF InEffect, lockFiles
<1>8. RefreshKnows(v, e, r)'
  BY <1>1, <1>3, <1>4, <1>7 DEF Knows, RefreshKnows, Writing
<1>9. LoadKnows(v, r)' /\ WriteKnows(v)' /\ RestoreKnows(v, r)'
  BY <1>3, <1>4, <1>7 DEF LoadKnows, WriteKnows, RestoreKnows, Writing
<1> QED  BY <1>2, <1>3, <1>4, <1>6, <1>8, <1>9, GoingOn DEF Goes

\* A command that ends without touching the files.
LEMMA QuietEnd ==
    ASSUME LockInv, LockStateOK', NEW j \in LockJob, GivesUp(j) \/ Completes(j),
           UNCHANGED <<lockFiles, lockWorld>>, Watch
    PROVE  LockInv'
<1>1. Changes(j) /\ mode' = mode
  BY DEF Changes, lockFiles, lockWorld
<1> QED  BY <1>1, EndFrame

\* The first look of a load, at the lock file.
LEMMA ReadKeeps ==
    ASSUME LockInv, LockStateOK', NEW j \in LockJob, ReadLock(j)
    PROVE  LockInv'
<1>1. work[j].step \in Loading /\ UNCHANGED <<lockFiles, lockWorld>> /\ Watch
  BY DEF ReadLock, On, Loading
<1>2. CASE Loaded(j, lockFile) /\ lockFile # NoFile
  <2>1. lockFile \in Files /\ lockFile = InEffect
    BY <1>2 DEF LockInv, LockStateOK, InEffect
  <2> QED  BY <1>1, <1>2, <2>1, Loads
<1>3. CASE GivesUp(j)
  BY <1>1, <1>3, QuietEnd
<1>4. CASE Goes(j, "statLock") /\ lockFile = NoFile
  BY <1>1, <1>4, LooksOn
<1> QED  BY <1>2, <1>3, <1>4 DEF ReadLock

\* The second looks, at the lock file and at its backup.
LEMMA StatKeeps ==
    ASSUME LockInv, LockStateOK', NEW j \in LockJob, StatLock(j) \/ StatLockBak(j)
    PROVE  LockInv'
<1>1. /\ work[j].step \in Loading /\ work[j].step \in {"statLock", "statBak"}
      /\ UNCHANGED <<lockFiles, lockWorld>> /\ Watch
  BY DEF StatLock, StatLockBak, On, Loading
<1>2. lockFile = NoFile \/ replaced[j]
  BY <1>1 DEF LockInv, Knows, LoadKnows
<1>3. NoFile \in Files
  BY DEF Files
<1>4. CASE Loaded(j, NoFile) /\ (lockFile # NoFile \/ lockBak = NoFile)
  <2>1. NoFile = InEffect \/ replaced[j]
    BY <1>2, <1>4 DEF InEffect
  <2> QED  BY <1>1, <1>3, <1>4, <2>1, Loads
<1>5. CASE Goes(j, "statBak") \/ Goes(j, "renameBak")
  BY <1>1, <1>2, <1>5, LooksOn
<1> QED  BY <1>4, <1>5 DEF StatLock, StatLockBak

\* Recovering the lock from its backup puts it in effect, whatever was.
LEMMA RenameKeeps ==
    ASSUME LockInv, LockStateOK', NEW j \in LockJob, RenameLockBak(j)
    PROVE  LockInv'
<1> PICK w : w = work[j]  OBVIOUS
<1> PICK e : e = effective[j]  OBVIOUS
<1> PICK r : r = replaced[j]  OBVIOUS
<1> PICK v : v = [w EXCEPT !.step = "rereadLock"]  OBVIOUS
<1>1. /\ w \in LockWorks /\ FitsStep(w) /\ Knows(w, e, r)
      /\ w.step = "renameBak" /\ w.step \in Loading /\ Busy(j)
  BY AtStep DEF RenameLockBak, On, Loading, Busy
<1>2. CASE GivesUp(j) /\ UNCHANGED lockFiles /\ Watch
  BY <1>2, QuietEnd DEF RenameLockBak
<1>3. CASE /\ lockBak # NoFile /\ lockFile' = lockBak /\ lockBak' = NoFile
           /\ Goes(j, "rereadLock") /\ Replaces(j)
  <2>1. Changes(j) /\ mode' = mode
    BY <1>3 DEF Changes, RenameLockBak, lockWorld
  <2>2. v \in LockWorks /\ v.step = "rereadLock" /\ v.cmd = w.cmd /\ v.images = w.images
        /\ v.next = w.next /\ v.todo = w.todo
    <3>1. "rereadLock" \in LockSteps
      BY DEF LockSteps, Loading
    <3> QED  BY <1>1, <3>1, NextStep
  <2>3. "rereadLock" \in StepsOf(v.cmd)
    BY <1>1, <2>2 DEF FitsStep, StepsOf, LockWorks, LockCommands, Keeping, Writing, RestoreSteps,
                      Removing, Loading
  <2>4. FitsStep(v)
    BY <1>1, <2>2, <2>3 DEF FitsStep, Writing
  <2>6. RefreshKnows(v, e, r)'
    BY <2>2 DEF RefreshKnows
  <2>7. LoadKnows(v, r)' /\ WriteKnows(v)' /\ RestoreKnows(v, r)'
    BY <2>2 DEF LoadKnows, WriteKnows, RestoreKnows, Writing, Removing
  <2> QED  BY <1>1, <1>3, <2>1, <2>2, <2>4, <2>6, <2>7, GoingOn DEF Goes
<1> QED  BY <1>2, <1>3 DEF RenameLockBak

\* The last look, at the recovered lock.
LEMMA RereadKeeps ==
    ASSUME LockInv, LockStateOK', NEW j \in LockJob, RereadLock(j)
    PROVE  LockInv'
<1>1. work[j].step \in Loading /\ UNCHANGED <<lockFiles, lockWorld>> /\ Watch
  BY DEF RereadLock, On, Loading
<1>2. CASE Loaded(j, lockFile) /\ lockFile # NoFile
  <2>1. lockFile \in Files /\ lockFile = InEffect
    BY <1>2 DEF LockInv, LockStateOK, InEffect
  <2> QED  BY <1>1, <1>2, <2>1, Loads
<1>3. CASE GivesUp(j)
  BY <1>1, <1>3, QuietEnd
<1> QED  BY <1>2, <1>3 DEF RereadLock

-----------------------------------------------------------------------------
(* Refreshing *)

\* One image resolved: its entry is new, those of the other images are kept.
LEMMA ResolveKeeps ==
    ASSUME LockInv, LockStateOK', NEW j \in LockJob, ResolveImage(j)
    PROVE  LockInv'
<1> PICK w : w = work[j]  OBVIOUS
<1> PICK e : e = effective[j]  OBVIOUS
<1> PICK r : r = replaced[j]  OBVIOUS
<1>1. /\ w \in LockWorks /\ FitsStep(w) /\ Knows(w, e, r)
      /\ w.step = "resolve" /\ Busy(j)
  BY AtStep DEF ResolveImage, On, Busy
<1>2. PICK i \in w.todo :
          LET local == IsLocal(w, i)
              rest == w.todo \ {i}
          IN  /\ MayLock(local)
              /\ work' = [work EXCEPT ![j] =
                     [w EXCEPT !.todo = rest, !.got = IF rest = {} THEN NoFile ELSE @,
                               !.next[i] = <<IF local THEN "local" ELSE "registry", tag>>,
                               !.step = IF rest = {} THEN "dropBak" ELSE "resolve"]]
  BY DEF ResolveImage
<1> PICK entry : entry = <<IF IsLocal(w, i) THEN "local" ELSE "registry", tag>>  OBVIOUS
<1> PICK rest : rest = w.todo \ {i}  OBVIOUS
<1> PICK n : n = [w.next EXCEPT ![i] = entry]  OBVIOUS
<1> PICK g : g = IF rest = {} THEN NoFile ELSE w.got  OBVIOUS
<1> PICK st : st = IF rest = {} THEN "dropBak" ELSE "resolve"  OBVIOUS
<1> PICK v : v = [w EXCEPT !.todo = rest, !.got = g, !.next = n, !.step = st]  OBVIOUS
<1>3. work' = [work EXCEPT ![j] = v]
  <2>1. [w EXCEPT !.todo = rest, !.got = IF rest = {} THEN NoFile ELSE @,
                  !.next[i] = entry, !.step = st] = v
    BY <1>1 DEF LockWorks
  <2> QED  BY <1>2, <2>1
<1>4. /\ v.todo = rest /\ v.got = g /\ v.next = n /\ v.step = st
      /\ v.cmd = w.cmd /\ v.kind = w.kind /\ v.images = w.images
  BY <1>1 DEF LockWorks
<1>5. w.next \in Lock /\ w.todo \subseteq w.images /\ i \in Image
  BY <1>1 DEF FitsStep, LockWorks
<1>6. entry \in Entry
  BY DEF Entry, LockInv, LockStateOK
<1>7. n \in Lock
  BY <1>5, <1>6 DEF Lock
<1>8. v \in LockWorks
  <2>1. rest \in SUBSET Image /\ g \in Files /\ n \in Files /\ st \in LockSteps
    BY <1>1, <1>7 DEF LockWorks, Files, LockSteps, Writing
  <2>2. w \in LockWorks /\ v = [w EXCEPT !.todo = rest, !.got = g, !.next = n, !.step = st]
    BY <1>1
  <2> QED  BY ONLY <2>1, <2>2, ResolvedWork
<1>9. FitsStep(v)
  <2>1. w.cmd \in {"lock", "wslLock"} \union Keeping
    BY <1>1 DEF FitsStep, StepsOf, LockWorks, LockCommands, Loading, Writing, RestoreSteps, Removing
  <2>2. v.step \in StepsOf(v.cmd)
    BY <1>4, <2>1 DEF StepsOf, Keeping, Writing
  <2>3. v.step \in Writing => rest = {}
    BY <1>4 DEF Writing
  <2> QED  BY <1>1, <1>4, <1>5, <1>7, <2>1, <2>2, <2>3 DEF FitsStep, Keeping, Restoring
<1>10. UNCHANGED <<lockFile, lockBak, registry, signature, mode>> /\ Watch
  BY DEF ResolveImage, lockFiles, lockWorld
<1>11. Changes(j)
  BY <1>10 DEF Changes
<1>12. v.cmd \in Keeping /\ ~r => w.got \in e /\ KeptOf(v, w.got)
  <2> SUFFICES ASSUME v.cmd \in Keeping, ~r  PROVE w.got \in e /\ KeptOf(v, w.got)
    OBVIOUS
  <2>1. w.got \in e /\ KeptOf(w, w.got)
    BY <1>1, <1>4 DEF Knows, RefreshKnows
  <2>2. w.cmd = "update" /\ w.kind = "" /\ w.got[i][1] = "local" => entry[1] = "local"
    BY DEF IsLocal
  <2>3. KeptOf(v, w.got)
    <3> PICK l : l = w.got  OBVIOUS
    <3> SUFFICES ASSUME NEW k \in Image
                 PROVE  LET old == IF l = NoFile THEN NoEntry ELSE l[k] IN
                        IF k \notin w.images THEN n[k] = old
                        ELSE k \notin rest /\ w.cmd = "update" /\ w.kind = "" /\ old[1] = "local" =>
                                 n[k][1] = "local"
      BY <1>4 DEF KeptOf
    <3>1. NoEntry[1] # "local"
      BY DEF NoEntry
    <3>2. n[i] = entry /\ (k # i => n[k] = w.next[k])
      BY <1>5 DEF Lock
    <3>3. CASE k = i
      BY <1>5, <2>2, <3>1, <3>2, <3>3
    <3>4. CASE k # i
      BY <2>1, <3>2, <3>4 DEF KeptOf
    <3> QED  BY <3>3, <3>4
  <2> QED  BY <2>1, <2>3
<1>13. RefreshKnows(v, e, r)'
  <2>1. v.step \notin Loading
    BY <1>4 DEF Loading
  <2>2. st = "resolve" => g = w.got
    OBVIOUS
  <2>3. st \in {"resolve", "dropBak"}
    OBVIOUS
  <2>4. v.cmd \in Keeping /\ ~r => (w.got \in e /\ KeptOf(v, w.got))'
    BY <1>12 DEF KeptOf
  <2> QED  BY <1>4, <2>1, <2>2, <2>3, <2>4 DEF RefreshKnows
<1>14. LoadKnows(v, r)' /\ WriteKnows(v)' /\ RestoreKnows(v, r)'
  <2>1. w.cmd \notin Restoring
    BY <1>1 DEF FitsStep, StepsOf, LockWorks, LockCommands, Loading, Writing, RestoreSteps, Removing,
                Keeping, Restoring
  <2>2. WriteKnows(v)'
    BY <1>1, <1>4, <1>10 DEF Knows, WriteKnows
  <2> QED  BY <1>4, <2>1, <2>2 DEF LoadKnows, RestoreKnows
<1>15. v.step \notin {"idle", "done", "run"}
  BY <1>4
<1> QED  BY <1>1, <1>3, <1>4, <1>8, <1>9, <1>10, <1>11, <1>13, <1>14, <1>15, GoingOn, ZenonT(40)

-----------------------------------------------------------------------------
(* Writing the lock *)

\* The steps of a write belong to the one command that writes.
LEMMA AtWrite ==
    ASSUME LockInv, NEW j \in LockJob, NEW w, w = work[j],
           w.step \in Writing \union Removing \union RestoreSteps
    PROVE  /\ Busy(j) /\ Writer(j)
           /\ w.step \in Writing => w.cmd \in Keeping \union {"lock", "wslLock", "restore"}
           /\ w.step \in Removing => w.cmd = "restoreBare"
           /\ w.step \in RestoreSteps => w.cmd \in Restoring
<1>1. w \in LockWorks /\ FitsStep(w)
  BY AtStep
<1>2. w.step \notin {"idle", "done"}
  BY DEF Writing, Removing, RestoreSteps
<1>3. w.cmd \in Writers
  BY <1>1, <1>2, WriterSteps
<1>4. w.step \in StepsOf(w.cmd) /\ w.cmd \in LockCommands \union {"none"}
  BY <1>1, <1>2 DEF FitsStep, LockWorks
<1>5. w.step \in Writing => w.cmd \in Keeping \union {"lock", "wslLock", "restore"}
  BY <1>4 DEF StepsOf, LockCommands, Keeping, Loading, Writing, RestoreSteps, Removing
<1>6. w.step \in Removing => w.cmd = "restoreBare"
  BY <1>4 DEF StepsOf, LockCommands, Keeping, Loading, Writing, RestoreSteps, Removing
<1>7. w.step \in RestoreSteps => w.cmd \in Restoring
  BY <1>4 DEF StepsOf, LockCommands, Keeping, Loading, Writing, RestoreSteps, Removing, Restoring
<1> QED  BY <1>2, <1>3, <1>5, <1>6, <1>7 DEF Busy, Writer

\* A write that goes on with its next step.
LEMMA WritesOn ==
    ASSUME LockInv, LockStateOK', NEW j \in LockJob, NEW w, w = work[j], w.step \in Writing,
           NEW st \in Writing, st # "dropBak", Goes(j, st),
           st \in {"moveAside", "publish"} => w.step \in {"dropBak", "moveAside"},
           Changes(j), mode' = mode, UNCHANGED <<registry, signature>>,
           st = "cleanBak" => lockFile' = w.next
    PROVE  LockInv'
<1> PICK e : e = effective[j]  OBVIOUS
<1> PICK r : r = replaced[j]  OBVIOUS
<1> PICK v : v = [w EXCEPT !.step = st]  OBVIOUS
<1>1. w \in LockWorks /\ FitsStep(w) /\ Knows(w, e, r) /\ w.step \notin {"idle", "done"}
  BY AtStep DEF Writing
<1>2. Busy(j) /\ w.cmd \in Keeping \union {"lock", "wslLock", "restore"}
  BY AtWrite
<1>3. v \in LockWorks /\ v.step = st /\ v.cmd = w.cmd /\ v.images = w.images /\ v.next = w.next
      /\ v.todo = w.todo /\ v.got = w.got /\ v.kind = w.kind
  <2>1. st \in LockSteps
    BY DEF LockSteps
  <2> QED  BY <1>1, <2>1, NextStep
<1>4. FitsStep(v)
  <2>1. st \in StepsOf(v.cmd)
    BY <1>2, <1>3 DEF StepsOf, Keeping
  <2> QED  BY <1>1, <1>3, <2>1 DEF FitsStep
<1>5. st \notin {"idle", "done", "run", "resolve", "dropBak"} \union Loading \union Removing
      /\ st \notin RestoreSteps
  BY DEF Writing, Loading, Removing, RestoreSteps
<1>6. RefreshKnows(v, e, r)'
  <2>1. CASE st \in {"moveAside", "publish"}
    <3>1. w.cmd \in Keeping /\ ~r => \E l \in e : KeptOf(w, l)
      BY <1>1, <2>1 DEF Knows, RefreshKnows
    <3>2. \A l : KeptOf(w, l) => KeptOf(v, l)'
      BY <1>3 DEF KeptOf
    <3> QED  BY <1>3, <1>5, <3>1, <3>2 DEF RefreshKnows
  <2>2. CASE st \notin {"moveAside", "publish"}
    BY <1>3, <1>5, <2>2 DEF RefreshKnows
  <2> QED  BY <2>1, <2>2
<1>7. WriteKnows(v)'
  <2>1. st = "cleanBak" => lockFile' # NoFile
    BY <1>1, LocksDiffer DEF FitsStep
  <2> QED  BY <1>3, <1>5, <2>1 DEF WriteKnows
<1>8. RestoreKnows(v, r)'
  BY <1>1, <1>3, <1>5 DEF Knows, RestoreKnows, RestoreSteps, Removing
<1>9. LoadKnows(v, r)'
  BY <1>3, <1>5 DEF LoadKnows, Loading
<1> QED  BY <1>1, <1>2, <1>3, <1>4, <1>5, <1>6, <1>7, <1>8, <1>9, GoingOn DEF Goes

\* The five steps of lockfile.Write.
LEMMA WriteKeeps ==
    ASSUME LockInv, LockStateOK', NEW j \in LockJob, LockWrite(j)
    PROVE  LockInv'
<1>1. /\ work[j].step \in Writing /\ mode' = mode /\ UNCHANGED <<registry, signature>>
      /\ Writer(j)
  <2>1. work[j].step \in Writing
    BY DEF LockWrite, DropLockBak, MoveLockAside, PublishLock, PutLockBack, CleanLockBak, On, Writing
  <2>2. mode' = mode /\ UNCHANGED <<registry, signature>>
    BY DEF LockWrite, DropLockBak, MoveLockAside, PublishLock, PutLockBack, CleanLockBak, lockWorld
  <2> QED  BY <2>1, <2>2, AtWrite
<1>2. CASE DropLockBak(j)
  <2>1. Changes(j) /\ work[j].step = "dropBak"
    BY <1>1, <1>2 DEF DropLockBak, Changes, On
  <2>2. CASE GivesUp(j)
    BY <1>1, <2>1, <2>2, EndFrame
  <2>3. CASE Goes(j, "moveAside") \/ Goes(j, "publish")
    BY <1>1, <2>1, <2>3, WritesOn DEF Writing
  <2> QED  BY <1>2, <2>2, <2>3 DEF DropLockBak
<1>3. CASE MoveLockAside(j)
  <2>1. Changes(j) /\ work[j].step = "moveAside"
    BY <1>1, <1>3 DEF MoveLockAside, Changes, On, lockFiles
  <2>2. CASE GivesUp(j)
    BY <1>1, <2>1, <2>2, EndFrame
  <2>3. CASE Goes(j, "publish")
    BY <1>1, <2>1, <2>3, WritesOn DEF Writing
  <2> QED  BY <1>3, <2>2, <2>3 DEF MoveLockAside
<1>4. CASE PublishLock(j)
  <2>1. CASE Goes(j, "cleanBak") /\ lockFile' = work[j].next /\ Replaces(j)
    <3>1. Changes(j)
      BY <1>1, <2>1 DEF Changes
    <3> QED  BY <1>1, <2>1, <3>1, WritesOn DEF Writing
  <2>2. CASE Goes(j, "putBack") /\ UNCHANGED lockFiles /\ Watch
    <3>1. Changes(j)
      BY <1>1, <2>2 DEF Changes, lockFiles
    <3> QED  BY <1>1, <2>2, <3>1, WritesOn DEF Writing
  <2> QED  BY <1>4, <2>1, <2>2 DEF PublishLock
<1>5. CASE PutLockBack(j)
  <2>1. Changes(j)
    BY <1>1, <1>5 DEF PutLockBack, Changes, lockFiles
  <2> QED  BY <1>1, <1>5, <2>1, EndFrame DEF PutLockBack
<1>6. CASE CleanLockBak(j)
  <2>1. Changes(j)
    BY <1>1, <1>6 DEF CleanLockBak, Changes
  <2> QED  BY <1>1, <1>6, <2>1, EndFrame DEF CleanLockBak
<1> QED  BY <1>2, <1>3, <1>4, <1>5, <1>6 DEF LockWrite

-----------------------------------------------------------------------------
(* Restoring *)

\* A restore that goes on with a step other than a write.
LEMMA RestoresOn ==
    ASSUME LockInv, LockStateOK', NEW j \in LockJob, NEW w, w = work[j],
           w.step \in RestoreSteps \union {"removeLock"},
           NEW v \in LockWorks, work' = [work EXCEPT ![j] = v], v.cmd = w.cmd, v.todo = w.todo,
           v.images = w.images, v.step \in RestoreSteps \union Removing \union {"dropBak"},
           v.step \in RestoreSteps \union Removing => v.next = w.next,
           v.step = "dropBak" => v.cmd = "restore" /\ v.next = ArchivedLock,
           v.step \in Removing => v.cmd = "restoreBare",
           Changes(j), mode' = mode, NEW r, r = replaced[j], RestoreKnows(v, r)'
    PROVE  LockInv'
<1> PICK e : e = effective[j]  OBVIOUS
<1>1. w \in LockWorks /\ FitsStep(w) /\ w.step \notin {"idle", "done"}
  BY AtStep DEF RestoreSteps
<1>2. Busy(j) /\ w.cmd \in Restoring
  BY AtWrite DEF Removing, Restoring
<1>3. v.step \notin {"idle", "done", "run", "resolve"} \union Loading
      /\ (v.step \in Writing => v.step = "dropBak")
  BY DEF RestoreSteps, Loading, Removing, Writing
<1>4. v.step \in StepsOf(v.cmd)
  BY <1>2 DEF StepsOf, Restoring, Keeping, Writing
<1>5. FitsStep(v)
  <2>1. w.todo = {} /\ w.todo \subseteq w.images /\ w.next \in Lock
    BY <1>1, <1>2 DEF FitsStep
  <2>2. v.next \in Lock
    BY <2>1, LocksDiffer
  <2> QED  BY <1>2, <1>3, <1>4, <2>1, <2>2 DEF FitsStep, Restoring
<1>6. RefreshKnows(v, e, r)' /\ WriteKnows(v)' /\ LoadKnows(v, r)'
  BY <1>2, <1>3 DEF RefreshKnows, WriteKnows, LoadKnows, Keeping, Restoring, Loading, Writing
<1> QED  BY <1>2, <1>3, <1>5, <1>6, GoingOn

\* The lock is the last part of a restore.
LEMMA LastParts ==
    ASSUME NEW w \in LockWorks, NEW v, v = LastPart(w), w.cmd \in Restoring
    PROVE  /\ v \in LockWorks /\ v.cmd = w.cmd /\ v.todo = w.todo /\ v.images = w.images
           /\ v.step = IF w.cmd = "restore" THEN "dropBak" ELSE "removeLock"
           /\ v.next = IF w.cmd = "restore" THEN ArchivedLock ELSE w.next
<1>1. "dropBak" \in LockSteps /\ "removeLock" \in LockSteps /\ ArchivedLock \in Files
  BY LocksDiffer DEF LockSteps, Writing, Removing, Files
<1>2. v \in LockWorks
  BY <1>1, WorkUpdates DEF LastPart
<1> QED  BY <1>2 DEF LastPart, LockWorks

\* A restore's steps before the lock: the signature and the registry.
LEMMA RestoreKeeps ==
    ASSUME LockInv, LockStateOK', NEW j \in LockJob,
           RestoreSignature(j) \/ RestoreRegistry(j) \/ RestoreNewSignature(j)
    PROVE  LockInv'
<1> PICK w : w = work[j]  OBVIOUS
<1> PICK r : r = replaced[j]  OBVIOUS
<1>1. w.step \in RestoreSteps
  BY DEF RestoreSignature, RestoreRegistry, RestoreNewSignature, On, RestoreSteps
<1>2. w \in LockWorks /\ RestoreKnows(w, r) /\ Writer(j) /\ w.cmd \in Restoring
  BY <1>1, AtStep, AtWrite DEF Knows
<1>3. Changes(j) /\ mode' = mode /\ lockFile' = lockFile
  BY <1>2 DEF RestoreSignature, RestoreRegistry, RestoreNewSignature, Changes, lockFiles
<1>4. CASE RestoreSignature(j)
  <2>1. PICK st \in {"restoreRegistry", "restoreSigned"} :
            Goes(j, st) /\ (st = "restoreRegistry" => signature' = "none")
    BY <1>4 DEF RestoreSignature
  <2> PICK v : v = [w EXCEPT !.step = st]  OBVIOUS
  <2>2. v \in LockWorks /\ v.cmd = w.cmd /\ v.todo = w.todo /\ v.images = w.images /\ v.step = st
        /\ v.next = w.next
    <3>1. st \in LockSteps
      BY DEF LockSteps, RestoreSteps
    <3> QED  BY <1>2, <3>1, NextStep
  <2>3. st \in RestoreSteps /\ st \notin Writing \union Removing \union {"restoreNewSig"}
    BY DEF RestoreSteps, Writing, Removing
  <2>4. RestoreKnows(v, r)'
    BY <2>1, <2>2, <2>3 DEF RestoreKnows, Writing, Removing
  <2>5. work' = [work EXCEPT ![j] = v]
    BY <2>1 DEF Goes
  <2>6. v.step \in RestoreSteps /\ v.step \notin Removing /\ v.step # "dropBak"
    BY <2>2, <2>3 DEF Writing
  <2> QED  BY <1>1, <1>3, <2>2, <2>4, <2>5, <2>6, RestoresOn, ZenonT(40)
<1>5. CASE RestoreRegistry(j) /\ w.step = "restoreSigned"
  <2> PICK v : v = [w EXCEPT !.step = "restoreNewSig"]  OBVIOUS
  <2>1. work' = [work EXCEPT ![j] = v] /\ registry' = "archived"
    BY <1>5 DEF RestoreRegistry, On
  <2>2. v \in LockWorks /\ v.cmd = w.cmd /\ v.todo = w.todo /\ v.images = w.images
        /\ v.step = "restoreNewSig" /\ v.next = w.next
    <3>1. "restoreNewSig" \in LockSteps
      BY DEF LockSteps, RestoreSteps
    <3> QED  BY <1>2, <3>1, NextStep
  <2>3. "restoreNewSig" \in RestoreSteps /\ "restoreNewSig" \notin Writing \union Removing
    BY DEF RestoreSteps, Writing, Removing
  <2>4. RestoreKnows(v, r)'
    BY <2>1, <2>2, <2>3 DEF RestoreKnows, Writing, Removing
  <2> QED  BY <1>1, <1>3, <2>1, <2>2, <2>3, <2>4, RestoresOn DEF Writing
<1>6. CASE \/ RestoreRegistry(j) /\ w.step = "restoreRegistry"
           \/ RestoreNewSignature(j)
  <2> PICK v : v = LastPart(w)  OBVIOUS
  <2>1. work' = [work EXCEPT ![j] = v]
    BY <1>6 DEF RestoreRegistry, RestoreNewSignature, On
  <2>2. registry' = "archived" /\ signature' \in {"archived", "none"}
    BY <1>2, <1>6 DEF RestoreRegistry, RestoreNewSignature, RestoreKnows, On
  <2>3. /\ v \in LockWorks /\ v.cmd = w.cmd /\ v.todo = w.todo /\ v.images = w.images
        /\ v.step = IF w.cmd = "restore" THEN "dropBak" ELSE "removeLock"
        /\ v.next = IF w.cmd = "restore" THEN ArchivedLock ELSE w.next
    BY <1>2, LastParts
  <2>4. RestoreKnows(v, r)'
    BY <2>2, <2>3 DEF RestoreKnows
  <2>5. v.step \in RestoreSteps \union Removing \union {"dropBak"}
        /\ (v.step \in RestoreSteps \union Removing => v.step = "removeLock")
    BY <2>3 DEF RestoreSteps, Removing
  <2> QED  BY <1>1, <1>2, <1>3, <2>1, <2>3, <2>4, <2>5, RestoresOn DEF Restoring
<1> QED  BY <1>4, <1>5, <1>6 DEF RestoreRegistry, On

\* A restore without a lock removes the lock and its backup.
LEMMA RemoveKeeps ==
    ASSUME LockInv, LockStateOK', NEW j \in LockJob, RemoveLock(j) \/ RemoveLockBak(j)
    PROVE  LockInv'
<1> PICK w : w = work[j]  OBVIOUS
<1> PICK r : r = replaced[j]  OBVIOUS
<1>1. w.step \in Removing
  BY DEF RemoveLock, RemoveLockBak, On, Removing
<1>2. w \in LockWorks /\ RestoreKnows(w, r) /\ Writer(j) /\ w.cmd = "restoreBare"
  BY <1>1, AtStep, AtWrite DEF Knows
<1>3. mode' = mode /\ UNCHANGED <<registry, signature>>
  BY DEF RemoveLock, RemoveLockBak, lockWorld
<1>4. CASE RemoveLock(j)
  <2> PICK l : l = lockFile'  OBVIOUS
  <2> PICK v : v = [w EXCEPT !.step = "removeBak", !.got = l]  OBVIOUS
  <2>1. work' = [work EXCEPT ![j] = v]
    <3>1. work' = [work EXCEPT ![j].step = "removeBak", ![j].got = lockFile']
      BY <1>4 DEF RemoveLock
    <3> QED  BY <1>2, <3>1 DEF LockInv
  <2>2. w.step = "removeLock"
    BY <1>4 DEF RemoveLock, On
  <2>3. v \in LockWorks /\ v.cmd = w.cmd /\ v.todo = w.todo /\ v.images = w.images
        /\ v.step = "removeBak" /\ v.next = w.next /\ v.got = l
    <3>1. "removeBak" \in LockSteps /\ l \in Files
      BY DEF LockSteps, Removing, LockStateOK
    <3>2. v \in LockWorks
      BY <1>2, <3>1, WorkUpdates
    <3> QED  BY <1>2, <3>2 DEF LockWorks
  <2>4. Changes(j)
    BY <1>2, <1>4 DEF RemoveLock, Changes
  <2>5. registry = "archived" /\ signature \in {"archived", "none"}
    BY <1>1, <1>2 DEF RestoreKnows, Restoring
  <2>6. RestoreKnows(v, r)'
    BY <1>3, <2>3, <2>5 DEF RestoreKnows
  <2> QED  BY <1>2, <1>3, <2>1, <2>2, <2>3, <2>4, <2>6, RestoresOn DEF Removing
<1>5. CASE RemoveLockBak(j)
  <2>1. Changes(j)
    BY <1>2, <1>5 DEF RemoveLockBak, Changes
  <2> QED  BY <1>3, <1>5, <2>1, EndFrame DEF RemoveLockBak
<1> QED  BY <1>4, <1>5

-----------------------------------------------------------------------------
(* The invariant *)

JobActs(j) ==
    \/ StartLockJob(j) \/ LockLoad(j) \/ RunLocked(j) \/ ResolveImage(j) \/ ResolveFails(j)
    \/ LockWrite(j) \/ LockRestore(j) \/ KillLockJob(j)

\* No step puts anything but locks, registries and signatures in place.
LEMMA StateStays ==
    ASSUME LockInv, NEW j \in LockJob, JobActs(j)
    PROVE  LockStateOK'
<1>1. LockStateOK /\ work[j].next \in Files /\ NoFile \in Files
  BY DEF LockInv, LockWorks, Files
<1>2. CASE StartLockJob(j)
  BY <1>1, <1>2 DEF StartLockJob, LockStateOK, lockFiles
<1>3. CASE LockLoad(j)
  <2>1. CASE RenameLockBak(j)
    BY <1>1, <2>1 DEF RenameLockBak, LockStateOK, lockFiles, lockWorld
  <2>2. CASE ReadLock(j) \/ StatLock(j) \/ StatLockBak(j) \/ RereadLock(j)
    BY <1>1, <2>2 DEF ReadLock, StatLock, StatLockBak, RereadLock, LockStateOK, lockFiles, lockWorld
  <2> QED  BY <1>3, <2>1, <2>2 DEF LockLoad
<1>4. CASE RunLocked(j) \/ ResolveImage(j) \/ ResolveFails(j) \/ KillLockJob(j)
  BY <1>1, <1>4 DEF RunLocked, ResolveImage, ResolveFails, KillLockJob, LockStateOK, lockFiles,
                    lockWorld
<1>5. CASE LockWrite(j)
  <2>1. UNCHANGED lockWorld /\ lockFile' \in Files /\ lockBak' \in Files
    BY <1>1, <1>5 DEF LockWrite, DropLockBak, MoveLockAside, PublishLock, PutLockBack, CleanLockBak,
                      LockBakRemoved, LockStateOK, lockFiles
  <2> QED  BY <1>1, <2>1 DEF LockStateOK, lockWorld
<1>6. CASE LockRestore(j)
  <2>1. UNCHANGED <<tag, mode, commands>> /\ lockFile' \in Files /\ lockBak' \in Files
    BY <1>1, <1>6 DEF LockRestore, RestoreSignature, RestoreRegistry, RestoreNewSignature,
                      RemoveLock, RemoveLockBak, LockBakRemoved, LockStateOK, lockFiles,
                      lockWorld
  <2>2. registry' \in {registry, "archived"} /\ signature' \in {signature, "archived", "none"}
    BY <1>6 DEF LockRestore, RestoreSignature, RestoreRegistry, RestoreNewSignature, RemoveLock,
                RemoveLockBak, lockFiles, lockWorld
  <2> QED  BY <1>1, <2>1, <2>2 DEF LockStateOK
<1> QED  BY <1>2, <1>3, <1>4, <1>5, <1>6 DEF JobActs

\* The invariant holds at the start.
LEMMA InvInit ==
    ImageLockInit => LockInv
<1> SUFFICES ASSUME ImageLockInit  PROVE LockInv
  OBVIOUS
<1>1. LockStateOK
  <2>1. lockFile \in Files /\ lockBak \in Files
    <3>1. [i \in Image |-> <<IF i = "own" THEN "local" ELSE "registry", 1>>] \in Lock
      BY ImageLockAssumption DEF Lock, Entry
    <3> QED  BY <3>1 DEF ImageLockInit, Files
  <2>2. tag \in 1 .. MaxDigest /\ commands \in Nat
    BY ImageLockAssumption DEF ImageLockInit
  <2> QED  BY <2>1, <2>2 DEF ImageLockInit, LockStateOK
<1>2. \A j \in LockJob : work[j] = NoWork
  BY DEF ImageLockInit
<1>3. work \in [LockJob -> LockWorks]
  BY EndedWorks DEF ImageLockInit
<1>4. \A j \in LockJob : FitsStep(work[j]) /\ Knows(work[j], effective[j], replaced[j])
  BY <1>2, EndedWorks
<1>5. OneWriter
  BY <1>2, EndedWorks DEF OneWriter, Writer, Busy
<1> QED  BY <1>1, <1>3, <1>4, <1>5 DEF LockInv

\* Every step keeps the invariant.
LEMMA InvStep ==
    LockInv /\ [ImageLockNext]_imageLockVars => LockInv'
<1> SUFFICES ASSUME LockInv, [ImageLockNext]_imageLockVars  PROVE LockInv'
  OBVIOUS
<1>1. ASSUME NEW j \in LockJob, JobActs(j)  PROVE LockInv'
  <2>1. LockStateOK'
    BY <1>1, StateStays
  <2>2. CASE StartLockJob(j)
    BY <2>1, <2>2, StartKeeps
  <2>3. CASE LockLoad(j)
    BY <2>1, <2>3, ReadKeeps, StatKeeps, RenameKeeps, RereadKeeps DEF LockLoad
  <2>4. CASE RunLocked(j) \/ ResolveFails(j) \/ KillLockJob(j)
    BY <2>1, <2>4, QuietEnd DEF RunLocked, ResolveFails, KillLockJob
  <2>5. CASE ResolveImage(j)
    BY <2>1, <2>5, ResolveKeeps
  <2>6. CASE LockWrite(j)
    BY <2>1, <2>6, WriteKeeps
  <2>7. CASE LockRestore(j)
    BY <2>1, <2>7, RestoreKeeps, RemoveKeeps DEF LockRestore
  <2> QED  BY <1>1, <2>2, <2>3, <2>4, <2>5, <2>6, <2>7 DEF JobActs
<1>2. CASE PushTag \/ UNCHANGED imageLockVars
  <2>1. UNCHANGED <<lockFile, lockBak, registry, signature, mode, work, effective, replaced, commands>>
        /\ (tag' = tag \/ (tag < MaxDigest /\ tag' = tag + 1))
    BY <1>2 DEF PushTag, imageLockVars, lockFiles
  <2>2. tag' \in 1 .. MaxDigest
    BY <2>1, ImageLockAssumption DEF LockInv, LockStateOK
  <2>3. LockStateOK'
    BY <2>1, <2>2 DEF LockInv, LockStateOK
  <2>4. OneWriter'
    BY <2>1 DEF LockInv, OneWriter, Writer, Busy
  <2>5. ASSUME NEW j \in LockJob
        PROVE  (FitsStep(work[j]) /\ Knows(work[j], effective[j], replaced[j]))'
    <3> PICK w : w = work[j]  OBVIOUS
    <3> PICK e : e = effective[j]  OBVIOUS
    <3> PICK r : r = replaced[j]  OBVIOUS
    <3>1. FitsStep(w) /\ Knows(w, e, r)
      BY DEF LockInv
    <3>2. work'[j] = w /\ effective'[j] = e /\ replaced'[j] = r /\ InEffect' = InEffect
      BY <2>1 DEF InEffect
    <3>3. RunKnows(w, e, r)' /\ LoadKnows(w, r)' /\ WriteKnows(w)' /\ RestoreKnows(w, r)'
      BY <2>1, <3>1 DEF Knows, RunKnows, LoadKnows, WriteKnows, RestoreKnows
    <3>4. RefreshKnows(w, e, r)' /\ SeesLock(w, e)'
      BY <3>1, <3>2 DEF Knows, RefreshKnows, SeesLock, KeptOf
    <3>5. Knows(w, e, r)'
      BY <3>3, <3>4 DEF Knows
    <3>6. Knows(work[j], effective[j], replaced[j])'
      BY <3>2, <3>5 DEF Knows, RunKnows, LoadKnows, SeesLock, RefreshKnows, WriteKnows, RestoreKnows
    <3>7. FitsStep(work[j])'
      BY <3>1, <3>2 DEF FitsStep
    <3> QED  BY <3>6, <3>7
  <2> QED  BY <2>1, <2>3, <2>4, <2>5 DEF LockInv
<1> QED  BY <1>1, <1>2 DEF ImageLockNext, JobActs

\* Every reachable state of the locks and of the commands satisfies LockInv.
THEOREM LockInvariance ==
    ImageLockSpec => []LockInv
<1> QED  BY InvInit, InvStep, PTL DEF ImageLockSpec

-----------------------------------------------------------------------------
(* What the commands promise *)

\* A tool runs what a lock in effect since its command began has for its image,
\* and the bare tag only where none was in effect or another command put a lock file
\* in place between the two looks of its load, and never under a policy that
\* requires a lock (RunsLocked).
THEOREM RunsAreLocked ==
    ImageLockSpec => []RunsLocked
<1>1. LockInv => RunsLocked
  BY DEF LockInv, Knows, RunKnows, RunsLocked
<1> QED  BY <1>1, LockInvariance, PTL

\* A step changes the work of one command.
LEMMA OneActs ==
    ASSUME LockInv, NEW k \in LockJob, JobActs(k), NEW j \in LockJob, j # k
    PROVE  work'[j] = work[j]
<1> SUFFICES ASSUME NEW v, work' = [work EXCEPT ![k] = v]
             PROVE  work'[j] = work[j]
  <2>1. CASE StartLockJob(k)
    BY <2>1 DEF StartLockJob
  <2>2. CASE LockLoad(k)
    BY <2>2 DEF LockLoad, ReadLock, StatLock, StatLockBak, RenameLockBak, RereadLock, Loaded, Goes,
                GivesUp
  <2>3. CASE RunLocked(k) \/ ResolveImage(k) \/ ResolveFails(k) \/ KillLockJob(k)
    BY <2>3 DEF RunLocked, ResolveImage, ResolveFails, KillLockJob, GivesUp, Completes
  <2>4. CASE LockWrite(k)
    BY <2>4 DEF LockWrite, DropLockBak, MoveLockAside, PublishLock, PutLockBack, CleanLockBak, Goes,
                GivesUp, Completes
  <2>5. CASE LockRestore(k)
    BY <2>5 DEF LockRestore, RestoreSignature, RestoreRegistry, RestoreNewSignature, RemoveLock,
                RemoveLockBak, Goes, GivesUp, Completes, LockInv
  <2> QED  BY <2>1, <2>2, <2>3, <2>4, <2>5 DEF JobActs
<1> QED  BY DEF LockInv

\* The step that loses the lock is one of a command that replaces or removes it
\* without loading it.
LEMMA WhoLoses ==
    ASSUME LockInv, NEW j \in LockJob, JobActs(j), InEffect # NoFile, InEffect' = NoFile
    PROVE  work[j].cmd \in {"lock", "restore", "restoreBare"} /\ work'[j] # work[j]
<1> PICK w : w = work[j]  OBVIOUS
<1>1. w \in LockWorks /\ FitsStep(w) /\ WriteKnows(w)
  BY AtStep DEF Knows
<1>2. ~UNCHANGED lockFiles
  BY DEF lockFiles, InEffect
<1>3. LockLoad(j) => RenameLockBak(j)
  BY <1>2 DEF LockLoad, ReadLock, StatLock, StatLockBak, RereadLock
<1>4. ~RenameLockBak(j)
  BY <1>2 DEF RenameLockBak, InEffect
<1>5. LockWrite(j) \/ LockRestore(j)
  BY <1>2, <1>3, <1>4 DEF JobActs, StartLockJob, RunLocked, ResolveImage, ResolveFails, KillLockJob
<1>6. CASE LockWrite(j)
  <2>1. CASE DropLockBak(j)
    <3>1. lockFile = NoFile /\ lockBak # NoFile /\ w.step = "dropBak"
      BY <2>1 DEF DropLockBak, InEffect, On
    <3>2. w.cmd \in {"lock", "restore"}
      BY <1>1, <3>1, AtWrite DEF WriteKnows, Writing
    <3>3. work'[j].step # "dropBak"
      <4>1. GivesUp(j) => work'[j] = NoWork
        BY DEF GivesUp, LockInv
      <4>2. Goes(j, "moveAside") => work'[j].step = "moveAside"
        BY <1>1 DEF Goes, LockInv, LockWorks
      <4>3. Goes(j, "publish") => work'[j].step = "publish"
        BY <1>1 DEF Goes, LockInv, LockWorks
      <4> QED  BY <2>1, <4>1, <4>2, <4>3, EndedWorks DEF DropLockBak
    <3> QED  BY <3>1, <3>2, <3>3
  <2>2. ~MoveLockAside(j)
    BY <1>2 DEF MoveLockAside, InEffect
  <2>3. ~PublishLock(j)
    <3>1. w.step = "publish" => w.next \in Lock
      BY <1>1 DEF FitsStep
    <3> QED  BY <1>2, <3>1, LocksDiffer DEF PublishLock, InEffect, On
  <2>4. ~PutLockBack(j)
    BY <1>2 DEF PutLockBack, InEffect
  <2>5. ~CleanLockBak(j)
    BY <1>1 DEF CleanLockBak, InEffect, WriteKnows, On
  <2> QED  BY <1>6, <2>1, <2>2, <2>3, <2>4, <2>5 DEF LockWrite
<1>7. CASE LockRestore(j)
  <2>1. RemoveLock(j) \/ RemoveLockBak(j)
    BY <1>2, <1>7 DEF LockRestore, RestoreSignature, RestoreRegistry, RestoreNewSignature
  <2>2. w.step \in Removing /\ w.cmd = "restoreBare"
    <3>1. w.step \in Removing
      BY <2>1 DEF RemoveLock, RemoveLockBak, On, Removing
    <3> QED  BY <3>1, AtWrite
  <2>3. work'[j].step # w.step
    <3>1. CASE RemoveLock(j)
      BY <1>1, <3>1 DEF RemoveLock, On, LockInv, LockWorks
    <3>2. CASE RemoveLockBak(j)
      BY <1>1, <3>2, EndedWorks DEF RemoveLockBak, On, Completes, LockInv
    <3> QED  BY <2>1, <3>1, <3>2
  <2> QED  BY <2>2, <2>3
<1> QED  BY <1>5, <1>6, <1>7

\* There is a lock at every moment once there is one: only cb lock and cb restore
\* can leave none (LockNeverLost).
THEOREM LockIsNotLost ==
    ImageLockSpec => LockNeverLost
<1>1. LockInv /\ [ImageLockNext]_imageLockVars =>
          (InEffect # NoFile /\ InEffect' = NoFile =>
              \E j \in LockJob : work[j].cmd \in {"lock", "restore", "restoreBare"}
                                 /\ work'[j] # work[j])
  <2> SUFFICES ASSUME LockInv, [ImageLockNext]_imageLockVars, InEffect # NoFile, InEffect' = NoFile
               PROVE  \E j \in LockJob : work[j].cmd \in {"lock", "restore", "restoreBare"}
                                         /\ work'[j] # work[j]
    OBVIOUS
  <2>1. ~PushTag /\ ~UNCHANGED imageLockVars
    BY DEF PushTag, imageLockVars, lockFiles, InEffect
  <2>2. PICK j \in LockJob : JobActs(j)
    BY <2>1 DEF ImageLockNext, JobActs
  <2> QED  BY <2>2, WhoLoses
<1> QED  BY <1>1, LockInvariance, PTL DEF ImageLockSpec, LockNeverLost

\* A step of Next that changes a command's work is a step of that command.
LEMMA ItsOwnStep ==
    ASSUME LockInv, [ImageLockNext]_imageLockVars, NEW j \in LockJob, work'[j] # work[j]
    PROVE  JobActs(j)
<1>1. ~PushTag /\ ~UNCHANGED imageLockVars
  BY DEF PushTag, imageLockVars
<1>2. PICK k \in LockJob : JobActs(k)
  BY <1>1 DEF ImageLockNext, JobActs
<1> QED  BY <1>2, OneActs

\* A refresh of some images keeps the entries of all others as a lock in effect since
\* it began has them, and keeps a local entry local unless it is told otherwise,
\* unless another command put the lock file in place between the two looks of its
\* load: then it loads no lock and forgets them (RefreshKeepsOthers).
THEOREM RefreshesKeepOthers ==
    ImageLockSpec => RefreshKeepsOthers
<1>1. ASSUME LockInv, [ImageLockNext]_imageLockVars, NEW j \in LockJob, NEW w, w = work[j],
             w.cmd \in {"preserving", "update"}, w.step = "publish", work'[j].step = "cleanBak",
             ~replaced[j]
      PROVE  \E l \in effective[j] : \A i \in Image :
                 LET old == IF l = NoFile THEN NoEntry ELSE l[i] IN
                 IF i \notin w.images THEN lockFile'[i] = old
                 ELSE w.cmd = "update" /\ w.kind = "" /\ old[1] = "local" =>
                          lockFile'[i][1] = "local"
  <2>1. JobActs(j)
    BY <1>1, ItsOwnStep
  <2>2. PublishLock(j) \/ KillLockJob(j)
    BY <1>1, <2>1 DEF JobActs, StartLockJob, Busy, LockLoad, ReadLock, StatLock, StatLockBak,
                      RenameLockBak, RereadLock, RunLocked, ResolveImage, ResolveFails, LockWrite,
                      DropLockBak, MoveLockAside, PutLockBack, CleanLockBak, LockRestore,
                      RestoreSignature, RestoreRegistry, RestoreNewSignature, RemoveLock,
                      RemoveLockBak, On
  <2>3. w \in LockWorks /\ FitsStep(w) /\ RefreshKnows(w, effective[j], replaced[j])
    BY <1>1, AtStep DEF Knows
  <2>4. lockFile' = w.next
    <3>1. ~KillLockJob(j)
      BY <1>1, EndedWorks DEF KillLockJob, GivesUp, LockInv
    <3>2. ~Goes(j, "putBack")
      BY <1>1, <2>3 DEF Goes, LockInv, LockWorks
    <3> QED  BY <1>1, <2>2, <3>1, <3>2 DEF PublishLock
  <2>5. PICK l \in effective[j] : KeptOf(w, l)
    BY <1>1, <2>3 DEF RefreshKnows, Keeping
  <2>6. w.todo = {}
    BY <1>1, <2>3 DEF FitsStep, Writing
  <2> QED  BY <2>4, <2>5, <2>6 DEF KeptOf
<1>2. LockInv /\ [ImageLockNext]_imageLockVars =>
          \A j \in LockJob : PublishesRefresh(j) /\ ~replaced[j] =>
              LET w == work[j] IN
              \E l \in effective[j] : \A i \in Image :
                  LET old == IF l = NoFile THEN NoEntry ELSE l[i] IN
                  IF i \notin w.images THEN lockFile'[i] = old
                  ELSE w.cmd = "update" /\ w.kind = "" /\ old[1] = "local" =>
                           lockFile'[i][1] = "local"
  BY <1>1 DEF PublishesRefresh, On
<1> QED  BY <1>2, LockInvariance, PTL DEF ImageLockSpec, RefreshKeepsOthers

\* A restore touches the lock in effect only after the registry and its signature.
LEMMA LockAfterRegistry ==
    ASSUME LockInv, [ImageLockNext]_imageLockVars, NEW j \in LockJob,
           Restores(j), InEffect' # InEffect
    PROVE  ArchiveInPlace
<1> PICK w : w = work[j]  OBVIOUS
<1>1. JobActs(j) /\ w.cmd \in Restoring /\ w.step \notin {"idle", "done"}
  BY ItsOwnStep DEF Restores, Busy, Restoring
<1>2. w \in LockWorks /\ FitsStep(w) /\ RestoreKnows(w, replaced[j])
  BY AtStep DEF Knows
<1>3. ~UNCHANGED lockFiles
  BY DEF lockFiles, InEffect
<1>4. w.step \notin Loading
  <2>1. w.step \in StepsOf(w.cmd)
    BY <1>1, <1>2 DEF FitsStep
  <2> QED  BY <1>1, <2>1 DEF StepsOf, Restoring, Keeping, Loading, Writing, RestoreSteps, Removing
<1>5. ~LockLoad(j)
  BY <1>4 DEF LockLoad, ReadLock, StatLock, StatLockBak, RenameLockBak, RereadLock, On, Loading
<1>6. LockWrite(j) \/ RemoveLock(j) \/ RemoveLockBak(j)
  BY <1>1, <1>3, <1>5 DEF JobActs, StartLockJob, RunLocked, ResolveImage, ResolveFails, KillLockJob,
                          LockRestore, RestoreSignature, RestoreRegistry, RestoreNewSignature
<1>7. w.step \in Writing \union Removing
  BY <1>6 DEF LockWrite, DropLockBak, MoveLockAside, PublishLock, PutLockBack, CleanLockBak,
              RemoveLock, RemoveLockBak, On, Writing, Removing
<1> QED  BY <1>1, <1>2, <1>7 DEF RestoreKnows, ArchiveInPlace

\* A restore changes the lock in effect only with the archived registry and its
\* signature in place, and one that reports success has put its lock in place too,
\* unless another command recovered the old lock before the restore's last step,
\* or the old lock or its backup could not be removed (RestoresTogether).
THEOREM RestoresAreTogether ==
    ImageLockSpec => RestoresTogether
<1>1. ASSUME LockInv, [ImageLockNext]_imageLockVars, NEW j \in LockJob, NEW w, w = work[j],
             Restores(j), work'[j].step = "done"
      PROVE  /\ ArchiveInPlace'
             /\ \/ InEffect' = IF w.cmd = "restore" THEN ArchivedLock ELSE NoFile
                \/ replaced[j]
                \/ w.cmd = "restoreBare" /\ (w.got # NoFile \/ lockBak' # NoFile)
  <2>0. w.cmd \in {"restore", "restoreBare"} /\ w.step \notin {"idle", "done"}
    BY <1>1 DEF Restores, Busy
  <2>1. JobActs(j)
    BY <1>1, <2>0, ItsOwnStep
  <2>2. w \in LockWorks /\ FitsStep(w) /\ WriteKnows(w) /\ RestoreKnows(w, replaced[j])
    BY <1>1, <2>0, AtStep DEF Knows
  <2>3. ~GivesUp(j) /\ \A st : st # "done" => ~Goes(j, st)
    <3>1. ~GivesUp(j)
      BY <1>1, <2>0, EndedWorks DEF GivesUp, LockInv
    <3>2. ASSUME NEW st, Goes(j, st)  PROVE work'[j].step = st
      BY <1>1, <2>0, <2>2, <3>2 DEF Goes, LockInv, LockWorks
    <3> QED  BY <1>1, <2>0, <3>1, <3>2
  <2>4. w.step \notin {"run", "resolve"} \union Loading
    <3>1. w.step \in {"run", "resolve"} \union Loading => w.step \in StepsOf(w.cmd)
      BY <2>2 DEF FitsStep, Loading
    <3> QED  BY <1>1, <2>0, <3>1 DEF StepsOf, Loading, Writing, RestoreSteps, Removing, Keeping
  <2>5. CleanLockBak(j) \/ RemoveLockBak(j)
    <3>1. ~LockLoad(j) /\ ~RunLocked(j) /\ ~ResolveImage(j) /\ ~ResolveFails(j)
      BY <1>1, <2>0, <2>4 DEF LockLoad, ReadLock, StatLock, StatLockBak, RenameLockBak, RereadLock, On,
                        RunLocked, ResolveImage, ResolveFails, Loading
    <3>2. ~StartLockJob(j)
      <4>1. \A c : FirstLockStep(c) # "done"
        BY DEF FirstLockStep
      <4>2. StartLockJob(j) => \E c : work'[j].step = FirstLockStep(c)
        BY <1>1, <2>0 DEF StartLockJob, LockInv, NoWork
      <4> QED  BY <1>1, <2>0, <4>1, <4>2
    <3>3. ~KillLockJob(j) /\ ~DropLockBak(j) /\ ~MoveLockAside(j) /\ ~PublishLock(j) /\ ~PutLockBack(j)
      BY <2>3 DEF KillLockJob, DropLockBak, MoveLockAside, PublishLock, PutLockBack
    <3>4. ~RestoreSignature(j)
      BY <2>3 DEF RestoreSignature
    <3>5. ~RestoreRegistry(j) /\ ~RestoreNewSignature(j)
      <4>1. LastPart(w).step # "done" /\ [w EXCEPT !.step = "restoreNewSig"].step # "done"
        BY <2>2 DEF LastPart, LockWorks
      <4> QED  BY <1>1, <2>0, <4>1 DEF RestoreRegistry, RestoreNewSignature, LockInv
    <3>6. ~RemoveLock(j)
      BY <1>1, <2>0, <2>2 DEF RemoveLock, LockInv, LockWorks
    <3> QED  BY <2>1, <3>1, <3>2, <3>3, <3>4, <3>5, <3>6 DEF JobActs, LockWrite, LockRestore
  <2>6. CASE CleanLockBak(j)
    <3>1. w.step = "cleanBak" /\ w.step \in Writing /\ lockFile # NoFile
      BY <1>1, <2>0, <2>2, <2>6 DEF CleanLockBak, On, Writing, WriteKnows
    <3>2. w.cmd = "restore"
      BY <1>1, <2>0, <3>1, AtWrite DEF Keeping
    <3>3. registry = "archived" /\ signature \in {"archived", "none"}
          /\ (replaced[j] \/ lockFile = ArchivedLock)
      BY <2>2, <3>1, <3>2 DEF RestoreKnows, FitsStep, Restoring
    <3> QED
      BY <2>6, <3>1, <3>2, <3>3 DEF CleanLockBak, lockWorld, InEffect, ArchiveInPlace
  <2>7. CASE RemoveLockBak(j)
    <3>1. w.step = "removeBak" /\ w.step \in Removing
      BY <1>1, <2>0, <2>7 DEF RemoveLockBak, On, Removing
    <3>2. w.cmd = "restoreBare"
      BY <1>1, <2>0, <3>1, AtWrite
    <3>3. registry = "archived" /\ signature \in {"archived", "none"}
          /\ (replaced[j] \/ lockFile = w.got)
      BY <2>2, <3>1, <3>2 DEF RestoreKnows, Restoring
    <3> QED  BY <2>7, <3>2, <3>3 DEF RemoveLockBak, lockWorld, InEffect, ArchiveInPlace
  <2> QED  BY <2>5, <2>6, <2>7
<1>2. LockInv /\ [ImageLockNext]_imageLockVars =>
          \A j \in LockJob : LET w == work[j] IN
              /\ Restores(j) /\ InEffect' # InEffect => ArchiveInPlace
              /\ Restores(j) /\ work'[j].step = "done" =>
                    /\ ArchiveInPlace'
                    /\ \/ InEffect' = IF w.cmd = "restore" THEN ArchivedLock ELSE NoFile
                       \/ replaced[j]
                       \/ w.cmd = "restoreBare" /\ (w.got # NoFile \/ lockBak' # NoFile)
  BY <1>1, LockAfterRegistry
<1> QED  BY <1>2, LockInvariance, PTL DEF ImageLockSpec, RestoresTogether

=============================================================================
