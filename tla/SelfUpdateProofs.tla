--------------------------- MODULE SelfUpdateProofs ---------------------------
(***************************************************************************)
(* Proofs about self-update, for every set of updates, shims and releases  *)
(* and every setting of the switches.                                      *)
(*                                                                         *)
(* The transaction is run by one update at a time, the one in the lock;    *)
(* the inductive invariant says what it knows of the files at each of its  *)
(* steps.  What it knows is stable under the changes other programs make,  *)
(* which only ever take a file out of the two releases.  The rollback      *)
(* executable is the reason a mix of releases is tolerable: it holds the   *)
(* old bytes from before the first replacement until the files are proved  *)
(* whole again.                                                            *)
(***************************************************************************)
EXTENDS SelfUpdate, TLAPS

\* The steps before the rollback executable is made.
Early == {"none", "load", "wait", "verify", "bind", "lock", "inputs", "discover", "backup"}
\* The rollback executable is in place, and has been proved to be what runs.
Backed == {"checkCb", "replaceCb", "inspectCb", "verifyCb", "nextShim", "replaceShim", "smoke",
           "finalCb", "finalShim", "rollback", "restoreCb", "checkRestored", "rollShim",
           "restoreShim", "recheckCb", "recheckShim"}
\* The shims have been discovered.
Managing == {"backup"} \union Backed
\* cb.exe has been seen to hold the new bytes.
Upgraded == {"nextShim", "replaceShim", "smoke", "finalCb", "finalShim"}
\* The shims still to be looked at are managed ones.
Looping == {"nextShim", "replaceShim", "restoreCb", "checkRestored", "rollShim", "restoreShim"}

\* What the two processes of an update leave to one another.
StageKnows(u) ==
    /\ parent[u] = "idle" => helper[u] = "none" /\ staged[u] = "none"
    /\ parent[u] # "idle" =>
          version[u] \in Release /\ target[u] \in Release /\ target[u] # version[u]
    /\ helper[u] # "none" => parent[u] \in {"undo", "clean"} \union Over
    /\ helper[u] \in {"verify", "bind", "lock"} \union Applying => parent[u] \in Over
    /\ helper[u] \in {"bind", "lock"} \union Applying => staged[u] \in {"genuine", "spoiled"}
    /\ staged[u] # "none" => parent[u] \notin {"idle", "over"} \/ helper[u] \notin {"none", "over"}
    /\ helper[u] \in Early => copy[u] = "none"

\* What the transaction knows of the files at its step h.
TxKnows(u, h) ==
    /\ h \in {"discover", "backup"} => file["cb"] # "absent"
    /\ h \in Backed => copy[u] = version[u]
    /\ h = "replaceCb" => late \/ file["cb"] = version[u]
    /\ h = "restoreCb" => late \/ file["cb"] = target[u]
    /\ h = "replaceShim" => shim \subseteq managed /\ (late \/ \A s \in shim : file[s] = version[u])
    /\ h = "restoreShim" => shim \subseteq managed /\ (late \/ \A s \in shim : file[s] = target[u])
    /\ h \in Looping => todo \subseteq managed
    /\ h \in Managing => \A s \in Shim \ managed : file[s] # version[u]
    /\ h \in Upgraded => file["cb"] \in {target[u], "foreign"}
    /\ h \in {"rollShim", "restoreShim"} /\ restored => file["cb"] \in {version[u], "foreign"}
    /\ h = "finalShim" => \A s \in managed \ todo : file[s] \in {target[u], "foreign"}
    /\ h = "recheckShim" =>
          \A f \in {"cb"} \union (managed \ todo) : file[f] \in {version[u], "foreign"}

\* An update that is over, or died, has left its rollback executable.
RecoveryLeft ==
    \E u \in Updater : helper[u] \notin Applying /\ copy[u] # "none" /\ copy[u] = version[u]

\* Where no earlier update has left one, what the transaction may drop its own by.
MixKnows(u, h) ==
    /\ h \in {"inputs", "discover", "backup", "checkCb", "replaceCb", "dropCopy"} => ~HalfDone
    /\ h = "unlock" => ~HalfDone \/ copy[u] = version[u]
    /\ h \in {"discover", "backup", "checkCb", "replaceCb", "inspectCb"} =>
          \A s \in Shim : file[s] \in Release => file[s] = version[u]
    /\ h \in Managing => \A s \in Shim \ managed : file[s] \notin Release

\* Outside a transaction the files are whole.
FilesKnown ==
    /\ (\A u \in Updater : helper[u] \notin Applying) => ~HalfDone
    /\ \A u \in Updater : helper[u] \in Applying => MixKnows(u, helper[u])

\* The inductive invariant.
UpdateInv ==
    /\ UpdateTypeOK
    /\ \A u \in Updater : StageKnows(u)
    /\ \A u \in Updater : helper[u] \in Applying => lock = {u} /\ TxKnows(u, helper[u])
    /\ \A s \in Shim : file[s] # "spoiled"
    /\ RecoveryLeft \/ FilesKnown

-----------------------------------------------------------------------------
(* The bytes, and the transaction at hand *)

\* Releases, the other bytes and the names of files are all different.
LEMMA BytesDiffer ==
    /\ \A s \in Shim : s # "cb"
    /\ \A r \in Release : r \notin {"none", "absent", "foreign", "spoiled"}
BY UpdateAssumption

\* What every step of a transaction may rely on: it is the only one, its parent
\* is gone, and its staging directory is still there.
LEMMA Transaction ==
    ASSUME UpdateInv, NEW u \in Updater, helper[u] \in Applying
    PROVE  /\ lock = {u} /\ TxKnows(u, helper[u])
           /\ \A v \in Updater \ {u} : helper[v] \notin Applying
           /\ parent[u] \in Over
           /\ version[u] \in Release /\ target[u] \in Release /\ target[u] # version[u]
           /\ staged[u] \in {"genuine", "spoiled"}
<1>1. lock = {u} /\ TxKnows(u, helper[u])
  BY DEF UpdateInv
<1>2. \A v \in Updater \ {u} : helper[v] \notin Applying
  BY <1>1 DEF UpdateInv
<1>3. StageKnows(u)
  BY DEF UpdateInv
<1>4. parent[u] \in Over /\ staged[u] \in {"genuine", "spoiled"}
  BY <1>3 DEF StageKnows
<1>5. parent[u] # "idle"
  BY <1>4 DEF Over
<1> QED  BY <1>1, <1>2, <1>3, <1>4, <1>5 DEF StageKnows

-----------------------------------------------------------------------------
(* Frames *)

\* A step outside the transactions that leaves the files alone: only what the
\* processes leave to one another is in question.
LEMMA StageFrame ==
    ASSUME UpdateInv, UpdateTypeOK', \A v \in Updater : StageKnows(v)',
           UNCHANGED <<file, copy>>,
           \A v \in Updater : \/ helper'[v] = helper[v]
                              \/ helper[v] \notin Applying /\ helper'[v] \notin Applying,
           \A v \in Updater : \/ copy[v] = "none" /\ helper'[v] \notin Applying
                              \/ version'[v] = version[v] /\ target'[v] = target[v],
           UNCHANGED <<lock, tx>> \/ \A v \in Updater : helper'[v] \notin Applying
    PROVE  UpdateInv'
<1>1. ASSUME NEW v \in Updater, helper'[v] \in Applying
      PROVE  /\ helper[v] = helper'[v] /\ version'[v] = version[v] /\ target'[v] = target[v]
             /\ UNCHANGED <<lock, tx>>
  BY <1>1
<1>2. ASSUME NEW v \in Updater, helper'[v] \in Applying
      PROVE  (lock = {v} /\ TxKnows(v, helper[v]))'
  <2> DEFINE h == helper[v]
  <2>1. lock = {v} /\ TxKnows(v, h)
    BY <1>1, <1>2 DEF UpdateInv
  <2>2. UNCHANGED <<lock, tx, file, copy, h>> /\ version'[v] = version[v] /\ target'[v] = target[v]
    BY <1>1, <1>2
  <2> QED  BY <2>1, <2>2 DEF TxKnows, tx
<1>3. \A s \in Shim : file'[s] # "spoiled"
  BY DEF UpdateInv
<1>4. CASE RecoveryLeft
  <2>1. PICK w \in Updater : helper[w] \notin Applying /\ copy[w] # "none" /\ copy[w] = version[w]
    BY <1>4 DEF RecoveryLeft
  <2>2. helper'[w] \notin Applying /\ copy'[w] # "none" /\ copy'[w] = version'[w]
    BY <2>1
  <2>3. RecoveryLeft'
    BY <2>2 DEF RecoveryLeft
  <2> QED  BY <1>2, <1>3, <2>3 DEF UpdateInv
<1>5. CASE FilesKnown
  <2>1. HalfDone' <=> HalfDone
    BY DEF HalfDone
  <2>2. (\A v \in Updater : helper'[v] \notin Applying) => ~HalfDone'
    BY <1>5, <2>1 DEF FilesKnown
  <2>3. ASSUME NEW v \in Updater, helper'[v] \in Applying
        PROVE  MixKnows(v, helper[v])'
    <3> DEFINE h == helper[v]
    <3>1. MixKnows(v, h)
      BY <1>1, <1>5, <2>3 DEF FilesKnown
    <3>2. UNCHANGED <<tx, file, copy, h>> /\ version'[v] = version[v]
      BY <1>1, <2>3
    <3> QED  BY <2>1, <3>1, <3>2 DEF MixKnows, tx
  <2>4. FilesKnown'
    BY <2>2, <2>3 DEF FilesKnown
  <2> QED  BY <1>2, <1>3, <2>4 DEF UpdateInv
<1> QED  BY <1>4, <1>5 DEF UpdateInv

\* A step of a transaction to its step to: what it knows there is in question.
LEMMA TxFrame ==
    ASSUME UpdateInv, UpdateTypeOK', NEW u \in Updater, helper[u] \in Applying,
           NEW to \in Applying, helper' = [helper EXCEPT ![u] = to],
           UNCHANGED <<staged, lock, parent, version, target>>,
           \A v \in Updater \ {u} : copy'[v] = copy[v],
           to \in Early => copy'[u] = "none",
           TxKnows(u, to)', \A s \in Shim : file'[s] # "spoiled",
           RecoveryLeft \/ MixKnows(u, to)'
    PROVE  UpdateInv'
<1>1. /\ helper'[u] = to
      /\ \A v \in Updater \ {u} : helper'[v] = helper[v]
  BY DEF UpdateInv, UpdateTypeOK
<1>2. /\ lock = {u}
      /\ \A v \in Updater \ {u} : helper[v] \notin Applying
  BY Transaction
<1>3. ASSUME NEW v \in Updater PROVE StageKnows(v)'
  <2>1. StageKnows(v)
    BY DEF UpdateInv
  <2>2. CASE v = u
    <3>1. parent[u] \in Over /\ staged[u] \in {"genuine", "spoiled"}
      BY Transaction
    <3>2. parent[u] # "idle" /\ to # "none" /\ to # "over"
      BY <3>1 DEF Over, Applying, Looking, Replacing
    <3> QED  BY <1>1, <2>1, <2>2, <3>1, <3>2 DEF StageKnows
  <2>3. CASE v # u
    <3>1. helper'[v] = helper[v] /\ copy'[v] = copy[v]
      BY <1>1, <2>3
    <3> QED  BY <2>1, <3>1 DEF StageKnows
  <2> QED  BY <2>2, <2>3
<1>4. ASSUME NEW v \in Updater, helper'[v] \in Applying
      PROVE  v = u
  BY <1>1, <1>2, <1>4
<1>5. lock' = {u} /\ TxKnows(u, helper[u])'
  BY <1>1, <1>2
<1>6. CASE RecoveryLeft
  <2>1. PICK w \in Updater : helper[w] \notin Applying /\ copy[w] # "none" /\ copy[w] = version[w]
    BY <1>6 DEF RecoveryLeft
  <2>2. RecoveryLeft'
    BY <1>1, <2>1 DEF RecoveryLeft
  <2> QED  BY <1>3, <1>4, <1>5, <2>2 DEF UpdateInv
<1>7. CASE MixKnows(u, to)'
  <2>1. FilesKnown'
    BY <1>1, <1>4, <1>7 DEF FilesKnown
  <2> QED  BY <1>3, <1>4, <1>5, <2>1 DEF UpdateInv
<1> QED  BY <1>6, <1>7

\* A step of one update outside its transaction.
LEMMA OneStage ==
    ASSUME UpdateInv, UpdateTypeOK', NEW u \in Updater, StageKnows(u)',
           UNCHANGED <<file, copy, lock, tx>>,
           \A v \in Updater \ {u} :
              /\ parent'[v] = parent[v] /\ helper'[v] = helper[v] /\ staged'[v] = staged[v]
              /\ version'[v] = version[v] /\ target'[v] = target[v],
           \/ helper'[u] = helper[u]
           \/ helper[u] \notin Applying /\ helper'[u] \notin Applying,
           \/ copy[u] = "none" /\ helper'[u] \notin Applying
           \/ version'[u] = version[u] /\ target'[u] = target[u]
    PROVE  UpdateInv'
<1>1. ASSUME NEW v \in Updater, v # u PROVE StageKnows(v)'
  <2>1. StageKnows(v)
    BY DEF UpdateInv
  <2> QED  BY <1>1, <2>1 DEF StageKnows
<1>2. \A v \in Updater : StageKnows(v)'
  BY <1>1
<1>3. ASSUME NEW v \in Updater
      PROVE  /\ \/ helper'[v] = helper[v]
                \/ helper[v] \notin Applying /\ helper'[v] \notin Applying
             /\ \/ copy[v] = "none" /\ helper'[v] \notin Applying
                \/ version'[v] = version[v] /\ target'[v] = target[v]
  <2>1. CASE v = u   BY <2>1
  <2>2. CASE v # u   BY <2>2
  <2> QED  BY <2>1, <2>2
<1> QED  BY <1>2, <1>3, StageFrame

-----------------------------------------------------------------------------
(* Staging and hand-over *)

\* The parent stages, verifies and hands over; a crash or a spoiled staging
\* directory takes nothing from what the helper relies on.
LEMMA ParentKeeps ==
    ASSUME UpdateInv, NEW u \in Updater,
           ParentStep(u) \/ StagedSpoils(u) \/ CrashParent(u)
    PROVE  UpdateInv'
<1> USE DEF ParentGoes, plan, tx
<1>1. StageKnows(u) /\ UpdateTypeOK
  BY DEF UpdateInv
<1>2. CASE BeginUpdate(u)
  <2>1. UpdateTypeOK'
    BY <1>1, <1>2, BytesDiffer DEF BeginUpdate, UpdateTypeOK
  <2>2. StageKnows(u)'
    BY <1>1, <1>2 DEF BeginUpdate, UpdateTypeOK, StageKnows, Over, Applying, Looking, Replacing
  <2>3. helper[u] = "none" /\ copy[u] = "none"
    BY <1>1, <1>2 DEF BeginUpdate, StageKnows, Early
  <2>4. helper[u] \notin Applying
    BY <2>3 DEF Applying, Looking, Replacing
  <2> QED  BY <1>1, <1>2, <2>1, <2>2, <2>3, <2>4, OneStage DEF BeginUpdate, UpdateTypeOK
<1>3. CASE Download(u)
  <2>1. UpdateTypeOK'
    BY <1>1, <1>3 DEF Download, UpdateTypeOK, Verifying
  <2>2. StageKnows(u)'
    BY <1>1, <1>3 DEF Download, UpdateTypeOK, StageKnows, Over, Applying, Looking, Replacing
  <2> QED  BY <1>1, <1>3, <2>1, <2>2, OneStage DEF Download, UpdateTypeOK
<1>4. CASE StageFails(u) \/ VerifyStaged(u) \/ BindInstalled(u) \/ PrepareHelper(u) \/ UndoLaunch(u)
  <2> USE DEF StageFails, VerifyStaged, BindInstalled, PrepareHelper, UndoLaunch
  <2>1. UpdateTypeOK'
    BY <1>1, <1>4 DEF UpdateTypeOK, Verifying
  <2>2. StageKnows(u)'
    BY <1>1, <1>4 DEF UpdateTypeOK, StageKnows, Over, Applying, Looking, Replacing
  <2> QED  BY <1>1, <1>4, <2>1, <2>2, OneStage DEF UpdateTypeOK
<1>5. CASE StartHelper(u)
  <2>1. UpdateTypeOK'
    BY <1>1, <1>5 DEF StartHelper, UpdateTypeOK, Over
  <2>2. helper[u] = "none" /\ copy[u] = "none" /\ parent[u] = "start"
    BY <1>1, <1>5 DEF StartHelper, StageKnows, Over, Early
  <2>3. StageKnows(u)'
    BY <1>1, <1>5, <2>2
       DEF StartHelper, UpdateTypeOK, StageKnows, Over, Applying, Looking, Replacing, Early
  <2>4. helper[u] \notin Applying /\ helper'[u] \notin Applying
    BY <1>1, <1>5, <2>2 DEF StartHelper, UpdateTypeOK, Applying, Looking, Replacing
  <2> QED  BY <1>1, <1>5, <2>1, <2>3, <2>4, OneStage DEF StartHelper, UpdateTypeOK
<1>6. CASE ParentCleans(u)
  <2>1. UpdateTypeOK'
    BY <1>1, <1>6 DEF ParentCleans, UpdateTypeOK, Over
  <2>2. parent[u] \notin Over
    BY <1>6 DEF ParentCleans, Over
  <2>3. helper[u] \notin {"verify", "bind", "lock"} \union Applying
    BY <1>1, <2>2 DEF StageKnows
  <2>4. StageKnows(u)'
    BY <1>1, <1>6, <2>3 DEF ParentCleans, UpdateTypeOK, StageKnows, Over
  <2> QED  BY <1>1, <1>6, <2>1, <2>4, OneStage DEF ParentCleans, UpdateTypeOK
<1>7. CASE StagedSpoils(u)
  <2>1. UpdateTypeOK'
    BY <1>1, <1>7 DEF StagedSpoils, UpdateTypeOK
  <2>2. StageKnows(u)'
    BY <1>1, <1>7 DEF StagedSpoils, UpdateTypeOK, StageKnows
  <2> QED  BY <1>1, <1>7, <2>1, <2>2, OneStage DEF StagedSpoils, UpdateTypeOK
<1>8. CASE CrashParent(u)
  <2>1. UpdateTypeOK'
    BY <1>1, <1>8 DEF CrashParent, UpdateTypeOK, Over
  <2>2. StageKnows(u)'
    BY <1>1, <1>8 DEF CrashParent, UpdateTypeOK, StageKnows, Over
  <2> QED  BY <1>1, <1>8, <2>1, <2>2, OneStage DEF CrashParent, UpdateTypeOK
<1> QED  BY <1>2, <1>3, <1>4, <1>5, <1>6, <1>7, <1>8 DEF ParentStep

\* The helper verifies again what the parent verified, and takes the lock only
\* when no transaction runs.
LEMMA HelperKeeps ==
    ASSUME UpdateInv, NEW u \in Updater, HelperStep(u)
    PROVE  UpdateInv'
<1> USE DEF Goto, plan, tx
<1>1. StageKnows(u) /\ UpdateTypeOK
  BY DEF UpdateInv
<1>2. CASE LoadRequest(u) \/ WaitParent(u) \/ VerifyAgain(u) \/ BindAgain(u) \/ HelperCleans(u)
  <2> USE DEF LoadRequest, WaitParent, VerifyAgain, BindAgain, HelperCleans
  <2>1. UpdateTypeOK'
    BY <1>1, <1>2 DEF UpdateTypeOK, Loaded, Verifying, Over
  <2>2. /\ helper[u] \in {"load", "wait", "verify", "bind", "cleanup"}
        /\ helper'[u] \in {"wait", "unloaded", "verify", "cleanup", "bind", "lock", "over", "littered"}
    BY <1>1, <1>2 DEF UpdateTypeOK
  <2>3. helper[u] \notin Applying /\ helper'[u] \notin Applying
    BY <2>2 DEF Applying, Looking, Replacing
  <2>4. StageKnows(u)'
    <3>1. /\ parent'[u] = parent[u] /\ version'[u] = version[u] /\ target'[u] = target[u]
          /\ copy'[u] = copy[u]
      BY <1>2
    <3>2. helper[u] # "none" /\ helper'[u] # "none"
      BY <2>2
    <3>3. helper'[u] \in {"verify", "bind", "lock"} => parent[u] \in Over
      BY <1>1, <1>2 DEF StageKnows, UpdateTypeOK
    <3>4. helper'[u] \in {"bind", "lock"} => staged'[u] \in {"genuine", "spoiled"}
      BY <1>1, <1>2 DEF StageKnows, UpdateTypeOK
    <3>5. staged'[u] # "none" => parent[u] \notin {"idle", "over"} \/ helper'[u] \notin {"none", "over"}
      BY <1>1, <1>2 DEF StageKnows, UpdateTypeOK
    <3>6. helper'[u] \in Early => copy[u] = "none"
      BY <1>1, <1>2 DEF StageKnows, UpdateTypeOK, Early
    <3> QED  BY <1>1, <2>3, <3>1, <3>2, <3>3, <3>4, <3>5, <3>6 DEF StageKnows
  <2> QED  BY <1>1, <1>2, <2>1, <2>3, <2>4, OneStage DEF UpdateTypeOK
<1>3. CASE AcquireLock(u) /\ helper'[u] # "inputs"
  <2>1. helper[u] = "lock" /\ helper'[u] = "cleanup" /\ lock' = lock
    BY <1>1, <1>3 DEF AcquireLock, UpdateTypeOK
  <2>2. UpdateTypeOK'
    BY <1>1, <1>3, <2>1 DEF AcquireLock, UpdateTypeOK, Loaded
  <2>3. helper[u] \notin Applying /\ helper'[u] \notin Applying
    BY <2>1 DEF Applying, Looking, Replacing
  <2>4. StageKnows(u)'
    BY <1>1, <1>3, <2>1, <2>3 DEF AcquireLock, StageKnows, Early
  <2> QED  BY <1>1, <1>3, <2>1, <2>2, <2>3, <2>4, OneStage DEF AcquireLock, UpdateTypeOK
<1>4. CASE AcquireLock(u) /\ helper'[u] = "inputs"
  <2>1. /\ helper[u] = "lock" /\ helper' = [helper EXCEPT ![u] = "inputs"]
        /\ lock = {} /\ lock' = {u}
        /\ UNCHANGED <<file, staged, copy, parent, version, target>>
    BY <1>1, <1>4 DEF AcquireLock, UpdateTypeOK
  <2>2. \A v \in Updater : helper[v] \notin Applying
    BY <2>1 DEF UpdateInv
  <2>3. UpdateTypeOK'
    BY <1>1, <1>4, <2>1 DEF AcquireLock, UpdateTypeOK, Loaded, Applying, Looking
  <2>4. "inputs" \in Applying /\ "inputs" \notin Backed \union Managing \union Upgraded \union Looping
    BY DEF Applying, Looking, Backed, Managing, Upgraded, Looping
  <2>5. ASSUME NEW v \in Updater PROVE StageKnows(v)'
    <3>1. StageKnows(v)
      BY DEF UpdateInv
    <3>2. CASE v = u
      <4>1. helper'[u] = "inputs" /\ parent[u] \in Over /\ copy[u] = "none"
            /\ staged[u] \in {"genuine", "spoiled"}
        BY <1>1, <2>1 DEF StageKnows, UpdateTypeOK, Early
      <4>2. parent[u] # "idle"
        BY <4>1 DEF Over
      <4> QED  BY <2>1, <3>1, <3>2, <4>1, <4>2 DEF StageKnows
    <3>3. CASE v # u
      <4>1. helper'[v] = helper[v]
        BY <1>1, <2>1, <3>3 DEF UpdateTypeOK
      <4> QED  BY <2>1, <3>1, <4>1 DEF StageKnows
    <3> QED  BY <3>2, <3>3
  <2>6. ASSUME NEW v \in Updater, helper'[v] \in Applying
        PROVE  v = u /\ helper'[v] = "inputs"
    BY <1>1, <2>1, <2>2, <2>6 DEF UpdateTypeOK
  <2>7. TxKnows(u, "inputs")'
    BY <2>4 DEF TxKnows
  <2>8. \A s \in Shim : file'[s] # "spoiled"
    BY <2>1 DEF UpdateInv
  <2>9. CASE RecoveryLeft
    <3>1. PICK w \in Updater : helper[w] \notin Applying /\ copy[w] # "none" /\ copy[w] = version[w]
      BY <2>9 DEF RecoveryLeft
    <3>2. w # u
      BY <1>1, <2>1, <3>1 DEF StageKnows, Early
    <3>3. RecoveryLeft'
      BY <1>1, <2>1, <3>1, <3>2 DEF RecoveryLeft, UpdateTypeOK
    <3> QED  BY <2>1, <2>3, <2>5, <2>6, <2>7, <2>8, <3>3 DEF UpdateInv
  <2>10. CASE FilesKnown
    <3>1. ~HalfDone'
      BY <2>1, <2>2, <2>10 DEF FilesKnown, HalfDone
    <3>2. MixKnows(u, "inputs")'
      BY <2>4, <3>1 DEF MixKnows
    <3>3. helper'[u] \in Applying
      BY <1>1, <2>1, <2>4 DEF UpdateTypeOK
    <3>4. FilesKnown'
      BY <2>6, <3>1, <3>2, <3>3 DEF FilesKnown
    <3> QED  BY <2>1, <2>3, <2>5, <2>6, <2>7, <2>8, <3>4 DEF UpdateInv
  <2> QED  BY <2>9, <2>10 DEF UpdateInv
<1> QED  BY <1>2, <1>3, <1>4 DEF HelperStep

-----------------------------------------------------------------------------
(* The end of a transaction *)

\* The steps of a transaction: before its rollback executable, with it, and after.
LEMMA ApplyingSteps ==
    /\ Applying = {"inputs", "discover", "backup", "dropCopy", "unlock"} \union Backed
    /\ Applying \intersect ({"none", "load", "cleanup"} \union Verifying \union Over) = {}
    /\ Applying \subseteq Loaded
BY DEF Applying, Looking, Replacing, Backed, Verifying, Over, Loaded

\* Where the transaction stops, by its end or by a crash, either the files are
\* whole or its rollback executable stays.
LEMMA WholeOrBacked ==
    ASSUME UpdateInv, NEW u \in Updater, helper[u] \in Applying
    PROVE  RecoveryLeft \/ ~HalfDone \/ copy[u] = version[u]
<1>1. TxKnows(u, helper[u])
  BY Transaction
<1>2. CASE helper[u] \in Backed
  BY <1>1, <1>2 DEF TxKnows
<1>3. CASE helper[u] \in {"inputs", "discover", "backup", "dropCopy", "unlock"} /\ FilesKnown
  <2>1. MixKnows(u, helper[u])
    BY <1>3 DEF FilesKnown
  <2> QED  BY <1>3, <2>1 DEF MixKnows
<1> QED  BY <1>2, <1>3, ApplyingSteps DEF UpdateInv

\* A transaction that ends, by its own step or by a crash, passes on what it knew.
LEMMA TransactionEnds ==
    ASSUME UpdateInv, UpdateTypeOK', NEW u \in Updater, helper[u] \in Applying,
           NEW to \in {"cleanup", "dead"}, helper' = [helper EXCEPT ![u] = to],
           UNCHANGED <<file, staged, copy, parent, version, target>>
    PROVE  UpdateInv'
<1>1. /\ helper'[u] = to
      /\ \A v \in Updater \ {u} : helper'[v] = helper[v]
  BY DEF UpdateInv, UpdateTypeOK
<1>2. \A v \in Updater : helper'[v] \notin Applying
  BY <1>1, Transaction, ApplyingSteps DEF Over
<1>3. ASSUME NEW v \in Updater PROVE StageKnows(v)'
  <2>1. StageKnows(v)
    BY DEF UpdateInv
  <2>2. CASE v = u
    <3>1. parent[u] \in Over /\ parent[u] # "idle"
      BY Transaction DEF Over
    <3>2. to \notin Early \union {"verify", "bind", "lock", "none", "over"}
      BY DEF Early
    <3> QED  BY <1>1, <1>2, <2>1, <2>2, <3>1, <3>2 DEF StageKnows
  <2>3. CASE v # u
    <3>1. helper'[v] = helper[v]
      BY <1>1, <2>3
    <3> QED  BY <1>2, <2>1, <3>1 DEF StageKnows
  <2> QED  BY <2>2, <2>3
<1>4. RecoveryLeft' \/ ~HalfDone'
  <2>1. CASE RecoveryLeft
    <3>1. PICK w \in Updater : copy[w] # "none" /\ copy[w] = version[w]
      BY <2>1 DEF RecoveryLeft
    <3> QED  BY <1>2, <3>1 DEF RecoveryLeft
  <2>2. CASE copy[u] = version[u]
    <3>1. copy[u] # "none"
      BY <2>2, Transaction, BytesDiffer
    <3> QED  BY <1>2, <2>2, <3>1 DEF RecoveryLeft
  <2>3. CASE ~HalfDone
    BY <2>3 DEF HalfDone
  <2> QED  BY <2>1, <2>2, <2>3, WholeOrBacked
<1>5. RecoveryLeft' \/ FilesKnown'
  BY <1>2, <1>4 DEF FilesKnown
<1>6. \A s \in Shim : file'[s] # "spoiled"
  BY DEF UpdateInv
<1> QED  BY <1>2, <1>3, <1>5, <1>6 DEF UpdateInv

\* The lock is released at the end; that of a killed helper stays.
LEMMA EndKeeps ==
    ASSUME UpdateInv, NEW u \in Updater, Unlock(u) \/ CrashHelper(u)
    PROVE  UpdateInv'
<1>1. StageKnows(u) /\ UpdateTypeOK
  BY DEF UpdateInv
<1>2. UpdateTypeOK'
  <2>1. CASE Unlock(u)
    BY <1>1, <2>1 DEF Unlock, Goto, ForgetLocals, plan, UpdateTypeOK, Loaded
  <2>2. CASE CrashHelper(u)
    <3>1. ForgetLocals \/ UNCHANGED <<managed, todo, shim, restored, clean, late>>
      BY <2>2 DEF CrashHelper, tx
    <3>2. /\ managed' \subseteq Shim /\ todo' \subseteq Shim /\ shim' \subseteq Shim
          /\ restored' \in BOOLEAN /\ clean' \in BOOLEAN /\ late' \in BOOLEAN
      BY <1>1, <3>1 DEF ForgetLocals, UpdateTypeOK
    <3> QED  BY <1>1, <2>2, <3>2 DEF CrashHelper, plan, UpdateTypeOK, Over
  <2> QED  BY <2>1, <2>2
<1>3. CASE Unlock(u)
  <2>1. helper[u] \in Applying
    BY <1>3 DEF Unlock, Goto, Applying, Looking
  <2> QED  BY <1>2, <1>3, <2>1, TransactionEnds DEF Unlock, Goto, plan
<1>4. CASE CrashHelper(u) /\ helper[u] \in Applying
  BY <1>2, <1>4, TransactionEnds DEF CrashHelper, plan
<1>5. CASE CrashHelper(u) /\ helper[u] \notin Applying
  <2>1. /\ helper'[u] = "dead" /\ helper[u] # "none"
        /\ \A v \in Updater \ {u} : helper'[v] = helper[v]
    BY <1>1, <1>5 DEF CrashHelper, UpdateTypeOK
  <2>2. helper'[u] \notin Applying
    BY <2>1, ApplyingSteps DEF Over
  <2>3. ASSUME NEW v \in Updater PROVE StageKnows(v)'
    <3>1. StageKnows(v)
      BY DEF UpdateInv
    <3>2. CASE v = u
      BY <1>5, <2>1, <2>2, <3>1, <3>2 DEF CrashHelper, StageKnows, plan, Early
    <3>3. CASE v # u
      <4>1. helper'[v] = helper[v]
        BY <2>1, <3>3
      <4> QED  BY <1>5, <3>1, <4>1 DEF CrashHelper, StageKnows, plan
    <3> QED  BY <3>2, <3>3
  <2>4. UNCHANGED <<lock, tx>> \/ \A v \in Updater : helper'[v] \notin Applying
    BY <1>5, <2>1, <2>2 DEF CrashHelper, UpdateInv
  <2> QED  BY <1>2, <1>5, <2>1, <2>2, <2>3, <2>4, StageFrame DEF CrashHelper, plan
<1> QED  BY <1>3, <1>4, <1>5

-----------------------------------------------------------------------------
(* Everybody else *)

\* Shims come and go under the lock, between transactions.
LEMMA ShimsKeep ==
    ASSUME UpdateInv, NEW s \in Shim, InstallShim(s) \/ RemoveShim(s)
    PROVE  UpdateInv'
<1> USE DEF InstallShim, RemoveShim, Put, plan, tx
<1>1. PICK b \in {file["cb"], "absent"} : file' = [file EXCEPT ![s] = b]
  OBVIOUS
<1>2. /\ lock = {} /\ file["cb"] \in Release
      /\ UNCHANGED <<staged, request, copy, lock, parent, helper, version, target, outcome, managed,
                     todo, shim, restored, clean, late>>
  OBVIOUS
<1> USE DEF UpdateInv
<1>3. UpdateTypeOK'
  BY <1>1, <1>2 DEF UpdateTypeOK, File, Bytes
<1>4. /\ file'["cb"] = file["cb"]
      /\ \A f \in File : file'[f] \in {file[f], file["cb"], "absent"}
      /\ \A f \in File \ {s} : file'[f] = file[f]
  BY <1>1, <1>2, BytesDiffer DEF UpdateTypeOK, File
<1>5. \A v \in Updater : helper[v] \notin Applying
  BY <1>2
<1>6. \A v \in Updater : StageKnows(v)'
  BY <1>2 DEF StageKnows
<1>7. \A f \in Shim : file'[f] # "spoiled"
  BY <1>2, <1>4, BytesDiffer DEF File
<1>8. RecoveryLeft => RecoveryLeft'
  BY <1>2 DEF RecoveryLeft
<1>9. ASSUME ~HalfDone PROVE ~HalfDone'
  <2>1. \A f \in File : file'[f] \in Release => file'[f] = file["cb"]
    <3> TAKE f \in File
    <3>1. "cb" \in File
      BY DEF File
    <3>2. CASE file'[f] = file[f]
      BY <1>2, <1>9, <3>1, <3>2 DEF HalfDone
    <3> QED  BY <1>4, <3>2, BytesDiffer
  <2> QED  BY <1>4, <1>9, <2>1 DEF HalfDone
<1>10. FilesKnown => FilesKnown'
  BY <1>2, <1>5, <1>9 DEF FilesKnown
<1> QED  BY <1>2, <1>3, <1>5, <1>6, <1>7, <1>8, <1>10

\* The user deletes the lock file when no process is left.
LEMMA UserKeeps ==
    ASSUME UpdateInv, UserDeletesLock
    PROVE  UpdateInv'
<1> USE DEF UserDeletesLock, plan, tx
<1>1. \A v \in Updater : helper[v] \notin Applying
  BY ApplyingSteps
<1>2. UpdateTypeOK'
  BY DEF UpdateInv, UpdateTypeOK
<1>3. \A v \in Updater : StageKnows(v)'
  BY DEF UpdateInv, StageKnows
<1> QED  BY <1>1, <1>2, <1>3, StageFrame

\* What a transaction knows survives the changes of other programs, which only
\* take files out of the releases.
LEMMA OthersKeep ==
    ASSUME UpdateInv, OthersChange
    PROVE  UpdateInv'
<1> USE DEF plan, tx
<1>1. PICK f \in File : \E changed \in {{f}, {g \in File : file[g] = file[f]}} :
              /\ file[f] \notin {"foreign", "absent"}
              /\ file' = [g \in File |-> IF g \in changed THEN "foreign" ELSE file[g]]
              /\ late' = (late \/ \E u \in lock : AtHand(u) \intersect changed # {})
  BY DEF OthersChange
<1>2. PICK changed \in {{f}, {g \in File : file[g] = file[f]}} :
              /\ file' = [g \in File |-> IF g \in changed THEN "foreign" ELSE file[g]]
              /\ late' = (late \/ \E u \in lock : AtHand(u) \intersect changed # {})
  BY <1>1
<1>3. UNCHANGED <<staged, request, copy, lock, parent, helper, version, target, outcome, managed,
                  todo, shim, restored, clean>>
  BY DEF OthersChange
<1>4. \A g \in File : /\ g \in changed => file'[g] = "foreign"
                      /\ g \notin changed => file'[g] = file[g]
  BY <1>2
<1>5. UpdateTypeOK'
  <2>1. file' \in [File -> Bytes]
    BY <1>2 DEF UpdateInv, UpdateTypeOK, Bytes
  <2>2. late' \in BOOLEAN
    BY <1>2
  <2> QED  BY <1>3, <2>1, <2>2 DEF UpdateInv, UpdateTypeOK
<1>6. \A v \in Updater : StageKnows(v)'
  BY <1>3 DEF UpdateInv, StageKnows
<1>7. \A s \in Shim : file'[s] # "spoiled"
  BY <1>4 DEF UpdateInv, File
<1>8. "cb" \in File /\ Shim \subseteq File
  BY DEF File
<1>9. ASSUME NEW u \in Updater, helper[u] \in Applying
      PROVE  TxKnows(u, helper[u])'
  <2>1. PICK h : h = helper[u]
    OBVIOUS
  <2>2. /\ lock = {u} /\ TxKnows(u, h)
        /\ version[u] \in Release /\ target[u] \in Release
        /\ version[u] # "foreign" /\ target[u] # "foreign"
    BY <1>9, <2>1, Transaction, BytesDiffer
  <2>3. shim \subseteq Shim /\ managed \subseteq Shim
    BY DEF UpdateInv, UpdateTypeOK
  <2>4. ~late' => ~late /\ \A g \in AtHand(u) : g \notin changed
    BY <1>2, <2>2
  <2>5. ~late' /\ h \in {"replaceCb", "restoreCb"} => ~late /\ file'["cb"] = file["cb"]
    BY <1>4, <1>8, <2>1, <2>4 DEF AtHand
  <2>6. ~late' /\ h \in {"replaceShim", "restoreShim"} => ~late /\ \A s \in shim : file'[s] = file[s]
    BY <1>4, <1>8, <2>1, <2>3, <2>4 DEF AtHand
  <2>7. \A g \in File : \A b : file[g] = b => file'[g] \in {b, "foreign"}
    BY <1>4
  <2>8. \A s \in managed : s \in File
    BY <1>8, <2>3
  <2>9. TxKnows(u, h)'
    BY <1>3, <1>8, <2>2, <2>3, <2>5, <2>6, <2>7, <2>8 DEF TxKnows
  <2> QED  BY <1>3, <2>1, <2>9
<1>10. RecoveryLeft => RecoveryLeft'
  BY <1>3 DEF RecoveryLeft
<1>11. ASSUME ~HalfDone PROVE ~HalfDone'
  BY <1>4, <1>8, <1>11, BytesDiffer DEF HalfDone
<1>12. ASSUME FilesKnown PROVE FilesKnown'
  <2>1. ASSUME NEW u \in Updater, helper[u] \in Applying PROVE MixKnows(u, helper[u])'
    <3>1. PICK h : h = helper[u]
      OBVIOUS
    <3>2. MixKnows(u, h)
      BY <1>12, <2>1, <3>1 DEF FilesKnown
    <3>3. MixKnows(u, h)'
      BY <1>3, <1>4, <1>8, <1>11, <3>2, BytesDiffer DEF MixKnows
    <3> QED  BY <1>3, <3>1, <3>3
  <2> QED  BY <1>3, <1>11, <1>12, <2>1 DEF FilesKnown
<1> QED  BY <1>3, <1>5, <1>6, <1>7, <1>9, <1>10, <1>12 DEF UpdateInv

-----------------------------------------------------------------------------
(* apply: the proofs before any change *)

\* What a step of a transaction may rely on, of its own and of the mix of files.
LEMMA MixHere ==
    ASSUME UpdateInv, NEW u \in Updater, helper[u] \in Applying
    PROVE  RecoveryLeft \/ MixKnows(u, helper[u])
BY DEF UpdateInv, FilesKnown

\* When cb.exe answers as the version that runs and no mix was there, every
\* release in the directory is that version.
LEMMA CheckInputsKeeps ==
    ASSUME UpdateInv, NEW u \in Updater, CheckInputs(u)
    PROVE  UpdateInv'
<1> USE DEF CheckInputs, Goto, plan, tx, Bound
<1>1. UpdateTypeOK /\ StageKnows(u) /\ \A s \in Shim : file[s] # "spoiled"
  BY DEF UpdateInv
<1>2. helper[u] = "inputs" /\ helper[u] \in Applying
  BY DEF Applying, Looking
<1>3. PICK to \in {"discover", "unlock"} :
         helper' = [helper EXCEPT ![u] = to] /\ (to = "discover" => file["cb"] = version[u])
  OBVIOUS
<1>4. to \in Applying /\ copy[u] = "none"
  BY <1>1, <1>2, ApplyingSteps DEF StageKnows, Early
<1>5. UpdateTypeOK'
  BY <1>1, <1>3, <1>4, ApplyingSteps DEF UpdateTypeOK
<1>6. TxKnows(u, to)'
  BY <1>2, <1>3, Transaction, BytesDiffer DEF TxKnows, Backed, Managing, Upgraded, Looping
<1>7. ASSUME MixKnows(u, "inputs") PROVE MixKnows(u, to)'
  <2>1. ~HalfDone /\ ~HalfDone'
    BY <1>7 DEF MixKnows, HalfDone
  <2>2. file["cb"] = version[u] => \A s \in Shim : file[s] \in Release => file[s] = version[u]
    BY <1>2, <2>1, Transaction DEF HalfDone, File
  <2> QED  BY <1>3, <2>1, <2>2 DEF MixKnows, Managing, Backed
<1> QED  BY <1>1, <1>2, <1>3, <1>4, <1>5, <1>6, <1>7, MixHere, TxFrame

\* The shims left out hold other bytes than the version that runs.
LEMMA DiscoverKeeps ==
    ASSUME UpdateInv, NEW u \in Updater, Discover(u)
    PROVE  UpdateInv'
<1> USE DEF Discover, Goto, plan, tx
<1>1. UpdateTypeOK /\ StageKnows(u) /\ \A s \in Shim : file[s] # "spoiled"
  BY DEF UpdateInv
<1>2. helper[u] = "discover" /\ helper[u] \in Applying
  BY DEF Applying, Looking
<1>3. PICK to \in {"backup", "unlock"} :
         /\ helper' = [helper EXCEPT ![u] = to]
         /\ managed' \in {managed, {s \in Shim : file[s] = version[u]}}
         /\ to = "backup" => managed' = {s \in Shim : file[s] = version[u]}
  OBVIOUS
<1>4. to \in Applying /\ copy[u] = "none"
  BY <1>1, <1>2, ApplyingSteps DEF StageKnows, Early
<1>5. UpdateTypeOK'
  BY <1>1, <1>3, <1>4, ApplyingSteps DEF UpdateTypeOK
<1>6. TxKnows(u, to)'
  <2>1. TxKnows(u, "discover")
    BY <1>2, Transaction
  <2> QED  BY <1>3, <2>1 DEF TxKnows, Backed, Managing, Upgraded, Looping
<1>7. ASSUME MixKnows(u, "discover") PROVE MixKnows(u, to)'
  <2>1. ~HalfDone /\ ~HalfDone'
    BY <1>7 DEF MixKnows, HalfDone
  <2> QED  BY <1>3, <1>7, <2>1 DEF MixKnows, Managing, Backed
<1> QED  BY <1>1, <1>2, <1>3, <1>4, <1>5, <1>6, <1>7, MixHere, TxFrame

\* The rollback executable is a copy of bytes proved to be the old ones.
LEMMA BackUpKeeps ==
    ASSUME UpdateInv, NEW u \in Updater, BackUp(u)
    PROVE  UpdateInv'
<1> USE DEF BackUp, Goto, plan, tx, Bound
<1>1. UpdateTypeOK /\ StageKnows(u) /\ \A s \in Shim : file[s] # "spoiled"
  BY DEF UpdateInv
<1>2. helper[u] = "backup" /\ helper[u] \in Applying
  BY DEF Applying, Looking
<1>3. PICK to \in {"checkCb", "dropCopy"} :
         helper' = [helper EXCEPT ![u] = to] /\ (to = "checkCb" => file["cb"] = version[u])
  OBVIOUS
<1>4. to \in Applying /\ to \notin Early
  BY DEF Applying, Looking, Early
<1>5. TxKnows(u, "backup")
  BY <1>2, Transaction
<1>6. UpdateTypeOK'
  <2>1. file["cb"] \in Bytes \ {"absent"}
    BY <1>1, <1>5 DEF TxKnows, UpdateTypeOK, File
  <2> QED  BY <1>1, <1>3, <1>4, <2>1, ApplyingSteps DEF UpdateTypeOK
<1>7. copy'[u] = file["cb"] /\ \A v \in Updater \ {u} : copy'[v] = copy[v]
  BY <1>1 DEF UpdateTypeOK
<1>8. TxKnows(u, to)'
  BY <1>3, <1>5, <1>7 DEF TxKnows, Backed, Managing, Upgraded, Looping
<1>9. ASSUME MixKnows(u, "backup") PROVE MixKnows(u, to)'
  <2>1. ~HalfDone /\ ~HalfDone'
    BY <1>9 DEF MixKnows, HalfDone
  <2> QED  BY <1>3, <1>9, <2>1 DEF MixKnows, Managing, Backed
<1> QED  BY <1>1, <1>2, <1>3, <1>4, <1>6, <1>7, <1>8, <1>9, MixHere, TxFrame

-----------------------------------------------------------------------------
(* apply: the replacements *)

\* Up to the first replacement nothing has changed, and the copy may be dropped.
LEMMA CheckCbKeeps ==
    ASSUME UpdateInv, NEW u \in Updater, CheckCb(u)
    PROVE  UpdateInv'
<1> USE DEF CheckCb, Goto, plan, tx, Bound
<1>1. UpdateTypeOK /\ \A s \in Shim : file[s] # "spoiled"
  BY DEF UpdateInv
<1>2. helper[u] = "checkCb" /\ helper[u] \in Applying
  BY DEF Applying, Looking
<1>3. PICK to \in {"replaceCb", "dropCopy"} :
         helper' = [helper EXCEPT ![u] = to] /\ (to = "replaceCb" => file["cb"] = version[u])
  OBVIOUS
<1>4. to \in Applying /\ to \notin Early
  BY DEF Applying, Looking, Replacing, Early
<1>5. UpdateTypeOK'
  BY <1>1, <1>3, <1>4, ApplyingSteps DEF UpdateTypeOK
<1>6. TxKnows(u, to)'
  <2>1. TxKnows(u, "checkCb")
    BY <1>2, Transaction
  <2> QED  BY <1>3, <2>1 DEF TxKnows, Backed, Managing, Upgraded, Looping
<1>7. ASSUME MixKnows(u, "checkCb") PROVE MixKnows(u, to)'
  <2>1. ~HalfDone /\ ~HalfDone'
    BY <1>7 DEF MixKnows, HalfDone
  <2> QED  BY <1>3, <1>7, <2>1 DEF MixKnows, Managing, Backed
<1> QED  BY <1>1, <1>2, <1>3, <1>4, <1>5, <1>6, <1>7, MixHere, TxFrame

\* However the replacement of cb.exe ends, the shims and the rollback executable
\* are as they were.
LEMMA ReplaceCbKeeps ==
    ASSUME UpdateInv, NEW u \in Updater, ReplaceCb(u)
    PROVE  UpdateInv'
<1> USE DEF ReplaceCb, Goto, plan, Put, PutFails, Dealt
<1>1. UpdateTypeOK /\ \A s \in Shim : file[s] # "spoiled"
  BY DEF UpdateInv
<1>2. helper[u] = "replaceCb" /\ helper[u] \in Applying
  BY DEF Applying, Replacing
<1>3. PICK to \in {"verifyCb", "inspectCb"}, b \in {file["cb"], StagedBytes(u), "absent"} :
         helper' = [helper EXCEPT ![u] = to] /\ file' = [file EXCEPT !["cb"] = b]
  OBVIOUS
<1>4. to \in Applying /\ to \notin Early
  BY DEF Applying, Looking, Early
<1>5. UpdateTypeOK'
  <2>1. b \in Bytes
    BY <1>1, <1>2, Transaction DEF StagedBytes, UpdateTypeOK, Bytes, File
  <2> QED  BY <1>1, <1>3, <1>4, <2>1, ApplyingSteps DEF UpdateTypeOK
<1>6. \A s \in Shim : file'[s] = file[s]
  BY <1>1, <1>3, BytesDiffer DEF UpdateTypeOK
<1>7. TxKnows(u, to)'
  <2>1. TxKnows(u, "replaceCb")
    BY <1>2, Transaction
  <2> QED  BY <1>3, <1>6, <2>1 DEF TxKnows, Backed, Managing, Upgraded, Looping
<1>8. ASSUME MixKnows(u, "replaceCb") PROVE MixKnows(u, to)'
  BY <1>3, <1>6, <1>8 DEF MixKnows, Managing, Backed
<1> QED  BY <1>1, <1>2, <1>3, <1>4, <1>5, <1>6, <1>7, <1>8, MixHere, TxFrame

\* Where the failed replacement proves to have changed nothing, no file holds
\* another release.
LEMMA InspectCbKeeps ==
    ASSUME UpdateInv, NEW u \in Updater, InspectCb(u)
    PROVE  UpdateInv'
<1> USE DEF InspectCb, Goto, plan, tx, Bound
<1>1. UpdateTypeOK /\ \A s \in Shim : file[s] # "spoiled"
  BY DEF UpdateInv
<1>2. helper[u] = "inspectCb" /\ helper[u] \in Applying
  BY DEF Applying, Looking
<1>3. PICK to \in {"dropCopy", "rollback"} :
         helper' = [helper EXCEPT ![u] = to] /\ (to = "dropCopy" => file["cb"] = version[u])
  OBVIOUS
<1>4. to \in Applying /\ to \notin Early
  BY DEF Applying, Looking, Early
<1>5. UpdateTypeOK'
  BY <1>1, <1>3, <1>4, ApplyingSteps DEF UpdateTypeOK
<1>6. TxKnows(u, to)'
  <2>1. TxKnows(u, "inspectCb")
    BY <1>2, Transaction
  <2> QED  BY <1>3, <2>1 DEF TxKnows, Backed, Managing, Upgraded, Looping
<1>7. ASSUME MixKnows(u, "inspectCb") PROVE MixKnows(u, to)'
  <2>1. \A s \in Shim : file[s] \in Release => file[s] = version[u]
    BY <1>7 DEF MixKnows
  <2>2. file["cb"] = version[u] => ~HalfDone'
    BY <1>2, <2>1, Transaction, BytesDiffer DEF HalfDone, File
  <2> QED  BY <1>3, <1>7, <2>2 DEF MixKnows, Managing, Backed
<1> QED  BY <1>1, <1>2, <1>3, <1>4, <1>5, <1>6, <1>7, MixHere, TxFrame

\* From here on cb.exe holds the new bytes, or another program's.
LEMMA VerifyCbKeeps ==
    ASSUME UpdateInv, NEW u \in Updater, VerifyCb(u)
    PROVE  UpdateInv'
<1> USE DEF VerifyCb, Goto, plan
<1>1. UpdateTypeOK /\ \A s \in Shim : file[s] # "spoiled"
  BY DEF UpdateInv
<1>2. helper[u] = "verifyCb" /\ helper[u] \in Applying
  BY DEF Applying, Looking
<1>3. PICK to \in {"nextShim", "rollback"} :
         /\ helper' = [helper EXCEPT ![u] = to] /\ todo' \in {todo, managed}
         /\ to = "nextShim" => file["cb"] = target[u] /\ todo' = managed
  OBVIOUS
<1>4. to \in Applying /\ to \notin Early
  BY DEF Applying, Looking, Early
<1>5. UpdateTypeOK'
  BY <1>1, <1>3, <1>4, ApplyingSteps DEF UpdateTypeOK
<1>6. TxKnows(u, to)'
  <2>1. TxKnows(u, "verifyCb")
    BY <1>2, Transaction
  <2> QED  BY <1>3, <2>1 DEF TxKnows, Backed, Managing, Upgraded, Looping
<1>7. ASSUME MixKnows(u, "verifyCb") PROVE MixKnows(u, to)'
  BY <1>3, <1>7 DEF MixKnows, Managing, Backed
<1> QED  BY <1>1, <1>2, <1>3, <1>4, <1>5, <1>6, <1>7, MixHere, TxFrame

\* A shim is replaced only after it was seen to hold the old bytes.
LEMMA NextShimKeeps ==
    ASSUME UpdateInv, NEW u \in Updater, NextShim(u) \/ AllReplaced(u)
    PROVE  UpdateInv'
<1> USE DEF NextShim, AllReplaced, Goto, plan, tx
<1>1. UpdateTypeOK /\ \A s \in Shim : file[s] # "spoiled"
  BY DEF UpdateInv
<1>2. helper[u] = "nextShim" /\ helper[u] \in Applying
  BY DEF Applying, Looking
<1>3. UNCHANGED <<file, staged, request, copy, lock, parent, version, target, outcome, managed,
                  restored, clean, late>>
  OBVIOUS
<1>4. PICK to \in {"replaceShim", "rollback", "smoke"} :
         /\ helper' = [helper EXCEPT ![u] = to]
         /\ \/ UNCHANGED <<shim, todo>>
            \/ \E s \in todo : shim' = {s} /\ todo' = todo \ {s}
         /\ to = "replaceShim" => \E s \in todo : file[s] = version[u] /\ shim' = {s}
  OBVIOUS
<1>5. to \in Applying /\ to \notin Early
  BY DEF Applying, Looking, Replacing, Early
<1>6. todo' \subseteq todo /\ shim' \subseteq Shim
  BY <1>1, <1>4 DEF UpdateTypeOK
<1>7. UpdateTypeOK'
  BY <1>1, <1>3, <1>4, <1>5, <1>6, ApplyingSteps DEF UpdateTypeOK
<1>8. TxKnows(u, to)'
  <2>1. TxKnows(u, "nextShim")
    BY <1>2, Transaction
  <2>2. todo \subseteq managed
    BY <2>1 DEF TxKnows, Looping
  <2>3. to = "replaceShim" => shim' \subseteq managed /\ \A s \in shim' : file[s] = version[u]
    BY <1>4, <2>2
  <2> QED  BY <1>3, <1>4, <1>6, <2>1, <2>2, <2>3 DEF TxKnows, Backed, Managing, Upgraded, Looping
<1>9. ASSUME MixKnows(u, "nextShim") PROVE MixKnows(u, to)'
  BY <1>3, <1>4, <1>9 DEF MixKnows, Managing, Backed
<1> QED  BY <1>1, <1>2, <1>3, <1>4, <1>5, <1>7, <1>8, <1>9, MixHere, TxFrame

\* However the replacement of a shim ends, cb.exe and the shims the transaction
\* does not manage are as they were.
LEMMA ReplaceShimKeeps ==
    ASSUME UpdateInv, NEW u \in Updater, ReplaceShim(u)
    PROVE  UpdateInv'
<1> USE DEF ReplaceShim, Goto, plan, Put, PutFails, Dealt
<1>1. UpdateTypeOK /\ \A s \in Shim : file[s] # "spoiled"
  BY DEF UpdateInv
<1>2. helper[u] = "replaceShim" /\ helper[u] \in Applying
  BY DEF Applying, Replacing
<1>3. TxKnows(u, "replaceShim")
  BY <1>2, Transaction
<1>4. PICK s \in shim : \E to \in {"nextShim", "rollback"}, b \in {file[s], file["cb"], "absent"} :
         helper' = [helper EXCEPT ![u] = to] /\ file' = [file EXCEPT ![s] = b]
  OBVIOUS
<1>5. PICK to \in {"nextShim", "rollback"}, b \in {file[s], file["cb"], "absent"} :
         helper' = [helper EXCEPT ![u] = to] /\ file' = [file EXCEPT ![s] = b]
  BY <1>4
<1>6. to \in Applying /\ to \notin Early
  BY DEF Applying, Looking, Early
<1>7. s \in managed /\ s \in Shim /\ s # "cb" /\ s \in File
  BY <1>1, <1>3, BytesDiffer DEF TxKnows, UpdateTypeOK, File
<1>8. b \in Bytes /\ b # "spoiled"
  <2>1. file["cb"] \in {target[u], "foreign"} /\ target[u] \in Release
    BY <1>2, <1>3, Transaction DEF TxKnows, Upgraded
  <2> QED  BY <1>1, <1>5, <1>7, <2>1, BytesDiffer DEF UpdateTypeOK, Bytes
<1>9. UpdateTypeOK'
  BY <1>1, <1>5, <1>6, <1>8, ApplyingSteps DEF UpdateTypeOK
<1>10. /\ file'["cb"] = file["cb"] /\ \A r \in Shim \ managed : file'[r] = file[r]
       /\ \A r \in Shim : file'[r] # "spoiled"
  BY <1>1, <1>5, <1>7, <1>8 DEF UpdateTypeOK, File
<1>11. TxKnows(u, to)'
  BY <1>3, <1>5, <1>10 DEF TxKnows, Backed, Managing, Upgraded, Looping
<1>12. ASSUME MixKnows(u, "replaceShim") PROVE MixKnows(u, to)'
  BY <1>5, <1>10, <1>12 DEF MixKnows, Managing, Backed
<1> QED  BY <1>2, <1>5, <1>6, <1>9, <1>10, <1>11, <1>12, MixHere, TxFrame

\* Asking the new executable for its version changes no file.
LEMMA SmokeKeeps ==
    ASSUME UpdateInv, NEW u \in Updater, SmokeTest(u) \/ FinalCb(u)
    PROVE  UpdateInv'
<1> USE DEF SmokeTest, FinalCb, Goto, plan, tx
<1>1. UpdateTypeOK /\ \A s \in Shim : file[s] # "spoiled"
  BY DEF UpdateInv
<1>2. PICK from \in {"smoke", "finalCb"} : helper[u] = from
  OBVIOUS
<1>3. helper[u] \in Applying
  BY <1>2 DEF Applying, Looking
<1>4. PICK to \in {"finalCb", "finalShim", "rollback"} :
         /\ helper' = [helper EXCEPT ![u] = to] /\ todo' \in {todo, managed}
         /\ to = "finalShim" => todo' = managed
  OBVIOUS
<1>5. UNCHANGED <<file, staged, request, copy, lock, parent, version, target, outcome, managed, shim,
                  restored, clean, late>>
  OBVIOUS
<1>6. to \in Applying /\ to \notin Early
  BY DEF Applying, Looking, Early
<1>7. UpdateTypeOK'
  BY <1>1, <1>4, <1>5, <1>6, ApplyingSteps DEF UpdateTypeOK
<1>8. TxKnows(u, to)'
  <2>1. TxKnows(u, from)
    BY <1>2, <1>3, Transaction
  <2> QED  BY <1>4, <1>5, <2>1 DEF TxKnows, Backed, Managing, Upgraded, Looping
<1>9. ASSUME MixKnows(u, from) PROVE MixKnows(u, to)'
  BY <1>4, <1>5, <1>9 DEF MixKnows, Managing, Backed
<1> QED  BY <1>1, <1>2, <1>3, <1>4, <1>5, <1>6, <1>7, <1>8, <1>9, MixHere, TxFrame

\* A shim is crossed off once it has been proved new.
LEMMA FinalShimKeeps ==
    ASSUME UpdateInv, NEW u \in Updater, FinalShim(u)
    PROVE  UpdateInv'
<1> USE DEF FinalShim, Goto, plan
<1>1. UpdateTypeOK /\ \A s \in Shim : file[s] # "spoiled"
  BY DEF UpdateInv
<1>2. helper[u] = "finalShim" /\ helper[u] \in Applying
  BY DEF Applying, Looking
<1>3. PICK s \in todo, to \in {"finalShim", "rollback"} :
         /\ helper' = [helper EXCEPT ![u] = to] /\ todo' \in {todo, todo \ {s}}
         /\ to = "finalShim" => file[s] = target[u] /\ todo' = todo \ {s}
  <2>1. helper = [helper EXCEPT ![u] = "finalShim"]
    BY <1>1, <1>2 DEF UpdateTypeOK
  <2> QED  BY <2>1
<1>4. to \in Applying /\ to \notin Early
  BY DEF Applying, Looking, Early
<1>5. UpdateTypeOK'
  BY <1>1, <1>3, <1>4, ApplyingSteps DEF UpdateTypeOK
<1>6. TxKnows(u, to)'
  <2>1. TxKnows(u, "finalShim")
    BY <1>2, Transaction
  <2> QED  BY <1>3, <2>1 DEF TxKnows, Backed, Managing, Upgraded, Looping
<1>7. ASSUME MixKnows(u, "finalShim") PROVE MixKnows(u, to)'
  BY <1>3, <1>7 DEF MixKnows, Managing, Backed
<1> QED  BY <1>1, <1>2, <1>3, <1>4, <1>5, <1>6, <1>7, MixHere, TxFrame

\* When every managed file has been proved new, no file is of another release.
LEMMA UpdatedKeeps ==
    ASSUME UpdateInv, NEW u \in Updater, Updated(u)
    PROVE  UpdateInv'
<1> USE DEF Updated, Goto, Report, plan, tx
<1>1. UpdateTypeOK /\ \A s \in Shim : file[s] # "spoiled"
  BY DEF UpdateInv
<1>2. helper[u] = "finalShim" /\ helper[u] \in Applying
  BY DEF Applying, Looking
<1>3. "dropCopy" \in Applying /\ "dropCopy" \notin Early
  BY DEF Applying, Looking, Early
<1>4. UpdateTypeOK'
  BY <1>1, <1>3, ApplyingSteps DEF UpdateTypeOK
<1>5. TxKnows(u, "finalShim")
  BY <1>2, Transaction
<1>6. TxKnows(u, "dropCopy")'
  BY DEF TxKnows, Backed, Managing, Upgraded, Looping
<1>7. ASSUME MixKnows(u, "finalShim") PROVE MixKnows(u, "dropCopy")'
  <2>1. \A s \in Shim : file[s] \in Release => file[s] = target[u]
    BY <1>5, <1>7, BytesDiffer DEF TxKnows, MixKnows, Managing, Backed
  <2>2. file["cb"] \in {target[u], "foreign"}
    BY <1>5 DEF TxKnows, Upgraded
  <2>3. ~HalfDone'
    BY <1>2, <2>1, <2>2, Transaction, BytesDiffer DEF HalfDone, File
  <2> QED  BY <2>3 DEF MixKnows, Managing, Backed
<1> QED  BY <1>1, <1>2, <1>3, <1>4, <1>6, <1>7, MixHere, TxFrame

\* The rollback executable is dropped only where no mix is left.
LEMMA DropCopyKeeps ==
    ASSUME UpdateInv, NEW u \in Updater, DropCopy(u)
    PROVE  UpdateInv'
<1> USE DEF DropCopy, Goto, plan, tx
<1>1. UpdateTypeOK /\ \A s \in Shim : file[s] # "spoiled"
  BY DEF UpdateInv
<1>2. helper[u] = "dropCopy" /\ helper[u] \in Applying
  BY DEF Applying, Looking
<1>3. "unlock" \in Applying /\ "unlock" \notin Early
  BY DEF Applying, Looking, Early
<1>4. UpdateTypeOK' /\ \A v \in Updater \ {u} : copy'[v] = copy[v]
  BY <1>1, <1>3, ApplyingSteps DEF UpdateTypeOK
<1>5. TxKnows(u, "unlock")'
  BY DEF TxKnows, Backed, Managing, Upgraded, Looping
<1>6. ASSUME MixKnows(u, "dropCopy") PROVE MixKnows(u, "unlock")'
  <2>1. ~HalfDone'
    BY <1>6 DEF MixKnows, HalfDone
  <2> QED  BY <2>1 DEF MixKnows, Managing, Backed
<1> QED  BY <1>1, <1>2, <1>3, <1>4, <1>5, <1>6, MixHere, TxFrame

-----------------------------------------------------------------------------
(* rollback *)

\* cb.exe is restored only when it was seen to hold the new bytes.
LEMMA RollBackCbKeeps ==
    ASSUME UpdateInv, NEW u \in Updater, RollBackCb(u)
    PROVE  UpdateInv'
<1> USE DEF RollBackCb, Goto, plan, Bound
<1>1. UpdateTypeOK /\ \A s \in Shim : file[s] # "spoiled"
  BY DEF UpdateInv
<1>2. helper[u] = "rollback" /\ helper[u] \in Applying
  BY DEF Applying, Looking
<1>3. PICK to \in {"restoreCb", "rollShim"} :
         /\ helper' = [helper EXCEPT ![u] = to] /\ todo' = managed
         /\ restored' \in BOOLEAN /\ clean' \in BOOLEAN
         /\ to = "restoreCb" => file["cb"] = target[u]
         /\ restored' => file["cb"] = version[u]
  OBVIOUS
<1>4. to \in Applying /\ to \notin Early
  BY DEF Applying, Looking, Replacing, Early
<1>5. UpdateTypeOK'
  BY <1>1, <1>3, <1>4, ApplyingSteps DEF UpdateTypeOK
<1>6. TxKnows(u, to)'
  <2>1. TxKnows(u, "rollback")
    BY <1>2, Transaction
  <2> QED  BY <1>3, <2>1 DEF TxKnows, Backed, Managing, Upgraded, Looping
<1>7. ASSUME MixKnows(u, "rollback") PROVE MixKnows(u, to)'
  BY <1>3, <1>7 DEF MixKnows, Managing, Backed
<1> QED  BY <1>1, <1>2, <1>3, <1>4, <1>5, <1>6, <1>7, MixHere, TxFrame

\* However the restoration of cb.exe ends, the shims are as they were.
LEMMA RestoreCbKeeps ==
    ASSUME UpdateInv, NEW u \in Updater, RestoreCb(u)
    PROVE  UpdateInv'
<1> USE DEF RestoreCb, Goto, plan, Put, PutFails, Dealt
<1>1. UpdateTypeOK /\ \A s \in Shim : file[s] # "spoiled"
  BY DEF UpdateInv
<1>2. helper[u] = "restoreCb" /\ helper[u] \in Applying
  BY DEF Applying, Replacing
<1>3. TxKnows(u, "restoreCb")
  BY <1>2, Transaction
<1>4. PICK b \in {file["cb"], copy[u], "absent"} : file' = [file EXCEPT !["cb"] = b]
  OBVIOUS
<1>5. "checkRestored" \in Applying /\ "checkRestored" \notin Early
  BY DEF Applying, Looking, Early
<1>6. UpdateTypeOK'
  <2>1. copy[u] \in Release
    BY <1>2, <1>3, Transaction DEF TxKnows, Backed
  <2>2. b \in Bytes
    BY <1>1, <2>1 DEF UpdateTypeOK, Bytes, File
  <2> QED  BY <1>1, <1>4, <1>5, <2>2, ApplyingSteps DEF UpdateTypeOK
<1>7. \A s \in Shim : file'[s] = file[s]
  BY <1>1, <1>4, BytesDiffer DEF UpdateTypeOK
<1>8. TxKnows(u, "checkRestored")'
  BY <1>3, <1>7 DEF TxKnows, Backed, Managing, Upgraded, Looping
<1>9. ASSUME MixKnows(u, "restoreCb") PROVE MixKnows(u, "checkRestored")'
  BY <1>7, <1>9 DEF MixKnows, Managing, Backed
<1> QED  BY <1>1, <1>2, <1>5, <1>6, <1>7, <1>8, <1>9, MixHere, TxFrame

\* cb.exe counts as restored only when it was seen to hold the old bytes.
LEMMA CheckRestoredKeeps ==
    ASSUME UpdateInv, NEW u \in Updater, CheckRestored(u)
    PROVE  UpdateInv'
<1> USE DEF CheckRestored, Goto, plan, Bound
<1>1. UpdateTypeOK /\ \A s \in Shim : file[s] # "spoiled"
  BY DEF UpdateInv
<1>2. helper[u] = "checkRestored" /\ helper[u] \in Applying
  BY DEF Applying, Looking
<1>3. "rollShim" \in Applying /\ "rollShim" \notin Early
  BY DEF Applying, Looking, Early
<1>4. restored' \in BOOLEAN /\ clean' \in BOOLEAN /\ (restored' => file["cb"] = version[u])
  OBVIOUS
<1>5. UpdateTypeOK'
  BY <1>1, <1>3, <1>4, ApplyingSteps DEF UpdateTypeOK
<1>6. TxKnows(u, "rollShim")'
  <2>1. TxKnows(u, "checkRestored")
    BY <1>2, Transaction
  <2> QED  BY <1>4, <2>1 DEF TxKnows, Backed, Managing, Upgraded, Looping
<1>7. ASSUME MixKnows(u, "checkRestored") PROVE MixKnows(u, "rollShim")'
  BY <1>7 DEF MixKnows, Managing, Backed
<1> QED  BY <1>1, <1>2, <1>3, <1>5, <1>6, <1>7, MixHere, TxFrame

\* A shim is restored only when it was seen to hold the new bytes.
LEMMA RollBackShimKeeps ==
    ASSUME UpdateInv, NEW u \in Updater, RollBackShim(u)
    PROVE  UpdateInv'
<1> USE DEF RollBackShim, Goto, plan
<1>1. UpdateTypeOK /\ \A s \in Shim : file[s] # "spoiled"
  BY DEF UpdateInv
<1>2. helper[u] = "rollShim" /\ helper[u] \in Applying
  BY DEF Applying, Looking
<1>3. TxKnows(u, "rollShim")
  BY <1>2, Transaction
<1>4. todo \subseteq managed
  BY <1>3 DEF TxKnows, Looping
<1>5. PICK s \in todo, to \in {"restoreShim", "rollShim"} :
         /\ helper' = [helper EXCEPT ![u] = to] /\ todo' = todo \ {s}
         /\ shim' \in {shim, {s}} /\ clean' \in {clean, FALSE}
         /\ to = "restoreShim" => file[s] = target[u] /\ shim' = {s}
  OBVIOUS
<1>6. to \in Applying /\ to \notin Early
  BY DEF Applying, Looking, Replacing, Early
<1>7. UpdateTypeOK'
  BY <1>1, <1>5, <1>6, ApplyingSteps DEF UpdateTypeOK
<1>8. TxKnows(u, to)'
  BY <1>3, <1>4, <1>5 DEF TxKnows, Backed, Managing, Upgraded, Looping
<1>9. ASSUME MixKnows(u, "rollShim") PROVE MixKnows(u, to)'
  BY <1>5, <1>9 DEF MixKnows, Managing, Backed
<1> QED  BY <1>1, <1>2, <1>5, <1>6, <1>7, <1>8, <1>9, MixHere, TxFrame

\* A shim is restored from bytes that are old or foreign, never from spoiled ones.
LEMMA RestoreShimKeeps ==
    ASSUME UpdateInv, NEW u \in Updater, RestoreShim(u)
    PROVE  UpdateInv'
<1> USE DEF RestoreShim, Goto, plan, Put, PutFails, Dealt
<1>1. UpdateTypeOK /\ \A s \in Shim : file[s] # "spoiled"
  BY DEF UpdateInv
<1>2. helper[u] = "restoreShim" /\ helper[u] \in Applying
  BY DEF Applying, Replacing
<1>3. TxKnows(u, "restoreShim")
  BY <1>2, Transaction
<1>4. PICK source : source = IF restored THEN file["cb"] ELSE copy[u]
  OBVIOUS
<1>5. source \in {version[u], "foreign"} /\ version[u] \in Release
  BY <1>2, <1>3, <1>4, Transaction DEF TxKnows, Backed
<1>6. PICK s \in shim : \E b \in {file[s], source, "absent"} :
         file' = [file EXCEPT ![s] = b] /\ clean' \in {clean, FALSE}
  BY <1>4
<1>7. PICK b \in {file[s], source, "absent"} :
         file' = [file EXCEPT ![s] = b] /\ clean' \in {clean, FALSE}
  BY <1>6
<1>8. "rollShim" \in Applying /\ "rollShim" \notin Early
  BY DEF Applying, Looking, Early
<1>9. s \in managed /\ s \in Shim /\ s # "cb" /\ s \in File
  BY <1>1, <1>3, BytesDiffer DEF TxKnows, UpdateTypeOK, File
<1>10. b \in Bytes /\ b # "spoiled"
  BY <1>1, <1>5, <1>7, <1>9, BytesDiffer DEF UpdateTypeOK, Bytes
<1>11. UpdateTypeOK'
  BY <1>1, <1>7, <1>8, <1>10, ApplyingSteps DEF UpdateTypeOK
<1>12. /\ file'["cb"] = file["cb"] /\ \A r \in Shim \ managed : file'[r] = file[r]
       /\ \A r \in Shim : file'[r] # "spoiled"
  BY <1>1, <1>7, <1>9, <1>10 DEF UpdateTypeOK, File
<1>13. TxKnows(u, "rollShim")'
  BY <1>3, <1>12 DEF TxKnows, Backed, Managing, Upgraded, Looping
<1>14. ASSUME MixKnows(u, "restoreShim") PROVE MixKnows(u, "rollShim")'
  BY <1>12, <1>14 DEF MixKnows, Managing, Backed
<1> QED  BY <1>2, <1>8, <1>11, <1>12, <1>13, <1>14, MixHere, TxFrame

\* A rollback that reports an error keeps the rollback executable.
LEMMA RechecksKeep ==
    ASSUME UpdateInv, NEW u \in Updater,
           AllRolledBack(u) \/ RecheckCb(u) \/ RecheckShim(u)
    PROVE  UpdateInv'
<1> USE DEF AllRolledBack, RecheckCb, RecheckShim, Goto, Report, plan, tx, Bound
<1>1. UpdateTypeOK /\ \A s \in Shim : file[s] # "spoiled"
  BY DEF UpdateInv
<1>2. PICK from \in {"rollShim", "recheckCb", "recheckShim"} : helper[u] = from
  OBVIOUS
<1>3. helper[u] \in Applying
  BY <1>2 DEF Applying, Looking
<1>4. TxKnows(u, from)
  BY <1>2, <1>3, Transaction
<1>5. PICK to \in {"recheckCb", "recheckShim", "unlock"} :
         /\ helper' = [helper EXCEPT ![u] = to]
         /\ to = "recheckShim" =>
               \/ file["cb"] = version[u] /\ todo' = managed
               \/ /\ from = "recheckShim"
                  /\ \E s \in todo : file[s] = version[u] /\ todo' = todo \ {s}
  <2>1. helper = [helper EXCEPT ![u] = from]
    BY <1>1, <1>2 DEF UpdateTypeOK
  <2> QED  BY <1>2, <2>1
<1>6. /\ UNCHANGED <<file, staged, request, copy, lock, parent, version, target, managed, shim,
                     restored, clean, late>>
      /\ todo' \subseteq todo \union managed
      /\ outcome' = outcome \/ outcome' = [outcome EXCEPT ![u] = "kept"]
  OBVIOUS
<1>7. to \in Applying /\ to \notin Early
  BY DEF Applying, Looking, Early
<1>8. UpdateTypeOK'
  BY <1>1, <1>5, <1>6, <1>7, ApplyingSteps DEF UpdateTypeOK
<1>9. TxKnows(u, to)'
  BY <1>4, <1>5, <1>6 DEF TxKnows, Backed, Managing, Upgraded, Looping
<1>10. ASSUME MixKnows(u, from) PROVE MixKnows(u, to)'
  <2>1. copy'[u] = version'[u]
    BY <1>4, <1>6 DEF TxKnows, Backed
  <2> QED  BY <1>5, <1>6, <1>10, <2>1 DEF MixKnows, Managing, Backed
<1> QED  BY <1>1, <1>2, <1>3, <1>5, <1>6, <1>7, <1>8, <1>9, <1>10, MixHere, TxFrame

\* When every managed file has been proved old, no file is of another release.
LEMMA RestoredKeeps ==
    ASSUME UpdateInv, NEW u \in Updater, Restored(u)
    PROVE  UpdateInv'
<1> USE DEF Restored, Goto, Report, plan, tx
<1>1. UpdateTypeOK /\ \A s \in Shim : file[s] # "spoiled"
  BY DEF UpdateInv
<1>2. helper[u] = "recheckShim" /\ helper[u] \in Applying
  BY DEF Applying, Looking
<1>3. "dropCopy" \in Applying /\ "dropCopy" \notin Early
  BY DEF Applying, Looking, Early
<1>4. UpdateTypeOK'
  BY <1>1, <1>3, ApplyingSteps DEF UpdateTypeOK
<1>5. TxKnows(u, "recheckShim")
  BY <1>2, Transaction
<1>6. TxKnows(u, "dropCopy")'
  BY DEF TxKnows, Backed, Managing, Upgraded, Looping
<1>7. ASSUME MixKnows(u, "recheckShim") PROVE MixKnows(u, "dropCopy")'
  <2>1. \A s \in Shim : file[s] \in Release => file[s] = version[u]
    BY <1>5, <1>7, BytesDiffer DEF TxKnows, MixKnows, Managing, Backed
  <2>2. file["cb"] \in {version[u], "foreign"}
    BY <1>5 DEF TxKnows
  <2>3. ~HalfDone'
    BY <1>2, <2>1, <2>2, Transaction, BytesDiffer DEF HalfDone, File
  <2> QED  BY <2>3 DEF MixKnows, Managing, Backed
<1> QED  BY <1>1, <1>2, <1>3, <1>4, <1>6, <1>7, MixHere, TxFrame

-----------------------------------------------------------------------------
(* The invariant of the specification *)

\* An installation starts with one release, and no update under way.
LEMMA UpdateBegins == UpdateInit => UpdateInv
<1> SUFFICES ASSUME UpdateInit PROVE UpdateInv
  OBVIOUS
<1> USE DEF UpdateInit
<1>1. UpdateTypeOK
  BY DEF UpdateTypeOK
<1>2. \A u \in Updater : helper[u] = "none" /\ helper[u] \notin Applying
  BY ApplyingSteps
<1>3. \A u \in Updater : StageKnows(u)
  BY <1>2 DEF StageKnows
<1>4. PICK r \in Release : file["cb"] = r /\ \A s \in Shim : file[s] \in {r, "foreign", "absent"}
  OBVIOUS
<1>5. ~HalfDone
  BY <1>4, BytesDiffer DEF HalfDone, File
<1>6. \A s \in Shim : file[s] # "spoiled"
  BY <1>4, BytesDiffer
<1> QED  BY <1>1, <1>2, <1>3, <1>5, <1>6 DEF UpdateInv, FilesKnown

\* Every step keeps the invariant.
LEMMA UpdateStepKeeps == UpdateInv /\ [UpdateNext]_vars => UpdateInv'
<1> SUFFICES ASSUME UpdateInv, [UpdateNext]_vars PROVE UpdateInv'
  OBVIOUS
<1>1. ASSUME NEW u \in Updater, ParentStep(u) \/ StagedSpoils(u) \/ CrashParent(u)
      PROVE  UpdateInv'
  BY <1>1, ParentKeeps
<1>2. ASSUME NEW u \in Updater, HelperStep(u)
      PROVE  UpdateInv'
  BY <1>2, HelperKeeps
<1>3. ASSUME NEW u \in Updater, ApplyStep(u) \/ CrashHelper(u)
      PROVE  UpdateInv'
  BY <1>3, CheckInputsKeeps, DiscoverKeeps, BackUpKeeps, CheckCbKeeps, ReplaceCbKeeps,
     InspectCbKeeps, VerifyCbKeeps, NextShimKeeps, ReplaceShimKeeps, SmokeKeeps,
     FinalShimKeeps, UpdatedKeeps, DropCopyKeeps, EndKeeps
     DEF ApplyStep
<1>4. ASSUME NEW u \in Updater, RollbackStep(u)
      PROVE  UpdateInv'
  BY <1>4, RollBackCbKeeps, RestoreCbKeeps, CheckRestoredKeeps, RollBackShimKeeps,
     RestoreShimKeeps, RechecksKeep, RestoredKeeps
     DEF RollbackStep
<1>5. ASSUME UNCHANGED vars
      PROVE  UpdateInv'
  BY <1>5 DEF vars, plan, tx, UpdateInv, UpdateTypeOK, StageKnows, TxKnows, RecoveryLeft, FilesKnown,
              MixKnows, HalfDone
<1> QED
  BY <1>1, <1>2, <1>3, <1>4, <1>5, ShimsKeep, OthersKeep, UserKeeps DEF UpdateNext, Work, Accident, Quiescent

\* What the processes and the transaction know holds in every reachable state.
LEMMA UpdateInvariance == UpdateSpec => []UpdateInv
BY UpdateBegins, UpdateStepKeeps, PTL DEF UpdateSpec

\* Every variable keeps its type: a replacement never writes bytes that are
\* unknown, and a rollback executable is never an absent file.
THEOREM UpdateTypeCorrect == UpdateSpec => []UpdateTypeOK
<1>1. UpdateInv => UpdateTypeOK
  BY DEF UpdateInv
<1> QED  BY <1>1, UpdateInvariance, PTL

\* A mix of releases, or a lost executable, is never without a rollback
\* executable that holds the bytes from before an update, whoever crashes where.
THEOREM RecoveryIsKept == UpdateSpec => []RecoveryKept
<1>1. UpdateInv => RecoveryKept
  <2> SUFFICES ASSUME UpdateInv, HalfDone
               PROVE  \E u \in Updater : copy[u] # "none" /\ copy[u] = version[u]
    BY DEF RecoveryKept
  <2>1. CASE RecoveryLeft
    BY <2>1 DEF RecoveryLeft
  <2>2. CASE FilesKnown /\ ~RecoveryLeft
    <3>1. PICK u \in Updater : helper[u] \in Applying
      BY <2>2 DEF FilesKnown
    <3>2. copy[u] = version[u] /\ version[u] # "none"
      BY <2>2, <3>1, WholeOrBacked, Transaction, BytesDiffer
    <3> QED  BY <3>2
  <2> QED  BY <2>1, <2>2 DEF UpdateInv
<1> QED  BY <1>1, UpdateInvariance, PTL

\* From its verification to the end of the transaction the staged release stays.
THEOREM StagingIsHeld == UpdateSpec => []StagingHeld
<1>1. UpdateInv => StagingHeld
  BY DEF UpdateInv, StageKnows, StagingHeld
<1> QED  BY <1>1, UpdateInvariance, PTL

\* A staging directory always has a process that will remove it, but for a crash,
\* a failed removal or a request that could not be loaded.
THEOREM StagingIsOwned == UpdateSpec => []StagingOwned
<1>1. UpdateInv => StagingOwned
  BY DEF UpdateInv, StageKnows, StagingOwned
<1> QED  BY <1>1, UpdateInvariance, PTL

\* A replacement overwrites only bytes its transaction started from or wrote,
\* unless they were changed between its look at them and the replacement.
THEOREM KnownBytesAreReplaced == UpdateSpec => OnlyKnownBytesReplaced
<1> DEFINE Known(u, f) ==
      /\ helper[u] \in Replacing /\ helper'[u] # helper[u] /\ file'[f] # file[f]
      => late \/ file[f] \in {version[u], target[u]}
<1>1. ASSUME UpdateInv, UpdateNext, NEW u \in Updater, NEW f \in File
      PROVE  Known(u, f)
  <2> SUFFICES ASSUME helper[u] \in Replacing, helper'[u] # helper[u], file'[f] # file[f]
               PROVE  late \/ file[f] \in {version[u], target[u]}
    OBVIOUS
  <2>1. PICK v \in Updater : ReplaceCb(v) \/ ReplaceShim(v) \/ RestoreCb(v) \/ RestoreShim(v)
    BY <1>1 DEF UpdateNext, Work, Accident, ParentStep, HelperStep, ApplyStep, RollbackStep, StagedSpoils,
       CrashParent, CrashHelper, InstallShim, RemoveShim, OthersChange, UserDeletesLock, Quiescent,
       vars, BeginUpdate, Download, StageFails, VerifyStaged, BindInstalled, PrepareHelper,
       StartHelper, UndoLaunch, ParentCleans, LoadRequest, WaitParent, VerifyAgain, BindAgain,
       AcquireLock, HelperCleans, CheckInputs, Discover, BackUp, CheckCb, InspectCb, VerifyCb,
       NextShim, AllReplaced, SmokeTest, FinalCb, FinalShim, Updated, DropCopy, Unlock,
       RollBackCb, CheckRestored, RollBackShim, AllRolledBack, RecheckCb, RecheckShim, Restored
  <2>2. UpdateTypeOK
    BY <1>1 DEF UpdateInv
  <2>3. u = v
    BY <2>1, <2>2 DEF ReplaceCb, ReplaceShim, RestoreCb, RestoreShim, Goto, UpdateTypeOK
  <2>4. TxKnows(u, helper[u])
    BY <1>1, Transaction DEF Applying
  <2>5. CASE ReplaceCb(u) \/ RestoreCb(u)
    <3>1. helper[u] \in {"replaceCb", "restoreCb"}
      BY <2>5 DEF ReplaceCb, RestoreCb, Goto
    <3>2. f = "cb"
      BY <2>2, <2>5 DEF ReplaceCb, RestoreCb, Put, PutFails, UpdateTypeOK
    <3> QED  BY <2>4, <3>1, <3>2 DEF TxKnows
  <2>6. CASE ReplaceShim(u) \/ RestoreShim(u)
    <3>1. helper[u] \in {"replaceShim", "restoreShim"}
      BY <2>6 DEF ReplaceShim, RestoreShim, Goto
    <3>2. f \in shim
      BY <2>2, <2>6 DEF ReplaceShim, RestoreShim, Put, PutFails, UpdateTypeOK
    <3> QED  BY <2>4, <3>1, <3>2 DEF TxKnows
  <2> QED  BY <2>1, <2>3, <2>5, <2>6
<1>2. UpdateInv /\ [UpdateNext]_vars => [\A u \in Updater, f \in File : Known(u, f)]_vars
  BY <1>1
<1> QED  BY <1>2, UpdateInvariance, PTL DEF UpdateSpec, OnlyKnownBytesReplaced

\* A reported success has left no old bytes behind, a reported rollback no new ones.
THEOREM ReportsHold == UpdateSpec => ReportsAreTrue
<1> DEFINE True(u) ==
      /\ outcome'[u] # outcome[u] /\ outcome'[u] = "updated"
           => \A f \in File : file[f] \notin {version[u], "spoiled"}
      /\ outcome'[u] # outcome[u] /\ outcome'[u] = "restored"
           => \A f \in {"cb"} \union managed : file[f] \notin {target[u], "spoiled"}
<1>1. ASSUME UpdateInv, UpdateNext, NEW u \in Updater
      PROVE  True(u)
  <2>1. UpdateTypeOK
    BY <1>1 DEF UpdateInv
  <2>2. \/ UNCHANGED outcome
        \/ \E v \in Updater : Updated(v) \/ Restored(v) \/ AllRolledBack(v) \/ RecheckCb(v) \/ RecheckShim(v)
    BY <1>1 DEF UpdateNext, Work, Accident, ParentStep, HelperStep, ApplyStep, RollbackStep, StagedSpoils,
       CrashParent, CrashHelper, InstallShim, RemoveShim, OthersChange, UserDeletesLock, Quiescent,
       vars, BeginUpdate, Download, StageFails, VerifyStaged, BindInstalled, PrepareHelper,
       StartHelper, UndoLaunch, ParentCleans, LoadRequest, WaitParent, VerifyAgain, BindAgain,
       AcquireLock, HelperCleans, CheckInputs, Discover, BackUp, CheckCb, ReplaceCb, InspectCb,
       VerifyCb, NextShim, ReplaceShim, AllReplaced, SmokeTest, FinalCb, FinalShim, DropCopy,
       Unlock, RollBackCb, RestoreCb, CheckRestored, RollBackShim, RestoreShim
  <2>3. CASE UNCHANGED outcome
    BY <2>3
  <2>4. ASSUME NEW v \in Updater, AllRolledBack(v) \/ RecheckCb(v) \/ RecheckShim(v)
        PROVE  True(u)
    <3>1. outcome'[u] \in {outcome[u], "kept"}
      BY <2>1, <2>4 DEF AllRolledBack, RecheckCb, RecheckShim, Report, UpdateTypeOK
    <3> QED  BY <3>1
  <2>5. ASSUME NEW v \in Updater, Updated(v)
        PROVE  True(u)
    <3>1. CASE v # u
      BY <2>1, <2>5, <3>1 DEF Updated, Report, UpdateTypeOK
    <3>2. CASE v = u
      <4>1. helper[u] = "finalShim" /\ helper[u] \in Applying /\ todo = {} /\ outcome'[u] = "updated"
        BY <2>1, <2>5, <3>2 DEF Updated, Goto, Report, UpdateTypeOK, Applying, Looking
      <4>2. TxKnows(u, "finalShim")
        BY <1>1, <4>1, Transaction
      <4>3. \A f \in {"cb"} \union managed : file[f] \in {target[u], "foreign"}
        BY <4>1, <4>2 DEF TxKnows, Upgraded
      <4>4. \A s \in Shim \ managed : file[s] # version[u] /\ file[s] # "spoiled"
        BY <1>1, <4>2 DEF TxKnows, Managing, Backed, UpdateInv
      <4>5. \A f \in File : file[f] \notin {version[u], "spoiled"}
        BY <1>1, <4>1, <4>3, <4>4, Transaction, BytesDiffer DEF File
      <4> QED  BY <4>1, <4>5
    <3> QED  BY <3>1, <3>2
  <2>6. ASSUME NEW v \in Updater, Restored(v)
        PROVE  True(u)
    <3>1. CASE v # u
      BY <2>1, <2>6, <3>1 DEF Restored, Report, UpdateTypeOK
    <3>2. CASE v = u
      <4>1. helper[u] = "recheckShim" /\ helper[u] \in Applying /\ todo = {}
            /\ outcome'[u] = "restored"
        BY <2>1, <2>6, <3>2 DEF Restored, Goto, Report, UpdateTypeOK, Applying, Looking
      <4>2. TxKnows(u, "recheckShim")
        BY <1>1, <4>1, Transaction
      <4>3. \A f \in {"cb"} \union managed : file[f] \in {version[u], "foreign"}
        BY <4>1, <4>2 DEF TxKnows
      <4>4. \A f \in {"cb"} \union managed : file[f] \notin {target[u], "spoiled"}
        BY <1>1, <4>1, <4>3, Transaction, BytesDiffer
      <4> QED  BY <4>1, <4>4
    <3> QED  BY <3>1, <3>2
  <2> QED  BY <2>2, <2>3, <2>4, <2>5, <2>6
<1>2. UpdateInv /\ [UpdateNext]_vars => [\A u \in Updater : True(u)]_vars
  BY <1>1
<1> QED  BY <1>2, UpdateInvariance, PTL DEF UpdateSpec, ReportsAreTrue

=============================================================================
