------------------------------ MODULE SelfUpdate ------------------------------
(***************************************************************************)
(* cb self-update --apply on Windows (internal/selfupdate): the parent     *)
(* stages and verifies a release, starts a private helper and exits; the   *)
(* helper waits for it, verifies again, takes the mutation lock and        *)
(* replaces cb.exe and every shim that holds the same bytes, one file      *)
(* after the other, or rolls them back.                                    *)
(*                                                                         *)
(* Several updates may run on one installation, beside cb commands that    *)
(* create and remove shims under the lock and beside other hands on the    *)
(* same files.  A file is the bytes it holds; a release is its bytes.      *)
(* Reading a digest and replacing a file are separate steps.               *)
(***************************************************************************)
CONSTANTS
    Updater,  \* invocations of cb self-update --apply
    Shim,     \* names of shims in the installation directory
    Release,  \* releases
    Crashes,  \* a process may be killed at any point
    Faults,   \* network, process and file operations may fail
    Others    \* files may be changed by programs that know no lock

ASSUME UpdateAssumption ==
    /\ Crashes \in BOOLEAN
    /\ Faults \in BOOLEAN
    /\ Others \in BOOLEAN
    /\ {"cb", "none", "absent", "foreign", "spoiled"} \intersect (Shim \union Release) = {}

File == {"cb"} \union Shim
Bytes == Release \union {"foreign", "spoiled", "absent"}

VARIABLES
    file,     \* the bytes of the management executable and of each shim
    staged,   \* the staging directory of each update
    request,  \* the updates whose helper directory holds its request
    copy,     \* the rollback executable of each update
    lock,     \* the updates that hold the mutation lock: none or one
    parent, helper,   \* the next step of the two processes of each update
    version, target,  \* the running release and the chosen one
    outcome,  \* what the transaction of each update reported
    \* apply's local state, of the update that holds the lock:
    managed,  \* the shims discovered
    todo,     \* shims still to be looked at in this loop
    shim,     \* the shim at hand
    restored, \* cb.exe has been proved to hold the old bytes
    clean,    \* no error so far in this rollback
    late      \* history: a file others changed after its digest was read

tx == <<managed, todo, shim, restored, clean, late>>
plan == <<version, target>>
vars == <<file, staged, request, copy, lock, parent, helper, version, target, outcome, tx>>

\* Ended; "littered" with a staging directory it should have removed.
Over == {"over", "littered", "unloaded", "dead"}
Verifying == {"verify", "bind"}
Looking == {"inputs", "discover", "backup", "checkCb", "inspectCb", "verifyCb",
            "nextShim", "smoke", "finalCb", "finalShim", "rollback", "checkRestored",
            "rollShim", "recheckCb", "recheckShim", "dropCopy", "unlock"}
Replacing == {"replaceCb", "replaceShim", "restoreCb", "restoreShim"}
Applying == Looking \union Replacing
Loaded == {"wait", "lock", "cleanup"} \union Verifying \union Applying

UpdateInit ==
    /\ file \in {f \in [File -> Bytes] :
                    \E r \in Release : f["cb"] = r /\ \A s \in Shim : f[s] \in {r, "foreign", "absent"}}
    /\ staged = [u \in Updater |-> "none"]
    /\ request = {}
    /\ copy = [u \in Updater |-> "none"]
    /\ lock = {}
    /\ parent = [u \in Updater |-> "idle"]
    /\ helper = [u \in Updater |-> "none"]
    /\ version = [u \in Updater |-> "none"]
    /\ target = [u \in Updater |-> "none"]
    /\ outcome = [u \in Updater |-> "none"]
    /\ managed = {} /\ todo = {} /\ shim = {}
    /\ restored = FALSE /\ clean = TRUE /\ late = FALSE

\* apply's local state ends with it.
ForgetLocals ==
    /\ managed' = {} /\ todo' = {} /\ shim' = {}
    /\ restored' = FALSE /\ clean' = TRUE /\ late' = FALSE

ParentGoes(u, from, to) == parent[u] = from /\ parent' = [parent EXCEPT ![u] = to]
Goto(u, from, to) == helper[u] = from /\ helper' = [helper EXCEPT ![u] = to]

\* bindInstalledExecutable: the bytes on disk answer with the version that runs.
Bound(u) == file["cb"] = version[u]

-----------------------------------------------------------------------------
(* The parent: updateCommand.run, Stage, Verify, LaunchHelper *)

\* A plan whose target is the current version ends the command at once.
BeginUpdate(u) ==
    /\ ParentGoes(u, "idle", "stage")
    /\ file["cb"] \in Release
    /\ version' = [version EXCEPT ![u] = file["cb"]]
    /\ \E r \in Release \ {file["cb"]} : target' = [target EXCEPT ![u] = r]
    /\ staged' = [staged EXCEPT ![u] = "partial"]
    /\ UNCHANGED <<file, request, copy, lock, helper, outcome, tx>>

\* The right number of bytes may still be the wrong ones.
Download(u) ==
    /\ ParentGoes(u, "stage", "verify")
    /\ \E b \in {"genuine"} \union (IF Faults THEN {"spoiled"} ELSE {}) :
          staged' = [staged EXCEPT ![u] = b]
    /\ UNCHANGED <<file, request, copy, lock, helper, plan, outcome, tx>>

VerifyStaged(u) ==
    /\ \/ ParentGoes(u, "verify", "bind") /\ staged[u] = "genuine"
       \/ ParentGoes(u, "verify", "clean") /\ (staged[u] # "genuine" \/ Faults)
    /\ UNCHANGED <<file, staged, request, copy, lock, helper, plan, outcome, tx>>

BindInstalled(u) ==
    /\ \/ ParentGoes(u, "bind", "prepare") /\ Bound(u)
       \/ ParentGoes(u, "bind", "clean") /\ (~Bound(u) \/ Faults)
    /\ UNCHANGED <<file, staged, request, copy, lock, helper, plan, outcome, tx>>

\* launch: the installed bytes are hashed, copied and hashed again.
PrepareHelper(u) ==
    /\ \/ /\ ParentGoes(u, "prepare", "start")
          /\ Bound(u)
          /\ request' = request \union {u}
       \/ /\ ParentGoes(u, "prepare", "undo")
          /\ ~Bound(u) \/ Faults
          /\ request' = request
    /\ UNCHANGED <<file, staged, copy, lock, helper, plan, outcome, tx>>

Mutant_StartHelper(u) ==  \* a failed start is taken to hand the staging directory over
    /\ \/ /\ ParentGoes(u, "start", "over")
          /\ helper' = [helper EXCEPT ![u] = "load"]
       \/ /\ Faults
          /\ ParentGoes(u, "start", "over")
          /\ helper' \in {helper, [helper EXCEPT ![u] = "load"]}
    /\ UNCHANGED <<file, staged, request, copy, lock, plan, outcome, tx>>

\* A parent that has started its helper changes nothing any more.
\* The start may fail, or report a failure when the helper is running already
\* (cmd.Process.Release).
StartHelper(u) ==
    /\ \/ /\ ParentGoes(u, "start", "over")
          /\ helper' = [helper EXCEPT ![u] = "load"]
       \/ /\ Faults
          /\ ParentGoes(u, "start", "undo")
          /\ helper' \in {helper, [helper EXCEPT ![u] = "load"]}
    /\ UNCHANGED <<file, staged, request, copy, lock, plan, outcome, tx>>

UndoLaunch(u) ==
    /\ ParentGoes(u, "undo", "clean")
    /\ request' \in {request \ {u}} \union (IF Faults THEN {request} ELSE {})
    /\ UNCHANGED <<file, staged, copy, lock, helper, plan, outcome, tx>>

StageFails(u) ==
    /\ Faults
    /\ ParentGoes(u, "stage", "clean")
    /\ UNCHANGED <<file, staged, request, copy, lock, helper, plan, outcome, tx>>

ParentCleans(u) ==
    /\ \/ ParentGoes(u, "clean", "over") /\ staged' = [staged EXCEPT ![u] = "none"]
       \/ Faults /\ ParentGoes(u, "clean", "littered") /\ UNCHANGED staged
    /\ UNCHANGED <<file, request, copy, lock, helper, plan, outcome, tx>>

-----------------------------------------------------------------------------
(* The helper: helperRunner.run *)

\* An invalid or missing request ends the helper before it owns anything.
LoadRequest(u) ==
    /\ \/ Goto(u, "load", "wait") /\ u \in request
       \/ Goto(u, "load", "unloaded") /\ (u \notin request \/ Faults)
    /\ UNCHANGED <<file, staged, request, copy, lock, parent, plan, outcome, tx>>

Mutant_WaitParent(u) ==  \* the helper goes on when the wait times out
    /\ Goto(u, "wait", "verify")
    /\ UNCHANGED <<file, staged, request, copy, lock, parent, plan, outcome, tx>>

\* The wait times out after two minutes, also when the process number of a
\* parent that is gone has been given to somebody else.
WaitParent(u) ==
    /\ \/ Goto(u, "wait", "verify") /\ parent[u] \in Over
       \/ Goto(u, "wait", "cleanup") /\ (parent[u] \notin Over \/ Faults)
    /\ UNCHANGED <<file, staged, request, copy, lock, parent, plan, outcome, tx>>

VerifyAgain(u) ==
    /\ \/ Goto(u, "verify", "bind") /\ staged[u] = "genuine"
       \/ Goto(u, "verify", "cleanup") /\ (staged[u] # "genuine" \/ Faults)
    /\ UNCHANGED <<file, staged, request, copy, lock, parent, plan, outcome, tx>>

BindAgain(u) ==
    /\ \/ Goto(u, "bind", "lock") /\ Bound(u)
       \/ Goto(u, "bind", "cleanup") /\ (~Bound(u) \/ Faults)
    /\ UNCHANGED <<file, staged, request, copy, lock, parent, plan, outcome, tx>>

Mutant_AcquireLock(u) ==  \* the transaction is not serialized
    /\ Goto(u, "lock", "inputs")
    /\ lock' = lock \union {u}
    /\ UNCHANGED <<file, staged, request, copy, parent, plan, outcome, tx>>

AcquireLock(u) ==
    /\ \/ Goto(u, "lock", "inputs") /\ lock = {} /\ lock' = {u}
       \/ Goto(u, "lock", "cleanup") /\ (lock # {} \/ Faults) /\ lock' = lock
    /\ UNCHANGED <<file, staged, request, copy, parent, plan, outcome, tx>>

\* The deferred calls; a shell removes the helper's directory after its exit.
HelperCleans(u) ==
    /\ \/ Goto(u, "cleanup", "over") /\ staged' = [staged EXCEPT ![u] = "none"]
       \/ Faults /\ Goto(u, "cleanup", "littered") /\ UNCHANGED staged
    /\ request' \in {request \ {u}} \union (IF Faults THEN {request} ELSE {})
    /\ UNCHANGED <<file, copy, lock, parent, plan, outcome, tx>>

-----------------------------------------------------------------------------
(* apply: the proofs before any change *)

CheckInputs(u) ==
    /\ \/ Goto(u, "inputs", "discover") /\ staged[u] = "genuine" /\ Bound(u)
       \/ Goto(u, "inputs", "unlock") /\ (staged[u] # "genuine" \/ ~Bound(u) \/ Faults)
    /\ UNCHANGED <<file, staged, request, copy, lock, parent, plan, outcome, tx>>

Mutant_Discover(u) ==  \* the last shim is overlooked
    /\ Goto(u, "discover", "backup")
    /\ \E s \in Shim : managed' = {z \in Shim \ {s} : file[z] = version[u]}
    /\ UNCHANGED <<file, staged, request, copy, lock, parent, plan, outcome, todo, shim,
                   restored, clean, late>>

\* Shims with other bytes are not of this installation.
Discover(u) ==
    /\ \/ /\ Goto(u, "discover", "backup")
          /\ managed' = {s \in Shim : file[s] = version[u]}
       \/ Faults /\ Goto(u, "discover", "unlock") /\ managed' = managed
    /\ UNCHANGED <<file, staged, request, copy, lock, parent, plan, outcome, todo, shim,
                   restored, clean, late>>

BackUp(u) ==
    /\ \/ Goto(u, "backup", "checkCb") /\ Bound(u)
       \/ Goto(u, "backup", "dropCopy") /\ (~Bound(u) \/ Faults)
    /\ copy' = [copy EXCEPT ![u] = file["cb"]]
    /\ UNCHANGED <<file, staged, request, lock, parent, plan, outcome, tx>>

-----------------------------------------------------------------------------
(* apply: the replacements *)

CheckCb(u) ==
    /\ \/ Goto(u, "checkCb", "replaceCb") /\ Bound(u)
       \/ Goto(u, "checkCb", "dropCopy") /\ (~Bound(u) \/ Faults)
    /\ UNCHANGED <<file, staged, request, copy, lock, parent, plan, outcome, tx>>

\* What a copy of the staged executable holds.
StagedBytes(u) == IF staged[u] = "genuine" THEN target[u] ELSE "spoiled"

\* replaceManagedFile renames a complete link or copy over the destination.
Put(f, b) == file' = [file EXCEPT ![f] = b]

\* The shim at hand has been dealt with.
Dealt == shim' = {} /\ late' = FALSE

\* An error leaves the destination as it was, or replaced all the same, or, as
\* the code allows for, with contents that cannot be read.
PutFails(f, b) == Faults /\ \E outcomes \in {file[f], b, "absent"} : Put(f, outcomes)

Mutant_ReplaceCb(u) ==  \* an error is taken to mean that nothing changed
    /\ \/ Goto(u, "replaceCb", "verifyCb") /\ Put("cb", StagedBytes(u))
       \/ Goto(u, "replaceCb", "dropCopy") /\ PutFails("cb", StagedBytes(u))
    /\ Dealt
    /\ UNCHANGED <<staged, request, copy, lock, parent, plan, outcome, managed, todo, restored,
                   clean>>

ReplaceCb(u) ==
    /\ \/ Goto(u, "replaceCb", "verifyCb") /\ Put("cb", StagedBytes(u))
       \/ Goto(u, "replaceCb", "inspectCb") /\ PutFails("cb", StagedBytes(u))
    /\ Dealt
    /\ UNCHANGED <<staged, request, copy, lock, parent, plan, outcome, managed, todo, restored,
                   clean>>

\* Only the old bytes prove that the failed replacement changed nothing.
InspectCb(u) ==
    /\ \/ Goto(u, "inspectCb", "dropCopy") /\ Bound(u)
       \/ Goto(u, "inspectCb", "rollback") /\ (~Bound(u) \/ Faults)
    /\ UNCHANGED <<file, staged, request, copy, lock, parent, plan, outcome, tx>>

VerifyCb(u) ==
    /\ \/ Goto(u, "verifyCb", "nextShim") /\ file["cb"] = target[u] /\ todo' = managed
       \/ Goto(u, "verifyCb", "rollback") /\ (file["cb"] # target[u] \/ Faults) /\ todo' = todo
    /\ UNCHANGED <<file, staged, request, copy, lock, parent, plan, outcome, managed, shim,
                   restored, clean, late>>

NextShim(u) ==
    /\ \E s \in todo :
          \/ /\ Goto(u, "nextShim", "replaceShim")
             /\ file[s] = version[u]
             /\ shim' = {s}
             /\ todo' = todo \ {s}
          \/ /\ Goto(u, "nextShim", "rollback")
             /\ file[s] # version[u] \/ Faults
             /\ UNCHANGED <<shim, todo>>
    /\ UNCHANGED <<file, staged, request, copy, lock, parent, plan, outcome, managed, restored,
                   clean, late>>

ReplaceShim(u) ==
    /\ \E s \in shim :
          \/ Goto(u, "replaceShim", "nextShim") /\ Put(s, file["cb"])
          \/ Goto(u, "replaceShim", "rollback") /\ PutFails(s, file["cb"])
    /\ Dealt
    /\ UNCHANGED <<staged, request, copy, lock, parent, plan, outcome, managed, todo, restored,
                   clean>>

AllReplaced(u) ==
    /\ Goto(u, "nextShim", "smoke")
    /\ todo = {}
    /\ UNCHANGED <<file, staged, request, copy, lock, parent, plan, outcome, tx>>

\* The new executable is asked for its version; it need not work.
SmokeTest(u) ==
    /\ \/ Goto(u, "smoke", "finalCb") /\ file["cb"] = target[u]
       \/ Goto(u, "smoke", "rollback")
    /\ UNCHANGED <<file, staged, request, copy, lock, parent, plan, outcome, tx>>

FinalCb(u) ==
    /\ \/ Goto(u, "finalCb", "finalShim") /\ file["cb"] = target[u] /\ todo' = managed
       \/ Goto(u, "finalCb", "rollback") /\ (file["cb"] # target[u] \/ Faults) /\ todo' = todo
    /\ UNCHANGED <<file, staged, request, copy, lock, parent, plan, outcome, managed, shim,
                   restored, clean, late>>

FinalShim(u) ==
    /\ \E s \in todo :
          \/ /\ helper[u] = "finalShim"
             /\ file[s] = target[u]
             /\ todo' = todo \ {s}
             /\ UNCHANGED helper
          \/ /\ Goto(u, "finalShim", "rollback")
             /\ file[s] # target[u] \/ Faults
             /\ todo' = todo
    /\ UNCHANGED <<file, staged, request, copy, lock, parent, plan, outcome, managed, shim,
                   restored, clean, late>>

Report(u, result) == outcome' = [outcome EXCEPT ![u] = result]

Updated(u) ==
    /\ Goto(u, "finalShim", "dropCopy")
    /\ todo = {}
    /\ Report(u, "updated")
    /\ UNCHANGED <<file, staged, request, copy, lock, parent, plan, tx>>

-----------------------------------------------------------------------------
(* rollback *)

Mutant_RollBackCb(u) ==  \* cb.exe is restored whatever it holds
    /\ Goto(u, "rollback", "restoreCb")
    /\ restored' = FALSE /\ clean' = TRUE
    /\ todo' = managed
    /\ UNCHANGED <<file, staged, request, copy, lock, parent, plan, outcome, managed, shim, late>>

\* cb.exe is restored when it holds the new bytes; other bytes than the old and
\* the new ones are left alone and count as an error.
RollBackCb(u) ==
    /\ \/ /\ Goto(u, "rollback", "restoreCb")
          /\ file["cb"] = target[u]
          /\ restored' = FALSE /\ clean' = TRUE
       \/ /\ Goto(u, "rollback", "rollShim")
          /\ Bound(u)
          /\ restored' = TRUE /\ clean' = TRUE
       \/ /\ Goto(u, "rollback", "rollShim")
          /\ file["cb"] \notin {version[u], target[u]} \/ Faults
          /\ restored' = FALSE /\ clean' = FALSE
    /\ todo' = managed
    /\ UNCHANGED <<file, staged, request, copy, lock, parent, plan, outcome, managed, shim, late>>

RestoreCb(u) ==
    /\ Goto(u, "restoreCb", "checkRestored")
    /\ \/ Put("cb", copy[u]) /\ clean' = clean
       \/ PutFails("cb", copy[u]) /\ clean' = FALSE
    /\ Dealt
    /\ UNCHANGED <<staged, request, copy, lock, parent, plan, outcome, managed, todo, restored>>

CheckRestored(u) ==
    /\ Goto(u, "checkRestored", "rollShim")
    /\ restored' \in {Bound(u)} \union (IF Faults THEN {FALSE} ELSE {})
    /\ clean' = (clean /\ restored')
    /\ UNCHANGED <<file, staged, request, copy, lock, parent, plan, outcome, managed, todo,
                   shim, late>>

RollBackShim(u) ==
    /\ \E s \in todo :
          /\ \/ /\ Goto(u, "rollShim", "restoreShim")
                /\ file[s] = target[u]
                /\ shim' = {s} /\ clean' = clean
             \/ /\ Goto(u, "rollShim", "rollShim")
                /\ file[s] = version[u]
                /\ UNCHANGED <<shim, clean>>
             \/ /\ Goto(u, "rollShim", "rollShim")
                /\ file[s] \notin {version[u], target[u]} \/ Faults
                /\ shim' = shim /\ clean' = FALSE
          /\ todo' = todo \ {s}
    /\ UNCHANGED <<file, staged, request, copy, lock, parent, plan, outcome, managed, restored,
                   late>>

\* A restored cb.exe is preferred to the private copy as the source.
RestoreShim(u) ==
    /\ Goto(u, "restoreShim", "rollShim")
    /\ LET source == IF restored THEN file["cb"] ELSE copy[u]
       IN  \E s \in shim :
              \/ Put(s, source) /\ clean' = clean
              \/ PutFails(s, source) /\ clean' = FALSE
    /\ Dealt
    /\ UNCHANGED <<staged, request, copy, lock, parent, plan, outcome, managed, todo, restored>>

\* After an error the rollback executable is kept.
AllRolledBack(u) ==
    /\ todo = {}
    /\ \/ Goto(u, "rollShim", "recheckCb") /\ clean /\ UNCHANGED outcome
       \/ Goto(u, "rollShim", "unlock") /\ ~clean /\ Report(u, "kept")
    /\ UNCHANGED <<file, staged, request, copy, lock, parent, plan, tx>>

RecheckCb(u) ==
    /\ \/ Goto(u, "recheckCb", "recheckShim") /\ Bound(u) /\ UNCHANGED outcome
       \/ Goto(u, "recheckCb", "unlock") /\ (~Bound(u) \/ Faults) /\ Report(u, "kept")
    /\ todo' = managed
    /\ UNCHANGED <<file, staged, request, copy, lock, parent, plan, managed, shim, restored,
                   clean, late>>

RecheckShim(u) ==
    /\ \E s \in todo :
          \/ /\ helper[u] = "recheckShim"
             /\ file[s] = version[u]
             /\ todo' = todo \ {s}
             /\ UNCHANGED <<helper, outcome>>
          \/ /\ Goto(u, "recheckShim", "unlock")
             /\ file[s] # version[u] \/ Faults
             /\ Report(u, "kept")
             /\ todo' = todo
    /\ UNCHANGED <<file, staged, request, copy, lock, parent, plan, managed, shim, restored,
                   clean, late>>

Restored(u) ==
    /\ Goto(u, "recheckShim", "dropCopy")
    /\ todo = {}
    /\ Report(u, "restored")
    /\ UNCHANGED <<file, staged, request, copy, lock, parent, plan, tx>>

DropCopy(u) ==
    /\ Goto(u, "dropCopy", "unlock")
    /\ copy' \in {[copy EXCEPT ![u] = "none"]} \union (IF Faults THEN {copy} ELSE {})
    /\ UNCHANGED <<file, staged, request, lock, parent, plan, outcome, tx>>

Unlock(u) ==
    /\ Goto(u, "unlock", "cleanup")
    /\ lock' = {}
    /\ ForgetLocals
    /\ UNCHANGED <<file, staged, request, copy, parent, plan, outcome>>

-----------------------------------------------------------------------------
(* Everybody else *)

\* cb install, add, setup, expose or trust, under the lock: a link to cb.exe
\* under the name of a tool, in place of whatever bears the name.
InstallShim(s) ==
    /\ lock = {}
    /\ file["cb"] \in Release
    /\ Put(s, file["cb"])
    /\ UNCHANGED <<staged, request, copy, lock, parent, helper, plan, outcome, tx>>

\* cb uninstall and unexpose.
RemoveShim(s) ==
    /\ lock = {}
    /\ file["cb"] \in Release
    /\ Put(s, "absent")
    /\ UNCHANGED <<staged, request, copy, lock, parent, helper, plan, outcome, tx>>

AtHand(u) ==
    IF helper[u] \in {"replaceCb", "restoreCb"} THEN {"cb"}
    ELSE IF helper[u] \in {"replaceShim", "restoreShim"} THEN shim
    ELSE {}

\* Other programs change one file, or through its hard links all that hold the
\* same bytes.
OthersChange ==
    /\ Others
    /\ \E f \in File :
          \E changed \in {{f}, {g \in File : file[g] = file[f]}} :
              /\ file[f] \notin {"foreign", "absent"}
              /\ file' = [g \in File |-> IF g \in changed THEN "foreign" ELSE file[g]]
              /\ late' = (late \/ \E u \in lock : AtHand(u) \intersect changed # {})
    /\ UNCHANGED <<staged, request, copy, lock, parent, helper, plan, outcome, managed, todo,
                   shim, restored, clean>>

StagedSpoils(u) ==
    /\ Others
    /\ staged[u] = "genuine"
    /\ staged' = [staged EXCEPT ![u] = "spoiled"]
    /\ UNCHANGED <<file, request, copy, lock, parent, helper, plan, outcome, tx>>

CrashParent(u) ==
    /\ Crashes
    /\ parent[u] \notin {"idle"} \union Over
    /\ parent' = [parent EXCEPT ![u] = "dead"]
    /\ UNCHANGED <<file, staged, request, copy, lock, helper, plan, outcome, tx>>

\* The lock file of a killed helper stays.
CrashHelper(u) ==
    /\ Crashes
    /\ helper[u] \notin {"none"} \union Over
    /\ helper' = [helper EXCEPT ![u] = "dead"]
    /\ IF u \in lock THEN ForgetLocals ELSE UNCHANGED tx
    /\ UNCHANGED <<file, staged, request, copy, lock, parent, plan, outcome>>

\* As the error of a refused lock advises, when no cb process is running.
UserDeletesLock ==
    /\ lock # {}
    /\ \A u \in Updater :
          /\ parent[u] \in {"idle"} \union Over
          /\ helper[u] \in {"none"} \union Over
    /\ lock' = {}
    /\ UNCHANGED <<file, staged, request, copy, parent, helper, plan, outcome, tx>>

Quiescent ==
    /\ \A u \in Updater : parent[u] \in {"idle"} \union Over /\ helper[u] \in {"none"} \union Over
    /\ UNCHANGED vars

ParentStep(u) ==
    \/ BeginUpdate(u) \/ Download(u) \/ StageFails(u) \/ VerifyStaged(u) \/ BindInstalled(u)
    \/ PrepareHelper(u) \/ StartHelper(u) \/ UndoLaunch(u) \/ ParentCleans(u)

HelperStep(u) ==
    \/ LoadRequest(u) \/ WaitParent(u) \/ VerifyAgain(u) \/ BindAgain(u) \/ AcquireLock(u)
    \/ HelperCleans(u)

ApplyStep(u) ==
    \/ CheckInputs(u) \/ Discover(u) \/ BackUp(u)
    \/ CheckCb(u) \/ ReplaceCb(u) \/ InspectCb(u) \/ VerifyCb(u)
    \/ NextShim(u) \/ ReplaceShim(u) \/ AllReplaced(u)
    \/ SmokeTest(u) \/ FinalCb(u) \/ FinalShim(u) \/ Updated(u)
    \/ DropCopy(u) \/ Unlock(u)

RollbackStep(u) ==
    \/ RollBackCb(u) \/ RestoreCb(u) \/ CheckRestored(u)
    \/ RollBackShim(u) \/ RestoreShim(u) \/ AllRolledBack(u)
    \/ RecheckCb(u) \/ RecheckShim(u) \/ Restored(u)

\* What the commands and the user do ...
Work ==
    \/ \E u \in Updater : ParentStep(u) \/ HelperStep(u) \/ ApplyStep(u) \/ RollbackStep(u)
    \/ \E s \in Shim : InstallShim(s) \/ RemoveShim(s)
    \/ UserDeletesLock

\* ... and what befalls them: kills, and programs that know no lock.
Accident ==
    \/ \E u \in Updater : StagedSpoils(u) \/ CrashParent(u) \/ CrashHelper(u)
    \/ OthersChange

UpdateNext == Work \/ Accident \/ Quiescent

UpdateSpec == UpdateInit /\ [][UpdateNext]_vars

-----------------------------------------------------------------------------
(* Properties *)

\* Every variable keeps its type.
UpdateTypeOK ==
    /\ file \in [File -> Bytes]
    /\ staged \in [Updater -> {"none", "partial", "genuine", "spoiled"}]
    /\ request \subseteq Updater
    /\ copy \in [Updater -> (Bytes \ {"absent"}) \union {"none"}]
    /\ lock \in {{}} \union {{u} : u \in Updater}
    /\ parent \in [Updater -> {"idle", "stage", "prepare", "start", "undo", "clean"}
                              \union Verifying \union Over]
    /\ helper \in [Updater -> {"none", "load"} \union Loaded \union Over]
    /\ version \in [Updater -> Release \union {"none"}]
    /\ target \in [Updater -> Release \union {"none"}]
    /\ outcome \in [Updater -> {"none", "updated", "restored", "kept"}]
    /\ managed \subseteq Shim /\ todo \subseteq Shim /\ shim \subseteq Shim
    /\ restored \in BOOLEAN /\ clean \in BOOLEAN /\ late \in BOOLEAN

\* Two releases side by side, or a cb.exe the update itself has spoiled.
HalfDone ==
    \/ file["cb"] \in {"spoiled", "absent"}
    \/ \E f, g \in File : file[f] \in Release /\ file[g] \in Release /\ file[f] # file[g]

\* Whenever the installation is a mix of releases, or its executable was lost in
\* a replacement, a rollback executable with the bytes from before an update
\* exists: during the transaction, after its failure and after a crash at any
\* point (docs/roadmap-implementation-requirements.md: "restore the complete
\* prior managed set or leave an actionable recovery artifact").
RecoveryKept ==
    HalfDone => \E u \in Updater :
                    copy[u] # "none" /\ copy[u] = version[u]

\* A transaction that reports success has left no shim behind with the old
\* bytes; one that reports a complete rollback has left no new ones.
ReportsAreTrue ==
    [][\A u \in Updater :
          /\ outcome'[u] # outcome[u] /\ outcome'[u] = "updated"
               => \A f \in File : file[f] \notin {version[u], "spoiled"}
          /\ outcome'[u] # outcome[u] /\ outcome'[u] = "restored"
               => \A f \in {"cb"} \union managed : file[f] \notin {target[u], "spoiled"}]_vars

\* A replacement overwrites only the bytes its transaction started from or
\* wrote, unless they were changed between its look at them and the replacement
\* ("Never overwrite an unrelated file"; rollback's refusals).
OnlyKnownBytesReplaced ==
    [][\A u \in Updater, f \in File :
          /\ helper[u] \in Replacing /\ helper'[u] # helper[u] /\ file'[f] # file[f]
          => late \/ file[f] \in {version[u], target[u]}]_vars

\* Nobody takes the staged release away from a helper that has verified it: the
\* parent, which also cleans up, is gone by then.
StagingHeld ==
    \A u \in Updater :
        helper[u] \in {"bind", "lock"} \union Applying => staged[u] \in {"genuine", "spoiled"}

\* There is always somebody who will remove a staging directory, except after a
\* crash, a failed removal or a helper that could not load its request, which
\* returns before it has deferred any clean-up: parent and helper hand it over
\* without a gap (LaunchHelper: "On success the helper owns staging cleanup").
StagingOwned ==
    \A u \in Updater :
        staged[u] # "none" =>
            \/ parent[u] \notin {"idle", "over"}
            \/ helper[u] \notin {"none", "over"}
=============================================================================
