------------------------------ MODULE WslInstall ------------------------------
(***************************************************************************)
(* cb wsl install --apply (internal/wslinstall with the layout of          *)
(* internal/wslfs and the links of internal/wslshim): the directories are  *)
(* prepared without a lock and taken away again if that fails, the rest    *)
(* happens under the mutation lock: registry, managed binary, management   *)
(* link, tool links.  The user may meanwhile put objects of their own at   *)
(* the names of links, and overwrite the executable that is installed.     *)
(* One step is one directory, one look, one half of the binary read, one   *)
(* rename or link.  Writing the registry is RegistryStore's subject.       *)
(***************************************************************************)
EXTENDS Naturals, Sequences, FiniteSets

CONSTANTS
    InstallJob,  \* concurrent installs
    MaxInstalls, \* bound: installs started in a behaviour
    MaxMeddling  \* bound: what the user changes meanwhile

ASSUME WslInstallAssumption == MaxInstalls \in Nat /\ MaxMeddling \in Nat

\* ensureDirectory's order; "lib" holds the managed binary, "bin" the links.
Directories == <<"config", "lib", "bin">>
Tool == {"python", "node"}
LinkName == Tool \union {"cb"}
Shipped == Tool  \* registry.Default
\* A file read or written in two halves: both of one build, or not.
Build == {"v1", "v2"}
NoBinary == <<"none", "none">>
Whole(b) == b # NoBinary /\ b[1] = b[2]

VARIABLES
    dirs,      \* the layout's directories that exist
    wslTools,  \* the tools of the registry file, or "no file"
    signed,    \* does the policy require a signed registry
    links,     \* at each link's name: nothing, a link to the binary, or another object
    binary,    \* the managed binary
    source,    \* the bytes of each job's own executable, and its modification time
    install,   \* the jobs
    installs, meddling \* what the bounds count

wslInstallVars == <<dirs, wslTools, signed, links, binary, source, install, installs, meddling>>

NoInstall == [step |-> "idle", made |-> {}, names |-> {}, sum |-> NoBinary, mtime |-> 0,
              staged |-> NoBinary]

WslInstallInit ==
    /\ dirs \in {{}, {"config", "lib", "bin"}}
    /\ signed \in BOOLEAN
    /\ wslTools = (IF signed /\ "config" \in dirs THEN {"python"} ELSE {"no file"})
    /\ links = [n \in LinkName |-> "none"]
    /\ binary \in {NoBinary} \union (IF dirs = {} THEN {} ELSE {<<"v1", "v1">>})
    /\ source = [j \in InstallJob |-> [bytes |-> "v2", mtime |-> 0]]
    /\ install = [j \in InstallJob |-> NoInstall]
    /\ installs = 0 /\ meddling = 0

-----------------------------------------------------------------------------

Installing(j) == install[j].step # "idle"
Does(j, step) == install[j].step = step
Moves(j, step) == install' = [install EXCEPT ![j].step = step]
Aborts(j) == install' = [install EXCEPT ![j] = NoInstall]
NextIf(j, ok, step) == IF ok THEN Moves(j, step) ELSE Aborts(j)
Locked(j) == install[j].step \notin {"idle", "config", "lib", "bin", "rollback", "lock"}
WslRest == UNCHANGED <<signed, source, installs, meddling>>

StartInstall(j) ==
    /\ ~Installing(j) /\ installs < MaxInstalls
    /\ installs' = installs + 1
    /\ Moves(j, "config")
    /\ UNCHANGED <<dirs, wslTools, signed, links, binary, source, meddling>>

\* The user puts something at the name of a link, or takes it away again.
PlaceForeign ==
    /\ meddling < MaxMeddling /\ meddling' = meddling + 1
    /\ \E n \in LinkName :
          \/ "bin" \in dirs /\ links[n] = "none" /\ links' = [links EXCEPT ![n] = "foreign"]
          \/ links[n] = "foreign" /\ links' = [links EXCEPT ![n] = "none"]
    /\ UNCHANGED <<dirs, wslTools, signed, binary, source, install, installs>>

\* The executable being installed is overwritten in place.
OverwriteSource(j) ==
    /\ meddling < MaxMeddling /\ meddling' = meddling + 1
    /\ source' = [source EXCEPT ![j] = [bytes |-> IF @.bytes = "v1" THEN "v2" ELSE "v1",
                                        mtime |-> @.mtime + 1]]
    /\ UNCHANGED <<dirs, wslTools, signed, links, binary, install, installs>>

-----------------------------------------------------------------------------
(* wslfs.Prepare, before the lock *)

Following(d) == IF d = "config" THEN "lib" ELSE IF d = "lib" THEN "bin" ELSE "lock"

\* Mkdir and the checks of what is there; an error rolls back.
PrepareDirectory(j) ==
    \E d \in {"config", "lib", "bin"} :
        /\ Does(j, d)
        /\ \/ /\ dirs' = dirs \union {d}
              /\ \E step \in {Following(d), "rollback"} :
                    install' = [install EXCEPT ![j].step = step, ![j].made = @ \union ({d} \ dirs)]
           \/ Moves(j, "rollback") /\ UNCHANGED dirs
        /\ UNCHANGED <<wslTools, links, binary>> /\ WslRest

InUse(d) ==
    CASE d = "config" -> wslTools # {"no file"} \/ \E k \in InstallJob : Locked(k)
      [] d = "lib" -> binary # NoBinary \/ \E k \in InstallJob : install[k].staged # NoBinary
      [] OTHER -> \E n \in LinkName : links[n] # "none"

\* os.Remove takes an empty directory only; another job may be using it already.
RollBackDirectory(j) ==
    /\ Does(j, "rollback")
    /\ \E d \in install[j].made :
          /\ dirs' = IF InUse(d) THEN dirs ELSE dirs \ {d}
          /\ install' = [install EXCEPT ![j].made = @ \ {d}]
    /\ UNCHANGED <<wslTools, links, binary>> /\ WslRest

RolledBack(j) ==
    /\ Does(j, "rollback") /\ install[j].made = {}
    /\ Aborts(j)
    /\ UNCHANGED <<dirs, wslTools, links, binary>> /\ WslRest

-----------------------------------------------------------------------------
(* Under the mutation lock: layout, registry, preflight *)

LockInstall(j) ==
    /\ Does(j, "lock")
    /\ \A k \in InstallJob : ~Locked(k)
    /\ NextIf(j, "config" \in dirs, "check")
    /\ UNCHANGED <<dirs, wslTools, links, binary>> /\ WslRest

LayoutComplete == dirs = {Directories[n] : n \in 1 .. Len(Directories)} /\ links["cb"] # "foreign"

\* checkLayout, checkRegistryRecovery, binaryState, loadPolicy.
CheckLayout(j) ==
    /\ Does(j, "check")
    /\ NextIf(j, LayoutComplete, "registry")
    /\ UNCHANGED <<dirs, wslTools, links, binary>> /\ WslRest

\* ensureRegistry and appendDefaults; a signed registry is never changed, and
\* without one there is nothing to authenticate.
EnsureRegistry(j) ==
    /\ Does(j, "registry")
    /\ wslTools' = IF signed THEN wslTools ELSE (wslTools \ {"no file"}) \union Shipped
    /\ IF wslTools' = {"no file"} THEN Aborts(j)
       ELSE install' = [install EXCEPT ![j].step = "preflight", ![j].names = wslTools']
    /\ UNCHANGED <<dirs, links, binary>> /\ WslRest

Free(names) == \A n \in names : links[n] # "foreign"

Mutant_PreflightShims(j) ==  \* the management link before the binary
    /\ Does(j, "preflight")
    /\ NextIf(j, Free(install[j].names), "management")
    /\ UNCHANGED <<dirs, wslTools, links, binary>> /\ WslRest

\* InspectNames refuses collisions before anything is published.
PreflightShims(j) ==
    /\ Does(j, "preflight")
    /\ NextIf(j, Free(install[j].names), "hash")
    /\ UNCHANGED <<dirs, wslTools, links, binary>> /\ WslRest

-----------------------------------------------------------------------------
(* installBinaryFile *)

\* openAndHash reads the source in two halves too; its time is taken before.
HashSource(j) ==
    /\ Does(j, "hash")
    /\ install' = [install EXCEPT ![j].step = "hashRest", ![j].mtime = source[j].mtime,
                                  ![j].sum = <<source[j].bytes, "none">>]
    /\ UNCHANGED <<dirs, wslTools, links, binary>> /\ WslRest

\* The same bytes are installed already, or a temporary file is begun.
HashRest(j) ==
    /\ Does(j, "hashRest")
    /\ LET sum == <<install[j].sum[1], source[j].bytes>> IN
          install' = [install EXCEPT ![j].sum = sum,
                         ![j].step = IF binary = sum THEN "management" ELSE "stage"]
    /\ UNCHANGED <<dirs, wslTools, links, binary>> /\ WslRest

StageBinary(j) ==
    /\ Does(j, "stage")
    /\ IF "lib" \in dirs
       THEN install' = [install EXCEPT ![j].step = "stageRest",
                                       ![j].staged = <<source[j].bytes, "half">>]
       ELSE Aborts(j)
    /\ UNCHANGED <<dirs, wslTools, links, binary>> /\ WslRest

\* The copy has the hashed sum, and the source the time it had.
CopiedUnchanged(j, copy) ==
    copy = install[j].sum /\ source[j].mtime = install[j].mtime

StageRest(j) ==
    /\ Does(j, "stageRest")
    /\ LET copy == <<install[j].staged[1], source[j].bytes>> IN
          IF CopiedUnchanged(j, copy)
          THEN install' = [install EXCEPT ![j].step = "publish", ![j].staged = copy]
          ELSE Aborts(j)
    /\ UNCHANGED <<dirs, wslTools, links, binary>> /\ WslRest

\* The rename, then a look at what is there now.
PublishBinary(j) ==
    /\ Does(j, "publish")
    /\ \/ /\ binary' = install[j].staged
          /\ IF binary' = install[j].sum
             THEN install' = [install EXCEPT ![j].step = "management", ![j].staged = NoBinary]
             ELSE Aborts(j)
       \/ UNCHANGED binary /\ Aborts(j)
    /\ UNCHANGED <<dirs, wslTools, links>> /\ WslRest

-----------------------------------------------------------------------------
(* wslshim: the management link, then the tools' *)

Mutant_EnsureLink(n) == links' = [links EXCEPT ![n] = "managed"]  \* renamed into place

\* os.Link does not replace; what appeared meanwhile must be the same link.
EnsureLink(n) == links' = [links EXCEPT ![n] = IF @ = "foreign" THEN @ ELSE "managed"]

ReconcileManagement(j) ==
    /\ Does(j, "management")
    /\ IF "bin" \in dirs
       THEN EnsureLink("cb") /\ NextIf(j, links'["cb"] = "managed", "inspect")
       ELSE UNCHANGED links /\ Aborts(j)
    /\ UNCHANGED <<dirs, wslTools, binary>> /\ WslRest

\* inspect: the binary and the management link first, then every name.
InspectShims(j) ==
    /\ Does(j, "inspect")
    /\ NextIf(j, binary # NoBinary /\ links["cb"] = "managed" /\ Free(install[j].names), "shims")
    /\ UNCHANGED <<dirs, wslTools, links, binary>> /\ WslRest

ReconcileShim(j) ==
    /\ Does(j, "shims")
    /\ \E n \in install[j].names :
          /\ EnsureLink(n)
          /\ IF links'[n] = "managed" THEN install' = [install EXCEPT ![j].names = @ \ {n}]
             ELSE Aborts(j)
    /\ UNCHANGED <<dirs, wslTools, binary>> /\ WslRest

\* inspectWith and Plan.ready, the report, the lock.
EndInstall(j) ==
    /\ Does(j, "shims") /\ install[j].names = {}
    /\ Aborts(j)
    /\ UNCHANGED <<dirs, wslTools, links, binary>> /\ WslRest

KillInstall(j) ==
    /\ Installing(j)
    /\ Aborts(j)
    /\ UNCHANGED <<dirs, wslTools, links, binary>> /\ WslRest

PrepareLayout(j) == PrepareDirectory(j) \/ RollBackDirectory(j) \/ RolledBack(j)
InstallBinary(j) ==
    HashSource(j) \/ HashRest(j) \/ StageBinary(j) \/ StageRest(j) \/ PublishBinary(j)
Reconcile(j) ==
    ReconcileManagement(j) \/ InspectShims(j) \/ ReconcileShim(j) \/ EndInstall(j)

WslInstallNext ==
    \/ PlaceForeign
    \/ \E j \in InstallJob :
          \/ StartInstall(j) \/ OverwriteSource(j) \/ PrepareLayout(j)
          \/ LockInstall(j) \/ CheckLayout(j) \/ EnsureRegistry(j) \/ PreflightShims(j)
          \/ InstallBinary(j) \/ Reconcile(j) \/ KillInstall(j)

WslInstallSpec == WslInstallInit /\ [][WslInstallNext]_wslInstallVars

-----------------------------------------------------------------------------
(* Properties *)

\* Whatever is killed, rolled back or overwritten, a managed link leads to a
\* managed binary, which is a whole build, in a directory that is there; and its
\* tool is in the registry (installBinaryFile, reconcile, prepare).
LinksReachWholeBinary ==
    \A n \in LinkName : links[n] = "managed" =>
        /\ Whole(binary) /\ {"lib", "bin"} \subseteq dirs
        /\ n \in Tool => n \in wslTools

\* An install never replaces or removes an object at the name of a link that is
\* not its own, not even one that appears after the preflight: only the user does
\* (ensure "publish shim without replacing an existing object").
ForeignUntouched ==
    [][\A n \in LinkName :
          links[n] = "foreign" /\ links'[n] # "foreign" => install' = install]_wslInstallVars
=============================================================================
