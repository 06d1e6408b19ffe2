------------------------------ MODULE MCMachine -------------------------------
(***************************************************************************)
(* One instance of each component that keeps its state on the machine      *)
(* beside the registry: volumes, image lock, image trust, overlay trust, a *)
(* tool session and an installation.  They share no variable and none of   *)
(* their properties relates two of them, so that their interleavings       *)
(* would add no case: a behaviour is one component's, chosen at the start, *)
(* while the others rest in one initial state.                             *)
(***************************************************************************)
EXTENDS ProjectVolumes, ImageLock, ImageTrust, ProjectTrust, ToolSession, WslInstall, TLC

VARIABLE part  \* the component whose behaviour this is
Part == {"volumes", "lock", "trust", "overlays", "session", "install"}

\* Every component gets the same commands; they are interchangeable.
MCSymmetry == Permutations(Job)

\* A working directory below a project below another, and one at the user's home.
MCParent == [p \in Directory |-> IF p = "inner" THEN "outer" ELSE p]

\* Four machine policies: signed images at a host spelled three ways, bundles
\* kept offline, a signed registry with a revoked key, an outdated schema.
Hub(path, mechanism, signer, offline) ==
    [repository |-> path, mechanism |-> mechanism, identity |-> signer, offline |-> offline]
Key(id, from, until) == [id |-> id, from |-> from, until |-> until]
SignedImages ==
    [Unmanaged EXCEPT !.version = 3, !.requireLock = TRUE, !.cosign = "genuine", !.expires = 2,
        !.rules = {Hub(<<"library">>, "keyless", "visitor", FALSE),
                   Hub(<<"registry-1.docker.io", "library", "python">>, "key", "release", FALSE)}]
OfflineImages ==
    [Unmanaged EXCEPT !.version = 4, !.cosign = "genuine", !.root = "genuine", !.expires = 9,
        !.allowLocal = TRUE, !.rules = {Hub(<<"docker.io">>, "keyless", "release", TRUE)}]
SignedRegistry ==
    [Unmanaged EXCEPT !.version = 2, !.signed = TRUE, !.expires = 9,
        !.allowed = {<<"library">>, <<"ghcr.io", "acme">>},
        !.keys = {Key("k1", 0, 1), Key("k2", 0, 9)}, !.revoked = {"k2"}]
OldSchema == [SignedImages EXCEPT !.version = 2]
MCPolicyFiles == {SignedImages, OfflineImages, SignedRegistry, OldSchema}

-----------------------------------------------------------------------------
\* Each component's own initial states in its part, one of them in the others.
MachineInit ==
    /\ part \in Part
    /\ VolumesInit /\ labels["winShared"] = "own"
    /\ part # "volumes" => \A v \in Volume : labels[v] = "own"
    /\ \/ \A p \in Project : dir[p] = "dir"
       \/ part = "volumes" /\ \A v \in Volume : labels[v] = "own"
    /\ ImageLockInit
    /\ part # "lock" => lockFile = NoFile /\ mode.frontend = "windows" /\ ~mode.policy.managed
    /\ ImageTrustInit /\ (part # "trust" => policyFile = SignedImages /\ registryBytes = "approved")
    /\ ProjectTrustInit /\ (part # "overlays" => trustFile = NoStore /\ trustBak = NoStore)
    /\ ToolSessionInit /\ (part # "session" => ~session.tty)
    /\ WslInstallInit /\ (part # "install" => dirs = {} /\ ~signed)

AllVars == <<volumesVars, imageLockVars, imageTrustVars, projectTrustVars, toolSessionVars,
             wslInstallVars>>

VolumesPart ==
    /\ part = "volumes"
    /\ UNCHANGED <<part, imageLockVars, imageTrustVars, projectTrustVars, toolSessionVars,
                   wslInstallVars>>
    /\ VolumesNext
ImageLockPart ==
    /\ part = "lock"
    /\ UNCHANGED <<part, volumesVars, imageTrustVars, projectTrustVars, toolSessionVars,
                   wslInstallVars>>
    /\ ImageLockNext
ImageTrustPart ==
    /\ part = "trust"
    /\ UNCHANGED <<part, volumesVars, imageLockVars, projectTrustVars, toolSessionVars,
                   wslInstallVars>>
    /\ ImageTrustNext
ProjectTrustPart ==
    /\ part = "overlays"
    /\ UNCHANGED <<part, volumesVars, imageLockVars, imageTrustVars, toolSessionVars,
                   wslInstallVars>>
    /\ ProjectTrustNext
ToolSessionPart ==
    /\ part = "session"
    /\ UNCHANGED <<part, volumesVars, imageLockVars, imageTrustVars, projectTrustVars,
                   wslInstallVars>>
    /\ ToolSessionNext
WslInstallPart ==
    /\ part = "install"
    /\ UNCHANGED <<part, volumesVars, imageLockVars, imageTrustVars, projectTrustVars,
                   toolSessionVars>>
    /\ WslInstallNext

MachineNext ==
    \/ VolumesPart \/ ImageLockPart \/ ImageTrustPart
    \/ ProjectTrustPart \/ ToolSessionPart \/ WslInstallPart

MachineSpec == MachineInit /\ [][MachineNext]_<<part, AllVars>>
=============================================================================
