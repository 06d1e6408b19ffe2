------------------------------ MODULE ImageTrust ------------------------------
(***************************************************************************)
(* From a machine policy to the image that runs: every command loads the   *)
(* policy (internal/policy Load), authenticates the registry it reads, and *)
(* then either refreshes a lock entry, with the signature of the image     *)
(* verified by the verifier the policy pins (internal/imagetrust Verify,   *)
(* internal/cli image_trust.go), or runs the tool the lock entry stands    *)
(* for.  Between any two steps the administrator replaces the policy, the  *)
(* files it pins, the registry or its signature; publishers move tags and  *)
(* add signatures; and time passes.                                        *)
(***************************************************************************)
EXTENDS MachinePolicy

CONSTANTS
    TrustJob,    \* concurrent commands
    PolicyFile,  \* the documents the administrator may install
    MaxChanges,  \* bound: changes of the world around the commands
    MaxClock     \* bound: the clock

ASSUME ImageTrustAssumption == MaxChanges \in Nat /\ MaxClock \in Nat
\* The boundary of a rule is a path; whether it is a valid one is for parse.
ASSUME PolicyFileAssumption ==
    \A d \in PolicyFile : \A r \in d.rules : r.repository \in Seq(STRING)

\* The two registries configure one image each; only "approved" is ever signed.
ImageOf(bytes) == IF bytes = "approved" THEN <<"index.docker.io", "python">>
                  ELSE <<"ghcr.io", "acme", "tool">>
Ref == {ImageOf("approved"), ImageOf("edited")}
Reported(ref) == IF ref[1] = "ghcr.io" THEN ref ELSE <<"python">>

\* A signature bundle is of one digest, by one signer.
Signer == {"release", "visitor"}
Bundle == [digest : {1, 2}, signer : Signer]
MaxBundles == 2  \* maxSignatureBundles, scaled down

VARIABLES
    policyFile, \* the policy document, or Unmanaged for none
    pinned,     \* the files the policies pin: what each holds
    registryBytes, signatureFile,
    upstream,   \* the digest of the tags, and the bundles published
    imageLock,  \* the lock entries
    trustJob,   \* the commands
    clock, changes,
    \* history:
    verified    \* what a pinned verifier has said yes to, and for which policy

trustWorld == <<policyFile, pinned, registryBytes, signatureFile, upstream, clock, changes>>
imageTrustVars == <<policyFile, pinned, registryBytes, signatureFile, upstream, imageLock,
                    trustJob, clock, changes, verified>>

NoLockEntry == [local |-> FALSE, repository |-> Invalid, digest |-> 0, evidence |-> NoEvidence]
Unlocked == [r \in Ref |-> NoLockEntry]
NoTrustJob == [cmd |-> "none", step |-> "idle", policy |-> Unmanaged, registry |-> "none",
               local |-> FALSE, entry |-> NoLockEntry, captured |-> [f \in {} |-> "none"],
               bundles |-> {}, since |-> 0]

ImageTrustInit ==
    /\ policyFile \in PolicyFile
    /\ pinned = [f \in {"cosign", "key", "root"} |-> "genuine"]
    /\ registryBytes \in {"approved", "edited"}
    /\ signatureFile = [key |-> "k1", of |-> "approved"]
    /\ upstream = [digest |-> 1, bundles |-> {[digest |-> 1, signer |-> "release"],
                                              [digest |-> 2, signer |-> "visitor"]}]
    /\ imageLock = Unlocked
    /\ trustJob = [j \in TrustJob |-> NoTrustJob]
    /\ clock = 0 /\ changes = 0
    /\ verified = {}

-----------------------------------------------------------------------------
(* The world around *)

Changes == changes < MaxChanges /\ changes' = changes + 1
Outside == UNCHANGED <<imageLock, trustJob, verified>>

InstallPolicy ==
    /\ Changes
    /\ \E d \in PolicyFile \union {Unmanaged} : d # policyFile /\ policyFile' = d
    /\ UNCHANGED <<pinned, registryBytes, signatureFile, upstream, clock>> /\ Outside

ReplacePinned ==
    /\ Changes
    /\ \E f \in DOMAIN pinned :
          pinned' = [pinned EXCEPT ![f] = IF @ = "genuine" THEN "replaced" ELSE "genuine"]
    /\ UNCHANGED <<policyFile, registryBytes, signatureFile, upstream, clock>> /\ Outside

\* A registry and its signature are provisioned together, but are two files.
ProvisionRegistry ==
    /\ Changes
    /\ registryBytes' \in {"approved", "edited", "none"} \ {registryBytes}
    /\ UNCHANGED <<policyFile, pinned, signatureFile, upstream, clock>> /\ Outside

ProvisionSignature ==
    /\ Changes
    /\ signatureFile' \in {NoSignature, [key |-> "k1", of |-> "approved"],
                           [key |-> "k2", of |-> "approved"]} \ {signatureFile}
    /\ UNCHANGED <<policyFile, pinned, registryBytes, upstream, clock>> /\ Outside

Publish ==
    /\ Changes
    /\ \/ upstream.digest = 1 /\ upstream' = [upstream EXCEPT !.digest = 2]
       \/ \E b \in Bundle \ upstream.bundles :
             /\ b.signer = "release" => b.digest = 1
             /\ upstream' = [upstream EXCEPT !.bundles = @ \union {b}]
    /\ UNCHANGED <<policyFile, pinned, registryBytes, signatureFile, clock>> /\ Outside

Tick ==
    /\ clock < MaxClock /\ clock' = clock + 1
    /\ UNCHANGED <<policyFile, pinned, registryBytes, signatureFile, upstream, changes>> /\ Outside

-----------------------------------------------------------------------------
(* What every command does first *)

TrustStep(j, step) == trustJob[j].step = step
TrustGoes(j, step) == trustJob' = [trustJob EXCEPT ![j].step = step]
TrustEnds(j) == trustJob' = [trustJob EXCEPT ![j] = NoTrustJob]

\* Refreshes hold the mutation lock.  One step loads the policy: it authorizes
\* with one set of bytes whatever replaces the file.
LoadPolicy(j) ==
    /\ TrustStep(j, "idle")
    /\ \E c \in {"run", "update", "updateLocal"} :
          /\ c # "run" => \A k \in TrustJob : trustJob[k].cmd \in {"none", "run"}
          /\ policyFile = Unmanaged \/ Accepted(policyFile, clock)
          /\ trustJob' = [trustJob EXCEPT ![j] =
                [NoTrustJob EXCEPT !.cmd = c, !.step = "registry", !.policy = policyFile,
                                   !.local = (c = "updateLocal"), !.since = clock]]
    /\ UNCHANGED <<trustWorld, imageLock, verified>>

\* The registry's bytes are read once.
ReadRegistry(j) ==
    /\ TrustStep(j, "registry")
    /\ trustJob' = [trustJob EXCEPT ![j].registry = registryBytes, ![j].step = "signature"]
    /\ UNCHANGED <<trustWorld, imageLock, verified>>

Mutant_AuthenticateRegistry(j) ==  \* the file is verified, not the bytes read before
    /\ TrustStep(j, "signature")
    /\ IF AuthenticRegistry(trustJob[j].policy, registryBytes, signatureFile, clock)
          /\ trustJob[j].registry # "none"
       THEN TrustGoes(j, "lock") ELSE TrustEnds(j)
    /\ UNCHANGED <<trustWorld, imageLock, verified>>

\* The signature next to it is of those bytes, by a key the policy trusts now.
\* Without signatures a missing registry is the built-in one.
AuthenticateRegistry(j) ==
    /\ TrustStep(j, "signature")
    /\ IF AuthenticRegistry(trustJob[j].policy, trustJob[j].registry, signatureFile, clock)
       THEN TrustGoes(j, "lock") ELSE TrustEnds(j)
    /\ UNCHANGED <<trustWorld, imageLock, verified>>

-----------------------------------------------------------------------------
(* cb lock, cb update: resolve, verify, record *)

Wanted(j) == ImageOf(trustJob[j].registry)
Updating(j) == trustJob[j].cmd \in {"update", "updateLocal"}
Rules(j) == RulesFor(trustJob[j].policy, Wanted(j))
Fetched(j) == DOMAIN trustJob[j].captured

AuthorizeTarget(j) ==
    /\ TrustStep(j, "lock") /\ Updating(j)
    /\ IF AuthorizeLockTarget(trustJob[j].policy, Wanted(j), trustJob[j].local)
       THEN TrustGoes(j, "pull") ELSE TrustEnds(j)
    /\ UNCHANGED <<trustWorld, imageLock, verified>>

\* docker pull and inspect, or inspect alone.  A policy without a rule for the
\* image is content with the digest.
ResolveTarget(j) ==
    /\ TrustStep(j, "pull")
    /\ LET local == trustJob[j].local
           entry == [NoLockEntry EXCEPT !.local = local, !.digest = upstream.digest,
                                        !.repository = IF local THEN Invalid ELSE Reported(Wanted(j))]
       IN  IF local \/ MatchesRepository(Wanted(j), entry.repository)
           THEN trustJob' = [trustJob EXCEPT ![j].entry = entry,
                    ![j].step = IF local \/ Rules(j) = {} THEN "write" ELSE "pins"]
           ELSE TrustEnds(j)
    /\ UNCHANGED <<trustWorld, imageLock, verified>>

\* The files the rule needs are read and hashed one after the other.
Pins(j) == {"cosign"} \union UNION {(IF r.mechanism = "key" THEN {"key"} ELSE {})
                                    \union (IF r.offline THEN {"root"} ELSE {}) : r \in Rules(j)}

AuthenticatePinned(j, f) ==
    /\ TrustStep(j, "pins") /\ f \in Pins(j) \ Fetched(j)
    /\ f # "cosign" => "cosign" \in Fetched(j)
    /\ IF /\ CanonicalRepository(trustJob[j].entry.repository) = CanonicalRepository(Wanted(j))
          /\ pinned[f] = "genuine"
          /\ f = "root" => trustJob[j].policy.root # "none"
       THEN trustJob' = [trustJob EXCEPT ![j].captured = [g \in Fetched(j) \union {f} |->
                             IF g = f THEN pinned[f] ELSE @[g]]]
       ELSE TrustEnds(j)
    /\ UNCHANGED <<trustWorld, imageLock, verified>>

\* cosign download signature, by the staged copy of the verifier.
DownloadBundles(j) ==
    /\ TrustStep(j, "pins") /\ Pins(j) \subseteq Fetched(j)
    /\ LET found == {b \in upstream.bundles : b.digest = trustJob[j].entry.digest} IN
       IF found # {} /\ Cardinality(found) <= MaxBundles
       THEN trustJob' = [trustJob EXCEPT ![j].bundles = found, ![j].step = "verify"]
       ELSE TrustEnds(j)
    /\ UNCHANGED <<trustWorld, imageLock, verified>>

\* A verifier that is not the pinned one says anything; a bundle passes the
\* pinned one if the rule's identity, or the staged key, made it.
Passing(j, rule) ==
    IF trustJob[j].captured["cosign"] # "genuine" THEN SUBSET trustJob[j].bundles
    ELSE {{b \in trustJob[j].bundles :
              b.signer = IF rule.mechanism = "key" /\ trustJob[j].captured["key"] # "genuine"
                         THEN "visitor" ELSE rule.identity}}

Evidence(j, rule) ==
    [fingerprint |-> trustJob[j].policy, repository |-> CanonicalRepository(Wanted(j)),
     digest |-> trustJob[j].entry.digest, mechanism |-> rule.mechanism,
     signer |-> rule.identity, verifier |-> trustJob[j].policy.cosign]

Mutant_VerifyBundles(j) ==  \* the evidence is that of the policy in place by now
    /\ TrustStep(j, "verify")
    /\ \E rule \in Rules(j) : \E passing \in Passing(j, rule) :
          IF Cardinality(passing) = 1
          THEN /\ trustJob' = [trustJob EXCEPT ![j].step = "write",
                      ![j].entry.evidence = [Evidence(j, rule) EXCEPT !.fingerprint = policyFile]]
               /\ verified' = verified \union {Evidence(j, rule)}
          ELSE TrustEnds(j) /\ UNCHANGED verified
    /\ UNCHANGED <<trustWorld, imageLock>>

\* Exactly one bundle has to pass: the evidence has room for one.
VerifyBundles(j) ==
    /\ TrustStep(j, "verify")
    /\ \E rule \in Rules(j) : \E passing \in Passing(j, rule) :
          IF Cardinality(passing) = 1
          THEN /\ trustJob' = [trustJob EXCEPT ![j].step = "write",
                                               ![j].entry.evidence = Evidence(j, rule)]
               /\ verified' = IF \A b \in passing : b.signer = rule.identity
                              THEN verified \union {Evidence(j, rule)} ELSE verified
          ELSE TrustEnds(j) /\ UNCHANGED verified
    /\ UNCHANGED <<trustWorld, imageLock>>

\* The verifier fails or times out, the staged copies have changed, docker fails.
RefreshFails(j) ==
    /\ trustJob[j].step \in {"pull", "pins", "verify"}
    /\ TrustEnds(j)
    /\ UNCHANGED <<trustWorld, imageLock, verified>>

\* The other entry stays, its evidence with it; an update writes nothing before
\* every image is resolved.
WriteEntry(j) ==
    /\ TrustStep(j, "write")
    /\ imageLock' = [imageLock EXCEPT ![Wanted(j)] = trustJob[j].entry]
    /\ trustJob' = [trustJob EXCEPT ![j].step = "written", ![j].entry = NoLockEntry,
                                    ![j].captured = NoTrustJob.captured, ![j].bundles = {}]
    /\ UNCHANGED <<trustWorld, verified>>

WrittenEntry(j) ==
    /\ TrustStep(j, "written")
    /\ TrustEnds(j)
    /\ UNCHANGED <<trustWorld, imageLock, verified>>

-----------------------------------------------------------------------------
(* A tool run *)

RunEntry(j) == imageLock[Wanted(j)]
LockExists == imageLock # Unlocked

AuthorizeRun(j) ==
    /\ TrustStep(j, "lock") /\ ~Updating(j)
    /\ LET p == trustJob[j].policy IN
       IF IF LockExists
          THEN RunEntry(j) # NoLockEntry /\ AuthorizeResolvedImage(p, Wanted(j), RunEntry(j))
          ELSE AuthorizeImage(p, Wanted(j))
       THEN trustJob' = [trustJob EXCEPT ![j].entry = RunEntry(j), ![j].step = "run"]
       ELSE TrustEnds(j)
    /\ UNCHANGED <<trustWorld, imageLock, verified>>

RunTrusted(j) ==
    /\ TrustStep(j, "run")
    /\ TrustEnds(j)
    /\ UNCHANGED <<trustWorld, imageLock, verified>>

TrustCommand(j) ==
    \/ LoadPolicy(j) \/ ReadRegistry(j) \/ AuthenticateRegistry(j)
    \/ AuthorizeTarget(j) \/ ResolveTarget(j)
    \/ \E f \in DOMAIN pinned : AuthenticatePinned(j, f)
    \/ DownloadBundles(j) \/ VerifyBundles(j) \/ RefreshFails(j)
    \/ WriteEntry(j) \/ WrittenEntry(j) \/ AuthorizeRun(j) \/ RunTrusted(j)

TrustChange ==
    InstallPolicy \/ ReplacePinned \/ ProvisionRegistry \/ ProvisionSignature \/ Publish \/ Tick

ImageTrustNext == (\E j \in TrustJob : TrustCommand(j)) \/ TrustChange

ImageTrustSpec == ImageTrustInit /\ [][ImageTrustNext]_imageTrustVars

-----------------------------------------------------------------------------
(* Properties *)

\* Where the policy a run has loaded has a rule for its image, the image that
\* runs is a digest which the verifier pinned by that very policy document has
\* verified for that rule (docs/enterprise-policy.md "any policy change will make
\* later lock evidence stale"), whatever was replaced in between.
RunsVerified ==
    \A j \in TrustJob : TrustStep(j, "run") =>
        \A rule \in Rules(j) :
            /\ ~trustJob[j].entry.local
            /\ \E e \in verified :
                  /\ e.fingerprint = trustJob[j].policy
                  /\ e.digest = trustJob[j].entry.digest
                  /\ e.repository = CanonicalRepository(Wanted(j))
                  /\ e.signer = rule.identity

\* A refresh helps: the entry that cb update has written authorizes the image
\* under the policy the refresh was made with, as the errors of
\* authorizeRuntimeImageTrust say ("run `cb update` or `cb lock` to re-verify").
RefreshAuthorizes ==
    \A j \in TrustJob : TrustStep(j, "written") =>
        AuthorizeResolvedImage(trustJob[j].policy, Wanted(j), RunEntry(j))

\* Under a policy that requires a registry signature, a command acts on bytes the
\* administrator has signed with a key which that policy trusts and has not
\* revoked, although registry and signature are replaced one after the other.
ActsOnSignedRegistry ==
    \A j \in TrustJob : LET p == trustJob[j].policy IN
        p.signed /\ trustJob[j].step \notin {"idle", "registry", "signature"} =>
            /\ trustJob[j].registry = "approved"
            /\ \E k \in p.keys : \E t \in trustJob[j].since .. clock : Active(p, k, t)
=============================================================================
