------------------------------ MODULE TrustProofs ------------------------------
(***************************************************************************)
(* Proofs about the two kinds of trust a run depends on, image trust and   *)
(* overlay trust, for every set of commands.                               *)
(*                                                                         *)
(* Images, for every set of policy documents: what runs where a rule       *)
(* applies was verified, a refresh authorizes what it has written, and a   *)
(* signed registry is acted upon only as it was signed, whatever is        *)
(* replaced between any two steps.                                         *)
(*                                                                         *)
(* Overlays, for every tree of directories and every set of enclosing      *)
(* projects: what runs was approved for its root, and a decision about one *)
(* project leaves the others.                                              *)
(***************************************************************************)
EXTENDS ImageTrust, ProjectTrust, SequenceTheorems, TLAPS

-----------------------------------------------------------------------------
(* The operators of MachinePolicy *)

LEMMA CanonicalRuleIsPath ==
    ASSUME NEW path \in Seq(STRING)
    PROVE  CanonicalRule(path) \in Seq(STRING \union {"docker.io"})
<1> DEFINE Name == STRING \union {"docker.io"}
<1>1. CASE path = Invalid
  BY <1>1, EmptySeq DEF CanonicalRule, Invalid
<1>2. CASE path # Invalid
  <2>1. path \in Seq(Name)  OBVIOUS
  <2> HIDE DEF Name
  <2>2. path # <<>> /\ path[1] \in Name /\ Tail(path) \in Seq(Name)
    BY <1>2, <2>1, HeadTailProperties, LenProperties, EmptySeq DEF Invalid
  <2>3. "docker.io" \in Name  BY DEF Name
  <2>4. FromHub(path[1]) \in Name
    BY <2>2, <2>3 DEF FromHub
  <2>5. <<FromHub(path[1])>> \in Seq(Name) /\ <<"docker.io">> \in Seq(Name)
    BY <2>3, <2>4
  <2>6. CanonicalRule(path) \in Seq(Name)
    BY <1>2, <2>1, <2>2, <2>5, ConcatProperties DEF CanonicalRule
  <2> QED  BY <2>6 DEF Name
<1> QED  BY <1>1, <1>2

\* Two rules of one accepted document never both apply: the most specific
\* boundary of a reference is the boundary of one rule.
LEMMA OneRuleApplies ==
    ASSUME NEW p, AcceptedRules(p), \A r \in p.rules : r.repository \in Seq(STRING),
           NEW ref, NEW r \in RulesFor(p, ref), NEW s \in RulesFor(p, ref)
    PROVE  r = s
<1> DEFINE R == CanonicalRule(r.repository)
           S == CanonicalRule(s.repository)
           C == CanonicalRepository(ref)
<1>1. /\ r \in p.rules /\ s \in p.rules
      /\ SubSeq(C, 1, Len(R)) = R /\ SubSeq(C, 1, Len(S)) = S
  BY DEF RulesFor, Within
<1>2. Len(R) <= Len(S) /\ Len(S) <= Len(R)
  BY DEF RulesFor
<1>3. Len(R) \in Nat /\ Len(S) \in Nat
  BY <1>1, CanonicalRuleIsPath, LenProperties
<1>4. R = S
  <2> HIDE DEF R, S, C
  <2>1. Len(R) = Len(S)  BY <1>2, <1>3
  <2> QED  BY <1>1, <2>1
<1> QED  BY <1>1, <1>4 DEF AcceptedRules

\* A machine without a policy has no rule for any image.
LEMMA UnmanagedHasNoRules ==
    /\ \A ref : RulesFor(Unmanaged, ref) = {}
    /\ ~Managed(Unmanaged)
BY DEF RulesFor, Unmanaged, Managed

LEMMA LoadedIsManaged ==
    ASSUME NEW p, AcceptedVersion(p)
    PROVE  Managed(p) /\ p # Unmanaged
BY DEF AcceptedVersion, Managed, Unmanaged

\* What Docker reports of a reference names the repository of the reference.
LEMMA ReportedIsSame ==
    \A ref \in Ref : CanonicalRepository(Reported(ref)) = CanonicalRepository(ref)
<1>1. CanonicalRepository(<<"python">>) = <<"docker.io", "library", "python">>
  BY DEF CanonicalRepository, Invalid, Host, HubAlias
<1>2. CanonicalRepository(<<"index.docker.io", "python">>) = <<"docker.io", "library", "python">>
  BY DEF CanonicalRepository, Invalid, Host, HubAlias, FromHub
<1> QED  BY <1>1, <1>2 DEF Ref, ImageOf, Reported

-----------------------------------------------------------------------------
(* Types *)

Files == {"cosign", "key", "root"}
Bytes == {"approved", "edited", "none"}
TrustSteps == {"idle", "registry", "signature", "lock", "pull", "pins", "verify", "write",
               "written", "run"}

\* What a job has captured of the pinned files is genuine: the others end it.
Captures == UNION {[S -> {"genuine"}] : S \in SUBSET Files}

\* Every evidence that is kept anywhere is that of a verification.
Entries ==
    [local : BOOLEAN, repository : {Invalid} \union {Reported(r) : r \in Ref},
     digest : {0, 1, 2}, evidence : verified \union {NoEvidence}]
TrustJobs ==
    [cmd : {"none", "run", "update", "updateLocal"}, step : TrustSteps,
     policy : PolicyFile \union {Unmanaged}, registry : Bytes, local : BOOLEAN,
     entry : Entries, captured : Captures, bundles : SUBSET Bundle, since : Nat]

TrustTypeOK ==
    /\ policyFile \in PolicyFile \union {Unmanaged}
    /\ pinned \in [Files -> {"genuine", "replaced"}]
    /\ registryBytes \in Bytes
    /\ signatureFile \in [key : {"k1", "k2"}, of : {"approved"}] \union {NoSignature}
    /\ upstream \in [digest : {1, 2}, bundles : SUBSET Bundle]
    /\ imageLock \in [Ref -> Entries]
    /\ trustJob \in [TrustJob -> TrustJobs]
    /\ clock \in Nat

\* The documents a command may hold are those that Load accepted.
Loadable(p) == p = Unmanaged \/ (AcceptedVersion(p) /\ AcceptedRules(p))

WantedBy(w) == ImageOf(w.registry)
RulesOf(w) == RulesFor(w.policy, WantedBy(w))
PinsOf(w) == {"cosign"} \union UNION {(IF r.mechanism = "key" THEN {"key"} ELSE {})
                                      \union (IF r.offline THEN {"root"} ELSE {}) : r \in RulesOf(w)}
RefreshSteps == {"pull", "pins", "verify", "write", "written"}

\* What a command has found out on its way to the step it is at.
OnItsWay(w) ==
    /\ w.cmd = "none" => w.step = "idle"
    /\ Loadable(w.policy)
    /\ w.step \in RefreshSteps => w.cmd \in {"update", "updateLocal"}
    /\ w.step \in {"pull", "pins", "verify"} => AuthorizeLockTarget(w.policy, WantedBy(w), w.local)
    /\ w.step \in {"pins", "verify"} =>
          ~w.local /\ ~w.entry.local /\ w.entry.repository = Reported(WantedBy(w))
    /\ "root" \in DOMAIN w.captured => w.policy.root # "none"
    /\ w.step = "verify" => PinsOf(w) \subseteq DOMAIN w.captured
    /\ w.step = "write" => AuthorizeResolvedImage(w.policy, WantedBy(w), w.entry)

OneRefresh ==
    \A j, k \in TrustJob : Updating(j) /\ Updating(k) => j = k

TrustInv ==
    /\ TrustTypeOK
    /\ \A j \in TrustJob : OnItsWay(trustJob[j]) /\ trustJob[j].since <= clock
    /\ OneRefresh

LEMMA WantedIsRef == \A w : WantedBy(w) \in Ref
BY DEF WantedBy, ImageOf, Ref

LEMMA TrustInitTypes == ImageTrustInit => TrustTypeOK
<1> SUFFICES ASSUME ImageTrustInit PROVE TrustTypeOK
  OBVIOUS
<1>1. NoLockEntry \in Entries
  BY DEF NoLockEntry, Entries
<1>2. NoTrustJob.captured \in Captures
  <2>1. [f \in {} |-> "none"] \in [{} -> {"genuine"}]  OBVIOUS
  <2>2. {} \in SUBSET Files  OBVIOUS
  <2> QED  BY <2>1, <2>2 DEF Captures, NoTrustJob
<1>3. NoTrustJob \in TrustJobs
  BY <1>1, <1>2 DEF NoTrustJob, TrustJobs, TrustSteps, Bytes
<1> QED
  BY <1>1, <1>3 DEF ImageTrustInit, TrustTypeOK, Files, Bytes, Bundle, Signer, Unlocked

\* A verification adds to the evidence, and nothing takes any away.
LEMMA EvidenceGrows ==
    [ImageTrustNext]_imageTrustVars => verified \subseteq verified' /\ Entries \subseteq Entries'
<1> SUFFICES ASSUME [ImageTrustNext]_imageTrustVars
             PROVE  verified \subseteq verified' /\ Entries \subseteq Entries'
  OBVIOUS
<1>1. verified \subseteq verified'
  BY DEF ImageTrustNext, TrustCommand, LoadPolicy, ReadRegistry, AuthenticateRegistry,
     AuthorizeTarget, ResolveTarget, AuthenticatePinned, DownloadBundles, VerifyBundles,
     RefreshFails, WriteEntry, WrittenEntry, AuthorizeRun, RunTrusted, TrustChange,
     InstallPolicy, ReplacePinned, ProvisionRegistry, ProvisionSignature, Publish, Tick,
     Outside, imageTrustVars
<1> QED  BY <1>1 DEF Entries

LEMMA CapturedFacts ==
    /\ NoTrustJob.captured \in Captures
    /\ \A c \in Captures : DOMAIN c \subseteq Files /\ \A f \in DOMAIN c : c[f] = "genuine"
    /\ \A c \in Captures, f \in Files :
          [g \in DOMAIN c \union {f} |-> IF g = f THEN "genuine" ELSE c[g]] \in Captures
<1>1. NoTrustJob.captured \in Captures
  <2>1. [f \in {} |-> "none"] \in [{} -> {"genuine"}]  OBVIOUS
  <2>2. {} \in SUBSET Files  OBVIOUS
  <2> QED  BY <2>1, <2>2 DEF Captures, NoTrustJob
<1>2. ASSUME NEW c \in Captures
      PROVE  DOMAIN c \subseteq Files /\ \A f \in DOMAIN c : c[f] = "genuine"
  BY DEF Captures
<1>3. ASSUME NEW c \in Captures, NEW f \in Files
      PROVE  [g \in DOMAIN c \union {f} |-> IF g = f THEN "genuine" ELSE c[g]] \in Captures
  <2>1. DOMAIN c \union {f} \in SUBSET Files  BY <1>2
  <2>2. [g \in DOMAIN c \union {f} |-> IF g = f THEN "genuine" ELSE c[g]]
            \in [DOMAIN c \union {f} -> {"genuine"}]
    BY <1>2
  <2> QED  BY <2>1, <2>2 DEF Captures
<1> QED  BY <1>1, <1>2, <1>3

\* What passes the verifier is of the identity that the rule names: the verifier
\* and the key it was given are the pinned ones.
LEMMA PassingIsGenuine ==
    ASSUME TrustInv, NEW j \in TrustJob, trustJob[j].step = "verify",
           NEW rule \in Rules(j), NEW passing \in Passing(j, rule)
    PROVE  \A b \in passing : b.signer = rule.identity
<1> DEFINE c == trustJob[j].captured
<1>1. c \in Captures /\ PinsOf(trustJob[j]) \subseteq DOMAIN c
  BY DEF TrustInv, TrustTypeOK, TrustJobs, OnItsWay
<1>2. rule \in RulesOf(trustJob[j])
  BY DEF Rules, RulesOf, Wanted, WantedBy
<1>3. "cosign" \in DOMAIN c /\ (rule.mechanism = "key" => "key" \in DOMAIN c)
  BY <1>1, <1>2 DEF PinsOf
<1>4. c["cosign"] = "genuine" /\ (rule.mechanism = "key" => c["key"] = "genuine")
  BY <1>1, <1>3, CapturedFacts
<1> QED  BY <1>4 DEF Passing

LEMMA JobTypeStep ==
    ASSUME TrustInv, NEW j \in TrustJob, TrustCommand(j)
    PROVE  trustJob' \in [TrustJob -> TrustJobs'] /\ imageLock' \in [Ref -> Entries']
<1>0. /\ trustJob \in [TrustJob -> TrustJobs'] /\ imageLock \in [Ref -> Entries']
      /\ NoLockEntry \in Entries' /\ NoTrustJob \in TrustJobs'
  <2>1. Entries \subseteq Entries'  BY EvidenceGrows DEF ImageTrustNext
  <2>2. TrustJobs \subseteq TrustJobs'  BY <2>1 DEF TrustJobs
  <2>3. NoLockEntry \in Entries'  BY DEF NoLockEntry, Entries
  <2>4. NoTrustJob \in TrustJobs'
    BY <2>3, CapturedFacts DEF NoTrustJob, TrustJobs, TrustSteps, Bytes
  <2> QED  BY <2>1, <2>2, <2>3, <2>4 DEF TrustInv, TrustTypeOK
<1>1. TrustEnds(j) => trustJob' \in [TrustJob -> TrustJobs']
  BY <1>0 DEF TrustEnds
<1>2. ASSUME NEW s \in TrustSteps, TrustGoes(j, s)
      PROVE  trustJob' \in [TrustJob -> TrustJobs']
  BY <1>0, <1>2 DEF TrustGoes, TrustJobs
<1>3. ASSUME LoadPolicy(j) PROVE trustJob' \in [TrustJob -> TrustJobs']
  <2> DEFINE New(c) == [NoTrustJob EXCEPT !.cmd = c, !.step = "registry", !.policy = policyFile,
                                          !.local = (c = "updateLocal"), !.since = clock]
  <2>1. PICK c \in {"run", "update", "updateLocal"} : trustJob' = [trustJob EXCEPT ![j] = New(c)]
    BY <1>3 DEF LoadPolicy
  <2>2. New(c) \in TrustJobs'
    <3>1. policyFile \in PolicyFile \union {Unmanaged} /\ clock \in Nat
      BY DEF TrustInv, TrustTypeOK
    <3> QED  BY <1>0, <3>1 DEF TrustJobs, TrustSteps
  <2> HIDE DEF New
  <2> QED  BY <1>0, <2>1, <2>2
<1>4. ASSUME ReadRegistry(j) PROVE trustJob' \in [TrustJob -> TrustJobs']
  <2>1. registryBytes \in Bytes  BY DEF TrustInv, TrustTypeOK
  <2>2. trustJob' = [trustJob EXCEPT ![j].registry = registryBytes, ![j].step = "signature"]
    BY <1>4 DEF ReadRegistry
  <2>3. ASSUME NEW v \in TrustJobs', NEW b \in Bytes
        PROVE  [v EXCEPT !.registry = b, !.step = "signature"] \in TrustJobs'
    BY DEF TrustJobs, TrustSteps
  <2> QED  BY <1>0, <2>1, <2>2, <2>3
<1>5. ASSUME AuthenticateRegistry(j) \/ AuthorizeTarget(j)
      PROVE  trustJob' \in [TrustJob -> TrustJobs']
  BY <1>0, <1>1, <1>2, <1>5 DEF AuthenticateRegistry, AuthorizeTarget, TrustSteps
<1>6. ASSUME ResolveTarget(j) PROVE trustJob' \in [TrustJob -> TrustJobs']
  <2> DEFINE entry == [NoLockEntry EXCEPT
         !.local = trustJob[j].local, !.digest = upstream.digest,
         !.repository = IF trustJob[j].local THEN Invalid ELSE Reported(Wanted(j))]
  <2>1. Wanted(j) \in Ref  BY DEF Wanted, ImageOf, Ref
  <2>2. trustJob[j].local \in BOOLEAN /\ upstream.digest \in {1, 2}
    BY DEF TrustInv, TrustTypeOK, TrustJobs
  <2>3. entry \in Entries'
    BY <1>0, <2>1, <2>2 DEF NoLockEntry, Entries
  <2>4. ASSUME NEW e \in Entries', NEW s \in TrustSteps,
               trustJob' = [trustJob EXCEPT ![j].entry = e, ![j].step = s]
        PROVE  trustJob' \in [TrustJob -> TrustJobs']
    BY <1>0, <2>4 DEF TrustJobs
  <2> HIDE DEF entry
  <2>5. TrustEnds(j) \/ \E s \in {"write", "pins"} :
           trustJob' = [trustJob EXCEPT ![j].entry = entry, ![j].step = s]
    BY <1>6 DEF ResolveTarget, entry
  <2> QED  BY <1>1, <2>3, <2>4, <2>5 DEF TrustSteps
<1>7. ASSUME NEW f \in DOMAIN pinned, AuthenticatePinned(j, f)
      PROVE  trustJob' \in [TrustJob -> TrustJobs']
  <2>1. f \in Files /\ trustJob[j].captured \in Captures
    BY DEF TrustInv, TrustTypeOK, TrustJobs
  <2>2. ASSUME NEW c \in Captures, trustJob' = [trustJob EXCEPT ![j].captured = c]
        PROVE  trustJob' \in [TrustJob -> TrustJobs']
    BY <1>0, <2>2 DEF TrustJobs
  <2>3. CASE ~TrustEnds(j)
    <3> DEFINE c == [g \in DOMAIN trustJob[j].captured \union {f} |->
                        IF g = f THEN "genuine" ELSE trustJob[j].captured[g]]
    <3>1. trustJob' = [trustJob EXCEPT ![j].captured = c]
      BY <1>7, <2>3 DEF AuthenticatePinned, Fetched
    <3>2. c \in Captures  BY <2>1, CapturedFacts
    <3> HIDE DEF c
    <3> QED  BY <2>2, <3>1, <3>2
  <2> QED  BY <1>1, <2>3
<1>8. ASSUME DownloadBundles(j) PROVE trustJob' \in [TrustJob -> TrustJobs']
  <2>1. ASSUME NEW v \in TrustJobs', NEW b \in SUBSET Bundle
        PROVE  [v EXCEPT !.bundles = b, !.step = "verify"] \in TrustJobs'
    BY DEF TrustJobs, TrustSteps
  <2> DEFINE found == {b \in upstream.bundles : b.digest = trustJob[j].entry.digest}
  <2>2. found \in SUBSET Bundle  BY DEF TrustInv, TrustTypeOK
  <2>3. TrustEnds(j) \/ trustJob' = [trustJob EXCEPT ![j].bundles = found, ![j].step = "verify"]
    BY <1>8 DEF DownloadBundles
  <2> HIDE DEF found
  <2>4. [trustJob[j] EXCEPT !.bundles = found, !.step = "verify"] \in TrustJobs'
    BY <1>0, <2>1, <2>2
  <2> QED  BY <1>0, <1>1, <2>3, <2>4
<1>9. ASSUME VerifyBundles(j) PROVE trustJob' \in [TrustJob -> TrustJobs']
  <2>0. PICK rule \in Rules(j) : \E passing \in Passing(j, rule) :
            IF Cardinality(passing) = 1
            THEN /\ trustJob' = [trustJob EXCEPT ![j].step = "write",
                                                 ![j].entry.evidence = Evidence(j, rule)]
                 /\ verified' = IF \A b \in passing : b.signer = rule.identity
                                THEN verified \union {Evidence(j, rule)} ELSE verified
            ELSE TrustEnds(j)
    BY <1>9 DEF VerifyBundles
  <2>1. PICK passing \in Passing(j, rule) :
            IF Cardinality(passing) = 1
            THEN /\ trustJob' = [trustJob EXCEPT ![j].step = "write",
                                                 ![j].entry.evidence = Evidence(j, rule)]
                 /\ verified' = IF \A b \in passing : b.signer = rule.identity
                                THEN verified \union {Evidence(j, rule)} ELSE verified
            ELSE TrustEnds(j)
    BY <2>0
  <2>2. CASE Cardinality(passing) = 1
    <3>1. Evidence(j, rule) \in verified'
      BY <1>9, <2>1, <2>2, PassingIsGenuine DEF VerifyBundles, TrustStep
    <3>2. ASSUME NEW e \in verified', NEW n \in Entries'
          PROVE  [n EXCEPT !.evidence = e] \in Entries'
      BY DEF Entries
    <3>3. [trustJob[j].entry EXCEPT !.evidence = Evidence(j, rule)] \in Entries'
      BY <1>0, <3>1, <3>2 DEF TrustJobs
    <3>4. ASSUME NEW e \in Entries'
          PROVE  [trustJob EXCEPT ![j] = [trustJob[j] EXCEPT !.step = "write", !.entry = e]]
                     \in [TrustJob -> TrustJobs']
      BY <1>0 DEF TrustJobs, TrustSteps
    <3>5. trustJob' = [trustJob EXCEPT ![j] = [trustJob[j] EXCEPT !.step = "write",
                          !.entry = [trustJob[j].entry EXCEPT !.evidence = Evidence(j, rule)]]]
      BY <1>0, <2>1, <2>2 DEF TrustJobs
    <3> QED  BY <3>3, <3>4, <3>5
  <2> QED  BY <1>1, <2>1, <2>2
<1>10. ASSUME RefreshFails(j) \/ WrittenEntry(j) \/ RunTrusted(j)
       PROVE  trustJob' \in [TrustJob -> TrustJobs']
  BY <1>1, <1>10 DEF RefreshFails, WrittenEntry, RunTrusted
<1>11. ASSUME WriteEntry(j)
       PROVE  trustJob' \in [TrustJob -> TrustJobs'] /\ imageLock' \in [Ref -> Entries']
  <2>1. trustJob[j].entry \in Entries' /\ Wanted(j) \in Ref
    BY <1>0 DEF TrustJobs, Wanted, ImageOf, Ref
  <2>2. imageLock' = [imageLock EXCEPT ![Wanted(j)] = trustJob[j].entry]
    BY <1>11 DEF WriteEntry
  <2>3. trustJob' = [trustJob EXCEPT ![j].step = "written", ![j].entry = NoLockEntry,
                                     ![j].captured = NoTrustJob.captured, ![j].bundles = {}]
    BY <1>11 DEF WriteEntry
  <2>4. trustJob' \in [TrustJob -> TrustJobs']
    <3> DEFINE w == [trustJob[j] EXCEPT !.step = "written", !.entry = NoLockEntry,
                                        !.captured = NoTrustJob.captured, !.bundles = {}]
    <3>1. ASSUME NEW v \in TrustJobs', NEW n \in Entries', NEW c \in Captures
          PROVE  [v EXCEPT !.step = "written", !.entry = n, !.captured = c, !.bundles = {}]
                     \in TrustJobs'
      BY DEF TrustJobs, TrustSteps
    <3>2. w \in TrustJobs'
      BY <1>0, <3>1, CapturedFacts
    <3>3. trustJob' = [trustJob EXCEPT ![j] = w]
      BY <2>3
    <3> HIDE DEF w
    <3> QED  BY <1>0, <3>2, <3>3
  <2> QED  BY <1>0, <2>1, <2>2, <2>4
<1>12. ASSUME AuthorizeRun(j) PROVE trustJob' \in [TrustJob -> TrustJobs']
  <2>1. RunEntry(j) \in Entries'
    BY <1>0 DEF RunEntry, Wanted, ImageOf, Ref
  <2>2. TrustEnds(j) \/ trustJob' = [trustJob EXCEPT ![j].entry = RunEntry(j), ![j].step = "run"]
    BY <1>12 DEF AuthorizeRun
  <2>3. ASSUME NEW v \in TrustJobs', NEW e \in Entries'
        PROVE  [v EXCEPT !.entry = e, !.step = "run"] \in TrustJobs'
    BY DEF TrustJobs, TrustSteps
  <2>4. [trustJob[j] EXCEPT !.entry = RunEntry(j), !.step = "run"] \in TrustJobs'
    BY <1>0, <2>1, <2>3
  <2> QED  BY <1>0, <1>1, <2>2, <2>4
<1>13. trustJob' \in [TrustJob -> TrustJobs']
  BY <1>3, <1>4, <1>5, <1>6, <1>7, <1>8, <1>9, <1>10, <1>11, <1>12 DEF TrustCommand
<1>14. ~WriteEntry(j) => imageLock' = imageLock
  BY DEF TrustCommand, LoadPolicy, ReadRegistry, AuthenticateRegistry, AuthorizeTarget,
     ResolveTarget, AuthenticatePinned, DownloadBundles, VerifyBundles, RefreshFails,
     WrittenEntry, AuthorizeRun, RunTrusted
<1> QED  BY <1>0, <1>11, <1>13, <1>14

LEMMA TrustTypeStep ==
    TrustInv /\ [ImageTrustNext]_imageTrustVars => TrustTypeOK'
<1> SUFFICES ASSUME TrustInv, [ImageTrustNext]_imageTrustVars PROVE TrustTypeOK'
  OBVIOUS
<1> DEFINE World == /\ policyFile \in PolicyFile \union {Unmanaged}
                    /\ pinned \in [Files -> {"genuine", "replaced"}]
                    /\ registryBytes \in Bytes
                    /\ signatureFile \in [key : {"k1", "k2"}, of : {"approved"}] \union {NoSignature}
                    /\ upstream \in [digest : {1, 2}, bundles : SUBSET Bundle]
                    /\ clock \in Nat
           Kept == imageLock \in [Ref -> Entries] /\ trustJob \in [TrustJob -> TrustJobs]
<1>0. World /\ Kept  BY DEF TrustInv, TrustTypeOK
<1>1. ASSUME NEW j \in TrustJob, TrustCommand(j) PROVE World' /\ Kept'
  <2>1. UNCHANGED trustWorld
    BY <1>1 DEF TrustCommand, LoadPolicy, ReadRegistry, AuthenticateRegistry, AuthorizeTarget,
       ResolveTarget, AuthenticatePinned, DownloadBundles, VerifyBundles, RefreshFails,
       WriteEntry, WrittenEntry, AuthorizeRun, RunTrusted
  <2>2. World'  BY <1>0, <2>1 DEF trustWorld
  <2> QED  BY <1>1, <2>2, JobTypeStep
<1>2. ASSUME TrustChange PROVE World' /\ Kept'
  <2>1. Kept'
    <3>1. UNCHANGED <<imageLock, trustJob, verified>>
      BY <1>2 DEF TrustChange, InstallPolicy, ReplacePinned, ProvisionRegistry,
         ProvisionSignature, Publish, Tick, Outside
    <3> QED  BY <1>0, <3>1 DEF Entries, TrustJobs
  <2>2. World'
    <3>1. CASE InstallPolicy  BY <1>0, <3>1 DEF InstallPolicy
    <3>2. CASE ReplacePinned  BY <1>0, <3>2 DEF ReplacePinned
    <3>3. CASE ProvisionRegistry  BY <1>0, <3>3 DEF ProvisionRegistry, Bytes
    <3>4. CASE ProvisionSignature  BY <1>0, <3>4 DEF ProvisionSignature
    <3>5. CASE Publish  BY <1>0, <3>5 DEF Publish
    <3>6. CASE Tick  BY <1>0, <3>6 DEF Tick
    <3> QED  BY <1>2, <3>1, <3>2, <3>3, <3>4, <3>5, <3>6 DEF TrustChange
  <2> QED  BY <2>1, <2>2
<1>3. ASSUME UNCHANGED imageTrustVars PROVE World' /\ Kept'
  <2>1. Entries' = Entries /\ TrustJobs' = TrustJobs
    BY <1>3 DEF imageTrustVars, Entries, TrustJobs
  <2> QED  BY <1>0, <1>3, <2>1 DEF imageTrustVars
<1>4. World' /\ Kept'  BY <1>1, <1>2, <1>3 DEF ImageTrustNext
<1> QED  BY <1>4 DEF TrustTypeOK

-----------------------------------------------------------------------------
(* What a command has found out *)

\* The evidence of a verification is what a run asks for, for the one rule that
\* applies.
LEMMA EvidenceSuffices ==
    ASSUME TrustInv, NEW j \in TrustJob, trustJob[j].step = "verify",
           NEW rule \in Rules(j), NEW entry,
           entry.local = FALSE, entry.repository = Reported(Wanted(j)),
           entry.digest = trustJob[j].entry.digest, entry.evidence = Evidence(j, rule)
    PROVE  AuthorizeResolvedImage(trustJob[j].policy, Wanted(j), entry)
<1> DEFINE p == trustJob[j].policy
           e == entry.evidence
<1>1. /\ OnItsWay(trustJob[j]) /\ p \in PolicyFile \union {Unmanaged}
      /\ WantedBy(trustJob[j]) = Wanted(j) /\ RulesOf(trustJob[j]) = Rules(j)
  BY DEF TrustInv, TrustTypeOK, TrustJobs, Wanted, WantedBy, Rules, RulesOf
<1>2. p # Unmanaged /\ p \in PolicyFile /\ AcceptedVersion(p) /\ AcceptedRules(p)
  BY <1>1, UnmanagedHasNoRules DEF OnItsWay, Loadable, Rules
<1>3. Managed(p)  BY <1>2, LoadedIsManaged
<1>4. /\ e.fingerprint = p /\ e.repository = CanonicalRepository(Wanted(j))
      /\ e.digest = entry.digest /\ e.mechanism = rule.mechanism /\ e.signer = rule.identity
      /\ e.verifier = p.cosign
  BY DEF Evidence
<1>5. e # NoEvidence
  BY <1>2, <1>4 DEF NoEvidence
<1>6. CanonicalRepository(entry.repository) = CanonicalRepository(Wanted(j))
  BY ReportedIsSame DEF Wanted, Ref, ImageOf
<1>7. rule.offline => p.root # "none"
  BY <1>1 DEF OnItsWay, PinsOf
<1>8. RuntimeTrust(p, rule, Wanted(j), entry)
  BY <1>4, <1>5, <1>6, <1>7 DEF RuntimeTrust
<1>9. \A r \in RulesFor(p, Wanted(j)) : r = rule
  BY <1>2, PolicyFileAssumption, OneRuleApplies DEF Rules
<1>10. AllowedRepository(p, Wanted(j)) /\ AllowedRepository(p, entry.repository)
  BY <1>1, <1>3, <1>6 DEF OnItsWay, AuthorizeLockTarget, AllowedRepository
<1> QED  BY <1>8, <1>9, <1>10 DEF AuthorizeResolvedImage

LEMMA OnItsWayStep ==
    ASSUME TrustInv, NEW j \in TrustJob, TrustCommand(j)
    PROVE  /\ \A k \in TrustJob \ {j} : trustJob'[k] = trustJob[k]
           /\ OnItsWay(trustJob'[j])
           /\ trustJob'[j].cmd # trustJob[j].cmd => trustJob'[j].cmd = "none" \/ LoadPolicy(j)
<1> DEFINE w == trustJob[j]
           v == trustJob'[j]
           Goal == /\ \A k \in TrustJob \ {j} : trustJob'[k] = trustJob[k]
                   /\ OnItsWay(v)
                   /\ v.cmd # w.cmd => v.cmd = "none" \/ LoadPolicy(j)
<1>0. trustJob \in [TrustJob -> TrustJobs] /\ w \in TrustJobs /\ OnItsWay(w)
  BY DEF TrustInv, TrustTypeOK
<1>1. ASSUME TrustEnds(j) PROVE Goal
  <2>1. v = NoTrustJob /\ \A k \in TrustJob \ {j} : trustJob'[k] = trustJob[k]
    BY <1>0, <1>1 DEF TrustEnds
  <2>2. OnItsWay(NoTrustJob)
    BY DEF NoTrustJob, OnItsWay, Loadable, RefreshSteps
  <2> QED  BY <2>1, <2>2 DEF NoTrustJob
<1>2. ASSUME NEW s, TrustGoes(j, s)
      PROVE  /\ \A k \in TrustJob \ {j} : trustJob'[k] = trustJob[k]
             /\ v = [w EXCEPT !.step = s]
             /\ v.step = s /\ v.cmd = w.cmd /\ v.policy = w.policy /\ v.registry = w.registry
             /\ v.local = w.local /\ v.entry = w.entry /\ v.captured = w.captured
  BY <1>0, <1>2 DEF TrustGoes, TrustJobs
<1>3. ASSUME LoadPolicy(j) PROVE Goal
  <2>1. /\ \A k \in TrustJob \ {j} : trustJob'[k] = trustJob[k]
        /\ v.step = "registry" /\ v.cmd \in {"run", "update", "updateLocal"}
        /\ v.policy = policyFile /\ v.captured = NoTrustJob.captured
        /\ policyFile = Unmanaged \/ Accepted(policyFile, clock)
    BY <1>0, <1>3 DEF LoadPolicy, NoTrustJob
  <2>2. Loadable(v.policy)
    BY <2>1 DEF Loadable, Accepted
  <2>3. DOMAIN NoTrustJob.captured = {}
    BY DEF NoTrustJob
  <2> QED  BY <1>3, <2>1, <2>2, <2>3 DEF OnItsWay, RefreshSteps
<1>4. ASSUME ReadRegistry(j) PROVE Goal
  <2>1. /\ \A k \in TrustJob \ {j} : trustJob'[k] = trustJob[k]
        /\ v.step = "signature" /\ v.cmd = w.cmd /\ v.policy = w.policy
        /\ v.captured = w.captured /\ w.step = "registry"
    BY <1>0, <1>4 DEF ReadRegistry, TrustStep, TrustJobs
  <2> QED  BY <1>0, <2>1 DEF OnItsWay, RefreshSteps
<1>5. ASSUME AuthenticateRegistry(j) PROVE Goal
  <2>1. ASSUME TrustGoes(j, "lock") PROVE Goal
    <3>1. w.step = "signature"  BY <1>5 DEF AuthenticateRegistry, TrustStep
    <3>2. /\ \A k \in TrustJob \ {j} : trustJob'[k] = trustJob[k]
          /\ v.step = "lock" /\ v.cmd = w.cmd /\ v.policy = w.policy /\ v.captured = w.captured
      BY <1>2, <2>1
    <3> QED  BY <1>0, <3>1, <3>2 DEF OnItsWay, RefreshSteps
  <2> QED  BY <1>1, <1>5, <2>1 DEF AuthenticateRegistry
<1>6. ASSUME AuthorizeTarget(j) PROVE Goal
  <2>1. ASSUME ~TrustEnds(j) PROVE Goal
    <3>1. /\ w.step = "lock" /\ w.cmd \in {"update", "updateLocal"} /\ TrustGoes(j, "pull")
          /\ AuthorizeLockTarget(w.policy, WantedBy(w), w.local)
      BY <1>6, <2>1 DEF AuthorizeTarget, TrustStep, Updating, Wanted, WantedBy
    <3>2. AuthorizeLockTarget(v.policy, WantedBy(v), v.local)
      BY <1>2, <3>1 DEF WantedBy
    <3>3. /\ \A k \in TrustJob \ {j} : trustJob'[k] = trustJob[k]
          /\ v.step = "pull" /\ v.cmd = w.cmd /\ v.policy = w.policy /\ v.captured = w.captured
      BY <1>2, <3>1
    <3> QED  BY <1>0, <3>1, <3>2, <3>3 DEF OnItsWay, RefreshSteps
  <2> QED  BY <1>1, <2>1
<1>7. ASSUME ResolveTarget(j) PROVE Goal
  <2>1. ASSUME ~TrustEnds(j) PROVE Goal
    <3> DEFINE e == [NoLockEntry EXCEPT !.local = w.local, !.digest = upstream.digest,
                        !.repository = IF w.local THEN Invalid ELSE Reported(WantedBy(w))]
               s == IF w.local \/ RulesOf(w) = {} THEN "write" ELSE "pins"
    <3>1. w.step = "pull" /\ trustJob' = [trustJob EXCEPT ![j].entry = e, ![j].step = s]
      BY <1>7, <2>1 DEF ResolveTarget, TrustStep, Wanted, WantedBy, Rules, RulesOf
    <3>2. /\ e.local = w.local
          /\ e.repository = IF w.local THEN Invalid ELSE Reported(WantedBy(w))
      BY DEF NoLockEntry
    <3> HIDE DEF e
    <3>3. /\ \A k \in TrustJob \ {j} : trustJob'[k] = trustJob[k]
          /\ v.step = s /\ v.entry = e /\ v.cmd = w.cmd /\ v.policy = w.policy
          /\ v.registry = w.registry /\ v.local = w.local /\ v.captured = w.captured
      BY <1>0, <3>1 DEF TrustJobs
    <3>4. AuthorizeLockTarget(w.policy, WantedBy(w), w.local) /\ w.local \in BOOLEAN
      BY <1>0, <3>1 DEF OnItsWay, TrustJobs
    <3>5. ASSUME s = "write" PROVE AuthorizeResolvedImage(w.policy, WantedBy(w), e)
      <4>1. CASE w.local
        BY <3>2, <3>4, <4>1 DEF AuthorizeLockTarget, AuthorizeResolvedImage
      <4>2. CASE ~w.local
        <5>1. RulesFor(w.policy, WantedBy(w)) = {}
          BY <3>5, <4>2 DEF RulesOf
        <5>2. CanonicalRepository(e.repository) = CanonicalRepository(WantedBy(w))
          BY <3>2, <4>2, WantedIsRef, ReportedIsSame
        <5>3. ~e.local  BY <3>2, <4>2
        <5> QED
          BY <3>4, <4>2, <5>1, <5>2, <5>3
          DEF AuthorizeLockTarget, AuthorizeResolvedImage, AllowedRepository
      <4> QED  BY <3>4, <4>1, <4>2
    <3>6. WantedBy(v) = WantedBy(w)  BY <3>3 DEF WantedBy
    <3>7. s \in {"write", "pins"} /\ (s = "pins" => ~w.local)
      OBVIOUS
    <3> HIDE DEF s
    <3>8. w.cmd \in {"update", "updateLocal"} /\ ("root" \in DOMAIN w.captured => w.policy.root # "none")
          /\ Loadable(w.policy)
      BY <1>0, <3>1 DEF OnItsWay, RefreshSteps
    <3> QED
      BY <3>2, <3>3, <3>4, <3>5, <3>6, <3>7, <3>8 DEF OnItsWay
  <2> QED  BY <1>1, <2>1
<1>8. ASSUME NEW f \in DOMAIN pinned, AuthenticatePinned(j, f) PROVE Goal
  <2>1. ASSUME ~TrustEnds(j) PROVE Goal
    <3> DEFINE c == [g \in DOMAIN w.captured \union {f} |->
                        IF g = f THEN pinned[f] ELSE w.captured[g]]
    <3>1. /\ w.step = "pins" /\ trustJob' = [trustJob EXCEPT ![j].captured = c]
          /\ f = "root" => w.policy.root # "none"
      BY <1>8, <2>1 DEF AuthenticatePinned, TrustStep, Fetched
    <3>2. DOMAIN c = DOMAIN w.captured \union {f}
      OBVIOUS
    <3> HIDE DEF c
    <3>3. /\ \A k \in TrustJob \ {j} : trustJob'[k] = trustJob[k]
          /\ v.step = "pins" /\ v.entry = w.entry /\ v.cmd = w.cmd /\ v.policy = w.policy
          /\ v.registry = w.registry /\ v.local = w.local /\ v.captured = c
      BY <1>0, <3>1 DEF TrustJobs
    <3> QED  BY <1>0, <3>1, <3>2, <3>3 DEF OnItsWay, WantedBy, RefreshSteps
  <2> QED  BY <1>1, <2>1
<1>9. ASSUME DownloadBundles(j) PROVE Goal
  <2>1. ASSUME ~TrustEnds(j) PROVE Goal
    <3>1. /\ \A k \in TrustJob \ {j} : trustJob'[k] = trustJob[k]
          /\ v.step = "verify" /\ v.entry = w.entry /\ v.cmd = w.cmd /\ v.policy = w.policy
          /\ v.registry = w.registry /\ v.local = w.local /\ v.captured = w.captured
      BY <1>0, <1>9, <2>1 DEF DownloadBundles, TrustJobs
    <3>2. w.step = "pins" /\ PinsOf(w) \subseteq DOMAIN w.captured
      BY <1>9 DEF DownloadBundles, TrustStep, Pins, PinsOf, Fetched, Rules, RulesOf, Wanted,
         WantedBy
    <3>3. PinsOf(v) = PinsOf(w) /\ WantedBy(v) = WantedBy(w)
      BY <3>1 DEF PinsOf, RulesOf, WantedBy
    <3> QED  BY <1>0, <3>1, <3>2, <3>3 DEF OnItsWay, RefreshSteps
  <2> QED  BY <1>1, <2>1
<1>10. ASSUME VerifyBundles(j) PROVE Goal
  <2>1. ASSUME ~TrustEnds(j) PROVE Goal
    <3>1. PICK rule \in Rules(j) :
             trustJob' = [trustJob EXCEPT ![j].step = "write", ![j].entry.evidence = Evidence(j, rule)]
      BY <1>10, <2>1 DEF VerifyBundles
    <3>2. w.step = "verify"  BY <1>10 DEF VerifyBundles, TrustStep
    <3> DEFINE e == [w.entry EXCEPT !.evidence = Evidence(j, rule)]
    <3>3. /\ \A k \in TrustJob \ {j} : trustJob'[k] = trustJob[k]
          /\ v.step = "write" /\ v.entry = e /\ v.cmd = w.cmd /\ v.policy = w.policy
          /\ v.registry = w.registry /\ v.local = w.local /\ v.captured = w.captured
      BY <1>0, <3>1 DEF TrustJobs
    <3>4. /\ e.local = FALSE /\ e.repository = Reported(Wanted(j))
          /\ e.digest = w.entry.digest /\ e.evidence = Evidence(j, rule)
      BY <1>0, <3>2 DEF TrustJobs, Entries, OnItsWay, Wanted, WantedBy
    <3> HIDE DEF e
    <3>5. AuthorizeResolvedImage(w.policy, Wanted(j), e)
      BY <3>2, <3>4, EvidenceSuffices
    <3>6. AuthorizeResolvedImage(v.policy, WantedBy(v), v.entry)
      BY <3>3, <3>5 DEF Wanted, WantedBy
    <3> QED  BY <1>0, <3>2, <3>3, <3>6 DEF OnItsWay, RefreshSteps
  <2> QED  BY <1>1, <2>1
<1>11. ASSUME RefreshFails(j) \/ WrittenEntry(j) \/ RunTrusted(j) PROVE Goal
  BY <1>1, <1>11 DEF RefreshFails, WrittenEntry, RunTrusted
<1>12. ASSUME WriteEntry(j) PROVE Goal
  <2>1. /\ \A k \in TrustJob \ {j} : trustJob'[k] = trustJob[k]
        /\ v.step = "written" /\ v.cmd = w.cmd /\ v.policy = w.policy
        /\ v.captured = NoTrustJob.captured /\ w.step = "write"
    BY <1>0, <1>12 DEF WriteEntry, TrustStep, TrustJobs
  <2>2. DOMAIN NoTrustJob.captured = {}
    BY DEF NoTrustJob
  <2> QED  BY <1>0, <2>1, <2>2 DEF OnItsWay, RefreshSteps
<1>13. ASSUME AuthorizeRun(j) PROVE Goal
  <2>1. ASSUME ~TrustEnds(j) PROVE Goal
    <3>1. /\ \A k \in TrustJob \ {j} : trustJob'[k] = trustJob[k]
          /\ v.step = "run" /\ v.cmd = w.cmd /\ v.policy = w.policy /\ v.captured = w.captured
          /\ w.step = "lock"
      BY <1>0, <1>13, <2>1 DEF AuthorizeRun, TrustStep, TrustJobs
    <3> QED  BY <1>0, <3>1 DEF OnItsWay, RefreshSteps
  <2> QED  BY <1>1, <2>1
<1> QED
  BY <1>3, <1>4, <1>5, <1>6, <1>7, <1>8, <1>9, <1>10, <1>11, <1>12, <1>13 DEF TrustCommand

\* From the authentication of the registry on, a command keeps its policy, the
\* registry it has read and the moment it began.
LEMMA JobFrame ==
    ASSUME TrustInv, NEW j \in TrustJob, TrustCommand(j)
    PROVE  /\ UNCHANGED clock
           /\ \/ TrustEnds(j) /\ trustJob'[j] = NoTrustJob
              \/ /\ LoadPolicy(j) /\ trustJob'[j].step = "registry"
                 /\ trustJob'[j].since = clock
              \/ /\ ReadRegistry(j) /\ trustJob'[j].step = "signature"
                 /\ trustJob'[j].since = trustJob[j].since
              \/ /\ trustJob'[j].policy = trustJob[j].policy
                 /\ trustJob'[j].registry = trustJob[j].registry
                 /\ trustJob'[j].cmd = trustJob[j].cmd
                 /\ trustJob'[j].since = trustJob[j].since
                 /\ trustJob[j].step \notin {"idle", "registry"}
                 /\ trustJob'[j].step # "signature"
                 /\ trustJob[j].step = "signature" =>
                       AuthenticateRegistry(j) /\ TrustGoes(j, "lock")
                 /\ trustJob'[j].step = "run" => AuthorizeRun(j)
                 /\ trustJob'[j].step = "written" => WriteEntry(j)
<1> DEFINE w == trustJob[j]
           v == trustJob'[j]
           Same == /\ v.policy = w.policy /\ v.registry = w.registry /\ v.cmd = w.cmd
                   /\ v.since = w.since
<1>0. trustJob \in [TrustJob -> TrustJobs] /\ w \in TrustJobs
  BY DEF TrustInv, TrustTypeOK
<1>1. UNCHANGED clock
  BY DEF TrustCommand, LoadPolicy, ReadRegistry, AuthenticateRegistry, AuthorizeTarget,
     ResolveTarget, AuthenticatePinned, DownloadBundles, VerifyBundles, RefreshFails,
     WriteEntry, WrittenEntry, AuthorizeRun, RunTrusted, trustWorld
<1>2. TrustEnds(j) => v = NoTrustJob
  BY <1>0 DEF TrustEnds
<1>3. CASE LoadPolicy(j)
  BY <1>0, <1>1, <1>3 DEF LoadPolicy, NoTrustJob
<1>4. CASE ReadRegistry(j)
  BY <1>0, <1>1, <1>4 DEF ReadRegistry, TrustJobs
<1>5. ASSUME ~TrustEnds(j), ~LoadPolicy(j), ~ReadRegistry(j)
      PROVE  /\ Same /\ w.step \notin {"idle", "registry"} /\ v.step # "signature"
             /\ w.step = "signature" => AuthenticateRegistry(j) /\ TrustGoes(j, "lock")
             /\ v.step = "run" => AuthorizeRun(j)
             /\ v.step = "written" => WriteEntry(j)
  <2>1. CASE AuthenticateRegistry(j)
    <3>1. w.step = "signature" /\ TrustGoes(j, "lock")
      BY <1>5, <2>1 DEF AuthenticateRegistry, TrustStep
    <3> QED  BY <1>0, <2>1, <3>1 DEF TrustGoes, TrustJobs
  <2>2. CASE AuthorizeTarget(j)
    <3>1. w.step = "lock" /\ TrustGoes(j, "pull")
      BY <1>5, <2>2 DEF AuthorizeTarget, TrustStep
    <3> QED  BY <1>0, <3>1 DEF TrustGoes, TrustJobs
  <2>3. CASE ResolveTarget(j)
    <3>1. w.step = "pull" /\ \E e : \E s \in {"write", "pins"} :
              trustJob' = [trustJob EXCEPT ![j].entry = e, ![j].step = s]
      BY <1>5, <2>3 DEF ResolveTarget, TrustStep
    <3> QED  BY <1>0, <3>1 DEF TrustJobs
  <2>4. CASE \E f \in DOMAIN pinned : AuthenticatePinned(j, f)
    <3>1. w.step = "pins" /\ \E c : trustJob' = [trustJob EXCEPT ![j].captured = c]
      BY <1>5, <2>4 DEF AuthenticatePinned, TrustStep
    <3> QED  BY <1>0, <3>1 DEF TrustJobs
  <2>5. CASE DownloadBundles(j)
    <3>1. w.step = "pins" /\ \E b :
             trustJob' = [trustJob EXCEPT ![j].bundles = b, ![j].step = "verify"]
      BY <1>5, <2>5 DEF DownloadBundles, TrustStep
    <3> QED  BY <1>0, <3>1 DEF TrustJobs
  <2>6. CASE VerifyBundles(j)
    <3>1. w.step = "verify" /\ \E e :
             trustJob' = [trustJob EXCEPT ![j].step = "write", ![j].entry.evidence = e]
      BY <1>5, <2>6 DEF VerifyBundles, TrustStep
    <3> QED  BY <1>0, <3>1 DEF TrustJobs
  <2>7. CASE WriteEntry(j)
    <3>1. w.step = "write" /\ \E e, c :
             trustJob' = [trustJob EXCEPT ![j].step = "written", ![j].entry = e,
                                          ![j].captured = c, ![j].bundles = {}]
      BY <2>7 DEF WriteEntry, TrustStep
    <3> QED  BY <1>0, <2>7, <3>1 DEF TrustJobs
  <2>8. CASE AuthorizeRun(j)
    <3>1. w.step = "lock" /\ \E e :
             trustJob' = [trustJob EXCEPT ![j].entry = e, ![j].step = "run"]
      BY <1>5, <2>8 DEF AuthorizeRun, TrustStep
    <3> QED  BY <1>0, <2>8, <3>1 DEF TrustJobs
  <2>9. ~(RefreshFails(j) \/ WrittenEntry(j) \/ RunTrusted(j))
    BY <1>5 DEF RefreshFails, WrittenEntry, RunTrusted
  <2> QED
    BY <1>5, <2>1, <2>2, <2>3, <2>4, <2>5, <2>6, <2>7, <2>8, <2>9 DEF TrustCommand
<1> QED  BY <1>1, <1>2, <1>3, <1>4, <1>5

\* The steps of the world around leave every job and the lock alone, and time
\* does not run backwards.
LEMMA AroundFrame ==
    ASSUME TrustInv, TrustChange \/ UNCHANGED imageTrustVars
    PROVE  UNCHANGED <<trustJob, imageLock, verified>> /\ clock <= clock'
<1>1. clock \in Nat  BY DEF TrustInv, TrustTypeOK
<1> QED
  BY <1>1 DEF TrustChange, InstallPolicy, ReplacePinned, ProvisionRegistry,
     ProvisionSignature, Publish, Tick, Outside, imageTrustVars

LEMMA TrustInvStep ==
    TrustInv /\ [ImageTrustNext]_imageTrustVars => TrustInv'
<1> SUFFICES ASSUME TrustInv, [ImageTrustNext]_imageTrustVars PROVE TrustInv'
  OBVIOUS
<1> DEFINE Each == \A j \in TrustJob : OnItsWay(trustJob[j]) /\ trustJob[j].since <= clock
<1>0. TrustTypeOK /\ Each /\ OneRefresh /\ TrustTypeOK'
  BY TrustTypeStep DEF TrustInv
<1>1. ASSUME NEW j \in TrustJob, TrustCommand(j) PROVE Each' /\ OneRefresh'
  <2>1. OnItsWay(trustJob'[j]) /\ \A k \in TrustJob \ {j} : trustJob'[k] = trustJob[k]
    BY <1>1, OnItsWayStep
  <2>2. UNCHANGED clock /\ trustJob'[j].since <= clock
    BY <1>0, <1>1, JobFrame DEF NoTrustJob, TrustTypeOK
  <2>3. Each'  BY <1>0, <2>1, <2>2
  <2>4. CASE LoadPolicy(j)
    <3>1. PICK c \in {"run", "update", "updateLocal"} :
             /\ c # "run" => \A k \in TrustJob : trustJob[k].cmd \in {"none", "run"}
             /\ trustJob'[j].cmd = c
      BY <1>0, <2>4 DEF LoadPolicy, NoTrustJob, TrustTypeOK
    <3>2. c = "run" => ~Updating(j)'
      BY <3>1 DEF Updating
    <3>3. c # "run" => \A k \in TrustJob \ {j} : ~Updating(k)'
      BY <2>1, <3>1 DEF Updating
    <3> QED  BY <1>0, <2>1, <2>3, <3>2, <3>3 DEF OneRefresh, Updating
  <2>5. CASE ~LoadPolicy(j)
    <3>1. Updating(j)' => Updating(j)
      BY <1>1, <2>5, OnItsWayStep DEF Updating
    <3> QED  BY <1>0, <2>1, <2>3, <3>1 DEF OneRefresh, Updating
  <2> QED  BY <2>4, <2>5
<1>2. ASSUME TrustChange \/ UNCHANGED imageTrustVars PROVE Each' /\ OneRefresh'
  <2>1. \A j \in TrustJob : trustJob[j].since \in Nat
    BY <1>0 DEF TrustTypeOK, TrustJobs
  <2>2. UNCHANGED <<trustJob, imageLock, verified>> /\ clock <= clock' /\ clock \in Nat /\ clock' \in Nat
    BY <1>0, <1>2, AroundFrame DEF TrustTypeOK
  <2> QED  BY <1>0, <2>1, <2>2 DEF OneRefresh, Updating
<1> QED  BY <1>0, <1>1, <1>2 DEF ImageTrustNext, TrustInv

LEMMA TrustInvariant == ImageTrustSpec => []TrustInv
<1>1. ImageTrustInit => TrustInv
  BY TrustInitTypes DEF ImageTrustInit, TrustInv, NoTrustJob, OnItsWay, Loadable, RefreshSteps,
     OneRefresh, Updating
<1> QED  BY <1>1, TrustInvStep, PTL DEF ImageTrustSpec

-----------------------------------------------------------------------------
(* The promises *)

\* What a run has been allowed is the digest of a genuine verification.
LEMMA AllowedIsVerified ==
    ASSUME TrustInv, NEW j \in TrustJob, AuthorizeRun(j), ~TrustEnds(j),
           NEW rule \in Rules(j)
    PROVE  /\ ~RunEntry(j).local
           /\ \E e \in verified :
                 /\ e.fingerprint = trustJob[j].policy /\ e.digest = RunEntry(j).digest
                 /\ e.repository = CanonicalRepository(Wanted(j)) /\ e.signer = rule.identity
<1> DEFINE p == trustJob[j].policy
<1>1. RunEntry(j) \in Entries /\ OnItsWay(trustJob[j])
  BY DEF TrustInv, TrustTypeOK, RunEntry, Wanted, ImageOf, Ref
<1>2. Managed(p) /\ rule \in RulesFor(p, Wanted(j))
  BY <1>1, UnmanagedHasNoRules, LoadedIsManaged DEF OnItsWay, Loadable, Rules
<1>3. AuthorizeResolvedImage(p, Wanted(j), RunEntry(j))
  BY <1>2 DEF AuthorizeRun, AuthorizeImage
<1>4. ~RunEntry(j).local /\ RuntimeTrust(p, rule, Wanted(j), RunEntry(j))
  BY <1>1, <1>2, <1>3 DEF AuthorizeResolvedImage, LocalAllowed, Entries
<1>5. RunEntry(j).evidence \in verified
  BY <1>1, <1>4 DEF RuntimeTrust, Entries
<1> QED  BY <1>4, <1>5 DEF RuntimeTrust

\* Where the policy a run has loaded has a rule for its image, what runs is the
\* digest that the verifier pinned by that very document verified for that rule,
\* whatever the administrator, the publishers and the clock do in between.
THEOREM RunsAreVerified == ImageTrustSpec => []RunsVerified
<1>1. ImageTrustInit => RunsVerified
  BY DEF ImageTrustInit, RunsVerified, TrustStep, NoTrustJob
<1>2. TrustInv /\ RunsVerified /\ [ImageTrustNext]_imageTrustVars => RunsVerified'
  <2> SUFFICES ASSUME TrustInv, RunsVerified, [ImageTrustNext]_imageTrustVars,
                      NEW j \in TrustJob, trustJob'[j].step = "run", NEW rule \in Rules(j)'
               PROVE  /\ ~trustJob'[j].entry.local
                      /\ \E e \in verified' :
                            /\ e.fingerprint = trustJob'[j].policy
                            /\ e.digest = trustJob'[j].entry.digest
                            /\ e.repository = CanonicalRepository(Wanted(j)')
                            /\ e.signer = rule.identity
    BY DEF RunsVerified, TrustStep
  <2>0. verified \subseteq verified'  BY EvidenceGrows
  <2>1. CASE trustJob'[j] = trustJob[j]
    BY <2>0, <2>1 DEF RunsVerified, TrustStep, Rules, Wanted
  <2>2. CASE AuthorizeRun(j)
    <3>1. ~TrustEnds(j)
      BY DEF TrustEnds, TrustInv, TrustTypeOK, NoTrustJob
    <3>2. /\ trustJob'[j].entry = RunEntry(j) /\ trustJob'[j].policy = trustJob[j].policy
          /\ trustJob'[j].registry = trustJob[j].registry
      BY <2>2, <3>1 DEF AuthorizeRun, TrustInv, TrustTypeOK, TrustJobs
    <3>3. Rules(j)' = Rules(j) /\ Wanted(j)' = Wanted(j)
      BY <3>2 DEF Rules, Wanted
    <3> QED  BY <2>0, <2>2, <3>1, <3>2, <3>3, AllowedIsVerified
  <2>3. trustJob'[j] = trustJob[j] \/ AuthorizeRun(j)
    <3>1. ASSUME NEW k \in TrustJob, TrustCommand(k)
          PROVE  trustJob'[j] = trustJob[j] \/ AuthorizeRun(j)
      <4>1. CASE k = j
        BY <3>1, <4>1, JobFrame DEF NoTrustJob
      <4>2. CASE k # j
        BY <3>1, <4>2, OnItsWayStep
      <4> QED  BY <4>1, <4>2
    <3> QED  BY <3>1, AroundFrame DEF ImageTrustNext
  <2> QED  BY <2>1, <2>2, <2>3
<1> QED  BY <1>1, <1>2, TrustInvariant, PTL DEF ImageTrustSpec

\* The entry a refresh has written authorizes its image under the policy the
\* refresh was made with: the evidence is complete, and the one rule that
\* applies is the one it is for.
THEOREM RefreshesAuthorize == ImageTrustSpec => []RefreshAuthorizes
<1>1. ImageTrustInit => RefreshAuthorizes
  BY DEF ImageTrustInit, RefreshAuthorizes, TrustStep, NoTrustJob
<1>2. TrustInv /\ RefreshAuthorizes /\ [ImageTrustNext]_imageTrustVars => RefreshAuthorizes'
  <2> SUFFICES ASSUME TrustInv, RefreshAuthorizes, [ImageTrustNext]_imageTrustVars,
                      NEW j \in TrustJob, trustJob'[j].step = "written"
               PROVE  AuthorizeResolvedImage(trustJob'[j].policy, Wanted(j)', RunEntry(j)')
    BY DEF RefreshAuthorizes, TrustStep
  <2>0. trustJob \in [TrustJob -> TrustJobs] /\ imageLock \in [Ref -> Entries]
        /\ Wanted(j) \in Ref /\ OnItsWay(trustJob[j])
    BY DEF TrustInv, TrustTypeOK, Wanted, ImageOf, Ref
  <2>1. CASE trustJob'[j] = trustJob[j] /\ imageLock' = imageLock
    BY <2>1 DEF RefreshAuthorizes, TrustStep, RunEntry, Wanted
  <2>2. CASE WriteEntry(j)
    <3>1. /\ trustJob'[j].policy = trustJob[j].policy
          /\ trustJob'[j].registry = trustJob[j].registry
      BY <2>0, <2>2 DEF WriteEntry, TrustJobs
    <3>2. Wanted(j)' = Wanted(j)  BY <3>1 DEF Wanted
    <3>3. RunEntry(j)' = trustJob[j].entry
      BY <2>0, <2>2, <3>2 DEF WriteEntry, RunEntry
    <3>4. AuthorizeResolvedImage(trustJob[j].policy, Wanted(j), trustJob[j].entry)
      BY <2>0, <2>2 DEF WriteEntry, TrustStep, OnItsWay, Wanted, WantedBy
    <3> QED  BY <3>1, <3>2, <3>3, <3>4
  <2>3. WriteEntry(j) \/ (trustJob'[j] = trustJob[j] /\ imageLock' = imageLock)
    <3>1. ASSUME NEW k \in TrustJob, TrustCommand(k), ~WriteEntry(j)
          PROVE  trustJob'[j] = trustJob[j] /\ imageLock' = imageLock
      <4>1. k # j /\ trustJob'[j] = trustJob[j]
        BY <3>1, JobFrame, OnItsWayStep DEF NoTrustJob
      <4>2. ASSUME WriteEntry(k) PROVE FALSE
        <5>1. OnItsWay(trustJob[k]) /\ trustJob[k].step = "write"
          BY <4>2 DEF WriteEntry, TrustStep, TrustInv
        <5>2. Updating(k) /\ Updating(j)
          BY <2>0, <4>1, <5>1 DEF OnItsWay, RefreshSteps, Updating
        <5> QED  BY <4>1, <5>2 DEF TrustInv, OneRefresh
      <4>3. imageLock' = imageLock
        BY <3>1, <4>2 DEF TrustCommand, LoadPolicy, ReadRegistry, AuthenticateRegistry,
           AuthorizeTarget, ResolveTarget, AuthenticatePinned, DownloadBundles, VerifyBundles,
           RefreshFails, WrittenEntry, AuthorizeRun, RunTrusted
      <4> QED  BY <4>1, <4>3
    <3> QED  BY <3>1, AroundFrame DEF ImageTrustNext
  <2> QED  BY <2>1, <2>2, <2>3
<1> QED  BY <1>1, <1>2, TrustInvariant, PTL DEF ImageTrustSpec

\* Under a policy that wants a signed registry a command acts on the signed
\* bytes, and the key was trusted at a moment after the command began, although
\* registry, signature and policy are replaced one after the other.
THEOREM ActsOnWhatWasSigned == ImageTrustSpec => []ActsOnSignedRegistry
<1> DEFINE Early == {"idle", "registry", "signature"}
           Signed(w) == w.policy.signed /\ w.step \notin Early =>
                            /\ w.registry = "approved"
                            /\ \E k \in w.policy.keys : \E t \in w.since .. clock :
                                  Active(w.policy, k, t)
<1>1. ImageTrustInit => ActsOnSignedRegistry
  BY DEF ImageTrustInit, ActsOnSignedRegistry, NoTrustJob
<1>2. TrustInv /\ ActsOnSignedRegistry /\ [ImageTrustNext]_imageTrustVars
          => ActsOnSignedRegistry'
  <2> SUFFICES ASSUME TrustInv, ActsOnSignedRegistry, [ImageTrustNext]_imageTrustVars,
                      NEW j \in TrustJob
               PROVE  Signed(trustJob[j])'
    BY DEF ActsOnSignedRegistry
  <2> DEFINE w == trustJob[j]
             v == trustJob'[j]
  <2>0. /\ clock \in Nat /\ clock' \in Nat /\ Signed(w) /\ w.since \in Nat /\ w.since <= clock
        /\ signatureFile \in [key : {"k1", "k2"}, of : {"approved"}] \union {NoSignature}
    BY TrustTypeStep DEF TrustInv, TrustTypeOK, TrustJobs, ActsOnSignedRegistry
  <2>1. ASSUME v = w, clock <= clock' PROVE Signed(w)'
    <3>1. w.since .. clock \subseteq w.since .. clock'
      BY <2>0, <2>1
    <3> QED  BY <2>0, <2>1, <3>1
  <2>2. ASSUME AuthenticateRegistry(j), TrustGoes(j, "lock"), UNCHANGED clock PROVE Signed(w)'
    <3>1. /\ v.policy = w.policy /\ v.registry = w.registry /\ v.since = w.since
          /\ v.step = "lock"
      BY <2>2 DEF TrustGoes, TrustInv, TrustTypeOK, TrustJobs
    <3>2. AuthenticRegistry(w.policy, w.registry, signatureFile, clock)
      <4>1. ~TrustEnds(j)
        BY <3>1 DEF TrustEnds, NoTrustJob, TrustInv, TrustTypeOK
      <4> QED  BY <2>2, <4>1 DEF AuthenticateRegistry
    <3>3. ASSUME w.policy.signed
          PROVE  w.registry = "approved" /\ \E k \in w.policy.keys : Active(w.policy, k, clock)
      BY <2>0, <3>2, <3>3 DEF AuthenticRegistry
    <3>4. clock \in w.since .. clock  BY <2>0
    <3> QED  BY <2>2, <3>1, <3>3, <3>4
  <2>3. ASSUME NEW k \in TrustJob, TrustCommand(k) PROVE Signed(w)'
    <3>1. UNCHANGED clock  BY <2>3, JobFrame
    <3>2. CASE k # j
      BY <2>0, <2>1, <2>3, <3>1, <3>2, OnItsWayStep
    <3>3. CASE k = j
      <4>1. CASE v.step \in Early
        BY <4>1
      <4>2. CASE w.step = "signature" /\ v.step \notin Early
        BY <2>2, <2>3, <3>1, <3>3, <4>2, JobFrame DEF NoTrustJob
      <4>3. CASE w.step \notin Early /\ v.step \notin Early
        <5>1. /\ v.policy = w.policy /\ v.registry = w.registry /\ v.since = w.since
          BY <2>3, <3>3, <4>3, JobFrame DEF NoTrustJob
        <5> QED  BY <2>0, <3>1, <4>3, <5>1
      <4>4. w.step \in {"idle", "registry"} => v.step \in Early
        BY <2>3, <3>3, JobFrame DEF NoTrustJob
      <4> QED  BY <4>1, <4>2, <4>3, <4>4
    <3> QED  BY <3>2, <3>3
  <2>4. ASSUME TrustChange \/ UNCHANGED imageTrustVars PROVE Signed(w)'
    BY <2>1, <2>4, AroundFrame
  <2> QED  BY <2>3, <2>4 DEF ImageTrustNext
<1> QED  BY <1>1, <1>2, TrustInvariant, PTL DEF ImageTrustSpec

-----------------------------------------------------------------------------
(* Overlay trust *)

Commands == Deciding \union {"run"}
Looking == {"find", "load", "readStore", "readBackup", "judge"}
Saving == {"dropBak", "moveAside", "publish", "putBack", "cleanBak"}
StepsOf(cmd) ==
    IF cmd = "run" THEN Looking \union {"run"}
    ELSE IF cmd = "trust"
         THEN Looking \union Saving \union {"review", "recheck", "recover", "shims", "recheckShims"}
         ELSE IF cmd = "untrust" THEN {"find", "recover"} \union Saving ELSE {"idle"}
Stores == Store \union {NoStore}

VisitType ==
    [cmd : Commands \union {"none"},
     step : {"idle", "run", "review", "recheck", "recover", "shims", "recheckShims"}
            \union Looking \union Saving,
     global : SUBSET {"format"}, at : Directory \union {""}, seen : ValidOverlay \union {"absent"},
     store : Stores, new : Stores]

OverlayWorldTypeOK ==
    /\ overlay \in [Directory -> Content]
    /\ globalTools \in SUBSET {"format"}
    /\ shims \in SUBSET {"lint", "format"}
    /\ edits \in Nat /\ overlayCommands \in Nat

OverlayTypeOK ==
    /\ OverlayWorldTypeOK
    /\ trustFile \in Stores /\ trustBak \in Stores
    /\ visit \in [OverlayJob -> VisitType]
    /\ approved \in SUBSET (Directory \X ValidOverlay)
    /\ stood \in [OverlayJob -> SUBSET (Directory \X ValidOverlay)]

\* What a command has found out on its way to the step it is at.
OnItsVisit(w) ==
    /\ w.step \in StepsOf(w.cmd)
    /\ w.step # "idle" => w.at \in Directory
    /\ w.step \notin {"idle", "find", "load"} => w.at \notin Enclosing
    /\ w.cmd \in {"run", "trust"} /\ w.step \notin {"find", "load"} =>
          w.seen \in ValidOverlay /\ ToolNames(w.seen) \intersect w.global = {}
    /\ w.step = "judge" => w.store \in Store

\* A run judges by records each of which was approved while it was running.
RunKnows(w, known) ==
    w.cmd = "run" =>
        /\ approved \subseteq known
        /\ w.step = "readBackup" /\ trustBak # NoStore => RecordsOf(trustBak) \subseteq known
        /\ w.step = "judge" => RecordsOf(w.store) \subseteq known
        /\ w.step = "run" => <<w.at, w.seen>> \in known

\* A decision knows the records it edits, and where they are.
Decided(w) == [Recorded EXCEPT ![w.at] = IF w.cmd = "trust" THEN w.seen ELSE NoRecord]
DecisionKnows(w) ==
    /\ w.cmd = "trust" /\ w.step \in {"recheck", "recover", "shims", "recheckShims"} \union (Saving \ {"cleanBak"}) =>
          <<w.at, w.seen>> \in approved
    /\ w.step \in {"shims", "recheckShims"} => w.store = Recorded
    /\ w.step \in {"shims", "recheckShims", "dropBak"} => (trustFile = NoStore => trustBak = NoStore)
    /\ w.step \in Saving \ {"cleanBak"} => w.new = Decided(w)
    /\ w.step \in {"moveAside", "cleanBak"} => trustFile # NoStore
    /\ w.step \in {"publish", "putBack"} => trustFile = NoStore

OneDecides ==
    \A j, k \in OverlayJob : visit[j].cmd \in Deciding /\ visit[k].cmd \in Deciding => j = k

OverlayInv ==
    /\ OverlayTypeOK
    /\ RecordsOf(Recorded) \subseteq approved
    /\ \A j \in OverlayJob : OnItsVisit(visit[j]) /\ RunKnows(visit[j], stood[j]) /\ DecisionKnows(visit[j])
    /\ OneDecides
-----------------------------------------------------------------------------
(* Stores *)

\* A missing file is no store, and an empty store is one.
LEMMA StoresDiffer == NoStore \notin Store /\ EmptyStore \in Store
<1>1. PICK p \in Directory : TRUE
  BY ProjectTrustAssumption
<1>2. NoStore[p] = "no file"
  BY DEF NoStore
<1>3. \A s \in Store : s[p] # "no file"
  BY DEF Store, ValidOverlay, NoRecord
<1> QED  BY <1>2, <1>3 DEF EmptyStore, Store

\* What counts is a store, whichever of the two files has it.
LEMMA RecordedIsStore ==
    ASSUME trustFile \in Stores, trustBak \in Stores
    PROVE  Recorded \in Store
BY StoresDiffer DEF Stores, Recorded

\* A decision about one project gives a store, with the other records kept.
LEMMA DecisionEdits ==
    ASSUME NEW s \in Store, NEW p \in Directory, NEW c \in ValidOverlay \union {NoRecord}
    PROVE  /\ [s EXCEPT ![p] = c] \in Store
           /\ \A q \in Directory \ {p} : [s EXCEPT ![p] = c][q] = s[q]
           /\ [s EXCEPT ![p] = c][p] = c
BY DEF Store

-----------------------------------------------------------------------------
(* Types *)

LEMMA VisitUpdates ==
    ASSUME NEW v \in VisitType
    PROVE  /\ \A st \in {"run", "review", "recheck", "recover", "shims", "recheckShims"}
                         \union Looking \union Saving :
                  [v EXCEPT !.step = st] \in VisitType
           /\ \A p \in Directory : [v EXCEPT !.at = p] \in VisitType
           /\ \A c \in ValidOverlay :
                  [v EXCEPT !.seen = c, !.step = "readStore"] \in VisitType
           /\ \A s \in Stores, st \in Looking : [v EXCEPT !.store = s, !.step = st] \in VisitType
           /\ \A s \in Stores, n \in Stores, st \in {"shims", "dropBak"} :
                  [v EXCEPT !.store = s, !.new = n, !.step = st] \in VisitType
           /\ \A n \in Stores : [v EXCEPT !.step = "dropBak", !.new = n] \in VisitType
<1>1. \A st \in {"run", "review", "recheck", "recover", "shims", "recheckShims"}
               \union Looking \union Saving :
          [v EXCEPT !.step = st] \in VisitType
  BY DEF VisitType
<1>2. \A p \in Directory : [v EXCEPT !.at = p] \in VisitType
  BY DEF VisitType
<1>3. \A c \in ValidOverlay : [v EXCEPT !.seen = c, !.step = "readStore"] \in VisitType
  BY DEF VisitType, Looking
<1>4. \A s \in Stores, st \in Looking : [v EXCEPT !.store = s, !.step = st] \in VisitType
  BY DEF VisitType
<1>5. \A s \in Stores, n \in Stores, st \in {"shims", "dropBak"} :
          [v EXCEPT !.store = s, !.new = n, !.step = st] \in VisitType
  BY DEF VisitType, Saving
<1>6. \A n \in Stores : [v EXCEPT !.step = "dropBak", !.new = n] \in VisitType
  BY DEF VisitType, Saving
<1> QED  BY <1>1, <1>2, <1>3, <1>4, <1>5, <1>6

LEMMA NewVisits ==
    /\ NoVisit \in VisitType
    /\ \A c \in Commands, p \in Directory, g \in SUBSET {"format"} :
          [NoVisit EXCEPT !.cmd = c, !.at = p, !.step = "find", !.global = g] \in VisitType
BY DEF NoVisit, VisitType, Looking, Stores

-----------------------------------------------------------------------------
(* The inductive step *)

\* Looking around, asking the user and giving up leave the records and what is
\* approved: only the command at work has to know what its next step needs.
LEMMA QuietStep ==
    ASSUME OverlayInv, OverlayWorldTypeOK', NEW j \in OverlayJob, NEW v \in VisitType,
           visit' = [visit EXCEPT ![j] = v],
           UNCHANGED <<trustFile, trustBak, approved>>, Remember,
           OnItsVisit(v), RunKnows(v, stood[j] \union approved), DecisionKnows(v),
           v.cmd \in Deciding => visit[j].cmd \in Deciding \/ MayDecide
    PROVE  OverlayInv'
<1>1. /\ visit'[j] = v
      /\ \A k \in OverlayJob \ {j} : visit'[k] = visit[k]
      /\ \A k \in OverlayJob : visit'[k] \in VisitType
  BY DEF OverlayInv, OverlayTypeOK
<1>2. \A k \in OverlayJob :
          stood'[k] = IF visit'[k].cmd = "run" THEN stood[k] \union approved ELSE {}
  BY DEF Remember
<1>3. OverlayTypeOK'
  <2>1. visit' \in [OverlayJob -> VisitType]
    BY DEF OverlayInv, OverlayTypeOK
  <2>2. stood' \in [OverlayJob -> SUBSET (Directory \X ValidOverlay)]
    BY DEF Remember, OverlayInv, OverlayTypeOK
  <2> QED  BY <2>1, <2>2 DEF OverlayInv, OverlayTypeOK
<1>4. RecordsOf(Recorded)' \subseteq approved'
  BY DEF OverlayInv, Recorded, RecordsOf
<1>5. ASSUME NEW k \in OverlayJob
      PROVE  (OnItsVisit(visit[k]) /\ RunKnows(visit[k], stood[k]) /\ DecisionKnows(visit[k]))'
  <2>1. CASE k = j
    <3>1. OnItsVisit(visit[k])'
      BY <1>1, <2>1 DEF OnItsVisit
    <3>2. RunKnows(visit[k], stood[k])'
      BY <1>1, <1>2, <2>1 DEF RunKnows, RecordsOf
    <3>3. DecisionKnows(visit[k])'
      BY <1>1, <2>1 DEF DecisionKnows, Decided, Recorded
    <3> QED  BY <3>1, <3>2, <3>3
  <2>2. CASE k # j
    <3>1. visit'[k] = visit[k]  BY <1>1, <2>2
    <3>2. OnItsVisit(visit[k])'
      BY <3>1 DEF OverlayInv, OnItsVisit
    <3>3. RunKnows(visit[k], stood[k])'
      BY <1>2, <3>1 DEF OverlayInv, RunKnows, RecordsOf
    <3>4. DecisionKnows(visit[k])'
      BY <3>1 DEF OverlayInv, DecisionKnows, Decided, Recorded
    <3> QED  BY <3>2, <3>3, <3>4
  <2> QED  BY <2>1, <2>2
<1>6. OneDecides'
  <2> SUFFICES ASSUME NEW k \in OverlayJob, NEW l \in OverlayJob,
                      visit'[k].cmd \in Deciding, visit'[l].cmd \in Deciding
               PROVE  k = l
    BY DEF OneDecides
  <2>1. CASE visit[j].cmd \in Deciding
    BY <1>1, <2>1 DEF OverlayInv, OneDecides
  <2>2. CASE MayDecide
    <3>1. \A i \in OverlayJob : visit[i].cmd \notin Deciding
      <4>1. \A i \in OverlayJob : visit[i].step = "idle" => visit[i].cmd = "none"
        BY DEF OverlayInv, OverlayTypeOK, VisitType, OnItsVisit, StepsOf, Commands, Deciding,
               Looking, Saving
      <4> QED  BY <2>2, <4>1 DEF MayDecide, Visiting, Deciding
    <3> QED  BY <1>1, <3>1
  <2>3. CASE v.cmd \notin Deciding
    BY <1>1, <2>3 DEF OverlayInv, OneDecides
  <2> QED  BY <2>1, <2>2, <2>3
<1> QED  BY <1>3, <1>4, <1>5, <1>6 DEF OverlayInv

\* A step of the one decision under way may change the records and what is
\* approved: the runs go on with what was approved while they were running.
LEMMA DecidingStep ==
    ASSUME OverlayInv, OverlayWorldTypeOK', NEW j \in OverlayJob, NEW v \in VisitType,
           visit[j].cmd \in Deciding, v.cmd \in Deciding \union {"none"},
           visit' = [visit EXCEPT ![j] = v], Remember,
           trustFile' \in Stores, trustBak' \in {NoStore, trustBak}
               \/ (trustBak' = Recorded /\ approved' = approved),
           approved' \in SUBSET (Directory \X ValidOverlay),
           RecordsOf(Recorded)' \subseteq approved',
           OnItsVisit(v), DecisionKnows(v)'
    PROVE  OverlayInv'
<1>1. /\ visit'[j] = v
      /\ \A k \in OverlayJob \ {j} : visit'[k] = visit[k]
  BY DEF OverlayInv, OverlayTypeOK
<1>2. \A k \in OverlayJob :
          stood'[k] = IF visit'[k].cmd = "run" THEN stood[k] \union approved' ELSE {}
  BY DEF Remember
<1>3. OverlayTypeOK'
  <2>1. visit' \in [OverlayJob -> VisitType]
    BY DEF OverlayInv, OverlayTypeOK
  <2>2. stood' \in [OverlayJob -> SUBSET (Directory \X ValidOverlay)]
    BY DEF Remember, OverlayInv, OverlayTypeOK
  <2>3. trustBak' \in Stores
    BY RecordedIsStore DEF OverlayInv, OverlayTypeOK, Stores
  <2> QED  BY <2>1, <2>2, <2>3 DEF OverlayTypeOK
<1>4. ASSUME NEW k \in OverlayJob, k # j
      PROVE  (OnItsVisit(visit[k]) /\ RunKnows(visit[k], stood[k]) /\ DecisionKnows(visit[k]))'
  <2>1. visit'[k] = visit[k]  BY <1>1, <1>4
  <2>2. visit[k].cmd \in {"run", "none"}
    BY <1>4 DEF OverlayInv, OneDecides, OverlayTypeOK, VisitType, Commands, Deciding
  <2>3. visit[k].step \in Looking \union {"run", "idle"}
    BY <2>2 DEF OverlayInv, OnItsVisit, StepsOf
  <2>4. OnItsVisit(visit[k])'
    BY <2>1 DEF OverlayInv, OnItsVisit
  <2>5. RunKnows(visit[k], stood[k])'
    <3> SUFFICES ASSUME visit[k].cmd = "run" PROVE RunKnows(visit[k], stood[k])'
      BY <2>1, <2>2 DEF RunKnows
    <3>1. stood'[k] = stood[k] \union approved'
      BY <1>2, <2>1
    <3>2. RunKnows(visit[k], stood[k])
      BY DEF OverlayInv
    <3>3. ASSUME visit[k].step = "readBackup", trustBak' # NoStore
          PROVE  RecordsOf(trustBak)' \subseteq stood'[k]
      <4>1. CASE trustBak' = trustBak
        BY <3>1, <3>2, <3>3, <4>1 DEF RunKnows, RecordsOf
      <4>2. CASE trustBak' = Recorded /\ approved' = approved
        BY <3>1, <4>2 DEF OverlayInv, RecordsOf
      <4> QED  BY <3>3, <4>1, <4>2
    <3>4. RecordsOf(visit'[k].store) = RecordsOf(visit[k].store)
      BY <2>1
    <3> QED  BY <2>1, <3>1, <3>2, <3>3, <3>4 DEF RunKnows, RecordsOf
  <2>6. DecisionKnows(visit[k])'
    BY <2>1, <2>2, <2>3 DEF DecisionKnows, Looking, Saving, Deciding
  <2> QED  BY <2>4, <2>5, <2>6
<1>5. (OnItsVisit(visit[j]) /\ RunKnows(visit[j], stood[j]) /\ DecisionKnows(visit[j]))'
  <2>1. OnItsVisit(visit[j])'
    BY <1>1 DEF OnItsVisit
  <2>2. RunKnows(visit[j], stood[j])'
    BY <1>1 DEF RunKnows, Deciding
  <2>3. DecisionKnows(visit[j])'
    BY <1>1 DEF DecisionKnows, Decided
  <2> QED  BY <2>1, <2>2, <2>3
<1>6. OneDecides'
  BY <1>1 DEF OverlayInv, OneDecides
<1> QED  BY <1>3, <1>4, <1>5, <1>6 DEF OverlayInv

\* Inputs, the user's edits and the shims keep their types.
LEMMA WorldTypes ==
    ASSUME OverlayInv, ProjectTrustNext PROVE OverlayWorldTypeOK'
<1> USE DEF OverlayWorldTypeOK
<1>0. OverlayWorldTypeOK  BY DEF OverlayInv, OverlayTypeOK
<1>1. CASE EditProject
  <2>1. edits' \in Nat /\ shims' = shims /\ overlayCommands' = overlayCommands
    BY <1>0, <1>1 DEF EditProject
  <2>2. overlay' \in [Directory -> Content] /\ globalTools' \in SUBSET {"format"}
    BY <1>0, <1>1 DEF EditProject
  <2> QED  BY <1>0, <2>1, <2>2
<1>2. ASSUME NEW j \in OverlayJob, StartVisit(j) PROVE OverlayWorldTypeOK'
  BY <1>0, <1>2 DEF StartVisit, overlayWorld
<1>3. ASSUME NEW j \in OverlayJob, InspectOverlay(j) PROVE OverlayWorldTypeOK'
  BY <1>0, <1>3 DEF InspectOverlay, Climb, Find, LoadOverlay, ReadStore, ReadBackup, Judge,
                    Quiet, overlayWorld
<1>4. ASSUME NEW j \in OverlayJob, TrustOverlay(j) PROVE OverlayWorldTypeOK'
  <2>1. CASE InstallProjectShims(j)
    BY <1>0, <2>1 DEF InstallProjectShims, ToolNames, overlayWorld
  <2>2. CASE ~InstallProjectShims(j)
    BY <1>0, <1>4, <2>2 DEF TrustOverlay, Approve, Decline, Recheck, LoadForMutation,
                            RecheckAfterShims, Quiet, overlayWorld
  <2> QED  BY <2>1, <2>2
<1>5. ASSUME NEW j \in OverlayJob, SaveStore(j) PROVE OverlayWorldTypeOK'
  BY <1>0, <1>5 DEF SaveStore, DropTrustBak, MoveTrustAside, PublishTrust, PutTrustBack,
                    CleanTrustBak, overlayWorld
<1>6. ASSUME NEW j \in OverlayJob, RunOverlayTool(j) \/ KillVisit(j) PROVE OverlayWorldTypeOK'
  BY <1>0, <1>6 DEF RunOverlayTool, KillVisit, Quiet, overlayWorld
<1> QED  BY <1>1, <1>2, <1>3, <1>4, <1>5, <1>6 DEF ProjectTrustNext

LEMMA LeavingStep ==
    ASSUME OverlayInv, OverlayWorldTypeOK', NEW j \in OverlayJob, Leaves(j),
           UNCHANGED <<trustFile, trustBak, approved>>, Remember
    PROVE  OverlayInv'
<1>1. /\ OnItsVisit(NoVisit) /\ DecisionKnows(NoVisit)
      /\ RunKnows(NoVisit, stood[j] \union approved)
      /\ NoVisit.cmd \notin Deciding
  BY DEF OnItsVisit, DecisionKnows, RunKnows, NoVisit, StepsOf, Saving, Deciding
<1>2. NoVisit \in VisitType  BY NewVisits
<1>3. visit' = [visit EXCEPT ![j] = NoVisit]
  BY DEF Leaves
<1> QED  BY <1>1, <1>2, <1>3, QuietStep

LEMMA StartStep ==
    ASSUME OverlayInv, OverlayWorldTypeOK', NEW j \in OverlayJob, StartVisit(j)
    PROVE  OverlayInv'
<1>1. PICK c \in Commands, p \in Directory :
          /\ c \in Deciding => MayDecide
          /\ visit' = [visit EXCEPT ![j] = [NoVisit EXCEPT !.cmd = c, !.at = p, !.step = "find",
                                                           !.global = globalTools]]
  BY DEF StartVisit, Commands
<1>2. PICK v : v = [NoVisit EXCEPT !.cmd = c, !.at = p, !.step = "find", !.global = globalTools]
  OBVIOUS
<1>3. v \in VisitType
  BY <1>2, NewVisits DEF OverlayInv, OverlayTypeOK, OverlayWorldTypeOK
<1>4. v.cmd = c /\ v.at = p /\ v.step = "find"
  BY <1>2 DEF NoVisit
<1>5. OnItsVisit(v) /\ DecisionKnows(v) /\ RunKnows(v, stood[j] \union approved)
  BY <1>4 DEF OnItsVisit, DecisionKnows, RunKnows, StepsOf, Looking, Saving, Commands, Deciding
<1>6. UNCHANGED <<trustFile, trustBak, approved>> /\ Remember
  BY DEF StartVisit, storeFiles
<1> QED  BY <1>1, <1>2, <1>3, <1>4, <1>5, <1>6, QuietStep

\* What holds of the command at work, and where a step of it leads.
LEMMA AtWork ==
    ASSUME OverlayInv, NEW j \in OverlayJob
    PROVE  /\ visit[j] \in VisitType
           /\ OnItsVisit(visit[j]) /\ RunKnows(visit[j], stood[j]) /\ DecisionKnows(visit[j])
           /\ Recorded \in Store /\ RecordsOf(Recorded) \subseteq approved
BY RecordedIsStore DEF OverlayInv, OverlayTypeOK

LEMMA LookingSteps ==
    ASSUME OverlayInv, OverlayWorldTypeOK', NEW j \in OverlayJob, InspectOverlay(j)
    PROVE  OverlayInv'
<1> PICK w : w = visit[j]  OBVIOUS
<1>1. /\ w \in VisitType /\ OnItsVisit(w) /\ RunKnows(w, stood[j]) /\ DecisionKnows(w)
      /\ Recorded \in Store /\ RecordsOf(Recorded) \subseteq approved
      /\ w.cmd \in Deciding => visit[j].cmd \in Deciding
  BY AtWork
<1>2. UNCHANGED <<trustFile, trustBak, approved>> /\ Remember
  BY DEF InspectOverlay, Climb, Find, LoadOverlay, ReadStore, ReadBackup, Judge, Quiet, storeFiles
<1>3. CASE Leaves(j)
  BY <1>2, <1>3, LeavingStep
<1>4. ASSUME NEW v \in VisitType, visit' = [visit EXCEPT ![j] = v], v.cmd = w.cmd, OnItsVisit(v),
             RunKnows(v, stood[j] \union approved), v.step \in Looking \union {"run", "review", "recover"},
             v.step = "recover" => v.cmd = "untrust"
      PROVE  OverlayInv'
  <2>1. DecisionKnows(v)
    BY <1>4 DEF DecisionKnows, Looking, Saving
  <2> QED  BY <1>1, <1>2, <1>4, <2>1, QuietStep
<1>5. CASE Climb(j)
  <2>1. PICK v : v = [w EXCEPT !.at = Parent[w.at]]  OBVIOUS
  <2>2. w.step = "find" /\ w.at \in Directory
    BY <1>1, <1>5 DEF Climb, VisitAt, OnItsVisit
  <2>3. Parent[w.at] \in Directory
    BY <2>2, ProjectTrustAssumption
  <2>4. v \in VisitType
    BY <1>1, <2>1, <2>3, VisitUpdates
  <2>5. v.cmd = w.cmd /\ v.step = "find" /\ v.at = Parent[w.at]
    BY <1>1, <2>1, <2>2 DEF VisitType
  <2>6. OnItsVisit(v) /\ RunKnows(v, stood[j] \union approved)
    BY <1>1, <2>2, <2>3, <2>5 DEF OnItsVisit, RunKnows
  <2>7. visit' = [visit EXCEPT ![j] = v]
    BY <1>5, <2>1 DEF Climb
  <2> QED  BY <1>4, <2>4, <2>5, <2>6, <2>7 DEF Looking
<1>6. CASE Find(j) /\ ~Leaves(j)
  <2>1. PICK v : v = [w EXCEPT !.step = IF w.cmd = "untrust" THEN "recover" ELSE "load"]  OBVIOUS
  <2>2. w.step = "find" /\ w.at \in Directory
    BY <1>1, <1>6 DEF Find, VisitAt, OnItsVisit
  <2>3. v \in VisitType
    BY <1>1, <2>1, VisitUpdates DEF Looking
  <2>4. /\ v.cmd = w.cmd /\ v.at = w.at
        /\ v.step = IF w.cmd = "untrust" THEN "recover" ELSE "load"
    BY <1>1, <2>1 DEF VisitType
  <2>5. /\ visit' = [visit EXCEPT ![j] = v]
        /\ w.cmd = "untrust" => w.at \notin Enclosing
    BY <1>6, <2>1 DEF Find, To
  <2>6. OnItsVisit(v) /\ RunKnows(v, stood[j] \union approved)
    BY <1>1, <2>2, <2>4, <2>5 DEF OnItsVisit, RunKnows, StepsOf, Looking
  <2> QED  BY <1>4, <2>3, <2>4, <2>5, <2>6 DEF Looking
<1>7. CASE LoadOverlay(j) /\ ~Leaves(j)
  <2>1. PICK c : c = overlay[w.at]  OBVIOUS
  <2>2. PICK v : v = [w EXCEPT !.seen = c, !.step = "readStore"]  OBVIOUS
  <2>3. /\ w.step = "load" /\ c \in ValidOverlay /\ ToolNames(c) \intersect w.global = {}
        /\ w.at \notin Enclosing /\ visit' = [visit EXCEPT ![j] = v]
    BY <1>7, <2>1, <2>2 DEF LoadOverlay, VisitAt
  <2>4. v \in VisitType
    BY <1>1, <2>2, <2>3, VisitUpdates
  <2>5. v.cmd = w.cmd /\ v.at = w.at /\ v.step = "readStore" /\ v.seen = c /\ v.global = w.global
    BY <1>1, <2>2 DEF VisitType
  <2>6. OnItsVisit(v) /\ RunKnows(v, stood[j] \union approved)
    BY <1>1, <2>3, <2>5 DEF OnItsVisit, RunKnows, StepsOf, Looking, Saving
  <2> QED  BY <1>4, <2>3, <2>4, <2>5, <2>6 DEF Looking
<1>8. CASE ReadStore(j)
  <2>1. PICK st : st = IF trustFile = NoStore THEN "readBackup" ELSE "judge"  OBVIOUS
  <2>2. PICK v : v = [w EXCEPT !.store = trustFile, !.step = st]  OBVIOUS
  <2>3. w.step = "readStore" /\ visit' = [visit EXCEPT ![j] = v]
    BY <1>8, <2>1, <2>2 DEF ReadStore, VisitAt
  <2>4. st \in Looking /\ trustFile \in Stores
    BY <2>1 DEF Looking, OverlayInv, OverlayTypeOK
  <2>5. v \in VisitType
    BY <1>1, <2>2, <2>4, VisitUpdates
  <2>6. /\ v.cmd = w.cmd /\ v.at = w.at /\ v.step = st /\ v.seen = w.seen /\ v.global = w.global
        /\ v.store = trustFile
    BY <1>1, <2>2 DEF VisitType
  <2>7. OnItsVisit(v)
    <3>1. v.step = "judge" => v.store \in Store
      BY <2>1, <2>4, <2>6 DEF Stores
    <3> QED  BY <1>1, <2>1, <2>3, <2>6, <3>1 DEF OnItsVisit, StepsOf, Looking, Saving
  <2>8. RunKnows(v, stood[j] \union approved)
    <3>1. trustFile # NoStore => Recorded = trustFile
      BY DEF Recorded
    <3>2. trustFile = NoStore /\ trustBak # NoStore => Recorded = trustBak
      BY DEF Recorded
    <3> QED  BY <1>1, <2>1, <2>6, <3>1, <3>2 DEF RunKnows
  <2> QED  BY <1>4, <2>1, <2>3, <2>4, <2>5, <2>6, <2>7, <2>8 DEF Looking
<1>9. CASE ReadBackup(j)
  <2>1. PICK s : s = IF trustBak = NoStore THEN EmptyStore ELSE trustBak  OBVIOUS
  <2>2. PICK v : v = [w EXCEPT !.store = s, !.step = "judge"]  OBVIOUS
  <2>3. w.step = "readBackup" /\ visit' = [visit EXCEPT ![j] = v]
    BY <1>9, <2>1, <2>2 DEF ReadBackup, VisitAt
  <2>4. s \in Store
    BY <2>1, StoresDiffer DEF OverlayInv, OverlayTypeOK, Stores
  <2>5. v \in VisitType
    BY <1>1, <2>2, <2>4, VisitUpdates DEF Stores, Looking
  <2>6. /\ v.cmd = w.cmd /\ v.at = w.at /\ v.step = "judge" /\ v.seen = w.seen
        /\ v.global = w.global /\ v.store = s
    BY <1>1, <2>2 DEF VisitType
  <2>7. OnItsVisit(v)
    BY <1>1, <2>3, <2>4, <2>6 DEF OnItsVisit, StepsOf, Looking, Saving
  <2>8. RecordsOf(EmptyStore) = {}
    BY DEF RecordsOf, EmptyStore, ValidOverlay, NoRecord
  <2>9. RunKnows(v, stood[j] \union approved)
    BY <1>1, <2>1, <2>3, <2>6, <2>8 DEF RunKnows
  <2> QED  BY <1>4, <2>3, <2>5, <2>6, <2>7, <2>9 DEF Looking
<1>10. CASE Judge(j) /\ ~Leaves(j)
  <2>1. PICK st : st = IF w.cmd = "trust" THEN "review" ELSE "run"  OBVIOUS
  <2>2. PICK v : v = [w EXCEPT !.step = st]  OBVIOUS
  <2>3. /\ w.step = "judge" /\ visit' = [visit EXCEPT ![j] = v]
        /\ w.cmd = "trust" \/ w.store[w.at] = w.seen
    BY <1>10, <2>1, <2>2 DEF Judge, VisitAt, To, GoesOrFails, IsTrusted
  <2>4. v \in VisitType
    BY <1>1, <2>1, <2>2, VisitUpdates
  <2>5. /\ v.cmd = w.cmd /\ v.at = w.at /\ v.step = st /\ v.seen = w.seen
        /\ v.global = w.global
    BY <1>1, <2>2 DEF VisitType
  <2>6. w.cmd \in {"trust", "run"}
    BY <1>1, <2>3 DEF OnItsVisit, StepsOf, VisitType, Commands, Deciding, Saving
  <2>7. OnItsVisit(v)
    BY <1>1, <2>1, <2>3, <2>5, <2>6 DEF OnItsVisit, StepsOf, Looking, Saving
  <2>8. RunKnows(v, stood[j] \union approved)
    <3> SUFFICES ASSUME w.cmd = "run"
                 PROVE  <<w.at, w.seen>> \in stood[j] /\ approved \subseteq stood[j]
      BY <2>1, <2>5 DEF RunKnows
    <3>1. w.at \in Directory /\ w.seen \in ValidOverlay
      BY <1>1, <2>3 DEF OnItsVisit
    <3>2. <<w.at, w.seen>> \in RecordsOf(w.store)
      BY <2>3, <3>1 DEF RecordsOf
    <3> QED  BY <1>1, <2>3, <3>2 DEF RunKnows
  <2> QED  BY <1>4, <2>1, <2>3, <2>4, <2>5, <2>7, <2>8
<1> QED
  BY <1>3, <1>5, <1>6, <1>7, <1>8, <1>9, <1>10 DEF InspectOverlay

\* From the review to the record: the approval, the shims and the two rechecks.
LEMMA TrustingSteps ==
    ASSUME OverlayInv, OverlayWorldTypeOK', NEW j \in OverlayJob, TrustOverlay(j)
    PROVE  OverlayInv'
<1> PICK w : w = visit[j]  OBVIOUS
<1>1. /\ w \in VisitType /\ OnItsVisit(w) /\ RunKnows(w, stood[j]) /\ DecisionKnows(w)
      /\ Recorded \in Store /\ RecordsOf(Recorded) \subseteq approved
  BY AtWork
<1>2. w.step \in {"review", "recheck", "recover", "shims", "recheckShims"} /\ Remember
  BY DEF TrustOverlay, Approve, Decline, Recheck, LoadForMutation, InstallProjectShims,
         RecheckAfterShims, VisitAt, Quiet
<1>3. /\ w.cmd \in Deciding /\ w.at \in Directory
      /\ w.cmd # "trust" => w.cmd = "untrust" /\ w.step = "recover"
      /\ w.cmd = "trust" => w.seen \in ValidOverlay
  BY <1>1, <1>2 DEF OnItsVisit, StepsOf, VisitType, Commands, Deciding, Looking, Saving
<1>4. CASE Leaves(j) /\ UNCHANGED <<trustFile, trustBak, approved>>
  BY <1>2, <1>4, LeavingStep
<1>5. ASSUME NEW v \in VisitType, visit' = [visit EXCEPT ![j] = v], v.cmd = w.cmd, OnItsVisit(v),
             DecisionKnows(v), UNCHANGED <<trustFile, trustBak, approved>>
      PROVE  OverlayInv'
  <2>1. RunKnows(v, stood[j] \union approved)
    BY <1>3, <1>5 DEF RunKnows, Deciding
  <2> QED  BY <1>2, <1>3, <1>5, <2>1, QuietStep
<1>6. CASE Approve(j)
  <2>1. PICK v : v = [w EXCEPT !.step = "recheck"]  OBVIOUS
  <2>2. w.step = "review" /\ w.cmd = "trust" /\ visit' = [visit EXCEPT ![j] = v]
    BY <1>3, <1>6, <2>1 DEF Approve, VisitAt, To
  <2>3. v \in VisitType
    BY <1>1, <2>1, VisitUpdates
  <2>4. v.cmd = w.cmd /\ v.at = w.at /\ v.step = "recheck" /\ v.seen = w.seen /\ v.global = w.global
    BY <1>1, <2>1 DEF VisitType
  <2>5. /\ approved' = approved \union {<<w.at, w.seen>>}
        /\ trustFile' = trustFile /\ trustBak' = trustBak
    BY <1>6 DEF Approve, storeFiles
  <2>6. RecordsOf(Recorded)' \subseteq approved'
    BY <1>1, <2>5 DEF Recorded, RecordsOf
  <2>7. OnItsVisit(v)
    BY <1>1, <2>2, <2>4 DEF OnItsVisit, StepsOf, Looking, Saving
  <2>8. DecisionKnows(v)'
    BY <2>4, <2>5 DEF DecisionKnows, Saving
  <2>9. /\ trustFile' \in Stores /\ approved' \in SUBSET (Directory \X ValidOverlay)
    BY <1>3, <2>2, <2>5 DEF OverlayInv, OverlayTypeOK
  <2> QED
    BY <1>2, <1>3, <2>2, <2>3, <2>4, <2>5, <2>6, <2>7, <2>8, <2>9, DecidingStep
<1>7. CASE Recheck(j) /\ ~Leaves(j)
  <2>1. PICK v : v = [w EXCEPT !.step = "recover"]  OBVIOUS
  <2>2. /\ w.step = "recheck" /\ visit' = [visit EXCEPT ![j] = v]
        /\ UNCHANGED <<trustFile, trustBak, approved>>
    BY <1>7, <2>1 DEF Recheck, VisitAt, GoesOrFails, To, Quiet, storeFiles
  <2>3. v \in VisitType
    BY <1>1, <2>1, VisitUpdates
  <2>4. v.cmd = w.cmd /\ v.at = w.at /\ v.step = "recover" /\ v.seen = w.seen /\ v.global = w.global
    BY <1>1, <2>1 DEF VisitType
  <2>5. OnItsVisit(v) /\ DecisionKnows(v)
    BY <1>1, <1>3, <2>2, <2>4 DEF OnItsVisit, DecisionKnows, StepsOf, Looking, Saving
  <2> QED  BY <1>5, <2>2, <2>3, <2>4, <2>5
<1>8. CASE LoadForMutation(j)
  <2>1. /\ w.step = "recover" /\ approved' = approved
        /\ trustFile' = Recovered
        /\ trustBak' = IF trustFile = NoStore /\ Recovered # NoStore THEN NoStore ELSE trustBak
    BY <1>8 DEF LoadForMutation, VisitAt
  <2>2. /\ Recorded' = Recorded
        /\ trustFile' = NoStore => trustBak' = NoStore
        /\ trustFile' \in Stores /\ trustBak' \in {NoStore, trustBak}
    BY <2>1 DEF Recorded, Recovered, OverlayInv, OverlayTypeOK
  <2>3. RecordsOf(Recorded)' \subseteq approved'
    BY <1>1, <2>1, <2>2 DEF RecordsOf
  <2>4. approved' \in SUBSET (Directory \X ValidOverlay)
    BY <2>1 DEF OverlayInv, OverlayTypeOK
  <2>5. ASSUME NEW v \in VisitType, visit' = [visit EXCEPT ![j] = v],
               v.cmd \in Deciding \union {"none"}, OnItsVisit(v), DecisionKnows(v)'
        PROVE  OverlayInv'
    BY <1>2, <1>3, <2>1, <2>2, <2>3, <2>4, <2>5, DecidingStep
  <2>6. CASE Leaves(j)
    <3>1. OnItsVisit(NoVisit) /\ DecisionKnows(NoVisit)' /\ NoVisit.cmd = "none"
      BY DEF OnItsVisit, DecisionKnows, NoVisit, StepsOf, Saving
    <3> QED  BY <2>5, <2>6, <3>1, NewVisits DEF Leaves
  <2>7. CASE ~Leaves(j)
    <3>1. PICK n : n = IF w.cmd = "untrust" THEN [Recorded EXCEPT ![w.at] = NoRecord] ELSE NoStore
      OBVIOUS
    <3>2. PICK st : st = IF w.cmd = "trust" THEN "shims" ELSE "dropBak"  OBVIOUS
    <3>3. PICK v : v = [w EXCEPT !.store = Recorded, !.new = n, !.step = st]  OBVIOUS
    <3>4. visit' = [visit EXCEPT ![j] = v]
      BY <1>1, <1>8, <2>7, <3>1, <3>2, <3>3 DEF LoadForMutation
    <3>5. n \in Stores /\ Recorded \in Stores /\ st \in {"shims", "dropBak"}
      BY <1>1, <1>3, <3>1, <3>2, DecisionEdits DEF Stores
    <3>6. v \in VisitType
      BY <1>1, <3>3, <3>5, VisitUpdates
    <3>7. /\ v.cmd = w.cmd /\ v.at = w.at /\ v.step = st /\ v.seen = w.seen /\ v.global = w.global
          /\ v.store = Recorded /\ v.new = n
      BY <1>1, <3>3 DEF VisitType
    <3>8. OnItsVisit(v)
      BY <1>1, <1>3, <2>1, <3>2, <3>7 DEF OnItsVisit, StepsOf, Looking, Saving
    <3>9. DecisionKnows(v)'
      <4>1. v.cmd = "trust" => <<v.at, v.seen>> \in approved'
        BY <1>1, <2>1, <3>7 DEF DecisionKnows
      <4>2. st = "dropBak" => v.new = Decided(v)'
        BY <1>3, <2>2, <3>1, <3>2, <3>7 DEF Decided
      <4> QED  BY <2>2, <3>2, <3>7, <4>1, <4>2 DEF DecisionKnows, Saving
    <3> QED  BY <1>3, <2>5, <3>4, <3>6, <3>7, <3>8, <3>9
  <2> QED  BY <2>6, <2>7
<1>9. CASE InstallProjectShims(j) /\ ~Leaves(j)
  <2>1. PICK v : v = [w EXCEPT !.step = "recheckShims"]  OBVIOUS
  <2>2. /\ w.step = "shims" /\ visit' = [visit EXCEPT ![j] = v]
        /\ UNCHANGED <<trustFile, trustBak, approved>>
    BY <1>9, <2>1 DEF InstallProjectShims, VisitAt, To, storeFiles
  <2>3. v \in VisitType
    BY <1>1, <2>1, VisitUpdates
  <2>4. /\ v.cmd = w.cmd /\ v.at = w.at /\ v.step = "recheckShims" /\ v.seen = w.seen
        /\ v.global = w.global /\ v.store = w.store
    BY <1>1, <2>1 DEF VisitType
  <2>5. OnItsVisit(v) /\ DecisionKnows(v)
    BY <1>1, <1>3, <2>2, <2>4 DEF OnItsVisit, DecisionKnows, StepsOf, Looking, Saving
  <2> QED  BY <1>5, <2>2, <2>3, <2>4, <2>5
<1>10. CASE RecheckAfterShims(j) /\ ~Leaves(j)
  <2>1. PICK n : n = [Recorded EXCEPT ![w.at] = w.seen]  OBVIOUS
  <2>2. PICK v : v = [w EXCEPT !.step = "dropBak", !.new = n]  OBVIOUS
  <2>3. w.step = "recheckShims" /\ w.cmd = "trust" /\ w.store = Recorded
    BY <1>1, <1>3, <1>10 DEF RecheckAfterShims, VisitAt, DecisionKnows
  <2>4. /\ visit' = [visit EXCEPT ![j] = v]
        /\ UNCHANGED <<trustFile, trustBak, approved>>
    BY <1>10, <2>1, <2>2, <2>3 DEF RecheckAfterShims, StillReviewed, Quiet, storeFiles
  <2>5. n \in Stores
    BY <1>1, <1>3, <2>1, <2>3, DecisionEdits DEF Stores
  <2>6. v \in VisitType
    BY <1>1, <2>2, <2>5, VisitUpdates
  <2>7. /\ v.cmd = w.cmd /\ v.at = w.at /\ v.step = "dropBak" /\ v.seen = w.seen
        /\ v.global = w.global /\ v.new = n
    BY <1>1, <2>2 DEF VisitType
  <2>8. OnItsVisit(v)
    BY <1>1, <2>3, <2>7 DEF OnItsVisit, StepsOf, Looking, Saving
  <2>9. DecisionKnows(v)
    BY <1>1, <2>1, <2>3, <2>7 DEF DecisionKnows, Decided, Saving
  <2> QED  BY <1>5, <2>4, <2>6, <2>7, <2>8, <2>9
<1>11. Recheck(j) \/ InstallProjectShims(j) \/ RecheckAfterShims(j) =>
          UNCHANGED <<trustFile, trustBak, approved>>
  BY DEF Recheck, InstallProjectShims, RecheckAfterShims, Quiet, storeFiles
<1>12. Decline(j) => Leaves(j) /\ UNCHANGED <<trustFile, trustBak, approved>>
  BY DEF Decline, Quiet, storeFiles
<1> QED
  BY <1>4, <1>6, <1>7, <1>8, <1>9, <1>10, <1>11, <1>12 DEF TrustOverlay

\* The four steps of the atomic replacement, and what each does when it fails.
LEMMA SavingSteps ==
    ASSUME OverlayInv, OverlayWorldTypeOK', NEW j \in OverlayJob, SaveStore(j)
    PROVE  OverlayInv'
<1> PICK w : w = visit[j]  OBVIOUS
<1>1. /\ w \in VisitType /\ OnItsVisit(w) /\ RunKnows(w, stood[j]) /\ DecisionKnows(w)
      /\ Recorded \in Store /\ RecordsOf(Recorded) \subseteq approved
      /\ trustFile \in Stores /\ trustBak \in Stores
      /\ approved \in SUBSET (Directory \X ValidOverlay)
  BY AtWork DEF OverlayInv, OverlayTypeOK
<1>2. w.step \in Saving /\ Remember
  BY DEF SaveStore, DropTrustBak, MoveTrustAside, PublishTrust, PutTrustBack, CleanTrustBak,
         VisitAt, Saving
<1>3. /\ w.cmd \in Deciding /\ w.at \in Directory
      /\ w.cmd # "trust" => w.cmd = "untrust"
      /\ w.cmd = "trust" => w.seen \in ValidOverlay
  BY <1>1, <1>2 DEF OnItsVisit, StepsOf, VisitType, Commands, Deciding, Looking, Saving
<1>4. CASE Leaves(j) /\ UNCHANGED <<trustFile, trustBak, approved>>
  BY <1>2, <1>4, LeavingStep
<1>5. ASSUME NEW st \in Saving, To(j, st), Recorded' = Recorded, approved' = approved,
             trustFile' \in Stores, trustBak' \in {NoStore, trustBak, Recorded},
             w.step # "cleanBak", st # "cleanBak",
             st = "moveAside" => trustFile' # NoStore, st \in {"publish", "putBack"} => trustFile' = NoStore,
             st # "dropBak"
      PROVE  OverlayInv'
  <2>1. PICK v : v = [w EXCEPT !.step = st]  OBVIOUS
  <2>2. visit' = [visit EXCEPT ![j] = v]
    BY <1>5, <2>1 DEF To
  <2>3. v \in VisitType
    BY <1>1, <2>1, VisitUpdates
  <2>4. /\ v.cmd = w.cmd /\ v.at = w.at /\ v.step = st /\ v.seen = w.seen
        /\ v.global = w.global /\ v.new = w.new
    BY <1>1, <2>1 DEF VisitType
  <2>5. OnItsVisit(v)
    BY <1>1, <1>2, <1>3, <1>5, <2>4 DEF OnItsVisit, StepsOf, Looking, Saving
  <2>6. DecisionKnows(v)'
    BY <1>1, <1>2, <1>5, <2>4 DEF DecisionKnows, Decided, Saving
  <2>7. RecordsOf(Recorded)' \subseteq approved'
    BY <1>1, <1>5 DEF RecordsOf
  <2> QED
    BY <1>1, <1>2, <1>3, <1>5, <2>2, <2>3, <2>4, <2>5, <2>6, <2>7, DecidingStep
<1>6. ASSUME Leaves(j), Recorded' = Recorded, approved' = approved,
             trustFile' \in Stores, trustBak' \in {NoStore, trustBak}
      PROVE  OverlayInv'
  <2>1. OnItsVisit(NoVisit) /\ DecisionKnows(NoVisit)' /\ NoVisit.cmd = "none"
    BY DEF OnItsVisit, DecisionKnows, NoVisit, StepsOf, Saving
  <2>2. RecordsOf(Recorded)' \subseteq approved'
    BY <1>1, <1>6 DEF RecordsOf
  <2> QED
    BY <1>1, <1>2, <1>3, <1>6, <2>1, <2>2, NewVisits, DecidingStep DEF Leaves
<1>7. CASE DropTrustBak(j)
  <2>1. /\ w.step = "dropBak" /\ trustBak' \in {NoStore, trustBak} /\ trustFile' = trustFile
        /\ approved' = approved
    BY <1>7 DEF DropTrustBak, VisitAt
  <2>2. Recorded' = Recorded
    BY <1>1, <2>1 DEF Recorded, DecisionKnows
  <2>3. PICK st : st = IF trustFile = NoStore THEN "publish" ELSE "moveAside"  OBVIOUS
  <2>4. To(j, st) /\ st \in Saving
    BY <1>7, <2>3 DEF DropTrustBak, Saving
  <2> QED  BY <1>1, <1>5, <2>1, <2>2, <2>3, <2>4
<1>8. CASE MoveTrustAside(j) /\ ~Leaves(j)
  <2>1. /\ w.step = "moveAside" /\ trustBak' = trustFile /\ trustFile' = NoStore
        /\ approved' = approved /\ To(j, "publish")
    BY <1>8 DEF MoveTrustAside, VisitAt
  <2>2. Recorded = trustFile /\ Recorded' = Recorded
    BY <1>1, <2>1 DEF Recorded, DecisionKnows
  <2> QED  BY <1>1, <1>5, <2>1, <2>2 DEF Saving, Stores
<1>9. CASE PublishTrust(j)
  <2>1. w.step = "publish" /\ trustFile = NoStore /\ w.new = Decided(w) /\ trustBak' = trustBak
    BY <1>1, <1>9 DEF PublishTrust, VisitAt, DecisionKnows, Saving
  <2>2. CASE To(j, "putBack") /\ UNCHANGED <<trustFile, approved>>
    <3>1. Recorded' = Recorded
      BY <2>1, <2>2 DEF Recorded
    <3> QED  BY <1>1, <1>5, <2>1, <2>2, <3>1 DEF Saving
  <2>3. CASE /\ trustFile' = w.new /\ To(j, "cleanBak")
             /\ approved' = {a \in approved : a[1] = w.at => w.cmd = "trust" /\ a[2] = w.seen}
    <3>1. PICK c : c = IF w.cmd = "trust" THEN w.seen ELSE NoRecord  OBVIOUS
    <3>2. c \in ValidOverlay \union {NoRecord} /\ w.new = [Recorded EXCEPT ![w.at] = c]
      BY <1>3, <2>1, <3>1 DEF Decided
    <3>3. /\ w.new \in Store /\ w.new[w.at] = c
          /\ \A q \in Directory \ {w.at} : w.new[q] = Recorded[q]
      BY <1>1, <1>3, <3>2, DecisionEdits
    <3>4. trustFile' # NoStore /\ Recorded' = w.new
      BY <2>3, <3>3, StoresDiffer DEF Recorded
    <3>5. RecordsOf(w.new) \subseteq approved'
      <4> SUFFICES ASSUME NEW p \in Directory, w.new[p] \in ValidOverlay
                   PROVE  <<p, w.new[p]>> \in approved'
        BY DEF RecordsOf
      <4>1. CASE p = w.at
        <5>1. c \in ValidOverlay /\ w.cmd = "trust" /\ c = w.seen
          BY <3>1, <3>3, <4>1 DEF ValidOverlay, NoRecord
        <5>2. <<w.at, w.seen>> \in approved
          BY <1>1, <2>1, <5>1 DEF DecisionKnows, Saving
        <5> QED  BY <2>3, <3>3, <4>1, <5>1, <5>2
      <4>2. CASE p # w.at
        <5>1. <<p, w.new[p]>> \in RecordsOf(Recorded)
          BY <3>3, <4>2 DEF RecordsOf
        <5> QED  BY <1>1, <2>3, <4>2, <5>1
      <4> QED  BY <4>1, <4>2
    <3>6. PICK v : v = [w EXCEPT !.step = "cleanBak"]  OBVIOUS
    <3>7. visit' = [visit EXCEPT ![j] = v]
      BY <2>3, <3>6 DEF To
    <3>8. v \in VisitType
      BY <1>1, <3>6, VisitUpdates DEF Saving
    <3>9. /\ v.cmd = w.cmd /\ v.at = w.at /\ v.step = "cleanBak" /\ v.seen = w.seen
          /\ v.global = w.global
      BY <1>1, <3>6 DEF VisitType
    <3>10. OnItsVisit(v)
      BY <1>1, <1>3, <2>1, <3>9 DEF OnItsVisit, StepsOf, Looking, Saving
    <3>11. DecisionKnows(v)'
      BY <3>4, <3>9 DEF DecisionKnows, Saving
    <3>12. RecordsOf(Recorded)' \subseteq approved'
      BY <3>4, <3>5 DEF RecordsOf
    <3>13. /\ trustFile' \in Stores /\ approved' \in SUBSET (Directory \X ValidOverlay)
           /\ trustBak' \in {NoStore, trustBak}
      BY <1>1, <2>1, <2>3, <3>3 DEF Stores
    <3> QED
      BY <1>2, <1>3, <3>7, <3>8, <3>9, <3>10, <3>11, <3>12, <3>13, DecidingStep
  <2> QED  BY <1>9, <2>2, <2>3 DEF PublishTrust
<1>10. CASE PutTrustBack(j) /\ ~UNCHANGED storeFiles
  <2>1. /\ w.step = "putBack" /\ trustFile = NoStore /\ Leaves(j) /\ approved' = approved
        /\ trustFile' = (IF trustBak = NoStore THEN trustFile ELSE trustBak) /\ trustBak' = NoStore
    BY <1>1, <1>10 DEF PutTrustBack, VisitAt, DecisionKnows
  <2>2. Recorded' = Recorded
    BY <2>1 DEF Recorded
  <2> QED  BY <1>1, <1>6, <2>1, <2>2
<1>11. CASE CleanTrustBak(j) /\ ~UNCHANGED storeFiles
  <2>1. /\ w.step = "cleanBak" /\ trustFile # NoStore /\ Leaves(j) /\ approved' = approved
        /\ trustFile' = trustFile /\ trustBak' = NoStore
    BY <1>1, <1>11 DEF CleanTrustBak, VisitAt, DecisionKnows, storeFiles
  <2>2. Recorded' = Recorded
    BY <2>1 DEF Recorded
  <2> QED  BY <1>1, <1>6, <2>1, <2>2
<1>12. /\ MoveTrustAside(j) /\ Leaves(j) => UNCHANGED <<trustFile, trustBak, approved>>
       /\ PutTrustBack(j) => Leaves(j) /\ approved' = approved
       /\ CleanTrustBak(j) => Leaves(j) /\ approved' = approved
  <2>1. MoveTrustAside(j) /\ Leaves(j) => ~To(j, "publish")
    <3>1. visit[j] \in VisitType /\ [w EXCEPT !.step = "publish"].step = "publish" /\ NoVisit.step = "idle"
      BY <1>1 DEF VisitType, NoVisit
    <3> QED  BY <3>1 DEF To, Leaves, OverlayInv, OverlayTypeOK
  <2> QED  BY <2>1 DEF MoveTrustAside, PutTrustBack, CleanTrustBak, storeFiles
<1> QED
  BY <1>4, <1>7, <1>8, <1>9, <1>10, <1>11, <1>12 DEF SaveStore, storeFiles

-----------------------------------------------------------------------------
(* Theorems *)

LEMMA OverlayInit == ProjectTrustInit => OverlayInv
<1> SUFFICES ASSUME ProjectTrustInit PROVE OverlayInv
  OBVIOUS
<1> PICK p : p = CHOOSE q \in Directory : q \notin Enclosing  OBVIOUS
<1>1. p \in Directory
  BY ProjectTrustAssumption
<1>2. PICK s \in {NoStore, [EmptyStore EXCEPT ![p] = "lint"]} :
          \/ trustFile = s /\ trustBak = NoStore
          \/ trustFile = NoStore /\ trustBak = s
  BY DEF ProjectTrustInit
<1>3. s \in Stores
  <2>1. "lint" \in ValidOverlay \union {NoRecord}
    BY DEF ValidOverlay
  <2>2. [EmptyStore EXCEPT ![p] = "lint"] \in Store
    BY <1>1, <2>1, StoresDiffer, DecisionEdits
  <2> QED  BY <1>2, <2>2 DEF Stores
<1>4. /\ visit = [j \in OverlayJob |-> NoVisit] /\ stood = [j \in OverlayJob |-> {}]
      /\ approved = RecordsOf(Recorded)
  BY DEF ProjectTrustInit
<1>5. trustFile \in Stores /\ trustBak \in Stores
  BY <1>2, <1>3 DEF Stores
<1>6. OverlayTypeOK
  <2>1. approved \in SUBSET (Directory \X ValidOverlay)
    BY <1>4 DEF RecordsOf
  <2>2. visit \in [OverlayJob -> VisitType]
        /\ stood \in [OverlayJob -> SUBSET (Directory \X ValidOverlay)]
    BY <1>4, NewVisits
  <2>3. OverlayWorldTypeOK
    BY DEF ProjectTrustInit, OverlayWorldTypeOK, Content, ValidOverlay
  <2> QED  BY <1>5, <2>1, <2>2, <2>3 DEF OverlayTypeOK
<1>7. \A j \in OverlayJob :
          OnItsVisit(visit[j]) /\ RunKnows(visit[j], stood[j]) /\ DecisionKnows(visit[j])
  BY <1>4 DEF OnItsVisit, RunKnows, DecisionKnows, NoVisit, StepsOf, Saving
<1>8. OneDecides
  BY <1>4 DEF OneDecides, NoVisit, Deciding
<1> QED  BY <1>4, <1>6, <1>7, <1>8 DEF OverlayInv

LEMMA OverlayStep == OverlayInv /\ [ProjectTrustNext]_projectTrustVars => OverlayInv'
<1> SUFFICES ASSUME OverlayInv, [ProjectTrustNext]_projectTrustVars PROVE OverlayInv'
  OBVIOUS
<1>1. CASE UNCHANGED <<trustFile, trustBak, visit, approved, stood>> /\ OverlayWorldTypeOK'
  <2>1. OverlayTypeOK'
    BY <1>1 DEF OverlayInv, OverlayTypeOK
  <2>2. RecordsOf(Recorded)' \subseteq approved'
    BY <1>1 DEF OverlayInv, RecordsOf, Recorded
  <2>3. ASSUME NEW j \in OverlayJob
        PROVE  (OnItsVisit(visit[j]) /\ RunKnows(visit[j], stood[j]) /\ DecisionKnows(visit[j]))'
    <3>1. OnItsVisit(visit[j])'
      BY <1>1 DEF OverlayInv, OnItsVisit
    <3>2. RunKnows(visit[j], stood[j])'
      BY <1>1 DEF OverlayInv, RunKnows, RecordsOf
    <3>3. DecisionKnows(visit[j])'
      BY <1>1 DEF OverlayInv, DecisionKnows, Decided, Recorded
    <3> QED  BY <3>1, <3>2, <3>3
  <2>4. OneDecides'
    BY <1>1 DEF OverlayInv, OneDecides
  <2> QED  BY <2>1, <2>2, <2>3, <2>4 DEF OverlayInv
<1>2. CASE UNCHANGED projectTrustVars
  <2>1. OverlayWorldTypeOK'
    BY <1>2 DEF projectTrustVars, OverlayInv, OverlayTypeOK, OverlayWorldTypeOK
  <2> QED  BY <1>1, <1>2, <2>1 DEF projectTrustVars
<1>3. CASE ProjectTrustNext
  <2>1. OverlayWorldTypeOK'
    BY <1>3, WorldTypes
  <2>2. CASE EditProject
    BY <1>1, <2>1, <2>2 DEF EditProject, storeFiles
  <2>3. ASSUME NEW j \in OverlayJob, StartVisit(j) PROVE OverlayInv'
    BY <2>1, <2>3, StartStep
  <2>4. ASSUME NEW j \in OverlayJob, InspectOverlay(j) PROVE OverlayInv'
    BY <2>1, <2>4, LookingSteps
  <2>5. ASSUME NEW j \in OverlayJob, TrustOverlay(j) PROVE OverlayInv'
    BY <2>1, <2>5, TrustingSteps
  <2>6. ASSUME NEW j \in OverlayJob, SaveStore(j) PROVE OverlayInv'
    BY <2>1, <2>6, SavingSteps
  <2>7. ASSUME NEW j \in OverlayJob, RunOverlayTool(j) \/ KillVisit(j) PROVE OverlayInv'
    BY <2>1, <2>7, LeavingStep DEF RunOverlayTool, KillVisit, Quiet, storeFiles
  <2> QED  BY <1>3, <2>2, <2>3, <2>4, <2>5, <2>6, <2>7 DEF ProjectTrustNext
<1> QED  BY <1>2, <1>3

LEMMA OverlayInvariance == ProjectTrustSpec => []OverlayInv
BY OverlayInit, OverlayStep, PTL DEF ProjectTrustSpec

\* A tool of an overlay runs only with the contents approved for that very root
\* at some time since its command began, in place of no global tool and never
\* from a project that could write its own trust (inspectLocation, Trust).
THEOREM RunsAreApproved == ProjectTrustSpec => []RunsApproved
<1>1. OverlayInv => RunsApproved
  <2> SUFFICES ASSUME OverlayInv, NEW j \in OverlayJob, visit[j].cmd = "run", visit[j].step = "run"
               PROVE  /\ <<visit[j].at, visit[j].seen>> \in stood[j]
                      /\ ToolNames(visit[j].seen) \intersect visit[j].global = {}
                      /\ visit[j].at \notin Enclosing
    BY DEF RunsApproved
  <2> QED  BY DEF OverlayInv, OnItsVisit, RunKnows
<1> QED  BY <1>1, OverlayInvariance, PTL

\* Only the step that publishes a decision changes what counts, and only for the
\* project it is about: recovering the store, moving it aside, putting it back,
\* cleaning up and a crash between any two of them keep every record.
LEMMA RecordsChange ==
    ASSUME OverlayInv, ProjectTrustNext, NEW p \in Directory, Recorded'[p] # Recorded[p]
    PROVE  \E j \in OverlayJob :
              /\ visit[j].at = p /\ visit[j].cmd \in Deciding
              /\ visit[j].step = "publish" /\ visit'[j].step = "cleanBak"
<1>1. Recorded' # Recorded  OBVIOUS
<1>2. ~UNCHANGED <<trustFile, trustBak>>
  BY <1>1 DEF Recorded
<1>3. PICK j \in OverlayJob : SaveStore(j) \/ LoadForMutation(j)
  BY <1>2 DEF ProjectTrustNext, EditProject, StartVisit, InspectOverlay, Climb, Find, LoadOverlay,
              ReadStore, ReadBackup, Judge, TrustOverlay, Approve, Decline, Recheck,
              InstallProjectShims, RecheckAfterShims, RunOverlayTool, KillVisit, Quiet, storeFiles
<1> PICK w : w = visit[j]  OBVIOUS
<1>4. /\ w \in VisitType /\ OnItsVisit(w) /\ DecisionKnows(w) /\ Recorded \in Store
      /\ trustFile \in Stores /\ trustBak \in Stores
  BY AtWork DEF OverlayInv, OverlayTypeOK
<1>5. ~LoadForMutation(j)
  BY <1>1 DEF LoadForMutation, Recovered, Recorded
<1>6. ~DropTrustBak(j)
  BY <1>1, <1>4 DEF DropTrustBak, VisitAt, Recorded, DecisionKnows
<1>7. ~MoveTrustAside(j)
  BY <1>1, <1>4 DEF MoveTrustAside, VisitAt, Recorded, DecisionKnows, storeFiles
<1>8. ~PutTrustBack(j)
  BY <1>1, <1>4 DEF PutTrustBack, VisitAt, Recorded, DecisionKnows, storeFiles
<1>9. ~CleanTrustBak(j)
  BY <1>1, <1>4 DEF CleanTrustBak, VisitAt, Recorded, DecisionKnows
<1>10. PublishTrust(j)
  BY <1>3, <1>5, <1>6, <1>7, <1>8, <1>9 DEF SaveStore
<1>11. w.step = "publish" /\ trustFile' = w.new /\ To(j, "cleanBak") /\ trustBak' = trustBak
  BY <1>1, <1>10 DEF PublishTrust, VisitAt, Recorded
<1>12. w.cmd \in Deciding /\ w.at \in Directory /\ (w.cmd = "trust" => w.seen \in ValidOverlay)
  BY <1>4, <1>11 DEF OnItsVisit, StepsOf, VisitType, Commands, Deciding, Looking, Saving
<1>13. PICK c \in ValidOverlay \union {NoRecord} : w.new = [Recorded EXCEPT ![w.at] = c]
  BY <1>4, <1>11, <1>12 DEF DecisionKnows, Decided, Saving
<1>14. w.new \in Store /\ \A q \in Directory \ {w.at} : w.new[q] = Recorded[q]
  BY <1>4, <1>12, <1>13, DecisionEdits
<1>15. Recorded' = w.new
  BY <1>11, <1>14, StoresDiffer DEF Recorded
<1>16. w.at = p
  BY <1>14, <1>15
<1>17. visit'[j].step = "cleanBak"
  BY <1>4, <1>11 DEF To, OverlayInv, OverlayTypeOK, VisitType
<1> QED  BY <1>11, <1>12, <1>16, <1>17

\* What is recorded of a project changes only when the user trusts or withdraws
\* that project (loadStoreForMutation, saveStore).
THEOREM DecisionsKeepOthers == ProjectTrustSpec => OthersKept
<1>1. OverlayInv /\ [ProjectTrustNext]_projectTrustVars
        => [\A p \in Directory :
              Recorded'[p] # Recorded[p] =>
                  \E j \in OverlayJob :
                      /\ visit[j].at = p /\ visit[j].cmd \in Deciding
                      /\ visit[j].step = "publish" /\ visit'[j].step = "cleanBak"]_projectTrustVars
  BY RecordsChange
<1> QED  BY <1>1, OverlayInvariance, PTL DEF ProjectTrustSpec, OthersKept

=============================================================================
