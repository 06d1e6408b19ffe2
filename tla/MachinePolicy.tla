---------------------------- MODULE MachinePolicy ----------------------------
(***************************************************************************)
(* The decisions of internal/policy as operators: which policy documents   *)
(* are accepted, which repository a reference names, which image, lock     *)
(* entry or registry a policy authorizes.  A repository is the sequence of *)
(* its path components, the registry host first; a digest, a key and the   *)
(* content of a file are values that are equal when their bytes are.       *)
(***************************************************************************)
EXTENDS Naturals, Sequences, FiniteSets

-----------------------------------------------------------------------------
(* References: Docker Hub has aliases, and official images have no namespace *)

HubAlias == {"docker.io", "index.docker.io", "registry-1.docker.io"}
Host == HubAlias \union {"ghcr.io", "localhost"}
Invalid == <<>>

FromHub(host) == IF host \in HubAlias THEN "docker.io" ELSE host

\* The repository a reference names, tag and digest left aside, host first.
CanonicalRepository(path) ==
    IF path = Invalid THEN Invalid
    ELSE IF path[1] \notin Host
    THEN IF Len(path) = 1 THEN <<"docker.io", "library", path[1]>> ELSE <<"docker.io">> \o path
    ELSE LET host == FromHub(path[1]) IN
         IF Len(path) = 1 THEN Invalid
         ELSE IF host = "docker.io" /\ Len(path) = 2 THEN <<host, "library", path[2]>>
         ELSE <<host>> \o Tail(path)

\* A boundary of a policy: a host alone is one, and a name alone is a namespace.
CanonicalRule(path) ==
    IF path = Invalid THEN Invalid
    ELSE IF path[1] \in Host THEN <<FromHub(path[1])>> \o Tail(path)
    ELSE <<"docker.io">> \o path

\* internal/lockfile has a normal form of its own to match what Docker reports.
LockRepository(path) ==
    LET bare == IF Len(path) > 1 /\ path[1] \in HubAlias THEN Tail(path) ELSE path
    IN  IF Len(bare) = 2 /\ bare[1] = "library" THEN Tail(bare) ELSE bare

MatchesRepository(configured, reported) ==
    /\ CanonicalRepository(reported) # Invalid
    /\ LockRepository(configured) = LockRepository(reported)

Within(repository, boundary) ==
    /\ Len(boundary) <= Len(repository)
    /\ SubSeq(repository, 1, Len(boundary)) = boundary

-----------------------------------------------------------------------------
(* Documents.  rules: [repository, mechanism, identity, offline], where a    *)
(* key rule's identity is the pinned key; keys: [id, from, until].           *)

Unmanaged ==
    [version |-> 0, requireLock |-> FALSE, allowLocal |-> FALSE, allowed |-> {},
     rules |-> {}, cosign |-> "none", root |-> "none",
     signed |-> FALSE, keys |-> {}, revoked |-> {}, expires |-> 0]

Managed(p) == p.version # 0

Active(p, key, now) ==
    /\ key \in p.keys /\ key.id \notin p.revoked
    /\ key.from <= now /\ now < key.until

UsesSignatures(d) == d.signed \/ d.keys # {} \/ d.revoked # {}
UsesImageTrust(d) == d.rules # {} \/ d.cosign # "none" \/ d.root # "none"
Offline(d) == {r \in d.rules : r.offline}

AcceptedVersion(d) ==
    /\ d.version \in 1 .. 4
    /\ UsesSignatures(d) => d.version >= 2
    /\ d.root # "none" => d.version >= 4
    /\ UsesImageTrust(d) => d.version >= 3

AcceptedKeys(d, now) ==
    /\ \A k \in d.keys : k.from < k.until
    /\ \A k, l \in d.keys : k.id = l.id => k = l
    /\ d.signed => \E k \in d.keys : Active(d, k, now)

AcceptedRules(d) ==
    /\ \A r \in d.rules :
          /\ CanonicalRule(r.repository) # Invalid
          /\ \A s \in d.rules : CanonicalRule(r.repository) = CanonicalRule(s.repository) => r = s
    /\ (d.cosign # "none") = (d.rules # {})
    /\ IF Offline(d) = {} THEN d.root = "none" ELSE d.version >= 4 => d.root # "none"

\* parse: everything about a document is decided before it authorizes anything.
Accepted(d, now) ==
    /\ AcceptedVersion(d)
    /\ d.requireLock \/ d.allowed # {} \/ d.signed \/ d.rules # {}
    /\ now < d.expires
    /\ \A a \in d.allowed : CanonicalRule(a) # Invalid
    /\ AcceptedKeys(d, now)
    /\ AcceptedRules(d)

-----------------------------------------------------------------------------
(* Authorization *)

\* The most specific rule whose boundary holds the reference, if there is one.
RulesFor(p, ref) ==
    LET covering == {r \in p.rules : Within(CanonicalRepository(ref), CanonicalRule(r.repository))}
    IN  {r \in covering : \A s \in covering :
            Len(CanonicalRule(s.repository)) <= Len(CanonicalRule(r.repository))}

AllowedRepository(p, ref) ==
    p.allowed # {} => \E a \in p.allowed : Within(CanonicalRepository(ref), CanonicalRule(a))

LocalAllowed(p, ref) == RulesFor(p, ref) = {} /\ p.allowLocal

Mutant_AuthorizeImage(p, ref) ==  \* an image without a lock entry is judged by its name
    Managed(p) => AllowedRepository(p, ref)

\* An image that no lock entry stands for.
AuthorizeImage(p, ref) ==
    Managed(p) => ~p.requireLock /\ AllowedRepository(p, ref) /\ RulesFor(p, ref) = {}

NoEvidence == [fingerprint |-> Unmanaged]

\* The evidence of a lock entry is that of this digest, rule, verifier and
\* policy document, all as they are now.
RuntimeTrust(p, rule, ref, entry) ==
    LET e == entry.evidence IN
    /\ e # NoEvidence
    /\ CanonicalRepository(ref) = CanonicalRepository(entry.repository)
    /\ e.repository = CanonicalRepository(ref)
    /\ e.digest = entry.digest
    /\ e.fingerprint = p
    /\ e.mechanism = rule.mechanism /\ e.signer = rule.identity
    /\ rule.offline => p.root # "none"
    /\ e.verifier = p.cosign

AuthorizeResolvedImage(p, ref, entry) ==
    Managed(p) =>
        IF entry.local THEN LocalAllowed(p, ref)
        ELSE /\ AllowedRepository(p, ref) /\ AllowedRepository(p, entry.repository)
             /\ \A rule \in RulesFor(p, ref) : RuntimeTrust(p, rule, ref, entry)

\* May an entry of that kind be made, its evidence still to come?
AuthorizeLockTarget(p, ref, local) ==
    Managed(p) => IF local THEN LocalAllowed(p, ref) ELSE AllowedRepository(p, ref)

AuthorizeResolvedLockTarget(p, ref, entry) ==
    /\ AuthorizeLockTarget(p, ref, entry.local)
    /\ ~entry.local => AuthorizeLockTarget(p, entry.repository, FALSE)

\* A detached signature names its key; it is of exact bytes.
NoSignature == [key |-> "none", of |-> "none"]
AuthenticRegistry(p, bytes, signature, now) ==
    p.signed =>
        /\ bytes # "none" /\ signature # NoSignature
        /\ signature.of = bytes
        /\ \E k \in p.keys : k.id = signature.key /\ Active(p, k, now)
=============================================================================
