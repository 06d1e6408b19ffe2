--------------------------- MODULE MCRegistryStore ---------------------------
(* TLC instances of RegistryStore: what the registry may hold at first. *)
EXTENDS RegistryStore, Naturals, TLC

InitialBoth == {Absent, File({"custom"})}
InitialPresent == {File({"custom"})}
Symmetry == Permutations(Process)

\* Three commands, at most one of them killed and two killed or failed: at least
\* one is there to meet what they left.  Any operation of any may fail.
MaxKilled == 1
MaxFailed == 2
Killed == {p \in Process : pc[p] = "killed"}
Failed == {p \in Process : step[p] \in {"failed", "unrestored"}}

SomeSucceed == Cardinality(Killed \union Failed) <= MaxFailed

BoundedNext == StoreNext /\ Cardinality(Killed') <= MaxKilled

BoundedSpec == StoreInit /\ [][BoundedNext]_vars
=============================================================================
