---------------------------- MODULE MCSelfUpdate ----------------------------
(***************************************************************************)
(* A small instance of SelfUpdate.  Any operation may fail at any time;    *)
(* kills and changes by other programs are counted, and bounded.           *)
(***************************************************************************)
EXTENDS SelfUpdate, Naturals, TLC

CONSTANT MaxAccidents  \* bound: kills and changes by other programs

VARIABLE accidents

\* Updates, shims and releases are told apart by nothing but their names.
Symmetry == Permutations(Updater) \union Permutations(Shim) \union Permutations(Release)

BoundedInit == UpdateInit /\ accidents = 0

BoundedNext ==
    \/ (Work \/ Quiescent) /\ UNCHANGED accidents
    \/ Accident /\ accidents < MaxAccidents /\ accidents' = accidents + 1

BoundedSpec == BoundedInit /\ [][BoundedNext]_<<vars, accidents>>
=============================================================================
