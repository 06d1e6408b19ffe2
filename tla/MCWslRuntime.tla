--------------------------- MODULE MCWslRuntime ---------------------------
(* Small instances of WslRuntime. *)
EXTENDS WslRuntime, Naturals, FiniteSets, TLC

\* Runs differ in nothing but their random identity.
Symmetry == Permutations(Runner)

\* Every process may be killed and any request may fail; of those whose sender
\* gave up, this many at most are still on their way at a time.
MaxLate == 2

FewLate == Cardinality(wire) <= MaxLate
=============================================================================
