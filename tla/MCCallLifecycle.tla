-------------------------- MODULE MCCallLifecycle --------------------------
(* Instances of CallLifecycle for TLC.                                     *)
EXTENDS CallLifecycle, TLC

\* Calls of one direction and numbers are interchangeable.
Symmetry == Permutations(Incoming) \cup Permutations(Outgoing)
              \cup Permutations(Numbers)
=============================================================================
