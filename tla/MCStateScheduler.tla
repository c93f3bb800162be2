-------------------------- MODULE MCStateScheduler --------------------------
(* Instances of StateScheduler for TLC. *)
EXTENDS StateScheduler, TLC

(* States, handlers and call sites are interchangeable. *)
Symmetry == Permutations(States) \cup Permutations(Handlers) \cup Permutations(Points)

=============================================================================
