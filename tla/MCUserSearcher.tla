--------------------------- MODULE MCUserSearcher ---------------------------
(* Instances of UserSearcher for TLC. *)
EXTENDS UserSearcher, TLC

(* States, handlers and call sites are interchangeable. *)
Symmetry == Permutations(States) \cup Permutations(Handlers) \cup Permutations(Points)

(* Options of -search, -use-merge, -use-batching-search and               *)
(* -use-iterative-deepening-time-search.                                   *)
SomeSearchOptions == {{"random-path", "use-batching-search"},
                      {"use-merge", "use-batching-search",
                       "use-iterative-deepening-time-search"}}
=============================================================================
