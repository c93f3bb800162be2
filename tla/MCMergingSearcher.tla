------------------------- MODULE MCMergingSearcher -------------------------
(* Three merge regions of four states under a MergingSearcher, for TLC. *)
EXTENDS StateScheduler

(* Some of the behaviours: a1 opens h1, then a2, forked off it before,     *)
(* opens h2 and in it h3; a3 is only in h2, a4 in both; then a1 ends while *)
(* it is in h1; a2 closes h3 and a3 closes h2.                             *)
CONSTANTS a1, a2, a3, a4, h1, h2, h3

Crossing ==
    /\ openMergeStack[a1] \in {<< >>, <<h1>>}
    /\ openMergeStack[a2] \in {<< >>, <<h2>>, <<h2, h3>>}
    /\ openMergeStack[a3] \in {<< >>, <<h2>>}
    /\ openMergeStack[a4] \in {<< >>, <<h2, h3>>}
    /\ a2 \in born => a1 \in born
    /\ a3 \in born => openMergeStack[a2] # << >>
    /\ a4 \in born => a3 \in born /\ Contains(mergeGroups, h3)
    /\ openMergeStack[a2] # << >> => (steps[a1] >= 2 /\ h1 = Head(mergeGroups)) \/ a4 \in born
    /\ Removed # {} => a4 \in born /\ Removed = {a1}
    /\ inCloseMerge # {} => a1 \notin states
    /\ inCloseMerge \subseteq {a2, a3}
    /\ steps[a1] <= 3 /\ steps[a2] <= 7 /\ steps[a3] <= 5

CrossingSpec == Init /\ [][Next /\ Crossing']_vars
=============================================================================
