---------------------------- MODULE InputRegions ----------------------------
(***************************************************************************)
(* What symbolic execution promises of its paths: each stands for a region *)
(* of the program's inputs, no input is on two paths, no input is lost     *)
(* where a path splits or two meet, and every path is taken by some input. *)
(***************************************************************************)
CONSTANT Inputs   \* the values the symbolic bytes may have

VARIABLES
    regions,      \* the inputs of each path
    givenUp       \* inputs of paths that ended, or were narrowed on purpose

vars == <<regions, givenUp>>

Init == regions = {Inputs} /\ givenUp = {}

Apart(S) == \A R, T \in S : R # T => R \cap T = {}

(* The inputs of R are shared out among new paths. *)
Split(R) ==
    LET others == regions \ {R}
        sides == regions' \ others
    IN  /\ others \subseteq regions' /\ others \cap sides = {}
        /\ UNION sides = R /\ {} \notin sides /\ Apart(sides)
        /\ UNCHANGED givenUp

(* R goes on with some of its inputs only, or ends. *)
GiveUp(R) ==
    /\ \E S \in {{}} \cup regions' :
          /\ S \subseteq R
          /\ regions' = (regions \ {R}) \cup ({S} \ {{}})
          /\ givenUp' = givenUp \cup (R \ S)

(* Two paths that meet go on as one. *)
Merge(R, S) ==
    /\ R # S /\ regions' = (regions \ {R, S}) \cup {R \cup S}
    /\ UNCHANGED givenUp

Next ==
    \E R \in regions :
        \/ Split(R) \/ GiveUp(R)
        \/ \E S \in regions : Merge(R, S)

Spec == Init /\ [][Next]_vars

-----------------------------------------------------------------------------
(* The paths partition the inputs that were not given up: no two paths     *)
(* share an input, none is empty, and together they miss nothing.          *)
Partition ==
    /\ {} \notin regions /\ Apart(regions)
    /\ UNION regions = Inputs \ givenUp /\ givenUp \subseteq Inputs
=============================================================================
