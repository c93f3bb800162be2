------------------------- MODULE MCPathExploration --------------------------
(* A program with an array x of two bits and an array y of one, for TLC.   *)
EXTENDS PathExploration

CONSTANTS x, y   \* the arrays

(* x[0], x[1] and y[0]. *)
MCElements == 1 .. 3
MCArrayOf  == <<x, x, y>>

When(reads, Holds(_)) == [models |-> {a \in Inputs : Holds(a)}, reads |-> reads]

LowBit    == When({1}, LAMBDA a : a[1] = 1)
HighBit   == When({2}, LAMBDA a : a[2] = 1)
Equal     == When({1, 2}, LAMBDA a : a[1] = a[2])
OtherByte == When({3}, LAMBDA a : a[3] = 0)
(* x[y[0]] = 1, a read at a symbolic index. *)
Indexed   == When(MCElements, LAMBDA a : a[IF a[3] = 0 THEN 1 ELSE 2] = 1)

XIs(n) == When({1, 2}, LAMBDA a : a[1] + 2 * a[2] = n)

(* Two cases with one target, a third, and a default. *)
SomeSwitch == [cases |-> <<[match |-> XIs(0), target |-> "A"],
                           [match |-> XIs(1), target |-> "A"],
                           [match |-> XIs(2), target |-> "B"]>>, default |-> "C"]

(* The default goes where a case goes. *)
SharedDefault == [SomeSwitch EXCEPT !.default = "B"]

MCConditions  == {LowBit, HighBit, Equal, Indexed}
MCOptions     == {{"max-forks"}, {"max-core-solver-time"},
                  {"cex-cache-try-all", "cex-cache-superset"}}
MCPreferences == <<HighBit, OtherByte>>
OneSwitch     == {SomeSwitch}
DefaultSwitch == {SharedDefault}
=============================================================================
