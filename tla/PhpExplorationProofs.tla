------------------------ MODULE PhpExplorationProofs --------------------------
(***************************************************************************)
(* The walk of php-se executes every statement of any script, and the      *)
(* constraints it collects hold on runs of it, if no jump skips anything.  *)
(*                                                                         *)
(* Bodies nest, so the runs, paths and statements of a body are recursive  *)
(* functions: that they have values follows from RecursionHasSolution, for *)
(* bodies ranked by Nesting.                                               *)
(*                                                                         *)
(* A graph has paths of its own (GraphPaths), each within a path of the    *)
(* body it was made from (GraphOnPaths), on which jumps are passed over;   *)
(* where they skip nothing, that path is within a run (GraphMatches).  The *)
(* invariant of the walk says of every call of ExecutionPerNode that some  *)
(* path of a function finds its constraints true and then goes on along    *)
(* any path of its nodes (Graph), that a call has a slice of its own, with *)
(* the condition of the alternative the call below it is at, and that      *)
(* there is one Execution for the script and each function called.         *)
(*                                                                         *)
(* For AllExplored, a call has statements left to execute (Left): those of *)
(* a function that has been called are executed or left to some call.      *)
(***************************************************************************)
EXTENDS PhpExploration, FiniteSetTheorems, SequenceTheorems, TLAPS

(* Recursion.  A recursive function exists if its value at x depends on    *)
(* its values at arguments of lower rank only.                             *)

(* Induction, for a set of numbers. *)
LEMMA SetInduction ==
    ASSUME NEW S \in SUBSET Nat, 0 \in S, \A n \in S : n + 1 \in S
    PROVE  S = Nat
<1> DEFINE R == OpToRel(<, Nat)
           T == Nat \ S
<1>1. \A x, y : <<y, x>> \in R <=> x \in Nat /\ y \in Nat /\ y < x
  BY DEF OpToRel
<1>2. T \subseteq Nat
  OBVIOUS
<1> HIDE DEF R, T
<1>3. CASE T # {}
  <2>1. IsWellFoundedOn(R, Nat)
    BY NatLessThanWellFounded DEF R
  <2>2. PICK x \in T : \A y \in T : ~(<<y, x>> \in R)
    BY <1>2, <1>3, <2>1, WFMin
  <2>3. x \in Nat /\ x # 0
    BY DEF T
  <2>4. x - 1 \in Nat /\ <<x - 1, x>> \in R
    BY <1>1, <2>3
  <2>5. x - 1 \in S
    BY <2>2, <2>4 DEF T
  <2>6. (x - 1) + 1 \in S
    BY <2>5
  <2> QED
    BY <2>3, <2>6 DEF T
<1> QED
  BY <1>3 DEF T

(* Induction on the rank. *)
LEMMA RankInduction ==
    ASSUME NEW D, NEW rank \in [D -> Nat], NEW T \in SUBSET D,
           \A x \in D : (\A y \in D : rank[y] < rank[x] => y \in T) => x \in T
    PROVE  T = D
<1> DEFINE S == {m \in Nat : \A x \in D : rank[x] < m => x \in T}
<1>1. 0 \in S
  OBVIOUS
<1>2. ASSUME NEW m \in S
      PROVE  m + 1 \in S
  <2>1. m \in Nat /\ \A x \in D : rank[x] < m => x \in T
    OBVIOUS
  <2>2. ASSUME NEW x \in D, rank[x] < m + 1
        PROVE  x \in T
    <3>1. \A y \in D : rank[y] < rank[x] => y \in T
      <4>1. rank[x] \in Nat /\ \A y \in D : rank[y] \in Nat
        OBVIOUS
      <4> QED
        BY <2>1, <2>2, <4>1
    <3> QED
      BY <3>1
  <2> QED
    BY <2>1, <2>2
<1>3. S = Nat
  <2> HIDE DEF S
  <2> QED
    BY <1>1, <1>2, SetInduction DEF S
<1>4. \A x \in D : rank[x] + 1 \in S
  BY <1>3
<1> QED
  BY <1>4

(* step[f] is f with its values computed anew from those of f. *)
Descends(step, D, R, rank) ==
    /\ R # {}
    /\ rank \in [D -> Nat]
    /\ step \in [[D -> R] -> [D -> R]]
    /\ \A f, g \in [D -> R], x \in D :
          (\A y \in D : rank[y] < rank[x] => f[y] = g[y]) => step[f][x] = step[g][x]

(* f is right up to rank m. *)
Solves(step, D, rank, f, m) == \A x \in D : rank[x] < m => step[f][x] = f[x]

LEMMA SolvesToAnyRank ==
    ASSUME NEW D, NEW R, NEW rank, NEW step, Descends(step, D, R, rank), NEW m \in Nat
    PROVE  \E f \in [D -> R] : Solves(step, D, rank, f, m)
<1> USE DEF Descends
<1> DEFINE S == {k \in Nat : \E f \in [D -> R] : Solves(step, D, rank, f, k)}
<1>1. 0 \in S
  <2>1. PICK r : r \in R
    OBVIOUS
  <2>2. [x \in D |-> r] \in [D -> R] /\ Solves(step, D, rank, [x \in D |-> r], 0)
    BY <2>1 DEF Solves
  <2> QED
    BY <2>2
<1>2. ASSUME NEW k \in S
      PROVE  k + 1 \in S
  <2>1. PICK f \in [D -> R] : Solves(step, D, rank, f, k)
    OBVIOUS
  <2>2. ASSUME NEW x \in D, rank[x] < k + 1
        PROVE  step[step[f]][x] = step[f][x]
    <3>1. \A y \in D : rank[y] < rank[x] => step[f][y] = f[y]
      <4>1. rank[x] \in Nat /\ k \in Nat
        OBVIOUS
      <4> QED
        BY <2>1, <2>2, <4>1 DEF Solves
    <3>2. step[f] \in [D -> R]
      OBVIOUS
    <3> QED
      BY <2>2, <3>1, <3>2
  <2>3. step[f] \in [D -> R] /\ Solves(step, D, rank, step[f], k + 1)
    BY <2>2 DEF Solves
  <2> QED
    BY <2>3
<1>3. S = Nat
  <2> HIDE DEF S
  <2> QED
    BY <1>1, <1>2, SetInduction DEF S
<1> QED
  BY <1>3

LEMMA RecursionHasSolution ==
    ASSUME NEW D, NEW R, NEW rank, NEW step, Descends(step, D, R, rank)
    PROVE  \E f \in [D -> R] : step[f] = f
<1>1. /\ rank \in [D -> Nat]
      /\ step \in [[D -> R] -> [D -> R]]
      /\ \A f, g \in [D -> R], x \in D :
            (\A y \in D : rank[y] < rank[x] => f[y] = g[y]) => step[f][x] = step[g][x]
  BY DEF Descends
<1> DEFINE Up(m) == CHOOSE f \in [D -> R] : Solves(step, D, rank, f, m)
<1>2. \A m \in Nat : Up(m) \in [D -> R] /\ Solves(step, D, rank, Up(m), m)
  BY SolvesToAnyRank
<1> HIDE DEF Up
<1>3. \A x \in D : rank[x] \in Nat /\ rank[x] + 1 \in Nat
  BY <1>1
<1> DEFINE T == {x \in D : \A m, n \in Nat : rank[x] < m /\ rank[x] < n => Up(m)[x] = Up(n)[x]}
<1>4. ASSUME NEW x \in D, \A y \in D : rank[y] < rank[x] => y \in T
      PROVE  x \in T
  <2> SUFFICES ASSUME NEW m \in Nat, NEW n \in Nat, rank[x] < m, rank[x] < n
               PROVE  Up(m)[x] = Up(n)[x]
    OBVIOUS
  <2>1. \A y \in D : rank[y] < rank[x] => Up(m)[y] = Up(n)[y]
    <3>1. \A y \in D : rank[y] < rank[x] => rank[y] < m /\ rank[y] < n
      BY <1>3
    <3> QED
      BY <1>4, <3>1
  <2>2. step[Up(m)][x] = step[Up(n)][x]
    BY <1>1, <1>2, <2>1
  <2>3. step[Up(m)][x] = Up(m)[x] /\ step[Up(n)][x] = Up(n)[x]
    BY <1>2 DEF Solves
  <2> QED
    BY <2>2, <2>3
<1>5. T = D
  <2> HIDE DEF T
  <2>1. T \in SUBSET D
    BY DEF T
  <2> QED
    BY <1>1, <1>4, <2>1, RankInduction
<1> DEFINE f == [x \in D |-> Up(rank[x] + 1)[x]]
<1>6. f \in [D -> R]
  BY <1>2, <1>3
<1>7. \A x \in D : f[x] = Up(rank[x] + 1)[x]
  OBVIOUS
<1> HIDE DEF f
<1>8. ASSUME NEW x \in D
      PROVE  step[f][x] = f[x]
  <2> DEFINE u == Up(rank[x] + 1)
  <2>1. u \in [D -> R] /\ step[u][x] = u[x]
    <3>1. rank[x] < rank[x] + 1
      BY <1>3
    <3> QED
      BY <1>2, <1>3, <3>1 DEF Solves
  <2>2. \A y \in D : rank[y] < rank[x] => f[y] = u[y]
    <3> SUFFICES ASSUME NEW y \in D, rank[y] < rank[x]
                 PROVE  f[y] = u[y]
      OBVIOUS
    <3>1. rank[y] < rank[x] + 1 /\ rank[y] < rank[y] + 1
      BY <1>3
    <3> QED
      BY <1>3, <1>5, <1>7, <3>1
  <2>3. step[f][x] = step[u][x]
    BY <1>1, <1>6, <2>1, <2>2
  <2> QED
    BY <1>7, <2>1, <2>3
<1>9. step[f] \in [D -> R]
  BY <1>1, <1>6
<1>10. step[f] = f
  BY <1>6, <1>8, <1>9
<1> QED
  BY <1>6, <1>10

(* Induction along a list, from its end. *)
LEMMA DownInduction ==
    ASSUME NEW n \in Nat, NEW T \in SUBSET (1 .. n + 1), n + 1 \in T,
           \A j \in 1 .. n : j + 1 \in T => j \in T
    PROVE  T = 1 .. n + 1
<1> DEFINE S == {m \in Nat : m <= n => n + 1 - m \in T}
<1>1. 0 \in S
  OBVIOUS
<1>2. ASSUME NEW m \in S
      PROVE  m + 1 \in S
  <2>1. m \in Nat /\ (m <= n => n + 1 - m \in T)
    OBVIOUS
  <2>2. ASSUME m + 1 <= n
        PROVE  n + 1 - (m + 1) \in T
    <3>1. n - m \in 1 .. n /\ n + 1 - m = (n - m) + 1 /\ n + 1 - (m + 1) = n - m
      BY <2>1, <2>2
    <3>2. (n - m) + 1 \in T
      BY <2>1, <2>2, <3>1
    <3> QED
      BY <3>1, <3>2
  <2> QED
    BY <2>1, <2>2
<1>3. S = Nat
  <2> HIDE DEF S
  <2> QED
    BY <1>1, <1>2, SetInduction DEF S
<1>4. ASSUME NEW j \in 1 .. n + 1
      PROVE  j \in T
  <2>1. n + 1 - j \in Nat /\ n + 1 - (n + 1 - j) = j /\ n + 1 - j <= n
    OBVIOUS
  <2>2. n + 1 - j \in S
    BY <1>3, <2>1
  <2> QED
    BY <2>1, <2>2
<1> QED
  BY <1>4

(* A recursion along a list, from its end. *)
AlongList(n, R, e, step, f) ==
    /\ f \in [1 .. n + 1 -> R]
    /\ f = [j \in 1 .. n + 1 |-> IF j > n THEN e ELSE step[j][f[j + 1]]]

LEMMA ListRecursion ==
    ASSUME NEW n \in Nat, NEW R, NEW e \in R, NEW step \in [1 .. n -> [R -> R]]
    PROVE  \E f : AlongList(n, R, e, step, f)
<1> DEFINE D == 1 .. n + 1
           rank == [j \in D |-> n + 1 - j]
           again == [f \in [D -> R] |-> [j \in D |-> IF j > n THEN e ELSE step[j][f[j + 1]]]]
<1>1. rank \in [D -> Nat] /\ \A j \in D : rank[j] = n + 1 - j
  OBVIOUS
<1>2. \A f \in [D -> R] : again[f] = [j \in D |-> IF j > n THEN e ELSE step[j][f[j + 1]]]
  OBVIOUS
<1>3. \A f \in [D -> R] : \A j \in D : (IF j > n THEN e ELSE step[j][f[j + 1]]) \in R
  <2> SUFFICES ASSUME NEW f \in [D -> R], NEW j \in D, ~(j > n)
               PROVE  step[j][f[j + 1]] \in R
    OBVIOUS
  <2>1. j \in 1 .. n /\ j + 1 \in D
    OBVIOUS
  <2>2. step[j] \in [R -> R] /\ f[j + 1] \in R
    BY <2>1
  <2> QED
    BY <2>2
<1>4. again \in [[D -> R] -> [D -> R]]
  BY <1>3
<1> HIDE DEF again, rank
<1>5. \A f, g \in [D -> R], j \in D :
         (\A i \in D : rank[i] < rank[j] => f[i] = g[i]) => again[f][j] = again[g][j]
  <2> SUFFICES ASSUME NEW f \in [D -> R], NEW g \in [D -> R], NEW j \in D,
                      \A i \in D : rank[i] < rank[j] => f[i] = g[i]
               PROVE  again[f][j] = again[g][j]
    OBVIOUS
  <2>1. ~(j > n) => f[j + 1] = g[j + 1]
    <3> SUFFICES ASSUME ~(j > n)
                 PROVE  f[j + 1] = g[j + 1]
      OBVIOUS
    <3>1. j + 1 \in D
      OBVIOUS
    <3>2. rank[j + 1] < rank[j]
      BY <1>1, <3>1
    <3> QED
      BY <3>1, <3>2
  <2>2. again[f] = [i \in D |-> IF i > n THEN e ELSE step[i][f[i + 1]]]
    BY <1>2
  <2>3. again[g] = [i \in D |-> IF i > n THEN e ELSE step[i][g[i + 1]]]
    BY <1>2
  <2>4. CASE j > n
    BY <2>2, <2>3, <2>4
  <2>5. CASE ~(j > n)
    BY <2>1, <2>2, <2>3, <2>5
  <2> QED
    BY <2>4, <2>5
<1>6. R # {}
  OBVIOUS
<1>7. Descends(again, D, R, rank)
  BY <1>1, <1>4, <1>5, <1>6 DEF Descends
<1>8. PICK f \in [D -> R] : again[f] = f
  <2> HIDE DEF D
  <2> QED
    BY <1>7, RecursionHasSolution
<1>9. AlongList(n, R, e, step, f)
  BY <1>2, <1>8 DEF AlongList
<1> QED
  BY <1>9

-----------------------------------------------------------------------------
(* The paths of a body as the walk has them: like runs, but jumps are      *)
(* passed over, and a case does not go on with the next one.  A path is a  *)
(* sequence of events.                                                     *)

Through(paths, condition, body, at) == {<<Holds(condition)>> \o p : p \in paths[body][at]}

Cases(paths, bodies, at) ==
    UNION {Through(paths, Inner(at, i), bodies[i], Inner(at, i)) : i \in DOMAIN bodies}

(* When none of the bodies is taken: the rest, or nothing if there is none. *)
Otherwise(paths, rest, bodies, at) ==
    IF rest = Absent THEN {<< >>} ELSE Through(paths, Absent, rest, Inner(at, Len(bodies) + 1))

Loop(paths, s, at) == {<< >>} \cup Cases(paths, <<s.body>>, at)

PathsOf(paths, s, at) ==
    CASE s.kind = "if" -> Cases(paths, s.bodies, at) \cup Otherwise(paths, s.else, s.bodies, at)
      [] s.kind = "switch" -> Cases(paths, s.cases, at) \cup Otherwise(paths, s.default, s.cases, at)
      [] s.kind = "while" -> Loop(paths, s, at)
      [] s.kind = "foreach" -> {<<Does(at)>> \o p : p \in Loop(paths, s, at)}
      [] s.kind = "try" -> paths[s.body][Inner(at, 1)]
      [] OTHER -> {<<Does(at)>>}

(* One of each set in turn, from the n-th on. *)
InTurn(sets, n) ==
    LET from[j \in 1 .. Len(sets) + 1] ==
          IF j > Len(sets) THEN {<< >>} ELSE {p \o q : p \in sets[j], q \in from[j + 1]}
    IN  from[n]

Paths(stmts, place) ==
    LET paths[b \in Bodies] ==
          [at \in Places |-> InTurn([i \in DOMAIN b |-> PathsOf(paths, b[i], Inner(at, i))], 1)]
    IN  paths[stmts][place]

(* A path of the function executes the statement at, and finds these       *)
(* conditions true before.                                                 *)
OnPath(constraints, at) ==
    LET held == [i \in DOMAIN constraints |-> Holds(constraints[i])]
    IN  /\ at[1] \in FunctionNames
        /\ \E path \in Paths(script[at[1]], Whole(at[1])) : \E i \in DOMAIN path :
              path[i] = Does(at) /\ Within(held, SubSeq(path, 1, i - 1))

-----------------------------------------------------------------------------
(* Types *)

AnyCondition == Places \cup {Absent}

Events == {Holds(c) : c \in AnyCondition} \cup {Does(at) : at \in Places}

PathSets == SUBSET Seq(Events)

(* A path of the one set, then one of the other. *)
Joined(A, B) == {p \o q : p \in A, q \in B}

LEMMA JoinedHas ==
    ASSUME NEW A, NEW B, NEW r \in Joined(A, B)
    PROVE  \E p \in A, q \in B : r = p \o q
BY DEF Joined

LEMMA JoinedIn ==
    ASSUME NEW A, NEW B
    PROVE  /\ \A p \in A, q \in B : p \o q \in Joined(A, B)
           /\ \A r \in Joined(A, B) : \E p \in A, q \in B : r = p \o q
           /\ A \in PathSets /\ B \in PathSets => Joined(A, B) \in PathSets
<1>1. \A p \in A, q \in B : p \o q \in Joined(A, B)
  BY DEF Joined
<1>2. \A r \in Joined(A, B) : \E p \in A, q \in B : r = p \o q
  BY DEF Joined
<1>3. ASSUME A \in PathSets, B \in PathSets
      PROVE  Joined(A, B) \in PathSets
  <2>1. ASSUME NEW r \in Joined(A, B)
        PROVE  r \in Seq(Events)
    <3>1. PICK p \in A, q \in B : r = p \o q
      BY <1>2
    <3>2. p \in Seq(Events) /\ q \in Seq(Events)
      BY <1>3 DEF PathSets
    <3> QED
      BY <3>1, <3>2
  <2> QED
    BY <2>1 DEF PathSets
<1> QED
  BY <1>1, <1>2, <1>3

(* The values of InTurn. *)
Turns(sets, from) ==
    /\ from \in [1 .. Len(sets) + 1 -> PathSets]
    /\ from = [j \in 1 .. Len(sets) + 1 |->
                 IF j > Len(sets) THEN {<< >>} ELSE Joined(sets[j], from[j + 1])]
    /\ \A n : InTurn(sets, n) = from[n]

LEMMA TurnList ==
    ASSUME NEW sets \in Seq(PathSets)
    PROVE  \E from : Turns(sets, from)
<1> DEFINE m == Len(sets)
           step == [j \in 1 .. m |-> [r \in PathSets |-> Joined(sets[j], r)]]
           Right(f) == f = [j \in 1 .. Len(sets) + 1 |->
                            IF j > Len(sets) THEN {<< >>} ELSE Joined(sets[j], f[j + 1])]
<1>1. m \in Nat
  OBVIOUS
<1>2. step \in [1 .. m -> [PathSets -> PathSets]]
  <2> SUFFICES ASSUME NEW j \in 1 .. m, NEW r \in PathSets
               PROVE  Joined(sets[j], r) \in PathSets
    OBVIOUS
  <2>1. sets[j] \in PathSets
    OBVIOUS
  <2> QED
    BY <2>1, JoinedIn
<1>3. {<< >>} \in PathSets
  BY DEF PathSets
<1>4. \A j \in 1 .. m : \A r \in PathSets : step[j][r] = Joined(sets[j], r)
  OBVIOUS
<1> HIDE DEF step
<1>51. PICK f : AlongList(m, PathSets, {<< >>}, step, f)
  <2> HIDE DEF m
  <2> QED
    BY <1>1, <1>2, <1>3, ListRecursion
<1>5. /\ f \in [1 .. m + 1 -> PathSets]
      /\ f = [j \in 1 .. m + 1 |-> IF j > m THEN {<< >>} ELSE step[j][f[j + 1]]]
  BY <1>51 DEF AlongList
<1>6. Right(f)
  <2>1. \A j \in 1 .. m + 1 : ~(j > m) => step[j][f[j + 1]] = Joined(sets[j], f[j + 1])
    <3> SUFFICES ASSUME NEW j \in 1 .. m + 1, ~(j > m)
                 PROVE  step[j][f[j + 1]] = Joined(sets[j], f[j + 1])
      OBVIOUS
    <3>1. j \in 1 .. m /\ j + 1 \in 1 .. m + 1
      BY <1>1
    <3>2. f[j + 1] \in PathSets
      BY <1>5, <3>1
    <3> QED
      BY <1>4, <3>1, <3>2
  <2> QED
    BY <1>5, <2>1
<1> DEFINE g == CHOOSE h : Right(h)
<1>7. Right(g)
  BY <1>6
<1>8. \A n : InTurn(sets, n) = g[n]
  BY DEF InTurn, Joined
<1> HIDE DEF g
<1>9. g \in [1 .. m + 1 -> PathSets]
  <2> DEFINE T == {j \in 1 .. m + 1 : g[j] \in PathSets}
  <2>1. m + 1 \in T
    <3>1. m + 1 \in 1 .. m + 1 /\ m + 1 > m
      BY <1>1
    <3>2. g[m + 1] = {<< >>}
      BY <1>7, <3>1
    <3> QED
      BY <1>3, <3>1, <3>2
  <2>2. ASSUME NEW j \in 1 .. m, j + 1 \in T
        PROVE  j \in T
    <3>1. j \in 1 .. m + 1 /\ ~(j > m)
      BY <1>1
    <3>3. g[j + 1] \in PathSets
      BY <2>2
    <3>4. g[j] = Joined(sets[j], g[j + 1])
      BY <1>7, <3>1
    <3>5. sets[j] \in PathSets
      OBVIOUS
    <3> QED
      BY <3>1, <3>3, <3>4, <3>5, JoinedIn
  <2>3. T = 1 .. m + 1
    <3> HIDE DEF T
    <3>1. T \in SUBSET (1 .. m + 1)
      BY DEF T
    <3> HIDE DEF m
    <3> QED
      BY <1>1, <2>1, <2>2, <3>1, DownInduction
  <2>4. DOMAIN g = 1 .. m + 1 /\ g = [j \in 1 .. m + 1 |-> g[j]]
    BY <1>7
  <2> QED
    BY <2>3, <2>4
<1>10. Turns(sets, g)
  BY <1>7, <1>8, <1>9 DEF Turns
<1> QED
  BY <1>10

(* What InTurn is. *)
LEMMA TurnDef ==
    ASSUME NEW sets \in Seq(PathSets)
    PROVE  /\ InTurn(sets, Len(sets) + 1) = {<< >>}
           /\ \A j \in 1 .. Len(sets) :
                 InTurn(sets, j) = Joined(sets[j], InTurn(sets, j + 1))
           /\ \A j \in 1 .. Len(sets) + 1 : InTurn(sets, j) \in PathSets
<1>0. PICK from : Turns(sets, from)
  BY TurnList
<1>1. /\ \A n : InTurn(sets, n) = from[n]
      /\ from \in [1 .. Len(sets) + 1 -> PathSets]
      /\ \A j \in 1 .. Len(sets) + 1 :
            from[j] = IF j > Len(sets) THEN {<< >>} ELSE Joined(sets[j], from[j + 1])
  BY <1>0 DEF Turns
<1>2. Len(sets) \in Nat
  OBVIOUS
<1>3. InTurn(sets, Len(sets) + 1) = {<< >>}
  <2>1. Len(sets) + 1 \in 1 .. Len(sets) + 1 /\ Len(sets) + 1 > Len(sets)
    BY <1>2
  <2>2. from[Len(sets) + 1] = {<< >>}
    BY <1>1, <2>1
  <2> QED
    BY <1>1, <2>2
<1>4. ASSUME NEW j \in 1 .. Len(sets)
      PROVE  InTurn(sets, j) = Joined(sets[j], InTurn(sets, j + 1))
  <2>1. j \in 1 .. Len(sets) + 1 /\ ~(j > Len(sets))
    BY <1>2
  <2>2. from[j] = Joined(sets[j], from[j + 1])
    BY <1>1, <2>1
  <2>3. InTurn(sets, j) = from[j] /\ InTurn(sets, j + 1) = from[j + 1]
    BY <1>1
  <2> QED
    BY <2>2, <2>3
<1>5. \A j \in 1 .. Len(sets) + 1 : InTurn(sets, j) \in PathSets
  BY <1>1
<1> QED
  BY <1>3, <1>4, <1>5

(* It looks at nothing before its place. *)
LEMMA TurnTail ==
    ASSUME NEW sets \in Seq(PathSets), sets # << >>
    PROVE  \A j \in 1 .. Len(sets) : InTurn(Tail(sets), j) = InTurn(sets, j + 1)
<1> DEFINE rest == Tail(sets)
           m == Len(rest)
           T == {j \in 1 .. m + 1 : InTurn(rest, j) = InTurn(sets, j + 1)}
<1>1. rest \in Seq(PathSets) /\ m \in Nat /\ Len(sets) = m + 1 /\ \A j \in 1 .. m : rest[j] = sets[j + 1]
  OBVIOUS
<1> HIDE DEF rest, m
<1>2. m + 1 \in T
  <2>1. InTurn(rest, m + 1) = {<< >>}
    BY <1>1, TurnDef DEF m
  <2>2. InTurn(sets, (m + 1) + 1) = {<< >>}
    BY <1>1, TurnDef
  <2>3. m + 1 \in 1 .. m + 1
    BY <1>1
  <2> QED
    BY <2>1, <2>2, <2>3
<1>3. ASSUME NEW j \in 1 .. m, j + 1 \in T
      PROVE  j \in T
  <2>1. j + 1 \in 1 .. Len(sets)
    BY <1>1
  <2>2. InTurn(rest, j) = Joined(rest[j], InTurn(rest, j + 1))
    BY <1>1, TurnDef DEF m
  <2>3. InTurn(sets, j + 1) = Joined(sets[j + 1], InTurn(sets, (j + 1) + 1))
    BY <2>1, TurnDef
  <2>4. rest[j] = sets[j + 1] /\ InTurn(rest, j + 1) = InTurn(sets, (j + 1) + 1)
    BY <1>1, <1>3
  <2>5. InTurn(rest, j) = InTurn(sets, j + 1)
    BY <2>2, <2>3, <2>4
  <2> QED
    BY <1>1, <2>5
<1>4. T = 1 .. m + 1
  <2> HIDE DEF T
  <2>1. T \in SUBSET (1 .. m + 1)
    BY DEF T
  <2> QED
    BY <1>1, <1>2, <1>3, <2>1, DownInduction
<1> QED
  BY <1>1, <1>4 DEF rest

(* One of the first set, then the others in turn. *)
LEMMA TurnOne ==
    ASSUME NEW sets \in Seq(PathSets)
    PROVE  /\ sets = << >> => InTurn(sets, 1) = {<< >>}
           /\ sets # << >> =>
                InTurn(sets, 1) = Joined(Head(sets), InTurn(Tail(sets), 1))
           /\ InTurn(sets, 1) \in PathSets
<1>1. CASE sets = << >>
  <2>1. Len(sets) = 0 /\ 1 \in 1 .. Len(sets) + 1
    BY <1>1
  <2>2. InTurn(sets, 0 + 1) = {<< >>} /\ InTurn(sets, 1) \in PathSets
    BY <2>1, TurnDef
  <2> QED
    BY <1>1, <2>2
<1>2. CASE sets # << >>
  <2>1. 1 \in 1 .. Len(sets) /\ 1 \in 1 .. Len(sets) + 1 /\ Head(sets) = sets[1]
    BY <1>2
  <2>2. InTurn(sets, 1) = Joined(sets[1], InTurn(sets, 1 + 1)) /\ InTurn(sets, 1) \in PathSets
    BY <2>1, TurnDef
  <2>3. InTurn(Tail(sets), 1) = InTurn(sets, 1 + 1)
    BY <1>2, <2>1, TurnTail
  <2> QED
    BY <1>2, <2>1, <2>2, <2>3
<1> QED
  BY <1>1, <1>2

-----------------------------------------------------------------------------
(* Scripts and their nodes *)

LEMMA InnerPlace ==
    ASSUME NEW at \in Places, NEW i \in Nat
    PROVE  Inner(at, i) \in Places /\ Inner(at, i)[1] = at[1]
<1>1. at[1] \in STRING /\ at[2] \in Seq(Nat)
  BY DEF Places
<1>2. Append(at[2], i) \in Seq(Nat)
  BY <1>1
<1>3. <<at[1], Append(at[2], i)>> \in STRING \X Seq(Nat)
  BY <1>1, <1>2
<1> QED
  BY <1>3 DEF Places, Inner

LEMMA WholePlace ==
    ASSUME NEW f \in FunctionNames
    PROVE  Whole(f) \in Places /\ Whole(f)[1] = f
<1>1. f \in STRING
  BY ScriptParameters
<1>2. << >> \in Seq(Nat)
  OBVIOUS
<1>3. <<f, << >> >> \in STRING \X Seq(Nat)
  BY <1>1, <1>2
<1> QED
  BY <1>3 DEF Places, Whole

LEMMA ListsAreLists ==
    ASSUME NEW l, IsList(l), NEW T, \A i \in DOMAIN l : l[i] \in T
    PROVE  l \in Seq(T)
<1>1. l \in Seq({l[i] : i \in DOMAIN l})
  BY DEF IsList
<1>2. Len(l) \in Nat /\ DOMAIN l = 1 .. Len(l) /\ l = [i \in 1 .. Len(l) |-> l[i]]
  BY <1>1
<1> QED
  BY <1>2

LEMMA BodyShape ==
    ASSUME NEW b \in Bodies
    PROVE  /\ Len(b) \in Nat /\ DOMAIN b = 1 .. Len(b)
           /\ Nesting(b) \in Nat
<1>1. IsList(b) /\ Nesting(b) \in Nat
  BY ScriptParameters
<1>2. b \in Seq({b[i] : i \in DOMAIN b})
  BY <1>1 DEF IsList
<1> QED
  BY <1>1, <1>2

(* A switch without a case is a branch that goes nowhere. *)
SwitchesHaveCases ==
    \A b \in Bodies : \A i \in DOMAIN b : b[i].kind = "switch" => b[i].cases # << >>

Shaped(s, n) ==
    /\ s.kind = "if" => /\ s.bodies \in Seq(Bodies) /\ s.bodies # << >>
                        /\ \A i \in DOMAIN s.bodies : Nesting(s.bodies[i]) < n
                        /\ s.else # Absent => s.else \in Bodies /\ Nesting(s.else) < n
    /\ s.kind = "switch" => /\ s.cases \in Seq(Bodies)
                            /\ \A i \in DOMAIN s.cases : Nesting(s.cases[i]) < n
                            /\ s.default # Absent => s.default \in Bodies /\ Nesting(s.default) < n
                            /\ SwitchesHaveCases => s.cases # << >>
    /\ s.kind \in {"while", "foreach", "try"} => s.body \in Bodies /\ Nesting(s.body) < n
    /\ s.kind = "call" => s.name \in FunctionNames

LEMMA StatementShape ==
    ASSUME NEW b \in Bodies, NEW i \in DOMAIN b
    PROVE  Shaped(b[i], Nesting(b))
<1> DEFINE s == b[i]
           n == Nesting(b)
<1>1. /\ \A c \in Nested(s) : c \in Bodies /\ Nesting(c) < n
      /\ s.kind = "if" => IsList(s.bodies) /\ s.bodies # << >>
      /\ s.kind = "switch" => IsList(s.cases)
      /\ s.kind = "call" => s.name \in FunctionNames
  BY ScriptParameters
<1>6. s.kind = "switch" => (SwitchesHaveCases => s.cases # << >>)
  BY DEF SwitchesHaveCases
<1> HIDE DEF s, n
<1>2. ASSUME s.kind = "if"
      PROVE  /\ s.bodies \in Seq(Bodies)
             /\ \A j \in DOMAIN s.bodies : Nesting(s.bodies[j]) < n
             /\ s.else # Absent => s.else \in Bodies /\ Nesting(s.else) < n
  <2>1. Nested(s) = ToSet(s.bodies) \cup ({s.else} \ {Absent})
    BY <1>2 DEF Nested
  <2>2. \A j \in DOMAIN s.bodies : s.bodies[j] \in Nested(s)
    BY <2>1 DEF ToSet
  <2>3. s.bodies \in Seq(Bodies)
    BY <1>1, <1>2, <2>2, ListsAreLists
  <2> QED
    BY <1>1, <2>1, <2>2, <2>3
<1>3. ASSUME s.kind = "switch"
      PROVE  /\ s.cases \in Seq(Bodies)
             /\ \A j \in DOMAIN s.cases : Nesting(s.cases[j]) < n
             /\ s.default # Absent => s.default \in Bodies /\ Nesting(s.default) < n
  <2>1. Nested(s) = ToSet(s.cases) \cup ({s.default} \ {Absent})
    BY <1>3 DEF Nested
  <2>2. \A j \in DOMAIN s.cases : s.cases[j] \in Nested(s)
    BY <2>1 DEF ToSet
  <2>3. s.cases \in Seq(Bodies)
    BY <1>1, <1>3, <2>2, ListsAreLists
  <2> QED
    BY <1>1, <2>1, <2>2, <2>3
<1>4. ASSUME s.kind \in {"while", "foreach", "try"}
      PROVE  s.body \in Bodies /\ Nesting(s.body) < n
  <2>1. Nested(s) = {s.body}
    BY <1>4 DEF Nested
  <2> QED
    BY <1>1, <2>1
<1>5. Shaped(s, n)
  BY <1>1, <1>2, <1>3, <1>4, <1>6 DEF Shaped
<1> QED
  BY <1>5 DEF s, n

AllStatements == UNION {{b[i] : i \in DOMAIN b} : b \in Bodies}

StmtNodes == [type : {"Stmt"}, at : Places, stmt : AllStatements \cup {[kind |-> "clean"]}]

IfNodes ==
    {n \in [type : {"IfStmt"}, at : Places, conditions : Seq(AnyCondition), bodies : Seq(Bodies)] :
        Len(n.conditions) <= Len(n.bodies) /\ (SwitchesHaveCases => n.conditions # << >>)}

(* The nodes of a function's graph. *)
NodesAt(f) == {n \in StmtNodes \cup IfNodes : n.at[1] = f}

LEMMA NodeShape ==
    ASSUME NEW f, NEW n \in NodesAt(f)
    PROVE  /\ n.at \in Places /\ n.at[1] = f
           /\ n.type \in {"Stmt", "IfStmt"}
           /\ n.type = "Stmt" /\ n.stmt.kind = "call" => n.stmt.name \in FunctionNames
           /\ n.type = "IfStmt" =>
                /\ n.conditions \in Seq(AnyCondition) /\ n.bodies \in Seq(Bodies)
                /\ Len(n.conditions) <= Len(n.bodies)
                /\ SwitchesHaveCases => n.conditions # << >>
<1>1. n.at[1] = f /\ n \in StmtNodes \cup IfNodes
  BY DEF NodesAt
<1>2. CASE n \in StmtNodes
  <2>1. n.type = "Stmt" /\ n.at \in Places /\ n.stmt \in AllStatements \cup {[kind |-> "clean"]}
    BY <1>2 DEF StmtNodes
  <2>2. ASSUME n.stmt.kind = "call"
        PROVE  n.stmt.name \in FunctionNames
    <3>1. n.stmt \in AllStatements
      <4>1. [kind |-> "clean"].kind # "call"
        OBVIOUS
      <4> QED
        BY <2>1, <2>2, <4>1
    <3>2. PICK b \in Bodies : \E i \in DOMAIN b : n.stmt = b[i]
      BY <3>1 DEF AllStatements
    <3>3. PICK i \in DOMAIN b : n.stmt = b[i]
      BY <3>2
    <3>4. Shaped(n.stmt, Nesting(b))
      BY <3>3, StatementShape
    <3> QED
      BY <2>2, <3>4 DEF Shaped
  <2> QED
    BY <1>1, <2>1, <2>2
<1>3. CASE n \in IfNodes
  BY <1>1, <1>3 DEF IfNodes
<1> QED
  BY <1>1, <1>2, <1>3

LEMMA ConditionsAre ==
    ASSUME NEW bodies \in Seq(Bodies), NEW at \in Places
    PROVE  /\ Conditions(bodies, at) \in Seq(AnyCondition)
           /\ Len(Conditions(bodies, at)) = Len(bodies)
           /\ \A i \in 1 .. Len(bodies) : Conditions(bodies, at)[i] = Inner(at, i)
<1>1. DOMAIN bodies = 1 .. Len(bodies) /\ Len(bodies) \in Nat
  OBVIOUS
<1>2. \A i \in 1 .. Len(bodies) : Inner(at, i) \in AnyCondition
  BY <1>1, InnerPlace DEF AnyCondition
<1>3. Conditions(bodies, at) = [i \in 1 .. Len(bodies) |-> Inner(at, i)]
  BY <1>1 DEF Conditions
<1> QED
  BY <1>1, <1>2, <1>3

(* The body of a branch's i-th alternative. *)
IfNode(n, at, conditions, bodies) ==
    /\ n \in IfNodes
    /\ n.type = "IfStmt" /\ n.at = at /\ n.conditions = conditions /\ n.bodies = bodies

LEMMA IfNodeIs ==
    ASSUME NEW at \in Places, NEW conditions \in Seq(AnyCondition), NEW bodies \in Seq(Bodies),
           Len(conditions) <= Len(bodies), SwitchesHaveCases => conditions # << >>
    PROVE  IfNode(CFGIfNode(conditions, bodies, at), at, conditions, bodies)
BY DEF CFGIfNode, IfNodes, IfNode

LEMMA GeneralNodeIs ==
    ASSUME NEW at \in Places, NEW stmt \in AllStatements \cup {[kind |-> "clean"]}
    PROVE  /\ GeneralNode(stmt, at) \in StmtNodes
           /\ GeneralNode(stmt, at).type = "Stmt" /\ GeneralNode(stmt, at).at = at
BY DEF GeneralNode, StmtNodes

(* What the nodes of a statement are. *)
NodesAre(s, at, nodes) ==
    \/ /\ s.kind = "if" /\ s.else = Absent
       /\ \E n : nodes = <<n>> /\ IfNode(n, at, Conditions(s.bodies, at), s.bodies)
    \/ /\ s.kind = "if" /\ s.else # Absent
       /\ \E n : nodes = <<n>> /\ IfNode(n, at, Append(Conditions(s.bodies, at), Absent), Append(s.bodies, s.else))
    \/ /\ s.kind = "switch"
       /\ \E n, bodies : /\ nodes = <<n>> /\ IfNode(n, at, Conditions(s.cases, at), bodies)
                         /\ \A i \in 1 .. Len(s.cases) : bodies[i] = s.cases[i]
    \/ /\ s.kind = "while"
       /\ \E n : nodes = <<n>> /\ IfNode(n, at, Conditions(<<s.body>>, at), <<s.body>>)
    \/ /\ s.kind = "foreach"
       /\ \E m, n : /\ nodes = <<m, n>> /\ IfNode(n, at, Conditions(<<s.body>>, at), <<s.body>>)
                    /\ m \in StmtNodes /\ m.type = "Stmt" /\ m.at = at
    \/ s.kind = "try" /\ nodes = << >>
    \/ /\ s.kind \notin {"if", "switch", "while", "foreach", "try"}
       /\ \E m : nodes = <<m>> /\ m \in StmtNodes /\ m.type = "Stmt" /\ m.at = at

LEMMA OneAndOne ==
    ASSUME NEW m, NEW n
    PROVE  <<m>> \o <<n>> = <<m, n>>
<1> DEFINE l == <<m>> \o <<n>>
<1>1. <<m>> \in Seq({m, n}) /\ <<n>> \in Seq({m, n}) /\ <<m, n>> \in Seq({m, n})
  OBVIOUS
<1>2. l \in Seq({m, n}) /\ Len(l) = 2
  BY <1>1
<1>3. l[1] = m /\ l[2] = n
  BY <1>1
<1> HIDE DEF l
<1>4. l = <<m, n>>
  BY <1>1, <1>2, <1>3
<1> QED
  BY <1>4 DEF l

LEMMA StatementNodes ==
    ASSUME NEW b \in Bodies, NEW i \in DOMAIN b, NEW at \in Places
    PROVE  NodesAre(b[i], at, NodesOf(b[i], at))
<1> DEFINE s == b[i]
<1>1. Shaped(s, Nesting(b)) /\ s \in AllStatements
  BY StatementShape DEF AllStatements
<1> SUFFICES NodesAre(s, at, NodesOf(s, at))
  OBVIOUS
<1> HIDE DEF s
<1>2. CASE s.kind = "if" /\ s.else = Absent
  <2>1. NodesOf(s, at) = <<CFGIfNode(Conditions(s.bodies, at), s.bodies, at)>>
    BY <1>2 DEF NodesOf, ProcessIfStmt
  <2>2. s.bodies \in Seq(Bodies) /\ s.bodies # << >>
    BY <1>1, <1>2 DEF Shaped
  <2> DEFINE cs == Conditions(s.bodies, at)
             bs == s.bodies
  <2>4. cs \in Seq(AnyCondition) /\ Len(cs) = Len(bs)
    BY <2>2, ConditionsAre
  <2> HIDE DEF cs, bs
  <2>5. bs \in Seq(Bodies) /\ bs # << >>
    BY <2>2 DEF bs
  <2>6. Len(cs) <= Len(bs) /\ cs # << >>
    BY <2>4, <2>5
  <2>7. IfNode(CFGIfNode(cs, bs, at), at, cs, bs)
    BY <2>4, <2>5, <2>6, IfNodeIs
  <2>3. IfNode(CFGIfNode(Conditions(s.bodies, at), s.bodies, at), at, Conditions(s.bodies, at), s.bodies)
    BY <2>7 DEF cs, bs
  <2> QED
    BY <1>2, <2>1, <2>3 DEF NodesAre
<1>3. CASE s.kind = "if" /\ s.else # Absent
  <2> DEFINE cs == Append(Conditions(s.bodies, at), Absent)
             bs == Append(s.bodies, s.else)
  <2>1. NodesOf(s, at) = <<CFGIfNode(cs, bs, at)>>
    BY <1>3 DEF NodesOf, ProcessIfStmt
  <2>2. s.bodies \in Seq(Bodies) /\ s.else \in Bodies
    BY <1>1, <1>3 DEF Shaped
  <2>3. Conditions(s.bodies, at) \in Seq(AnyCondition) /\ Len(Conditions(s.bodies, at)) = Len(s.bodies)
    BY <2>2, ConditionsAre
  <2>4. cs \in Seq(AnyCondition) /\ bs \in Seq(Bodies) /\ Len(cs) <= Len(bs) /\ cs # << >>
    BY <2>2, <2>3 DEF AnyCondition
  <2>5. IfNode(CFGIfNode(cs, bs, at), at, cs, bs)
    BY <2>4, IfNodeIs
  <2> QED
    BY <1>3, <2>1, <2>5 DEF NodesAre
<1>4. CASE s.kind = "switch"
  <2> DEFINE cs == Conditions(s.cases, at)
             rest == IF s.default = Absent THEN << >> ELSE <<s.default>>
             bs == s.cases \o rest
  <2>1. NodesOf(s, at) = <<CFGIfNode(cs, bs, at)>>
    BY <1>4 DEF NodesOf, ProcessSwitchStmt
  <2>2. /\ s.cases \in Seq(Bodies) /\ (s.default # Absent => s.default \in Bodies)
        /\ SwitchesHaveCases => s.cases # << >>
    BY <1>1, <1>4 DEF Shaped
  <2>3. cs \in Seq(AnyCondition) /\ Len(cs) = Len(s.cases)
    BY <2>2, ConditionsAre
  <2>4. rest \in Seq(Bodies)
    BY <2>2
  <2> HIDE DEF rest, cs
  <2>5. bs \in Seq(Bodies) /\ Len(cs) <= Len(bs) /\ \A j \in 1 .. Len(s.cases) : bs[j] = s.cases[j]
    BY <2>2, <2>3, <2>4
  <2> HIDE DEF bs
  <2>8. SwitchesHaveCases => cs # << >>
    BY <2>2, <2>3
  <2>6. IfNode(CFGIfNode(cs, bs, at), at, cs, bs)
    BY <2>3, <2>5, <2>8, IfNodeIs
  <2>7. IfNode(CFGIfNode(cs, bs, at), at, Conditions(s.cases, at), bs)
    BY <2>6 DEF cs
  <2> QED
    BY <1>4, <2>1, <2>5, <2>7 DEF NodesAre
<1>5. CASE s.kind \in {"while", "foreach"}
  <2> DEFINE cs == Conditions(<<s.body>>, at)
             n == CFGIfNode(cs, <<s.body>>, at)
             m == GeneralNode([kind |-> "clean"], at)
  <2>1. <<s.body>> \in Seq(Bodies)
    BY <1>1, <1>5 DEF Shaped
  <2>2. IfNode(n, at, cs, <<s.body>>)
    <3> HIDE DEF n
    <3>1. cs \in Seq(AnyCondition) /\ Len(cs) = Len(<<s.body>>)
      BY <2>1, ConditionsAre
    <3>0. Len(<<s.body>>) = 1
      OBVIOUS
    <3> DEFINE bs == <<s.body>>
    <3> HIDE DEF bs, cs
    <3>4. Len(cs) = 1 /\ Len(bs) = 1
      BY <3>0, <3>1 DEF bs
    <3>2. Len(cs) <= Len(<<s.body>>)
      BY <3>4 DEF bs
    <3>5. cs # << >>
      BY <3>1, <3>4
    <3>3. IfNode(CFGIfNode(cs, <<s.body>>, at), at, cs, <<s.body>>)
      BY <2>1, <3>1, <3>2, <3>5, IfNodeIs
    <3> QED
      BY <3>3 DEF n
  <2>3. m \in StmtNodes /\ m.type = "Stmt" /\ m.at = at
    BY GeneralNodeIs
  <2>4. CASE s.kind = "while"
    <3>1. NodesOf(s, at) = << >> \o <<n>>
      BY <2>4 DEF NodesOf, ProcessLoopStmtAsIfStmt
    <3>2. NodesOf(s, at) = <<n>>
      BY <3>1
    <3> QED
      BY <2>2, <2>4, <3>2 DEF NodesAre
  <2>5. CASE s.kind = "foreach"
    <3>1. NodesOf(s, at) = <<m>> \o <<n>>
      BY <2>5 DEF NodesOf, ProcessLoopStmtAsIfStmt
    <3> HIDE DEF m, n
    <3>2. NodesOf(s, at) = <<m, n>>
      BY <3>1, OneAndOne
    <3> QED
      BY <2>2, <2>3, <2>5, <3>2 DEF NodesAre
  <2> QED
    BY <1>5, <2>4, <2>5
<1>6. CASE s.kind = "try"
  BY <1>6 DEF NodesOf, NodesAre
<1>7. CASE s.kind \notin {"if", "switch", "while", "foreach", "try"}
  <2>1. NodesOf(s, at) = <<GeneralNode(s, at)>>
    BY <1>7 DEF NodesOf
  <2>2. GeneralNode(s, at) \in StmtNodes /\ GeneralNode(s, at).type = "Stmt" /\ GeneralNode(s, at).at = at
    BY <1>1, GeneralNodeIs
  <2> QED
    BY <1>7, <2>1, <2>2 DEF NodesAre
<1> QED
  BY <1>2, <1>3, <1>4, <1>5, <1>6, <1>7

LEMMA StatementNodesIn ==
    ASSUME NEW b \in Bodies, NEW i \in DOMAIN b, NEW at \in Places
    PROVE  NodesOf(b[i], at) \in Seq(NodesAt(at[1]))
<1>1. NodesAre(b[i], at, NodesOf(b[i], at))
  BY StatementNodes
<1>2. \A n \in StmtNodes \cup IfNodes : n.at = at => n \in NodesAt(at[1])
  BY DEF NodesAt
<1> DEFINE N == NodesOf(b[i], at)
           F == NodesAt(at[1])
<1> HIDE DEF N, F
<1>3. N = << >> \/ (\E n : n \in F /\ N = <<n>>) \/ (\E m, n : m \in F /\ n \in F /\ N = <<m, n>>)
  <2>1. NodesAre(b[i], at, N)
    BY <1>1 DEF N
  <2>2. \A n, cs, bs : IfNode(n, at, cs, bs) => n \in F
    BY <1>2 DEF IfNode, F
  <2>3. \A m : m \in StmtNodes /\ m.at = at => m \in F
    BY <1>2 DEF F
  <2> QED
    BY <2>1, <2>2, <2>3 DEF NodesAre
<1>4. << >> \in Seq(F)
  OBVIOUS
<1>5. ASSUME NEW n \in F
      PROVE  <<n>> \in Seq(F)
  OBVIOUS
<1>6. ASSUME NEW m \in F, NEW n \in F
      PROVE  <<m, n>> \in Seq(F)
  OBVIOUS
<1>7. N \in Seq(F)
  BY <1>3, <1>4, <1>5, <1>6
<1> QED
  BY <1>7 DEF N, F

(* The values of NodesFrom. *)
NodeLists(b, at, from) ==
    /\ from \in [1 .. Len(b) + 1 -> Seq(NodesAt(at[1]))]
    /\ from = [j \in 1 .. Len(b) + 1 |->
                 IF j > Len(b) THEN << >> ELSE NodesOf(b[j], Inner(at, j)) \o from[j + 1]]
    /\ \A n : NodesFrom(b, at, n) = from[n]

LEMMA NodeListsExist ==
    ASSUME NEW b \in Bodies, NEW at \in Places
    PROVE  \E from : NodeLists(b, at, from)
<1> DEFINE m == Len(b)
           R == Seq(NodesAt(at[1]))
           step == [j \in 1 .. m |-> [r \in R |-> NodesOf(b[j], Inner(at, j)) \o r]]
           Right(f) == f = [j \in 1 .. Len(b) + 1 |->
                              IF j > Len(b) THEN << >> ELSE NodesOf(b[j], Inner(at, j)) \o f[j + 1]]
<1>1. m \in Nat /\ DOMAIN b = 1 .. m
  BY BodyShape
<1>0. \A j \in 1 .. m : NodesOf(b[j], Inner(at, j)) \in R
  <2> SUFFICES ASSUME NEW j \in 1 .. m
               PROVE  NodesOf(b[j], Inner(at, j)) \in R
    OBVIOUS
  <2>1. j \in DOMAIN b /\ j \in Nat
    BY <1>1
  <2>2. Inner(at, j) \in Places /\ Inner(at, j)[1] = at[1]
    BY <2>1, InnerPlace
  <2> QED
    BY <2>1, <2>2, StatementNodesIn
<1>2. step \in [1 .. m -> [R -> R]]
  <2> SUFFICES ASSUME NEW j \in 1 .. m, NEW r \in R
               PROVE  NodesOf(b[j], Inner(at, j)) \o r \in R
    OBVIOUS
  <2>1. NodesOf(b[j], Inner(at, j)) \in R
    BY <1>0
  <2> QED
    BY <2>1
<1>3. << >> \in R
  OBVIOUS
<1>4. \A j \in 1 .. m : \A r \in R : step[j][r] = NodesOf(b[j], Inner(at, j)) \o r
  OBVIOUS
<1> HIDE DEF step, R
<1>51. PICK f : AlongList(m, R, << >>, step, f)
  <2> HIDE DEF m
  <2> QED
    BY <1>1, <1>2, <1>3, ListRecursion
<1>5. /\ f \in [1 .. m + 1 -> R]
      /\ f = [j \in 1 .. m + 1 |-> IF j > m THEN << >> ELSE step[j][f[j + 1]]]
  BY <1>51 DEF AlongList
<1>6. Right(f)
  <2>1. \A j \in 1 .. m + 1 : ~(j > m) => step[j][f[j + 1]] = NodesOf(b[j], Inner(at, j)) \o f[j + 1]
    <3> SUFFICES ASSUME NEW j \in 1 .. m + 1, ~(j > m)
                 PROVE  step[j][f[j + 1]] = NodesOf(b[j], Inner(at, j)) \o f[j + 1]
      OBVIOUS
    <3>1. j \in 1 .. m /\ j + 1 \in 1 .. m + 1
      BY <1>1
    <3>2. f[j + 1] \in R
      BY <1>5, <3>1
    <3> QED
      BY <1>4, <3>1, <3>2
  <2> QED
    BY <1>5, <2>1
<1> DEFINE g == CHOOSE h : Right(h)
<1>7. Right(g)
  BY <1>6
<1>8. \A n : NodesFrom(b, at, n) = g[n]
  BY DEF NodesFrom
<1> HIDE DEF g
<1>9. g \in [1 .. m + 1 -> R]
  <2> DEFINE T == {j \in 1 .. m + 1 : g[j] \in R}
  <2>1. m + 1 \in T
    <3>1. m + 1 \in 1 .. m + 1 /\ m + 1 > m
      BY <1>1
    <3>2. g[m + 1] = << >>
      BY <1>7, <3>1
    <3> QED
      BY <1>3, <3>1, <3>2
  <2>2. ASSUME NEW j \in 1 .. m, j + 1 \in T
        PROVE  j \in T
    <3>1. j \in 1 .. m + 1 /\ ~(j > m)
      BY <1>1
    <3>3. g[j + 1] \in R
      BY <2>2
    <3>4. g[j] = NodesOf(b[j], Inner(at, j)) \o g[j + 1]
      BY <1>7, <3>1
    <3>5. NodesOf(b[j], Inner(at, j)) \in R
      BY <1>0
    <3>6. \A p, q \in R : p \o q \in R
      BY DEF R
    <3> QED
      BY <3>1, <3>3, <3>4, <3>5, <3>6
  <2>3. T = 1 .. m + 1
    <3> HIDE DEF T
    <3>1. T \in SUBSET (1 .. m + 1)
      BY DEF T
    <3> HIDE DEF m
    <3> QED
      BY <1>1, <2>1, <2>2, <3>1, DownInduction
  <2>4. DOMAIN g = 1 .. m + 1 /\ g = [j \in 1 .. m + 1 |-> g[j]]
    BY <1>7
  <2> QED
    BY <2>3, <2>4
<1>10. NodeLists(b, at, g)
  BY <1>7, <1>8, <1>9 DEF NodeLists, R
<1> QED
  BY <1>10

(* What NodesFrom is. *)
LEMMA GraphDef ==
    ASSUME NEW b \in Bodies, NEW at \in Places
    PROVE  /\ NodesFrom(b, at, Len(b) + 1) = << >>
           /\ \A j \in 1 .. Len(b) :
                 NodesFrom(b, at, j) = NodesOf(b[j], Inner(at, j)) \o NodesFrom(b, at, j + 1)
           /\ \A j \in 1 .. Len(b) + 1 : NodesFrom(b, at, j) \in Seq(NodesAt(at[1]))
<1>0. PICK from : NodeLists(b, at, from)
  BY NodeListsExist
<1>1. /\ \A n : NodesFrom(b, at, n) = from[n]
      /\ from \in [1 .. Len(b) + 1 -> Seq(NodesAt(at[1]))]
      /\ \A j \in 1 .. Len(b) + 1 :
            from[j] = IF j > Len(b) THEN << >> ELSE NodesOf(b[j], Inner(at, j)) \o from[j + 1]
  BY <1>0 DEF NodeLists
<1>2. Len(b) \in Nat
  BY BodyShape
<1>3. NodesFrom(b, at, Len(b) + 1) = << >>
  <2>1. Len(b) + 1 \in 1 .. Len(b) + 1 /\ Len(b) + 1 > Len(b)
    BY <1>2
  <2>2. from[Len(b) + 1] = << >>
    BY <1>1, <2>1
  <2> QED
    BY <1>1, <2>2
<1>4. ASSUME NEW j \in 1 .. Len(b)
      PROVE  NodesFrom(b, at, j) = NodesOf(b[j], Inner(at, j)) \o NodesFrom(b, at, j + 1)
  <2>1. j \in 1 .. Len(b) + 1 /\ ~(j > Len(b))
    BY <1>2
  <2>2. from[j] = NodesOf(b[j], Inner(at, j)) \o from[j + 1]
    BY <1>1, <2>1
  <2>3. NodesFrom(b, at, j) = from[j] /\ NodesFrom(b, at, j + 1) = from[j + 1]
    BY <1>1
  <2> QED
    BY <2>2, <2>3
<1>5. \A j \in 1 .. Len(b) + 1 : NodesFrom(b, at, j) \in Seq(NodesAt(at[1]))
  BY <1>1
<1> QED
  BY <1>3, <1>4, <1>5

-----------------------------------------------------------------------------
(* Paths *)

(* The paths of s, for those of its bodies. *)
LEMMA PathsOfIn ==
    ASSUME NEW paths \in [Bodies -> [Places -> PathSets]], NEW s, NEW n, Shaped(s, n), NEW at \in Places
    PROVE  PathsOf(paths, s, at) \in PathSets
<1>1. \A b \in Bodies, c \in AnyCondition, p \in Places : Through(paths, c, b, p) \in PathSets
  <2> SUFFICES ASSUME NEW b \in Bodies, NEW c \in AnyCondition, NEW p \in Places, NEW q \in paths[b][p]
               PROVE  <<Holds(c)>> \o q \in Seq(Events)
    BY DEF Through, PathSets
  <2>1. q \in Seq(Events)
    BY DEF PathSets
  <2>2. <<Holds(c)>> \in Seq(Events)
    <3>1. Holds(c) \in Events
      BY DEF Events
    <3> QED
      BY <3>1
  <2> QED
    BY <2>1, <2>2
<1>2. \A i \in Nat : Inner(at, i) \in Places /\ Inner(at, i) \in AnyCondition
  BY InnerPlace DEF AnyCondition
<1>3. ASSUME NEW bodies \in Seq(Bodies)
      PROVE  Cases(paths, bodies, at) \in PathSets
  <2>1. \A i \in DOMAIN bodies : Through(paths, Inner(at, i), bodies[i], Inner(at, i)) \in PathSets
    <3> SUFFICES ASSUME NEW i \in DOMAIN bodies
                 PROVE  Through(paths, Inner(at, i), bodies[i], Inner(at, i)) \in PathSets
      OBVIOUS
    <3>1. i \in Nat /\ bodies[i] \in Bodies
      OBVIOUS
    <3> QED
      BY <1>1, <1>2, <3>1
  <2> QED
    BY <2>1 DEF Cases, PathSets
<1>4. ASSUME NEW bodies \in Seq(Bodies), NEW rest, rest # Absent => rest \in Bodies
      PROVE  Otherwise(paths, rest, bodies, at) \in PathSets
  <2>1. {<< >>} \in PathSets
    BY DEF PathSets
  <2>2. Len(bodies) + 1 \in Nat /\ Absent \in AnyCondition
    BY DEF AnyCondition
  <2>3. rest # Absent => Through(paths, Absent, rest, Inner(at, Len(bodies) + 1)) \in PathSets
    BY <1>1, <1>2, <1>4, <2>2
  <2> QED
    BY <2>1, <2>3 DEF Otherwise
<1>5. ASSUME s.body \in Bodies
      PROVE  Loop(paths, s, at) \in PathSets
  <2>1. <<s.body>> \in Seq(Bodies)
    BY <1>5
  <2>2. Cases(paths, <<s.body>>, at) \in PathSets
    BY <1>3, <2>1
  <2>3. {<< >>} \in PathSets /\ \A A, B \in PathSets : A \cup B \in PathSets
    BY DEF PathSets
  <2> QED
    BY <2>2, <2>3 DEF Loop
<1>6. Does(at) \in Events /\ <<Does(at)>> \in Seq(Events)
  BY DEF Events
<1>7. \A A, B \in PathSets : A \cup B \in PathSets
  BY DEF PathSets
<1> HIDE DEF PathSets
<1>8. CASE s.kind = "if"
  <2>1. PathsOf(paths, s, at) = Cases(paths, s.bodies, at) \cup Otherwise(paths, s.else, s.bodies, at)
    BY <1>8 DEF PathsOf
  <2> QED
    BY <1>3, <1>4, <1>7, <1>8, <2>1 DEF Shaped
<1>9. CASE s.kind = "switch"
  <2>1. PathsOf(paths, s, at) = Cases(paths, s.cases, at) \cup Otherwise(paths, s.default, s.cases, at)
    BY <1>9 DEF PathsOf
  <2> QED
    BY <1>3, <1>4, <1>7, <1>9, <2>1 DEF Shaped
<1>10. CASE s.kind = "while"
  BY <1>5, <1>10 DEF PathsOf, Shaped
<1>11. CASE s.kind = "foreach"
  <2>1. PathsOf(paths, s, at) = {<<Does(at)>> \o p : p \in Loop(paths, s, at)}
    BY <1>11 DEF PathsOf
  <2>2. Loop(paths, s, at) \in PathSets
    BY <1>5, <1>11 DEF Shaped
  <2>3. \A p \in Loop(paths, s, at) : p \in Seq(Events)
    BY <2>2 DEF PathSets
  <2>4. \A p \in Loop(paths, s, at) : <<Does(at)>> \o p \in Seq(Events)
    BY <1>6, <2>3
  <2> QED
    BY <2>1, <2>4 DEF PathSets
<1>12. CASE s.kind = "try"
  <2>1. PathsOf(paths, s, at) = paths[s.body][Inner(at, 1)]
    BY <1>12 DEF PathsOf
  <2>2. s.body \in Bodies /\ Inner(at, 1) \in Places
    BY <1>2, <1>12 DEF Shaped
  <2> QED
    BY <2>1, <2>2
<1>13. CASE s.kind \notin {"if", "switch", "while", "foreach", "try"}
  <2>1. PathsOf(paths, s, at) = {<<Does(at)>>}
    BY <1>13 DEF PathsOf
  <2> QED
    BY <1>6, <2>1 DEF PathSets
<1> QED
  BY <1>8, <1>9, <1>10, <1>11, <1>12, <1>13

(* They do not depend on the paths of other bodies. *)
LEMMA PathsOfLocal ==
    ASSUME NEW f, NEW g, NEW s, NEW n, Shaped(s, n), NEW at,
           \A b \in Bodies : Nesting(b) < n => f[b] = g[b]
    PROVE  PathsOf(f, s, at) = PathsOf(g, s, at)
<1>1. \A b \in Bodies : Nesting(b) < n => \A c, p : Through(f, c, b, p) = Through(g, c, b, p)
  BY DEF Through
<1>2. ASSUME NEW bodies \in Seq(Bodies), \A i \in DOMAIN bodies : Nesting(bodies[i]) < n
      PROVE  Cases(f, bodies, at) = Cases(g, bodies, at)
  <2>1. \A i \in DOMAIN bodies :
           Through(f, Inner(at, i), bodies[i], Inner(at, i)) = Through(g, Inner(at, i), bodies[i], Inner(at, i))
    BY <1>1, <1>2
  <2> QED
    BY <2>1 DEF Cases
<1>3. ASSUME NEW bodies, NEW rest, rest # Absent => rest \in Bodies /\ Nesting(rest) < n
      PROVE  Otherwise(f, rest, bodies, at) = Otherwise(g, rest, bodies, at)
  BY <1>1, <1>3 DEF Otherwise
<1>4. ASSUME s.body \in Bodies, Nesting(s.body) < n
      PROVE  Loop(f, s, at) = Loop(g, s, at) /\ f[s.body] = g[s.body]
  <2>1. <<s.body>> \in Seq(Bodies) /\ \A i \in DOMAIN <<s.body>> : Nesting(<<s.body>>[i]) < n
    BY <1>4
  <2>2. Cases(f, <<s.body>>, at) = Cases(g, <<s.body>>, at)
    BY <1>2, <2>1
  <2> QED
    BY <1>4, <2>2 DEF Loop
<1>5. CASE s.kind = "if"
  <2>1. Cases(f, s.bodies, at) = Cases(g, s.bodies, at)
    BY <1>2, <1>5 DEF Shaped
  <2>2. Otherwise(f, s.else, s.bodies, at) = Otherwise(g, s.else, s.bodies, at)
    BY <1>3, <1>5 DEF Shaped
  <2> QED
    BY <1>5, <2>1, <2>2 DEF PathsOf
<1>6. CASE s.kind = "switch"
  <2>1. Cases(f, s.cases, at) = Cases(g, s.cases, at)
    BY <1>2, <1>6 DEF Shaped
  <2>2. Otherwise(f, s.default, s.cases, at) = Otherwise(g, s.default, s.cases, at)
    BY <1>3, <1>6 DEF Shaped
  <2> QED
    BY <1>6, <2>1, <2>2 DEF PathsOf
<1>7. CASE s.kind \in {"while", "foreach", "try"}
  <2>1. Loop(f, s, at) = Loop(g, s, at) /\ f[s.body] = g[s.body]
    BY <1>4, <1>7 DEF Shaped
  <2> QED
    BY <1>7, <2>1 DEF PathsOf
<1>8. CASE s.kind \notin {"if", "switch", "while", "foreach", "try"}
  BY <1>8 DEF PathsOf
<1> QED
  BY <1>5, <1>6, <1>7, <1>8

(* The paths of every body, at every place. *)
PathsAgain(paths) ==
    [b \in Bodies |->
        [at \in Places |-> InTurn([i \in DOMAIN b |-> PathsOf(paths, b[i], Inner(at, i))], 1)]]

AllPaths == CHOOSE paths : paths = PathsAgain(paths)

LEMMA SetsOfPaths ==
    ASSUME NEW paths \in [Bodies -> [Places -> PathSets]], NEW b \in Bodies, NEW at \in Places
    PROVE  [i \in DOMAIN b |-> PathsOf(paths, b[i], Inner(at, i))] \in Seq(PathSets)
<1>1. Len(b) \in Nat /\ DOMAIN b = 1 .. Len(b)
  BY BodyShape
<1>2. ASSUME NEW i \in 1 .. Len(b)
      PROVE  PathsOf(paths, b[i], Inner(at, i)) \in PathSets
  <2>1. Inner(at, i) \in Places /\ Shaped(b[i], Nesting(b))
    BY <1>1, InnerPlace, StatementShape
  <2> QED
    BY <2>1, PathsOfIn
<1> QED
  BY <1>1, <1>2

LEMMA PathsAgainIn ==
    ASSUME NEW f \in [Bodies -> [Places -> PathSets]]
    PROVE  PathsAgain(f) \in [Bodies -> [Places -> PathSets]]
<1> SUFFICES ASSUME NEW b \in Bodies, NEW at \in Places
             PROVE  InTurn([i \in DOMAIN b |-> PathsOf(f, b[i], Inner(at, i))], 1) \in PathSets
  BY DEF PathsAgain
<1>1. [i \in DOMAIN b |-> PathsOf(f, b[i], Inner(at, i))] \in Seq(PathSets)
  BY SetsOfPaths
<1> QED
  BY <1>1, TurnOne

LEMMA PathsAgainLocal ==
    ASSUME NEW f, NEW g, NEW b \in Bodies, \A c \in Bodies : Nesting(c) < Nesting(b) => f[c] = g[c]
    PROVE  PathsAgain(f)[b] = PathsAgain(g)[b]
<1>1. ASSUME NEW at \in Places, NEW i \in DOMAIN b
      PROVE  PathsOf(f, b[i], Inner(at, i)) = PathsOf(g, b[i], Inner(at, i))
  <2> DEFINE s == b[i]
             n == Nesting(b)
             p == Inner(at, i)
  <2>1. Shaped(s, n)
    BY StatementShape
  <2>2. \A c \in Bodies : Nesting(c) < n => f[c] = g[c]
    OBVIOUS
  <2> HIDE DEF s, n, p
  <2>3. PathsOf(f, s, p) = PathsOf(g, s, p)
    BY <2>1, <2>2, PathsOfLocal
  <2> QED
    BY <2>3 DEF s, p
<1>2. \A at \in Places :
         [i \in DOMAIN b |-> PathsOf(f, b[i], Inner(at, i))] = [i \in DOMAIN b |-> PathsOf(g, b[i], Inner(at, i))]
  BY <1>1
<1> QED
  BY <1>2 DEF PathsAgain

(* They exist, and are sets of sequences of events. *)
LEMMA PathsExist ==
    AllPaths \in [Bodies -> [Places -> PathSets]] /\ AllPaths = PathsAgain(AllPaths)
<1> DEFINE R == [Places -> PathSets]
           rank == [b \in Bodies |-> Nesting(b)]
           step == [f \in [Bodies -> R] |-> PathsAgain(f)]
<1>1. rank \in [Bodies -> Nat] /\ \A b \in Bodies : rank[b] = Nesting(b)
  BY BodyShape
<1>2. \A f \in [Bodies -> R] : step[f] = PathsAgain(f)
  OBVIOUS
<1>3. \A f \in [Bodies -> R] : PathsAgain(f) \in [Bodies -> R]
  BY PathsAgainIn
<1>4. step \in [[Bodies -> R] -> [Bodies -> R]]
  BY <1>3
<1> HIDE DEF rank, step
<1>5. ASSUME NEW f \in [Bodies -> R], NEW g \in [Bodies -> R], NEW b \in Bodies,
             \A c \in Bodies : rank[c] < rank[b] => f[c] = g[c]
      PROVE  step[f][b] = step[g][b]
  <2>1. \A c \in Bodies : Nesting(c) < Nesting(b) => f[c] = g[c]
    BY <1>1, <1>5
  <2>2. PathsAgain(f)[b] = PathsAgain(g)[b]
    BY <2>1, PathsAgainLocal
  <2> QED
    BY <1>2, <2>2
<1>6. {} \in PathSets
  BY DEF PathSets
<1>7. PICK r : r \in R
  <2>1. [at \in Places |-> {}] \in R
    BY <1>6
  <2> QED
    BY <2>1
<1> HIDE DEF R
<1>8. Descends(step, Bodies, R, rank)
  <2>1. R # {}
    BY <1>7
  <2> QED
    BY <1>1, <1>4, <1>5, <2>1 DEF Descends
<1>9. PICK f \in [Bodies -> R] : step[f] = f
  BY <1>8, RecursionHasSolution
<1>10. f = PathsAgain(f)
  BY <1>2, <1>9
<1> DEFINE a == AllPaths
           T == {b \in Bodies : a[b] \in R}
           h == [b \in Bodies |-> IF a[b] \in R THEN a[b] ELSE r]
<1>11. a = PathsAgain(a)
  BY <1>10 DEF AllPaths
<1> HIDE DEF a
<1>12. h \in [Bodies -> R] /\ \A b \in Bodies : a[b] \in R => h[b] = a[b]
  BY <1>7
<1> HIDE DEF h
<1>13. ASSUME NEW b \in Bodies, \A c \in Bodies : rank[c] < rank[b] => c \in T
       PROVE  b \in T
  <2>1. \A c \in Bodies : Nesting(c) < Nesting(b) => a[c] = h[c]
    BY <1>1, <1>12, <1>13
  <2>2. PathsAgain(a)[b] = PathsAgain(h)[b]
    BY <2>1, PathsAgainLocal
  <2>3. PathsAgain(h)[b] \in R
    BY <1>3, <1>12
  <2> QED
    BY <1>11, <2>2, <2>3
<1>14. T = Bodies
  <2>1. T \in SUBSET Bodies
    OBVIOUS
  <2> HIDE DEF T
  <2> QED
    BY <1>1, <1>13, <2>1, RankInduction
<1>15. a = [b \in Bodies |-> a[b]]
  BY <1>11 DEF PathsAgain
<1>16. a \in [Bodies -> R]
  BY <1>14, <1>15
<1> QED
  BY <1>11, <1>16 DEF a, R

(* What Paths is. *)
LEMMA PathsDef ==
    /\ AllPaths \in [Bodies -> [Places -> PathSets]]
    /\ \A b \in Bodies, at \in Places :
          /\ Paths(b, at) = AllPaths[b][at]
          /\ Paths(b, at) = InTurn([i \in DOMAIN b |-> PathsOf(AllPaths, b[i], Inner(at, i))], 1)
          /\ Paths(b, at) \in PathSets
<1>1. \A b, at : Paths(b, at) = AllPaths[b][at]
  BY DEF Paths, AllPaths, PathsAgain
<1>2. AllPaths \in [Bodies -> [Places -> PathSets]] /\ AllPaths = PathsAgain(AllPaths)
  BY PathsExist
<1>3. ASSUME NEW b \in Bodies, NEW at \in Places
      PROVE  /\ Paths(b, at) = InTurn([i \in DOMAIN b |-> PathsOf(AllPaths, b[i], Inner(at, i))], 1)
             /\ Paths(b, at) \in PathSets
  <2>1. PathsAgain(AllPaths)[b][at] = InTurn([i \in DOMAIN b |-> PathsOf(AllPaths, b[i], Inner(at, i))], 1)
    BY DEF PathsAgain
  <2>2. AllPaths[b][at] \in PathSets
    BY <1>2
  <2> QED
    BY <1>1, <1>2, <2>1, <2>2
<1> QED
  BY <1>1, <1>2, <1>3

-----------------------------------------------------------------------------
(* Every body has a path. *)

LEMMA JoinedNonempty ==
    ASSUME NEW A, NEW B, A # {}, B # {}
    PROVE  Joined(A, B) # {}
<1>1. PICK p \in A : TRUE
  OBVIOUS
<1>2. PICK q \in B : TRUE
  OBVIOUS
<1> QED
  BY <1>1, <1>2, JoinedIn

LEMMA TurnNonempty ==
    ASSUME NEW sets \in Seq(PathSets), \A i \in 1 .. Len(sets) : sets[i] # {}
    PROVE  \A j \in 1 .. Len(sets) + 1 : InTurn(sets, j) # {}
<1> DEFINE n == Len(sets)
           T == {j \in 1 .. n + 1 : InTurn(sets, j) # {}}
<1>1. n \in Nat
  OBVIOUS
<1>2. n + 1 \in T
  <2>1. n + 1 \in 1 .. n + 1
    BY <1>1
  <2> QED
    BY <2>1, TurnDef
<1>3. ASSUME NEW j \in 1 .. n, j + 1 \in T
      PROVE  j \in T
  <2>1. InTurn(sets, j) = Joined(sets[j], InTurn(sets, j + 1))
    BY TurnDef
  <2>2. InTurn(sets, j) # {}
    BY <1>3, <2>1, JoinedNonempty
  <2>3. j \in 1 .. n + 1
    BY <1>1
  <2> QED
    BY <2>2, <2>3
<1>4. T = 1 .. n + 1
  <2>1. T \in SUBSET (1 .. n + 1)
    OBVIOUS
  <2> HIDE DEF T, n
  <2> QED
    BY <1>1, <1>2, <1>3, <2>1, DownInduction
<1> QED
  BY <1>4

LEMMA PathsOfNonempty ==
    ASSUME NEW s, NEW n, Shaped(s, n), NEW at \in Places,
           \A b \in Bodies, p \in Places : Nesting(b) < n => AllPaths[b][p] # {}
    PROVE  PathsOf(AllPaths, s, at) # {}
<1>1. \A i \in Nat : Inner(at, i) \in Places
  BY InnerPlace
<1>2. \A b \in Bodies, c, p \in Places : Nesting(b) < n => Through(AllPaths, c, b, p) # {}
  BY DEF Through
<1>3. ASSUME NEW rest, NEW bodies \in Seq(Bodies), rest # Absent => rest \in Bodies /\ Nesting(rest) < n
      PROVE  Otherwise(AllPaths, rest, bodies, at) # {}
  <2>1. Len(bodies) + 1 \in Nat
    OBVIOUS
  <2>2. Inner(at, Len(bodies) + 1) \in Places
    BY <1>1, <2>1
  <2>3. rest # Absent => Through(AllPaths, Absent, rest, Inner(at, Len(bodies) + 1)) # {}
    <3> SUFFICES ASSUME rest # Absent, NEW q \in AllPaths[rest][Inner(at, Len(bodies) + 1)]
                 PROVE  Through(AllPaths, Absent, rest, Inner(at, Len(bodies) + 1)) # {}
      BY <1>3, <2>2
    <3>1. <<Holds(Absent)>> \o q \in Through(AllPaths, Absent, rest, Inner(at, Len(bodies) + 1))
      BY DEF Through
    <3> QED
      BY <3>1
  <2> QED
    BY <2>3 DEF Otherwise
<1>4. << >> \in Loop(AllPaths, s, at)
  BY DEF Loop
<1>5. CASE s.kind = "if"
  <2>1. Otherwise(AllPaths, s.else, s.bodies, at) # {}
    BY <1>3, <1>5 DEF Shaped
  <2> QED
    BY <1>5, <2>1 DEF PathsOf
<1>6. CASE s.kind = "switch"
  <2>1. Otherwise(AllPaths, s.default, s.cases, at) # {}
    BY <1>3, <1>6 DEF Shaped
  <2> QED
    BY <1>6, <2>1 DEF PathsOf
<1>7. CASE s.kind = "while"
  BY <1>4, <1>7 DEF PathsOf
<1>8. CASE s.kind = "foreach"
  <2>1. PathsOf(AllPaths, s, at) = {<<Does(at)>> \o p : p \in Loop(AllPaths, s, at)}
    BY <1>8 DEF PathsOf
  <2>2. <<Does(at)>> \o << >> \in PathsOf(AllPaths, s, at)
    BY <1>4, <2>1
  <2> QED
    BY <2>2
<1>9. CASE s.kind = "try"
  <2>1. s.body \in Bodies /\ Nesting(s.body) < n
    BY <1>9 DEF Shaped
  <2>2. PathsOf(AllPaths, s, at) = AllPaths[s.body][Inner(at, 1)]
    BY <1>9 DEF PathsOf
  <2> QED
    BY <1>1, <2>1, <2>2
<1>10. CASE s.kind \notin {"if", "switch", "while", "foreach", "try"}
  BY <1>10 DEF PathsOf
<1> QED
  BY <1>5, <1>6, <1>7, <1>8, <1>9, <1>10

LEMMA PathsNonempty ==
    \A b \in Bodies, at \in Places : AllPaths[b][at] # {}
<1> DEFINE rank == [b \in Bodies |-> Nesting(b)]
           T == {b \in Bodies : \A at \in Places : AllPaths[b][at] # {}}
<1>1. rank \in [Bodies -> Nat] /\ \A b \in Bodies : rank[b] = Nesting(b)
  BY BodyShape
<1> HIDE DEF rank
<1>2. ASSUME NEW b \in Bodies, \A c \in Bodies : rank[c] < rank[b] => c \in T
      PROVE  b \in T
  <2> SUFFICES ASSUME NEW at \in Places
               PROVE  AllPaths[b][at] # {}
    OBVIOUS
  <2>1. \A c \in Bodies, p \in Places : Nesting(c) < Nesting(b) => AllPaths[c][p] # {}
    BY <1>1, <1>2
  <2> DEFINE sets == [i \in DOMAIN b |-> PathsOf(AllPaths, b[i], Inner(at, i))]
  <2>2. Len(b) \in Nat /\ DOMAIN b = 1 .. Len(b)
    BY BodyShape
  <2>3. sets \in Seq(PathSets)
    BY SetsOfPaths, PathsDef
  <2>4. DOMAIN sets = 1 .. Len(sets) /\ DOMAIN sets = DOMAIN b /\ Len(sets) \in Nat
    BY <2>3
  <2>5. ASSUME NEW i \in DOMAIN b
        PROVE  sets[i] # {}
    <3>1. Inner(at, i) \in Places /\ Shaped(b[i], Nesting(b))
      BY <2>2, InnerPlace, StatementShape
    <3> QED
      BY <2>1, <3>1, PathsOfNonempty
  <2>6. 1 \in 1 .. Len(sets) + 1
    BY <2>4
  <2>7. AllPaths[b][at] = InTurn(sets, 1)
    BY PathsDef
  <2> HIDE DEF sets
  <2>8. InTurn(sets, 1) # {}
    BY <2>3, <2>4, <2>5, <2>6, TurnNonempty
  <2> QED
    BY <2>7, <2>8
<1>3. T = Bodies
  <2>1. T \in SUBSET Bodies
    OBVIOUS
  <2> HIDE DEF T
  <2> QED
    BY <1>1, <1>2, <2>1, RankInduction
<1> QED
  BY <1>3

-----------------------------------------------------------------------------
(* Subsequences *)

Spot(s, t, place) ==
    /\ place \in [1 .. Len(s) -> 1 .. Len(t)]
    /\ \A i, j \in 1 .. Len(s) : i < j => place[i] < place[j]
    /\ \A i \in 1 .. Len(s) : s[i] = t[place[i]]

LEMMA WithinSpot ==
    ASSUME NEW E, NEW s \in Seq(E), NEW t \in Seq(E)
    PROVE  Within(s, t) <=> \E place : Spot(s, t, place)
<1>1. DOMAIN s = 1 .. Len(s) /\ DOMAIN t = 1 .. Len(t)
  OBVIOUS
<1> QED
  BY <1>1 DEF Within, Spot

LEMMA WithinEmpty ==
    ASSUME NEW E, NEW t \in Seq(E)
    PROVE  Within(<< >>, t)
<1>1. << >> \in Seq(E) /\ Len(<< >>) = 0 /\ Len(t) \in Nat
  OBVIOUS
<1> DEFINE place == [i \in 1 .. 0 |-> 1]
<1>2. Spot(<< >>, t, place)
  BY <1>1 DEF Spot
<1> QED
  BY <1>1, <1>2, WithinSpot

LEMMA WithinSelf ==
    ASSUME NEW E, NEW t \in Seq(E)
    PROVE  Within(t, t)
<1>1. Len(t) \in Nat
  OBVIOUS
<1> DEFINE place == [i \in 1 .. Len(t) |-> i]
<1>2. Spot(t, t, place)
  BY <1>1 DEF Spot
<1> QED
  BY <1>2, WithinSpot

LEMMA WithinTrans ==
    ASSUME NEW E, NEW s \in Seq(E), NEW t \in Seq(E), NEW u \in Seq(E), Within(s, t), Within(t, u)
    PROVE  Within(s, u)
<1>1. PICK p : Spot(s, t, p)
  BY WithinSpot
<1>2. PICK q : Spot(t, u, q)
  BY WithinSpot
<1> DEFINE r == [i \in 1 .. Len(s) |-> q[p[i]]]
<1>3. p \in [1 .. Len(s) -> 1 .. Len(t)] /\ q \in [1 .. Len(t) -> 1 .. Len(u)]
  BY <1>1, <1>2 DEF Spot
<1>4. \A i \in 1 .. Len(s) : p[i] \in 1 .. Len(t) /\ r[i] = q[p[i]] /\ r[i] \in 1 .. Len(u)
  BY <1>3
<1>5. r \in [1 .. Len(s) -> 1 .. Len(u)]
  BY <1>4
<1> HIDE DEF r
<1>6. \A i, j \in 1 .. Len(s) : i < j => r[i] < r[j]
  BY <1>1, <1>2, <1>4 DEF Spot
<1>7. \A i \in 1 .. Len(s) : s[i] = u[r[i]]
  BY <1>1, <1>2, <1>4 DEF Spot
<1>8. Spot(s, u, r)
  BY <1>5, <1>6, <1>7 DEF Spot
<1> QED
  BY <1>8, WithinSpot

LEMMA WithinConcat ==
    ASSUME NEW E, NEW s \in Seq(E), NEW t \in Seq(E), NEW u \in Seq(E), NEW v \in Seq(E),
           Within(s, t), Within(u, v)
    PROVE  Within(s \o u, t \o v)
<1>1. PICK p : Spot(s, t, p)
  BY WithinSpot
<1>2. PICK q : Spot(u, v, q)
  BY WithinSpot
<1> DEFINE m == Len(s)
           n == Len(t)
           a == s \o u
           b == t \o v
           r == [i \in 1 .. m + Len(u) |-> IF i <= m THEN p[i] ELSE n + q[i - m]]
<1>3. m \in Nat /\ n \in Nat /\ Len(u) \in Nat /\ Len(v) \in Nat
  OBVIOUS
<1>4. /\ a \in Seq(E) /\ Len(a) = m + Len(u)
      /\ \A i \in 1 .. m + Len(u) : a[i] = IF i <= m THEN s[i] ELSE u[i - m]
  OBVIOUS
<1>5. /\ b \in Seq(E) /\ Len(b) = n + Len(v)
      /\ \A i \in 1 .. n + Len(v) : b[i] = IF i <= n THEN t[i] ELSE v[i - n]
  OBVIOUS
<1>6. p \in [1 .. m -> 1 .. n] /\ q \in [1 .. Len(u) -> 1 .. Len(v)]
  BY <1>1, <1>2 DEF Spot
<1>7. \A i \in 1 .. m : /\ p[i] \in 1 .. n /\ s[i] = t[p[i]]
                        /\ \A j \in 1 .. m : i < j => p[i] < p[j]
  BY <1>1, <1>6 DEF Spot
<1>8. \A i \in 1 .. Len(u) : /\ q[i] \in 1 .. Len(v) /\ u[i] = v[q[i]]
                             /\ \A j \in 1 .. Len(u) : i < j => q[i] < q[j]
  BY <1>2, <1>6 DEF Spot
<1> HIDE DEF m, n, a, b
<1>9. \A i \in 1 .. m + Len(u) : (i <= m => i \in 1 .. m) /\ (~(i <= m) => i - m \in 1 .. Len(u))
  BY <1>3
<1>10. \A i \in 1 .. m + Len(u) : r[i] = IF i <= m THEN p[i] ELSE n + q[i - m]
  OBVIOUS
<1>11. ASSUME NEW i \in 1 .. m + Len(u)
       PROVE  r[i] \in 1 .. n + Len(v)
  <2>1. CASE i <= m
    <3>1. r[i] = p[i] /\ p[i] \in 1 .. n
      BY <1>7, <1>9, <1>10, <2>1
    <3> HIDE DEF r
    <3> QED
      BY <1>3, <3>1
  <2>2. CASE ~(i <= m)
    <3>1. r[i] = n + q[i - m] /\ q[i - m] \in 1 .. Len(v)
      BY <1>8, <1>9, <1>10, <2>2
    <3> HIDE DEF r
    <3> QED
      BY <1>3, <3>1
  <2> QED
    BY <2>1, <2>2
<1>12. r \in [1 .. m + Len(u) -> 1 .. n + Len(v)]
  BY <1>11
<1> HIDE DEF r
<1>13. \A i, j \in 1 .. m + Len(u) : i < j => r[i] < r[j]
  <2> SUFFICES ASSUME NEW i \in 1 .. m + Len(u), NEW j \in 1 .. m + Len(u), i < j
               PROVE  r[i] < r[j]
    OBVIOUS
  <2>1. CASE j <= m
    <3>1. i \in 1 .. m /\ j \in 1 .. m /\ i <= m
      BY <1>3, <2>1
    <3> QED
      BY <1>7, <1>10, <2>1, <3>1
  <2>2. CASE ~(j <= m) /\ i <= m
    <3>1. i \in 1 .. m /\ j - m \in 1 .. Len(u)
      BY <1>9, <2>2
    <3>2. r[i] = p[i] /\ r[j] = n + q[j - m] /\ p[i] \in 1 .. n /\ q[j - m] \in 1 .. Len(v)
      BY <1>7, <1>8, <1>10, <2>2, <3>1
    <3> QED
      BY <1>3, <3>2
  <2>3. CASE ~(i <= m)
    <3>1. i - m \in 1 .. Len(u) /\ j - m \in 1 .. Len(u) /\ i - m < j - m /\ ~(j <= m)
      BY <1>3, <1>9, <2>3
    <3>2. q[i - m] < q[j - m] /\ q[i - m] \in 1 .. Len(v) /\ q[j - m] \in 1 .. Len(v)
      BY <1>8, <3>1
    <3>3. r[i] = n + q[i - m] /\ r[j] = n + q[j - m]
      BY <1>10, <2>3, <3>1
    <3> QED
      BY <1>3, <3>2, <3>3
  <2> QED
    BY <2>1, <2>2, <2>3
<1>14. \A i \in 1 .. m + Len(u) : a[i] = b[r[i]]
  <2> SUFFICES ASSUME NEW i \in 1 .. m + Len(u)
               PROVE  a[i] = b[r[i]]
    OBVIOUS
  <2>1. CASE i <= m
    <3>1. p[i] \in 1 .. n /\ s[i] = t[p[i]] /\ r[i] = p[i] /\ a[i] = s[i]
      BY <1>4, <1>7, <1>9, <1>10, <2>1
    <3>2. p[i] <= n /\ p[i] \in 1 .. n + Len(v)
      BY <1>3, <3>1
    <3>3. b[p[i]] = t[p[i]]
      BY <1>5, <3>2
    <3> QED
      BY <3>1, <3>3
  <2>2. CASE ~(i <= m)
    <3> DEFINE k == q[i - m]
    <3>1. k \in 1 .. Len(v) /\ u[i - m] = v[k] /\ r[i] = n + k /\ a[i] = u[i - m]
      BY <1>4, <1>8, <1>9, <1>10, <2>2
    <3> HIDE DEF k
    <3>2. n + k \in 1 .. n + Len(v) /\ ~(n + k <= n) /\ n + k - n = k
      BY <1>3, <3>1
    <3>3. \A j \in 1 .. n + Len(v) : ~(j <= n) => b[j] = v[j - n]
      BY <1>5
    <3>4. b[n + k] = v[(n + k) - n]
      BY <3>2, <3>3
    <3>5. v[(n + k) - n] = v[k]
      BY <1>3, <3>1, <3>2
    <3>6. r[i] = n + k /\ a[i] = v[k]
      BY <3>1
    <3> QED
      BY <3>4, <3>5, <3>6
  <2> QED
    BY <2>1, <2>2
<1>15. Spot(a, b, r)
  BY <1>4, <1>5, <1>12, <1>13, <1>14 DEF Spot
<1>16. Within(a, b)
  BY <1>4, <1>5, <1>15, WithinSpot
<1> QED
  BY <1>16 DEF a, b

-----------------------------------------------------------------------------
(* The paths of a graph: each of its nodes in turn, or not at all. *)

BranchPaths(n) ==
    UNION {{<<Holds(n.conditions[i])>> \o p : p \in {<< >>} \cup Paths(n.bodies[i], Inner(n.at, i))} :
              i \in DOMAIN n.conditions}

NodePaths(n) == {<< >>} \cup (IF n.type = "Stmt" THEN {<<Does(n.at)>>} ELSE BranchPaths(n))

GraphPaths(nodes) == InTurn([k \in DOMAIN nodes |-> NodePaths(nodes[k])], 1)

LEMMA BranchPathsIn ==
    ASSUME NEW f, NEW n \in NodesAt(f), n.type = "IfStmt"
    PROVE  /\ \A i \in DOMAIN n.conditions :
                /\ n.bodies[i] \in Bodies /\ Inner(n.at, i) \in Places /\ n.conditions[i] \in AnyCondition
                /\ Paths(n.bodies[i], Inner(n.at, i)) \in PathSets
                /\ <<Holds(n.conditions[i])>> \in BranchPaths(n)
                /\ \A p \in Paths(n.bodies[i], Inner(n.at, i)) : <<Holds(n.conditions[i])>> \o p \in BranchPaths(n)
           /\ \A q \in BranchPaths(n) : \E i \in DOMAIN n.conditions :
                \/ q = <<Holds(n.conditions[i])>>
                \/ \E p \in Paths(n.bodies[i], Inner(n.at, i)) : q = <<Holds(n.conditions[i])>> \o p
<1>1. /\ n.at \in Places
      /\ n.conditions \in Seq(AnyCondition) /\ n.bodies \in Seq(Bodies)
      /\ Len(n.conditions) <= Len(n.bodies)
  BY NodeShape
<1>2. /\ DOMAIN n.conditions = 1 .. Len(n.conditions) /\ DOMAIN n.bodies = 1 .. Len(n.bodies)
      /\ Len(n.conditions) \in Nat /\ Len(n.bodies) \in Nat
  BY <1>1
<1>3. ASSUME NEW i \in DOMAIN n.conditions
      PROVE  /\ n.bodies[i] \in Bodies /\ Inner(n.at, i) \in Places /\ n.conditions[i] \in AnyCondition
             /\ Paths(n.bodies[i], Inner(n.at, i)) \in PathSets
  <2>1. i \in Nat /\ i \in 1 .. Len(n.bodies) /\ i \in 1 .. Len(n.conditions)
    BY <1>1, <1>2
  <2>2. n.bodies[i] \in Bodies /\ n.conditions[i] \in AnyCondition
    BY <1>1, <1>2, <2>1
  <2>3. Inner(n.at, i) \in Places
    BY <1>1, <2>1, InnerPlace
  <2> QED
    BY <2>2, <2>3, PathsDef
<1>4. \A e : <<e>> \o << >> = <<e>>
  OBVIOUS
<1> HIDE DEF Paths, Inner, Holds
<1>5. ASSUME NEW i \in DOMAIN n.conditions
      PROVE  /\ <<Holds(n.conditions[i])>> \in BranchPaths(n)
             /\ \A p \in Paths(n.bodies[i], Inner(n.at, i)) : <<Holds(n.conditions[i])>> \o p \in BranchPaths(n)
  <2>1. \A p \in {<< >>} \cup Paths(n.bodies[i], Inner(n.at, i)) : <<Holds(n.conditions[i])>> \o p \in BranchPaths(n)
    BY DEF BranchPaths
  <2>2. <<Holds(n.conditions[i])>> \o << >> = <<Holds(n.conditions[i])>>
    BY <1>4
  <2>3. <<Holds(n.conditions[i])>> \o << >> \in BranchPaths(n)
    BY <2>1
  <2> QED
    BY <2>1, <2>2, <2>3
<1>6. ASSUME NEW q \in BranchPaths(n)
      PROVE  \E i \in DOMAIN n.conditions :
                \/ q = <<Holds(n.conditions[i])>>
                \/ \E p \in Paths(n.bodies[i], Inner(n.at, i)) : q = <<Holds(n.conditions[i])>> \o p
  <2>1. PICK i \in DOMAIN n.conditions :
              q \in {<<Holds(n.conditions[i])>> \o p : p \in {<< >>} \cup Paths(n.bodies[i], Inner(n.at, i))}
    BY DEF BranchPaths
  <2>2. PICK p \in {<< >>} \cup Paths(n.bodies[i], Inner(n.at, i)) : q = <<Holds(n.conditions[i])>> \o p
    BY <2>1
  <2>3. CASE p = << >>
    BY <1>4, <2>2, <2>3
  <2> QED
    BY <2>2, <2>3
<1> QED
  BY <1>3, <1>5, <1>6

LEMMA EventsOne ==
    /\ \A c \in AnyCondition : <<Holds(c)>> \in Seq(Events)
    /\ \A at \in Places : <<Does(at)>> \in Seq(Events)
<1>1. \A c \in AnyCondition : Holds(c) \in Events
  BY DEF Events
<1>2. \A at \in Places : Does(at) \in Events
  BY DEF Events
<1>3. \A e \in Events : <<e>> \in Seq(Events)
  OBVIOUS
<1> QED
  BY <1>1, <1>2, <1>3

LEMMA NodePathsIn ==
    ASSUME NEW f, NEW n \in NodesAt(f)
    PROVE  NodePaths(n) \in PathSets /\ << >> \in NodePaths(n)
<1>1. n.at \in Places /\ n.type \in {"Stmt", "IfStmt"}
  BY NodeShape
<1>2. << >> \in Seq(Events) /\ <<Does(n.at)>> \in Seq(Events)
  BY <1>1, EventsOne
<1>3. ASSUME n.type = "IfStmt", NEW q \in BranchPaths(n)
      PROVE  q \in Seq(Events)
  <2>1. PICK i \in DOMAIN n.conditions :
                \/ q = <<Holds(n.conditions[i])>>
                \/ \E p \in Paths(n.bodies[i], Inner(n.at, i)) : q = <<Holds(n.conditions[i])>> \o p
    BY <1>3, BranchPathsIn
  <2>2. <<Holds(n.conditions[i])>> \in Seq(Events)
    BY <1>3, BranchPathsIn, EventsOne
  <2>3. \A p \in Paths(n.bodies[i], Inner(n.at, i)) : p \in Seq(Events)
    BY <1>3, BranchPathsIn DEF PathSets
  <2>4. \A p, q1 \in Seq(Events) : p \o q1 \in Seq(Events)
    OBVIOUS
  <2> QED
    BY <2>1, <2>2, <2>3, <2>4
<1>4. n.type = "IfStmt" => n.type # "Stmt"
  OBVIOUS
<1> QED
  BY <1>1, <1>2, <1>3, <1>4 DEF NodePaths, PathSets

NodeSets(nodes) == [k \in DOMAIN nodes |-> NodePaths(nodes[k])]

LEMMA NodeSetsIn ==
    ASSUME NEW f, NEW nodes \in Seq(NodesAt(f))
    PROVE  /\ NodeSets(nodes) \in Seq(PathSets)
           /\ Len(NodeSets(nodes)) = Len(nodes)
           /\ \A k \in 1 .. Len(nodes) : NodeSets(nodes)[k] = NodePaths(nodes[k])
<1>1. DOMAIN nodes = 1 .. Len(nodes) /\ Len(nodes) \in Nat /\ \A k \in 1 .. Len(nodes) : nodes[k] \in NodesAt(f)
  OBVIOUS
<1>2. \A k \in 1 .. Len(nodes) : NodePaths(nodes[k]) \in PathSets
  BY <1>1, NodePathsIn
<1>3. NodeSets(nodes) = [k \in 1 .. Len(nodes) |-> NodePaths(nodes[k])]
  BY <1>1 DEF NodeSets
<1> QED
  BY <1>1, <1>2, <1>3

LEMMA TurnCanSkip ==
    ASSUME NEW sets \in Seq(PathSets), \A i \in 1 .. Len(sets) : << >> \in sets[i]
    PROVE  \A j \in 1 .. Len(sets) + 1 : << >> \in InTurn(sets, j)
<1> DEFINE n == Len(sets)
           T == {j \in 1 .. n + 1 : << >> \in InTurn(sets, j)}
<1>1. n \in Nat /\ << >> \o << >> = << >>
  OBVIOUS
<1>2. n + 1 \in T
  <2>1. n + 1 \in 1 .. n + 1
    BY <1>1
  <2> QED
    BY <2>1, TurnDef
<1>3. ASSUME NEW j \in 1 .. n, j + 1 \in T
      PROVE  j \in T
  <2>1. InTurn(sets, j) = Joined(sets[j], InTurn(sets, j + 1))
    BY TurnDef
  <2>4. << >> \in sets[j] /\ << >> \in InTurn(sets, j + 1)
    BY <1>3
  <2>5. << >> \o << >> \in Joined(sets[j], InTurn(sets, j + 1))
    BY <2>4, JoinedIn
  <2>2. << >> \in InTurn(sets, j)
    BY <1>1, <2>1, <2>5
  <2>3. j \in 1 .. n + 1
    BY <1>1
  <2> QED
    BY <2>2, <2>3
<1>4. T = 1 .. n + 1
  <2>1. T \in SUBSET (1 .. n + 1)
    OBVIOUS
  <2> HIDE DEF T, n
  <2> QED
    BY <1>1, <1>2, <1>3, <2>1, DownInduction
<1> QED
  BY <1>4

LEMMA GraphPathsDef ==
    ASSUME NEW f, NEW nodes \in Seq(NodesAt(f))
    PROVE  /\ GraphPaths(nodes) \in PathSets
           /\ << >> \in GraphPaths(nodes)
           /\ nodes = << >> => GraphPaths(nodes) = {<< >>}
           /\ nodes # << >> => GraphPaths(nodes) = Joined(NodePaths(Head(nodes)), GraphPaths(Tail(nodes)))
<1> DEFINE sets == NodeSets(nodes)
<1>1. /\ sets \in Seq(PathSets) /\ Len(sets) = Len(nodes)
      /\ \A k \in 1 .. Len(nodes) : sets[k] = NodePaths(nodes[k])
  BY NodeSetsIn
<1>2. GraphPaths(nodes) = InTurn(sets, 1)
  BY DEF GraphPaths, NodeSets
<1>3. Len(nodes) \in Nat /\ \A k \in 1 .. Len(nodes) : nodes[k] \in NodesAt(f)
  OBVIOUS
<1> HIDE DEF sets
<1>4. << >> \in InTurn(sets, 1)
  <2>1. \A k \in 1 .. Len(sets) : << >> \in sets[k]
    BY <1>1, <1>3, NodePathsIn
  <2>2. 1 \in 1 .. Len(sets) + 1
    BY <1>1, <1>3
  <2> QED
    BY <1>1, <2>1, <2>2, TurnCanSkip
<1>5. InTurn(sets, 1) \in PathSets
  BY <1>1, TurnOne
<1>6. ASSUME nodes = << >>
      PROVE  InTurn(sets, 1) = {<< >>}
  <2>1. sets = << >>
    BY <1>1, <1>6
  <2> QED
    BY <1>1, <2>1, TurnOne
<1>7. ASSUME nodes # << >>
      PROVE  GraphPaths(nodes) = Joined(NodePaths(Head(nodes)), GraphPaths(Tail(nodes)))
  <2>1. 1 \in 1 .. Len(nodes) /\ Head(nodes) = nodes[1] /\ Tail(nodes) \in Seq(NodesAt(f)) /\ Len(nodes) # 0
    BY <1>7
  <2>2. sets # << >> /\ Head(sets) = sets[1]
    BY <1>1, <2>1
  <2>3. InTurn(sets, 1) = Joined(Head(sets), InTurn(Tail(sets), 1))
    BY <1>1, <2>2, TurnOne
  <2> DEFINE rest == NodeSets(Tail(nodes))
  <2>4. /\ rest \in Seq(PathSets) /\ Len(rest) = Len(Tail(nodes))
        /\ \A k \in 1 .. Len(Tail(nodes)) : rest[k] = NodePaths(Tail(nodes)[k])
    BY <2>1, NodeSetsIn
  <2>5. Len(Tail(nodes)) = Len(nodes) - 1 /\ \A k \in 1 .. Len(nodes) - 1 : Tail(nodes)[k] = nodes[k + 1]
    BY <1>7
  <2>6. Tail(sets) \in Seq(PathSets) /\ Len(Tail(sets)) = Len(nodes) - 1
        /\ \A k \in 1 .. Len(nodes) - 1 : Tail(sets)[k] = sets[k + 1]
    BY <1>1, <2>2
  <2> HIDE DEF rest
  <2>7. \A k \in 1 .. Len(nodes) - 1 : k + 1 \in 1 .. Len(nodes)
    BY <1>3
  <2>8. \A k \in 1 .. Len(nodes) - 1 : rest[k] = Tail(sets)[k]
    BY <1>1, <2>4, <2>5, <2>6, <2>7
  <2>9. rest = Tail(sets)
    BY <2>4, <2>5, <2>6, <2>8
  <2>10. GraphPaths(Tail(nodes)) = InTurn(rest, 1)
    BY DEF GraphPaths, NodeSets, rest
  <2> QED
    BY <1>1, <1>2, <2>1, <2>2, <2>3, <2>9, <2>10
<1> QED
  BY <1>2, <1>4, <1>5, <1>6, <1>7

-----------------------------------------------------------------------------
(* A path of a body's graph lies within a path of the body. *)

Matches(A, X) == \A z \in A : \E x \in X : Within(z, x)

LEMMA MatchesJoined ==
    ASSUME NEW A \in PathSets, NEW B \in PathSets, NEW X \in PathSets, NEW Y \in PathSets,
           Matches(A, X), Matches(B, Y)
    PROVE  Matches(Joined(A, B), Joined(X, Y))
<1> SUFFICES ASSUME NEW z \in Joined(A, B)
             PROVE  \E x \in Joined(X, Y) : Within(z, x)
  BY DEF Matches
<1>0. \A r \in Joined(A, B) : \E a \in A, b \in B : r = a \o b
  BY DEF Joined
<1>1. PICK a \in A, b \in B : z = a \o b
  BY <1>0
<1>2. PICK x \in X : Within(a, x)
  BY DEF Matches
<1>3. PICK y \in Y : Within(b, y)
  BY DEF Matches
<1>4. a \in Seq(Events) /\ b \in Seq(Events) /\ x \in Seq(Events) /\ y \in Seq(Events)
  BY DEF PathSets
<1>5. Within(a \o b, x \o y)
  BY <1>2, <1>3, <1>4, WithinConcat
<1>6. x \o y \in Joined(X, Y)
  BY JoinedIn
<1> QED
  BY <1>1, <1>5, <1>6

LEMMA MatchesEmpty ==
    ASSUME NEW X \in PathSets, X # {}
    PROVE  Matches({<< >>}, X)
<1>1. PICK x : x \in X
  OBVIOUS
<1>2. Within(<< >>, x)
  BY <1>1, WithinEmpty DEF PathSets
<1> QED
  BY <1>1, <1>2 DEF Matches

LEMMA AllPathsAre ==
    ASSUME NEW b \in Bodies, NEW at \in Places
    PROVE  AllPaths[b][at] = Paths(b, at) /\ Paths(b, at) # {} /\ Paths(b, at) \in PathSets
<1>1. AllPaths[b][at] = Paths(b, at) /\ Paths(b, at) \in PathSets
  BY PathsDef
<1>2. AllPaths[b][at] # {}
  BY PathsNonempty
<1> QED
  BY <1>1, <1>2

LEMMA BranchMatches ==
    ASSUME NEW f, NEW n \in NodesAt(f), n.type = "IfStmt", NEW X \in PathSets, X # {},
           \A i \in DOMAIN n.conditions : \A p \in Paths(n.bodies[i], Inner(n.at, i)) :
               <<Holds(n.conditions[i])>> \o p \in X
    PROVE  Matches(NodePaths(n), X)
<1>1. ASSUME NEW z \in BranchPaths(n)
      PROVE  \E x \in X : Within(z, x)
  <2>1. PICK i \in DOMAIN n.conditions :
                \/ z = <<Holds(n.conditions[i])>>
                \/ \E p \in Paths(n.bodies[i], Inner(n.at, i)) : z = <<Holds(n.conditions[i])>> \o p
    BY BranchPathsIn
  <2> DEFINE e == <<Holds(n.conditions[i])>>
             P == Paths(n.bodies[i], Inner(n.at, i))
  <2>2. n.conditions[i] \in AnyCondition /\ n.bodies[i] \in Bodies /\ Inner(n.at, i) \in Places
    BY BranchPathsIn
  <2>3. e \in Seq(Events) /\ P \in PathSets /\ P # {}
    BY <2>2, EventsOne, AllPathsAre
  <2>4. \A p \in P : e \o p \in X
    OBVIOUS
  <2>5. z = e \/ \E p \in P : z = e \o p
    BY <2>1
  <2> HIDE DEF e, P
  <2>6. CASE z = e
    <3>1. PICK p \in P : TRUE
      BY <2>3
    <3>2. p \in Seq(Events) /\ << >> \in Seq(Events) /\ e \o << >> = e
      BY <2>3 DEF PathSets
    <3>3. Within(e, e) /\ Within(<< >>, p)
      BY <2>3, <3>2, WithinSelf, WithinEmpty
    <3>4. Within(e \o << >>, e \o p)
      BY <2>3, <3>2, <3>3, WithinConcat
    <3> QED
      BY <2>4, <2>6, <3>2, <3>4
  <2>7. CASE \E p \in P : z = e \o p
    <3>1. z \in X
      BY <2>4, <2>7
    <3>2. z \in Seq(Events)
      BY <3>1 DEF PathSets
    <3> QED
      BY <3>1, <3>2, WithinSelf
  <2> QED
    BY <2>5, <2>6, <2>7
<1>2. \E x \in X : Within(<< >>, x)
  BY MatchesEmpty DEF Matches
<1>3. \A z \in NodePaths(n) : z = << >> \/ z \in BranchPaths(n)
  BY DEF NodePaths
<1> QED
  BY <1>1, <1>2, <1>3 DEF Matches

LEMMA GeneralMatches ==
    ASSUME NEW n, n.type = "Stmt", NEW at \in Places, n.at = at
    PROVE  Matches(NodePaths(n), {<<Does(at)>>})
<1>1. <<Does(at)>> \in Seq(Events)
  BY EventsOne
<1>2. Within(<<Does(at)>>, <<Does(at)>>) /\ Within(<< >>, <<Does(at)>>)
  BY <1>1, WithinSelf, WithinEmpty
<1>3. \A z \in NodePaths(n) : z = << >> \/ z = <<Does(at)>>
  BY DEF NodePaths
<1> QED
  BY <1>2, <1>3 DEF Matches

(* The paths of the nodes of one statement. *)
StatementPaths(nodes) ==
    IF nodes = << >> THEN {<< >>}
    ELSE IF Len(nodes) = 1 THEN NodePaths(nodes[1])
    ELSE Joined(NodePaths(nodes[1]), NodePaths(nodes[2]))

LEMMA ThroughPaths ==
    ASSUME NEW b \in Bodies, NEW at \in Places, NEW c
    PROVE  \A p \in Paths(b, at) : <<Holds(c)>> \o p \in Through(AllPaths, c, b, at)
BY AllPathsAre DEF Through

LEMMA IfNodeAt ==
    ASSUME NEW at \in Places, NEW n, NEW cs, NEW bs, IfNode(n, at, cs, bs)
    PROVE  /\ n \in NodesAt(at[1]) /\ n.type = "IfStmt" /\ n.at = at /\ n.conditions = cs /\ n.bodies = bs
           /\ Len(cs) \in Nat /\ DOMAIN cs = 1 .. Len(cs) /\ DOMAIN bs = 1 .. Len(bs) /\ Len(bs) \in Nat /\ Len(cs) <= Len(bs)
           /\ \A i \in DOMAIN cs : i \in Nat /\ bs[i] \in Bodies /\ Inner(at, i) \in Places
<1>1. n \in IfNodes /\ n.type = "IfStmt" /\ n.at = at /\ n.conditions = cs /\ n.bodies = bs
  BY DEF IfNode
<1>2. n \in NodesAt(at[1])
  BY <1>1 DEF NodesAt
<1>3. n.conditions \in Seq(AnyCondition) /\ n.bodies \in Seq(Bodies) /\ Len(n.conditions) <= Len(n.bodies)
  BY <1>1, <1>2, NodeShape
<1>4. \A i \in DOMAIN n.conditions : n.bodies[i] \in Bodies /\ Inner(n.at, i) \in Places
  BY <1>1, <1>2, BranchPathsIn
<1>5. /\ Len(cs) \in Nat /\ DOMAIN cs = 1 .. Len(cs) /\ DOMAIN bs = 1 .. Len(bs) /\ Len(bs) \in Nat
      /\ Len(cs) <= Len(bs)
  BY <1>1, <1>3
<1> QED
  BY <1>1, <1>2, <1>4, <1>5

(* The cases of a branch and its graph. *)
LEMMA CasesMatch ==
    ASSUME NEW at \in Places, NEW n, NEW bs, NEW bodies \in Seq(Bodies),
           IfNode(n, at, Conditions(bodies, at), bs), \A i \in 1 .. Len(bodies) : bs[i] = bodies[i],
           NEW X \in PathSets, X # {}, Cases(AllPaths, bodies, at) \subseteq X
    PROVE  Matches(NodePaths(n), X)
<1>1. /\ Len(Conditions(bodies, at)) = Len(bodies)
      /\ \A i \in 1 .. Len(bodies) : Conditions(bodies, at)[i] = Inner(at, i)
  BY ConditionsAre
<1>2. /\ n \in NodesAt(at[1]) /\ n.type = "IfStmt" /\ n.at = at /\ n.bodies = bs
      /\ n.conditions = Conditions(bodies, at)
      /\ DOMAIN n.conditions = 1 .. Len(bodies)
      /\ \A i \in 1 .. Len(bodies) : bs[i] \in Bodies /\ Inner(at, i) \in Places
  BY <1>1, IfNodeAt
<1>3. ASSUME NEW i \in 1 .. Len(bodies), NEW p \in Paths(bs[i], Inner(at, i))
      PROVE  <<Holds(Inner(at, i))>> \o p \in X
  <2>1. <<Holds(Inner(at, i))>> \o p \in Through(AllPaths, Inner(at, i), bs[i], Inner(at, i))
    BY <1>2, ThroughPaths
  <2>2. i \in DOMAIN bodies /\ bs[i] = bodies[i]
    OBVIOUS
  <2>3. <<Holds(Inner(at, i))>> \o p \in Cases(AllPaths, bodies, at)
    BY <2>1, <2>2 DEF Cases
  <2> QED
    BY <2>3
<1> QED
  BY <1>1, <1>2, <1>3, BranchMatches

LEMMA StatementMatches ==
    ASSUME NEW s, NEW m, Shaped(s, m), NEW at \in Places, NEW nodes, NodesAre(s, at, nodes)
    PROVE  Matches(StatementPaths(nodes), PathsOf(AllPaths, s, at))
<1> DEFINE X == PathsOf(AllPaths, s, at)
<1>1. X \in PathSets /\ X # {}
  <2>1. X \in PathSets
    BY PathsOfIn, PathsDef
  <2>2. X # {}
    BY PathsOfNonempty, PathsNonempty
  <2> QED
    BY <2>1, <2>2
<1>2. \A n : StatementPaths(<<n>>) = NodePaths(n)
  BY DEF StatementPaths
<1>3. \A l, n : StatementPaths(<<l, n>>) = Joined(NodePaths(l), NodePaths(n))
  BY DEF StatementPaths
<1>4. CASE s.kind = "if" /\ s.else = Absent
  <2>1. PICK n : nodes = <<n>> /\ IfNode(n, at, Conditions(s.bodies, at), s.bodies)
    BY <1>4 DEF NodesAre
  <2>2. X = Cases(AllPaths, s.bodies, at) \cup Otherwise(AllPaths, s.else, s.bodies, at)
    BY <1>4 DEF PathsOf
  <2>3. s.bodies \in Seq(Bodies) /\ Cases(AllPaths, s.bodies, at) \subseteq X
    BY <1>4, <2>2 DEF Shaped
  <2> HIDE DEF X
  <2>4. Matches(NodePaths(n), X)
    BY <1>1, <2>1, <2>3, CasesMatch
  <2> QED
    BY <1>2, <2>1, <2>4 DEF X
<1>5. CASE s.kind = "if" /\ s.else # Absent
  <2> DEFINE cs == Conditions(s.bodies, at)
             bs == s.bodies
             k == Len(bs) + 1
  <2>1. PICK n : nodes = <<n>> /\ IfNode(n, at, Append(cs, Absent), Append(bs, s.else))
    BY <1>5 DEF NodesAre
  <2>2. X = Cases(AllPaths, bs, at) \cup Through(AllPaths, Absent, s.else, Inner(at, k))
    BY <1>5 DEF PathsOf, Otherwise
  <2>3. bs \in Seq(Bodies) /\ s.else \in Bodies
    BY <1>5 DEF Shaped
  <2>4. /\ cs \in Seq(AnyCondition) /\ Len(cs) = Len(bs)
        /\ \A i \in 1 .. Len(bs) : cs[i] = Inner(at, i)
    BY <2>3, ConditionsAre
  <2> HIDE DEF X, cs
  <2>5. /\ n \in NodesAt(at[1]) /\ n.type = "IfStmt" /\ n.at = at
        /\ n.conditions = Append(cs, Absent) /\ n.bodies = Append(bs, s.else)
        /\ \A i \in DOMAIN Append(cs, Absent) : Append(bs, s.else)[i] \in Bodies /\ Inner(at, i) \in Places
    <3> DEFINE ds == Append(cs, Absent)
               es == Append(bs, s.else)
    <3> HIDE DEF ds, es
    <3>1. IfNode(n, at, ds, es)
      BY <2>1 DEF ds, es
    <3>2. /\ n \in NodesAt(at[1]) /\ n.type = "IfStmt" /\ n.at = at
          /\ n.conditions = ds /\ n.bodies = es
          /\ \A i \in DOMAIN ds : es[i] \in Bodies /\ Inner(at, i) \in Places
      BY <3>1, IfNodeAt
    <3> QED
      BY <3>2 DEF ds, es
  <2>6. /\ DOMAIN n.conditions = 1 .. k /\ Len(bs) \in Nat
        /\ n.conditions[k] = Absent /\ n.bodies[k] = s.else
        /\ \A i \in 1 .. Len(bs) : n.conditions[i] = Inner(at, i) /\ n.bodies[i] = bs[i]
    BY <2>3, <2>4, <2>5
  <2>7. ASSUME NEW i \in DOMAIN n.conditions, NEW p \in Paths(n.bodies[i], Inner(n.at, i))
        PROVE  <<Holds(n.conditions[i])>> \o p \in X
    <3>1. n.bodies[i] \in Bodies /\ Inner(at, i) \in Places
      BY <2>5
    <3>2. <<Holds(n.conditions[i])>> \o p \in Through(AllPaths, n.conditions[i], n.bodies[i], Inner(at, i))
      BY <2>5, <3>1, ThroughPaths
    <3>3. CASE i = k
      BY <2>2, <2>6, <3>2, <3>3
    <3>4. CASE i # k
      <4>1. i \in 1 .. Len(bs) /\ i \in DOMAIN bs
        BY <2>3, <2>6, <3>4
      <4>2. <<Holds(n.conditions[i])>> \o p \in Through(AllPaths, Inner(at, i), bs[i], Inner(at, i))
        BY <2>6, <3>2, <4>1
      <4>3. <<Holds(n.conditions[i])>> \o p \in Cases(AllPaths, bs, at)
        BY <4>1, <4>2 DEF Cases
      <4> QED
        BY <2>2, <4>3
    <3> QED
      BY <3>3, <3>4
  <2>8. Matches(NodePaths(n), X)
    BY <1>1, <2>5, <2>7, BranchMatches
  <2> QED
    BY <1>2, <2>1, <2>8 DEF X
<1>6. CASE s.kind = "switch"
  <2>1. PICK n, bs : /\ nodes = <<n>> /\ IfNode(n, at, Conditions(s.cases, at), bs)
                     /\ \A i \in 1 .. Len(s.cases) : bs[i] = s.cases[i]
    BY <1>6 DEF NodesAre
  <2>2. X = Cases(AllPaths, s.cases, at) \cup Otherwise(AllPaths, s.default, s.cases, at)
    BY <1>6 DEF PathsOf
  <2>3. s.cases \in Seq(Bodies) /\ Cases(AllPaths, s.cases, at) \subseteq X
    BY <1>6, <2>2 DEF Shaped
  <2> HIDE DEF X
  <2>4. Matches(NodePaths(n), X)
    BY <1>1, <2>1, <2>3, CasesMatch
  <2> QED
    BY <1>2, <2>1, <2>4 DEF X
<1>7. ASSUME s.kind \in {"while", "foreach"}
      PROVE  /\ <<s.body>> \in Seq(Bodies)
             /\ Loop(AllPaths, s, at) \in PathSets /\ Loop(AllPaths, s, at) # {}
             /\ Cases(AllPaths, <<s.body>>, at) \subseteq Loop(AllPaths, s, at)
  <2>1. s.body \in Bodies /\ <<s.body>> \in Seq(Bodies)
    BY <1>7 DEF Shaped
  <2>2. << >> \in Loop(AllPaths, s, at) /\ Cases(AllPaths, <<s.body>>, at) \subseteq Loop(AllPaths, s, at)
    BY DEF Loop
  <2> DEFINE w == [kind |-> "while", body |-> s.body]
  <2>3. Shaped(w, m)
    BY <1>7 DEF Shaped
  <2>4. PathsOf(AllPaths, w, at) = Loop(AllPaths, s, at)
    BY DEF PathsOf, Loop
  <2>5. Loop(AllPaths, s, at) \in PathSets
    <3> HIDE DEF w
    <3>1. PathsOf(AllPaths, w, at) \in PathSets
      BY <2>3, PathsOfIn, PathsDef
    <3> QED
      BY <2>4, <3>1
  <2> QED
    BY <2>1, <2>2, <2>5
<1>8. CASE s.kind = "while"
  <2>1. PICK n : nodes = <<n>> /\ IfNode(n, at, Conditions(<<s.body>>, at), <<s.body>>)
    BY <1>8 DEF NodesAre
  <2>2. X = Loop(AllPaths, s, at)
    BY <1>8 DEF PathsOf
  <2> HIDE DEF X
  <2>4. Matches(NodePaths(n), X)
    BY <1>1, <1>7, <1>8, <2>1, <2>2, CasesMatch
  <2> QED
    BY <1>2, <2>1, <2>4 DEF X
<1>9. CASE s.kind = "foreach"
  <2> DEFINE L == Loop(AllPaths, s, at)
  <2>1. PICK l, n : /\ nodes = <<l, n>> /\ IfNode(n, at, Conditions(<<s.body>>, at), <<s.body>>)
                    /\ l \in StmtNodes /\ l.type = "Stmt" /\ l.at = at
    BY <1>9 DEF NodesAre
  <2>2. X = {<<Does(at)>> \o p : p \in L}
    BY <1>9 DEF PathsOf
  <2>3. L \in PathSets /\ L # {} /\ <<s.body>> \in Seq(Bodies) /\ Cases(AllPaths, <<s.body>>, at) \subseteq L
    BY <1>7, <1>9
  <2>4. X = Joined({<<Does(at)>>}, L)
    BY <2>2 DEF Joined
  <2> HIDE DEF X, L
  <2>5. Matches(NodePaths(n), L)
    BY <2>1, <2>3, CasesMatch
  <2>6. Matches(NodePaths(l), {<<Does(at)>>})
    BY <2>1, GeneralMatches
  <2>7. {<<Does(at)>>} \in PathSets
    BY EventsOne DEF PathSets
  <2>8. NodePaths(l) \in PathSets /\ NodePaths(n) \in PathSets
    <3>1. l \in NodesAt(at[1])
      BY <2>1 DEF NodesAt
    <3>2. n \in NodesAt(at[1])
      BY <2>1, IfNodeAt
    <3> QED
      BY <3>1, <3>2, NodePathsIn
  <2>9. Matches(Joined(NodePaths(l), NodePaths(n)), X)
    BY <2>3, <2>4, <2>5, <2>6, <2>7, <2>8, MatchesJoined
  <2> QED
    BY <1>3, <2>1, <2>9 DEF X
<1>10. CASE s.kind = "try"
  <2>1. nodes = << >>
    BY <1>10 DEF NodesAre
  <2>2. StatementPaths(nodes) = {<< >>}
    BY <2>1 DEF StatementPaths
  <2> QED
    BY <1>1, <2>2, MatchesEmpty
<1>11. CASE s.kind \notin {"if", "switch", "while", "foreach", "try"}
  <2>1. PICK n : nodes = <<n>> /\ n.type = "Stmt" /\ n.at = at
    BY <1>11 DEF NodesAre
  <2>2. X = {<<Does(at)>>}
    BY <1>11 DEF PathsOf
  <2>3. Matches(NodePaths(n), {<<Does(at)>>})
    BY <2>1, GeneralMatches
  <2> QED
    BY <1>2, <2>1, <2>2, <2>3
<1> QED
  BY <1>4, <1>5, <1>6, <1>8, <1>9, <1>10, <1>11

LEMMA OneThen ==
    ASSUME NEW E, NEW n \in E, NEW rest \in Seq(E)
    PROVE  /\ <<n>> \o rest \in Seq(E) /\ <<n>> \o rest # << >>
           /\ Head(<<n>> \o rest) = n /\ Tail(<<n>> \o rest) = rest
<1> DEFINE l == <<n>> \o rest
<1>1. l \in Seq(E) /\ Len(l) = Len(rest) + 1 /\ l[1] = n /\ \A k \in 1 .. Len(rest) : l[k + 1] = rest[k]
  OBVIOUS
<1> HIDE DEF l
<1>2. Len(rest) \in Nat /\ l # << >>
  BY <1>1
<1>3. Head(l) = n /\ Tail(l) \in Seq(E) /\ Len(Tail(l)) = Len(rest)
      /\ \A k \in 1 .. Len(rest) : Tail(l)[k] = l[k + 1]
  BY <1>1, <1>2
<1>4. Tail(l) = rest
  BY <1>1, <1>3
<1> QED
  BY <1>1, <1>2, <1>3, <1>4 DEF l

LEMMA JoinedEmpty ==
    ASSUME NEW A \in PathSets
    PROVE  Joined({<< >>}, A) = A
<1>1. \A p \in A : << >> \o p = p
  BY DEF PathSets
<1> QED
  BY <1>1 DEF Joined

LEMMA JoinedAssoc ==
    ASSUME NEW A \in PathSets, NEW B \in PathSets, NEW C \in PathSets
    PROVE  Joined(A, Joined(B, C)) = Joined(Joined(A, B), C)
<1>1. \A p \in A, q \in B, r \in C : p \o (q \o r) = (p \o q) \o r
  BY DEF PathSets
<1>2. ASSUME NEW z \in Joined(A, Joined(B, C))
      PROVE  z \in Joined(Joined(A, B), C)
  <2>1. PICK p \in A, y \in Joined(B, C) : z = p \o y
    BY JoinedHas
  <2>2. PICK q \in B, r \in C : y = q \o r
    BY JoinedHas
  <2>3. z = (p \o q) \o r
    BY <1>1, <2>1, <2>2
  <2>4. p \o q \in Joined(A, B)
    BY JoinedIn
  <2>5. (p \o q) \o r \in Joined(Joined(A, B), C)
    BY <2>4, JoinedIn
  <2> QED
    BY <2>3, <2>5
<1>3. ASSUME NEW z \in Joined(Joined(A, B), C)
      PROVE  z \in Joined(A, Joined(B, C))
  <2>1. PICK y \in Joined(A, B), r \in C : z = y \o r
    BY JoinedHas
  <2>2. PICK p \in A, q \in B : y = p \o q
    BY JoinedHas
  <2>3. z = p \o (q \o r)
    BY <1>1, <2>1, <2>2
  <2>4. q \o r \in Joined(B, C)
    BY JoinedIn
  <2>5. p \o (q \o r) \in Joined(A, Joined(B, C))
    BY <2>4, JoinedIn
  <2> QED
    BY <2>3, <2>5
<1> QED
  BY <1>2, <1>3

(* The paths of the nodes of a statement, and of those that follow. *)
LEMMA StatementPathsThen ==
    ASSUME NEW f, NEW nodes \in Seq(NodesAt(f)), NEW rest \in Seq(NodesAt(f)),
           \/ nodes = << >>
           \/ \E n \in NodesAt(f) : nodes = <<n>>
           \/ \E m, n \in NodesAt(f) : nodes = <<m, n>>
    PROVE  /\ GraphPaths(nodes \o rest) = Joined(StatementPaths(nodes), GraphPaths(rest))
           /\ StatementPaths(nodes) \in PathSets
<1>1. GraphPaths(rest) \in PathSets
  BY GraphPathsDef
<1>2. CASE nodes = << >>
  <2>1. nodes \o rest = rest
    BY <1>2
  <2>2. StatementPaths(nodes) = {<< >>}
    BY <1>2 DEF StatementPaths
  <2>3. {<< >>} \in PathSets
    BY DEF PathSets
  <2> QED
    BY <1>1, <2>1, <2>2, <2>3, JoinedEmpty
<1>3. ASSUME NEW n \in NodesAt(f), NEW r \in Seq(NodesAt(f))
      PROVE  GraphPaths(<<n>> \o r) = Joined(NodePaths(n), GraphPaths(r))
  <2>1. /\ <<n>> \o r \in Seq(NodesAt(f)) /\ <<n>> \o r # << >>
        /\ Head(<<n>> \o r) = n /\ Tail(<<n>> \o r) = r
    BY OneThen
  <2> QED
    BY <2>1, GraphPathsDef
<1>4. CASE \E n \in NodesAt(f) : nodes = <<n>>
  <2>1. PICK n \in NodesAt(f) : nodes = <<n>>
    BY <1>4
  <2>2. StatementPaths(nodes) = NodePaths(n)
    BY <2>1 DEF StatementPaths
  <2> QED
    BY <1>3, <2>1, <2>2, NodePathsIn
<1>5. CASE \E m, n \in NodesAt(f) : nodes = <<m, n>>
  <2>1. PICK m \in NodesAt(f), n \in NodesAt(f) : nodes = <<m, n>>
    BY <1>5
  <2>2. StatementPaths(nodes) = Joined(NodePaths(m), NodePaths(n))
    BY <2>1 DEF StatementPaths
  <2>3. <<n>> \o rest \in Seq(NodesAt(f))
    BY OneThen
  <2>4. nodes \o rest = <<m>> \o (<<n>> \o rest)
    <3>1. <<m>> \in Seq(NodesAt(f)) /\ <<n>> \in Seq(NodesAt(f))
      OBVIOUS
    <3>2. nodes = <<m>> \o <<n>>
      BY <2>1, OneAndOne
    <3>3. \A x, y, z \in Seq(NodesAt(f)) : (x \o y) \o z = x \o (y \o z)
      OBVIOUS
    <3> QED
      BY <3>1, <3>2, <3>3
  <2>5. GraphPaths(nodes \o rest) = Joined(NodePaths(m), Joined(NodePaths(n), GraphPaths(rest)))
    BY <1>3, <2>3, <2>4
  <2>6. NodePaths(m) \in PathSets /\ NodePaths(n) \in PathSets
    BY NodePathsIn
  <2>7. Joined(NodePaths(m), NodePaths(n)) \in PathSets
    BY <2>6, JoinedIn
  <2> QED
    BY <1>1, <2>2, <2>5, <2>6, <2>7, JoinedAssoc
<1> QED
  BY <1>2, <1>4, <1>5

LEMMA StatementNodesFew ==
    ASSUME NEW s, NEW at \in Places, NEW nodes, NodesAre(s, at, nodes)
    PROVE  \/ nodes = << >>
           \/ \E n \in NodesAt(at[1]) : nodes = <<n>>
           \/ \E m, n \in NodesAt(at[1]) : nodes = <<m, n>>
<1> DEFINE F == NodesAt(at[1])
<1>1. \A n \in StmtNodes \cup IfNodes : n.at = at => n \in F
  BY DEF NodesAt
<1>2. \A n, cs, bs : IfNode(n, at, cs, bs) => n \in F
  BY <1>1 DEF IfNode
<1> HIDE DEF F
<1>3. nodes = << >> \/ (\E n : n \in F /\ nodes = <<n>>) \/ (\E m, n : m \in F /\ n \in F /\ nodes = <<m, n>>)
  BY <1>1, <1>2 DEF NodesAre
<1>4. CASE nodes = << >>
  BY <1>4
<1>5. CASE \E n : n \in F /\ nodes = <<n>>
  BY <1>5 DEF F
<1>6. CASE \E m, n : m \in F /\ n \in F /\ nodes = <<m, n>>
  BY <1>6 DEF F
<1> QED
  BY <1>3, <1>4, <1>5, <1>6

(* From any statement on. *)
LEMMA SuffixMatches ==
    ASSUME NEW b \in Bodies, NEW at \in Places, NEW sets,
           sets = [i \in DOMAIN b |-> PathsOf(AllPaths, b[i], Inner(at, i))]
    PROVE  \A j \in 1 .. Len(b) + 1 : Matches(GraphPaths(NodesFrom(b, at, j)), InTurn(sets, j))
<1> DEFINE n == Len(b)
           T == {j \in 1 .. n + 1 : Matches(GraphPaths(NodesFrom(b, at, j)), InTurn(sets, j))}
<1>1. n \in Nat /\ DOMAIN b = 1 .. n
  BY BodyShape
<1>2. sets \in Seq(PathSets) /\ Len(sets) = n
  <2>1. sets \in Seq(PathSets)
    BY SetsOfPaths, PathsDef
  <2> QED
    BY <1>1, <2>1
<1>3. \A i \in 1 .. n : sets[i] = PathsOf(AllPaths, b[i], Inner(at, i))
  BY <1>1
<1>4. n + 1 \in T
  <2>1. n + 1 \in 1 .. n + 1
    BY <1>1
  <2>2. NodesFrom(b, at, n + 1) = << >>
    BY GraphDef
  <2>3. << >> \in Seq(NodesAt(at[1]))
    OBVIOUS
  <2>4. GraphPaths(NodesFrom(b, at, n + 1)) = {<< >>}
    BY <2>2, <2>3, GraphPathsDef
  <2>5. InTurn(sets, n + 1) = {<< >>}
    BY <1>2, TurnDef
  <2>6. Matches({<< >>}, {<< >>})
    <3>1. {<< >>} \in PathSets
      BY DEF PathSets
    <3> QED
      BY <3>1, MatchesEmpty
  <2> QED
    BY <2>1, <2>4, <2>5, <2>6
<1>5. ASSUME NEW j \in 1 .. n, j + 1 \in T
      PROVE  j \in T
  <2> DEFINE s == b[j]
             p == Inner(at, j)
             nodes == NodesOf(s, p)
             rest == NodesFrom(b, at, j + 1)
             f == at[1]
  <2>1. j \in 1 .. n + 1 /\ j + 1 \in 1 .. n + 1 /\ j \in Nat
    BY <1>1
  <2>2. p \in Places /\ p[1] = f /\ Shaped(s, Nesting(b)) /\ NodesAre(s, p, nodes)
    BY <1>1, <2>1, InnerPlace, StatementShape, StatementNodes
  <2>3. nodes \in Seq(NodesAt(f)) /\ rest \in Seq(NodesAt(f)) /\ NodesFrom(b, at, j) = nodes \o rest
    <3>1. nodes \in Seq(NodesAt(p[1]))
      BY <1>1, <2>2, StatementNodesIn
    <3> QED
      BY <2>1, <2>2, <3>1, GraphDef
  <2>4. sets[j] = PathsOf(AllPaths, s, p)
    BY <1>3
  <2>5. InTurn(sets, j) = Joined(sets[j], InTurn(sets, j + 1)) /\ InTurn(sets, j + 1) \in PathSets
    BY <1>2, <2>1, TurnDef
  <2>6. Matches(GraphPaths(rest), InTurn(sets, j + 1))
    BY <1>5
  <2>7. sets[j] \in PathSets
    BY <1>2
  <2> HIDE DEF s, p, nodes, rest, f
  <2>8. \/ nodes = << >>
        \/ \E m \in NodesAt(f) : nodes = <<m>>
        \/ \E l, m \in NodesAt(f) : nodes = <<l, m>>
    BY <2>2, StatementNodesFew
  <2>9. /\ GraphPaths(nodes \o rest) = Joined(StatementPaths(nodes), GraphPaths(rest))
        /\ StatementPaths(nodes) \in PathSets
    BY <2>3, <2>8, StatementPathsThen
  <2>10. Matches(StatementPaths(nodes), PathsOf(AllPaths, s, p))
    BY <2>2, StatementMatches
  <2>11. GraphPaths(rest) \in PathSets
    BY <2>3, GraphPathsDef
  <2>12. Matches(Joined(StatementPaths(nodes), GraphPaths(rest)), Joined(sets[j], InTurn(sets, j + 1)))
    BY <2>4, <2>5, <2>6, <2>7, <2>9, <2>10, <2>11, MatchesJoined
  <2> QED
    BY <2>1, <2>3, <2>5, <2>9, <2>12
<1>6. T = 1 .. n + 1
  <2>1. T \in SUBSET (1 .. n + 1)
    OBVIOUS
  <2> HIDE DEF T, n
  <2> QED
    BY <1>1, <1>4, <1>5, <2>1, DownInduction
<1> QED
  BY <1>6

(* ConstructCFG: any way through the graph of a body that takes or leaves  *)
(* each of its nodes, with one alternative of a branch that is taken, is   *)
(* within a path of the body.                                              *)
LEMMA GraphOnPaths ==
    ASSUME NEW b \in Bodies, NEW at \in Places
    PROVE  /\ ConstructCFG(b, at) \in Seq(NodesAt(at[1]))
           /\ Matches(GraphPaths(ConstructCFG(b, at)), Paths(b, at))
<1>1. 1 \in 1 .. Len(b) + 1
  BY BodyShape
<1>2. NodesFrom(b, at, 1) \in Seq(NodesAt(at[1]))
  BY <1>1, GraphDef
<1> DEFINE sets == [i \in DOMAIN b |-> PathsOf(AllPaths, b[i], Inner(at, i))]
<1>3. Paths(b, at) = InTurn(sets, 1)
  BY PathsDef
<1> HIDE DEF sets
<1>4. Matches(GraphPaths(NodesFrom(b, at, 1)), InTurn(sets, 1))
  BY <1>1, SuffixMatches DEF sets
<1> QED
  BY <1>2, <1>3, <1>4 DEF ConstructCFG

-----------------------------------------------------------------------------
(* Runs.  They are functions of bodies like paths. *)

Endings == Jumps \cup {"falls"}

AnyRun == [events : Seq(Events), ends : Endings]

RunSets == SUBSET AnyRun

(* A run of the one set, then one of the other. *)
Following(A, B) == {Then(r, s) : r \in A, s \in B}

LEMMA RunIs ==
    ASSUME NEW es \in Seq(Events), NEW x \in Endings
    PROVE  Run(es, x) \in AnyRun /\ Run(es, x).events = es /\ Run(es, x).ends = x
BY DEF Run, AnyRun

LEMMA RunHas ==
    ASSUME NEW R \in RunSets, NEW r \in R
    PROVE  r \in AnyRun /\ r.events \in Seq(Events) /\ r.ends \in Endings
BY DEF RunSets, AnyRun

LEMMA ThenIs ==
    ASSUME NEW r \in AnyRun, NEW s \in AnyRun
    PROVE  /\ Then(r, s) \in AnyRun
           /\ r.ends = "falls" => Then(r, s).events = r.events \o s.events /\ Then(r, s).ends = s.ends
           /\ r.ends # "falls" => Then(r, s) = r
<1>1. r.events \in Seq(Events) /\ s.events \in Seq(Events) /\ s.ends \in Endings
  BY DEF AnyRun
<1> DEFINE es == r.events \o s.events
<1>2. es \in Seq(Events)
  BY <1>1
<1>3. Then(r, s) = IF r.ends = "falls" THEN Run(es, s.ends) ELSE r
  BY DEF Then
<1> HIDE DEF es
<1>4. Run(es, s.ends) \in AnyRun /\ Run(es, s.ends).events = es /\ Run(es, s.ends).ends = s.ends
  BY <1>1, <1>2, RunIs
<1> QED
  BY <1>3, <1>4 DEF es

LEMMA NothingIs ==
    /\ Nothing \in AnyRun /\ Nothing.events = << >> /\ Nothing.ends = "falls"
    /\ {Nothing} \in RunSets
<1>1. << >> \in Seq(Events) /\ "falls" \in Endings
  BY DEF Endings
<1>2. Nothing \in AnyRun /\ Nothing.events = << >> /\ Nothing.ends = "falls"
  BY <1>1, RunIs DEF Nothing
<1> QED
  BY <1>2 DEF RunSets

LEMMA FollowingIn ==
    ASSUME NEW A, NEW B
    PROVE  /\ \A r \in A, s \in B : Then(r, s) \in Following(A, B)
           /\ A \in RunSets /\ B \in RunSets => Following(A, B) \in RunSets
<1>1. \A r \in A, s \in B : Then(r, s) \in Following(A, B)
  BY DEF Following
<1>2. ASSUME A \in RunSets, B \in RunSets
      PROVE  Following(A, B) \in RunSets
  <2>1. \A r \in A, s \in B : Then(r, s) \in AnyRun
    BY <1>2, RunHas, ThenIs
  <2> QED
    BY <2>1 DEF Following, RunSets
<1> QED
  BY <1>1, <1>2

LEMMA StartingIs ==
    ASSUME NEW e \in Events, NEW R \in RunSets
    PROVE  /\ Starting(e, R) \in RunSets
           /\ \A r \in R : \E x \in Starting(e, R) : x.events = <<e>> \o r.events /\ x.ends = r.ends
<1> DEFINE first == Run(<<e>>, "falls")
<1>1. <<e>> \in Seq(Events) /\ "falls" \in Endings
  BY DEF Endings
<1>2. first \in AnyRun /\ first.events = <<e>> /\ first.ends = "falls"
  BY <1>1, RunIs
<1>3. Starting(e, R) = {Then(first, r) : r \in R}
  BY DEF Starting
<1> HIDE DEF first
<1>4. ASSUME NEW r \in R
      PROVE  /\ Then(first, r) \in AnyRun
             /\ Then(first, r).events = <<e>> \o r.events /\ Then(first, r).ends = r.ends
  <2>1. r \in AnyRun
    BY RunHas
  <2> QED
    BY <1>2, <2>1, ThenIs
<1> QED
  BY <1>3, <1>4 DEF RunSets

(* The runs R, of a loop or of a switch. *)
OutsideOf(R) == {Outside(r) : r \in R}

LEMMA OutsideIs ==
    ASSUME NEW R \in RunSets
    PROVE  /\ OutsideOf(R) \in RunSets
           /\ \A r \in R : \E x \in OutsideOf(R) :
                 /\ x.events = r.events
                 /\ x.ends = IF r.ends \in Leaving THEN "falls" ELSE r.ends
<1>1. ASSUME NEW r \in R
      PROVE  /\ Outside(r) \in AnyRun /\ Outside(r).events = r.events
             /\ Outside(r).ends = IF r.ends \in Leaving THEN "falls" ELSE r.ends
  <2>1. r \in AnyRun /\ r.events \in Seq(Events) /\ "falls" \in Endings
    BY RunHas DEF Endings
  <2>2. Run(r.events, "falls") \in AnyRun /\ Run(r.events, "falls").events = r.events /\ Run(r.events, "falls").ends = "falls"
    BY <2>1, RunIs
  <2> QED
    BY <2>1, <2>2 DEF Outside
<1> QED
  BY <1>1 DEF OutsideOf, RunSets

LEMMA RunUnion ==
    /\ \A A \in RunSets, B \in RunSets : A \cup B \in RunSets
    /\ {} \in RunSets
    /\ \A S \in SUBSET RunSets : UNION S \in RunSets
BY DEF RunSets

(* The values of RunsInTurn. *)
RunTurns(sets, from) ==
    /\ from \in [1 .. Len(sets) + 1 -> RunSets]
    /\ from = [j \in 1 .. Len(sets) + 1 |->
                 IF j > Len(sets) THEN {Nothing} ELSE Following(sets[j], from[j + 1])]
    /\ \A n : RunsInTurn(sets, n) = from[n]

LEMMA RunTurnList ==
    ASSUME NEW sets \in Seq(RunSets)
    PROVE  \E from : RunTurns(sets, from)
<1> DEFINE m == Len(sets)
           step == [j \in 1 .. m |-> [r \in RunSets |-> Following(sets[j], r)]]
           Right(f) == f = [j \in 1 .. Len(sets) + 1 |->
                            IF j > Len(sets) THEN {Nothing} ELSE Following(sets[j], f[j + 1])]
<1>1. m \in Nat
  OBVIOUS
<1>2. step \in [1 .. m -> [RunSets -> RunSets]]
  <2> SUFFICES ASSUME NEW j \in 1 .. m, NEW r \in RunSets
               PROVE  Following(sets[j], r) \in RunSets
    OBVIOUS
  <2>1. sets[j] \in RunSets
    OBVIOUS
  <2> QED
    BY <2>1, FollowingIn
<1>3. {Nothing} \in RunSets
  BY NothingIs
<1>4. \A j \in 1 .. m : \A r \in RunSets : step[j][r] = Following(sets[j], r)
  OBVIOUS
<1> HIDE DEF step
<1>51. PICK f : AlongList(m, RunSets, {Nothing}, step, f)
  <2> HIDE DEF m
  <2> QED
    BY <1>1, <1>2, <1>3, ListRecursion
<1>5. /\ f \in [1 .. m + 1 -> RunSets]
      /\ f = [j \in 1 .. m + 1 |-> IF j > m THEN {Nothing} ELSE step[j][f[j + 1]]]
  BY <1>51 DEF AlongList
<1>6. Right(f)
  <2>1. \A j \in 1 .. m + 1 : ~(j > m) => step[j][f[j + 1]] = Following(sets[j], f[j + 1])
    <3> SUFFICES ASSUME NEW j \in 1 .. m + 1, ~(j > m)
                 PROVE  step[j][f[j + 1]] = Following(sets[j], f[j + 1])
      OBVIOUS
    <3>1. j \in 1 .. m /\ j + 1 \in 1 .. m + 1
      BY <1>1
    <3>2. f[j + 1] \in RunSets
      BY <1>5, <3>1
    <3> QED
      BY <1>4, <3>1, <3>2
  <2> QED
    BY <1>5, <2>1
<1> DEFINE g == CHOOSE h : Right(h)
<1>7. Right(g)
  BY <1>6
<1>8. \A n : RunsInTurn(sets, n) = g[n]
  BY DEF RunsInTurn, Following
<1> HIDE DEF g
<1>9. g \in [1 .. m + 1 -> RunSets]
  <2> DEFINE T == {j \in 1 .. m + 1 : g[j] \in RunSets}
  <2>1. m + 1 \in T
    <3>1. m + 1 \in 1 .. m + 1 /\ m + 1 > m
      BY <1>1
    <3>2. g[m + 1] = {Nothing}
      BY <1>7, <3>1
    <3> QED
      BY <1>3, <3>1, <3>2
  <2>2. ASSUME NEW j \in 1 .. m, j + 1 \in T
        PROVE  j \in T
    <3>1. j \in 1 .. m + 1 /\ ~(j > m)
      BY <1>1
    <3>3. g[j + 1] \in RunSets
      BY <2>2
    <3>4. g[j] = Following(sets[j], g[j + 1])
      BY <1>7, <3>1
    <3>5. sets[j] \in RunSets
      OBVIOUS
    <3> QED
      BY <3>1, <3>3, <3>4, <3>5, FollowingIn
  <2>3. T = 1 .. m + 1
    <3> HIDE DEF T
    <3>1. T \in SUBSET (1 .. m + 1)
      BY DEF T
    <3> HIDE DEF m
    <3> QED
      BY <1>1, <2>1, <2>2, <3>1, DownInduction
  <2>4. DOMAIN g = 1 .. m + 1 /\ g = [j \in 1 .. m + 1 |-> g[j]]
    BY <1>7
  <2> QED
    BY <2>3, <2>4
<1>10. RunTurns(sets, g)
  BY <1>7, <1>8, <1>9 DEF RunTurns
<1> QED
  BY <1>10

(* What RunsInTurn is. *)
LEMMA RunTurnDef ==
    ASSUME NEW sets \in Seq(RunSets)
    PROVE  /\ RunsInTurn(sets, Len(sets) + 1) = {Nothing}
           /\ \A j \in 1 .. Len(sets) :
                 RunsInTurn(sets, j) = Following(sets[j], RunsInTurn(sets, j + 1))
           /\ \A j \in 1 .. Len(sets) + 1 : RunsInTurn(sets, j) \in RunSets
<1>0. PICK from : RunTurns(sets, from)
  BY RunTurnList
<1>1. /\ \A n : RunsInTurn(sets, n) = from[n]
      /\ from \in [1 .. Len(sets) + 1 -> RunSets]
      /\ \A j \in 1 .. Len(sets) + 1 :
            from[j] = IF j > Len(sets) THEN {Nothing} ELSE Following(sets[j], from[j + 1])
  BY <1>0 DEF RunTurns
<1>2. Len(sets) \in Nat
  OBVIOUS
<1>3. RunsInTurn(sets, Len(sets) + 1) = {Nothing}
  <2>1. Len(sets) + 1 \in 1 .. Len(sets) + 1 /\ Len(sets) + 1 > Len(sets)
    BY <1>2
  <2>2. from[Len(sets) + 1] = {Nothing}
    BY <1>1, <2>1
  <2> QED
    BY <1>1, <2>2
<1>4. ASSUME NEW j \in 1 .. Len(sets)
      PROVE  RunsInTurn(sets, j) = Following(sets[j], RunsInTurn(sets, j + 1))
  <2>1. j \in 1 .. Len(sets) + 1 /\ ~(j > Len(sets))
    BY <1>2
  <2>2. from[j] = Following(sets[j], from[j + 1])
    BY <1>1, <2>1
  <2>3. RunsInTurn(sets, j) = from[j] /\ RunsInTurn(sets, j + 1) = from[j + 1]
    BY <1>1
  <2> QED
    BY <2>2, <2>3
<1>5. \A j \in 1 .. Len(sets) + 1 : RunsInTurn(sets, j) \in RunSets
  BY <1>1
<1> QED
  BY <1>3, <1>4, <1>5

LEMMA SwitchBodiesAre ==
    ASSUME NEW s, NEW n, Shaped(s, n), s.kind = "switch"
    PROVE  /\ SwitchBodies(s) \in Seq(Bodies)
           /\ \A i \in DOMAIN SwitchBodies(s) : i \in Nat /\ SwitchBodies(s)[i] \in Bodies /\ Nesting(SwitchBodies(s)[i]) < n
           /\ \A i \in DOMAIN SwitchBodies(s) : SwitchBodies(s)[i] \in Nested(s)
           /\ \A i \in DOMAIN s.cases : i \in DOMAIN SwitchBodies(s) /\ SwitchBodies(s)[i] = s.cases[i]
           /\ s.default # Absent =>
                 /\ Len(s.cases) + 1 \in DOMAIN SwitchBodies(s) \ DOMAIN s.cases
                 /\ SwitchBodies(s)[Len(s.cases) + 1] = s.default
<1>1. /\ s.cases \in Seq(Bodies) /\ \A i \in DOMAIN s.cases : Nesting(s.cases[i]) < n
      /\ s.default # Absent => s.default \in Bodies /\ Nesting(s.default) < n
  BY DEF Shaped
<1>2. Len(s.cases) \in Nat /\ DOMAIN s.cases = 1 .. Len(s.cases) /\ \A i \in DOMAIN s.cases : s.cases[i] \in Bodies
  BY <1>1
<1>3. Nested(s) = ToSet(s.cases) \cup ({s.default} \ {Absent})
  BY DEF Nested
<1>4. \A i \in DOMAIN s.cases : s.cases[i] \in Nested(s)
  BY <1>3 DEF ToSet
<1>5. s.default # Absent => s.default \in Nested(s)
  BY <1>3
<1> DEFINE bodies == SwitchBodies(s)
           m == Len(s.cases)
<1>6. CASE s.default = Absent
  <2>1. bodies = s.cases
    BY <1>1, <1>6 DEF SwitchBodies
  <2> QED
    BY <1>1, <1>2, <1>4, <1>6, <2>1
<1>7. CASE s.default # Absent
  <2>1. bodies = s.cases \o <<s.default>> /\ <<s.default>> \in Seq(Bodies)
    BY <1>1, <1>7 DEF SwitchBodies
  <2>2. /\ bodies \in Seq(Bodies) /\ DOMAIN bodies = 1 .. m + 1 /\ bodies[m + 1] = s.default
        /\ \A i \in 1 .. m : bodies[i] = s.cases[i]
    BY <1>1, <1>2, <2>1
  <2> HIDE DEF bodies, m
  <2>3. m \in Nat /\ m + 1 \in 1 .. m + 1 /\ ~(m + 1 \in 1 .. m) /\ \A i \in 1 .. m + 1 : i \in Nat /\ (i \in 1 .. m \/ i = m + 1)
    BY <1>2 DEF m
  <2>4. DOMAIN s.cases = 1 .. m
    BY <1>2 DEF m
  <2>5. \A i \in 1 .. m + 1 : bodies[i] \in Bodies /\ Nesting(bodies[i]) < n /\ bodies[i] \in Nested(s)
    BY <1>1, <1>2, <1>4, <1>5, <1>7, <2>2, <2>3, <2>4
  <2> QED
    BY <1>7, <2>2, <2>3, <2>4, <2>5 DEF bodies, m
<1> QED
  BY <1>6, <1>7

LEMMA RunsOfBodiesIn ==
    ASSUME NEW runs \in [Bodies -> [Places -> RunSets]], NEW bodies \in Seq(Bodies), NEW at \in Places
    PROVE  /\ RunsOfBodies(runs, bodies, at) \in Seq(RunSets)
           /\ Len(RunsOfBodies(runs, bodies, at)) = Len(bodies)
           /\ \A i \in DOMAIN bodies : RunsOfBodies(runs, bodies, at)[i] = runs[bodies[i]][Inner(at, i)]
<1>1. Len(bodies) \in Nat /\ DOMAIN bodies = 1 .. Len(bodies)
  OBVIOUS
<1>2. ASSUME NEW i \in 1 .. Len(bodies)
      PROVE  runs[bodies[i]][Inner(at, i)] \in RunSets
  <2>1. bodies[i] \in Bodies /\ Inner(at, i) \in Places
    BY <1>1, InnerPlace
  <2> QED
    BY <2>1
<1>3. RunsOfBodies(runs, bodies, at) = [i \in 1 .. Len(bodies) |-> runs[bodies[i]][Inner(at, i)]]
  BY <1>1 DEF RunsOfBodies
<1> QED
  BY <1>1, <1>2, <1>3

LEMMA CaseRunsIn ==
    ASSUME NEW runs \in [Bodies -> [Places -> RunSets]], NEW s, NEW n, Shaped(s, n), s.kind = "switch",
           NEW at \in Places, NEW i \in DOMAIN SwitchBodies(s)
    PROVE  /\ Found(s, at, i) \in Events
           /\ RunsInTurn(RunsOfBodies(runs, SwitchBodies(s), at), i) \in RunSets
           /\ CaseRuns(runs, s, at, i) \in RunSets
<1>1. SwitchBodies(s) \in Seq(Bodies) /\ i \in Nat
  BY SwitchBodiesAre
<1>2. Inner(at, i) \in AnyCondition /\ Absent \in AnyCondition
  BY <1>1, InnerPlace DEF AnyCondition
<1>3. Found(s, at, i) \in Events
  BY <1>2 DEF Found, Events
<1> DEFINE sets == RunsOfBodies(runs, SwitchBodies(s), at)
<1>4. sets \in Seq(RunSets) /\ Len(sets) = Len(SwitchBodies(s))
  BY <1>1, RunsOfBodiesIn
<1>5. i \in 1 .. Len(sets) + 1
  BY <1>1, <1>4
<1> HIDE DEF sets
<1>6. RunsInTurn(sets, i) \in RunSets
  BY <1>4, <1>5, RunTurnDef
<1>7. Starting(Found(s, at, i), RunsInTurn(sets, i)) \in RunSets
  BY <1>3, <1>6, StartingIs
<1> QED
  BY <1>3, <1>6, <1>7 DEF CaseRuns, sets

LEMMA TakenIn ==
    ASSUME NEW runs \in [Bodies -> [Places -> RunSets]], NEW bodies \in Seq(Bodies), NEW at \in Places,
           NEW i \in DOMAIN bodies
    PROVE  Holds(Inner(at, i)) \in Events /\ Taken(runs, bodies, at, i) \in RunSets
<1>1. i \in Nat /\ bodies[i] \in Bodies
  OBVIOUS
<1>2. Inner(at, i) \in Places
  BY <1>1, InnerPlace
<1>3. Holds(Inner(at, i)) \in Events
  BY <1>2 DEF Events, AnyCondition
<1>4. runs[bodies[i]][Inner(at, i)] \in RunSets
  BY <1>1, <1>2
<1> QED
  BY <1>3, <1>4, StartingIs DEF Taken

LEMMA LoopRunsIn ==
    ASSUME NEW runs \in [Bodies -> [Places -> RunSets]], NEW s, s.body \in Bodies, NEW at \in Places
    PROVE  LoopRuns(runs, s, at) \in RunSets /\ Taken(runs, <<s.body>>, at, 1) \in RunSets
<1> DEFINE one == <<s.body>>
<1>1. one \in Seq(Bodies) /\ 1 \in DOMAIN one
  OBVIOUS
<1> HIDE DEF one
<1>2. Taken(runs, one, at, 1) \in RunSets
  BY <1>1, TakenIn
<1>3. OutsideOf(Taken(runs, one, at, 1)) \in RunSets
  BY <1>2, OutsideIs
<1>4. {Nothing} \in RunSets
  BY NothingIs
<1>5. LoopRuns(runs, s, at) = {Nothing} \cup OutsideOf(Taken(runs, one, at, 1))
  BY DEF LoopRuns, OutsideOf, one
<1> QED
  BY <1>2, <1>3, <1>4, <1>5, RunUnion DEF one

LEMMA RunsOfIn ==
    ASSUME NEW runs \in [Bodies -> [Places -> RunSets]], NEW s, NEW n, Shaped(s, n), NEW at \in Places
    PROVE  RunsOf(runs, s, at) \in RunSets
<1>1. /\ Does(at) \in Events /\ <<Does(at)>> \in Seq(Events) /\ "falls" \in Endings
      /\ \A j \in Jumps : j \in Endings
  BY DEF Events, Endings
<1>2. \A x \in Endings : {Run(<<Does(at)>>, x)} \in RunSets
  BY <1>1, RunIs DEF RunSets
<1>3. CASE s.kind = "if"
  <2>1. s.bodies \in Seq(Bodies) /\ (s.else # Absent => s.else \in Bodies)
    BY <1>3 DEF Shaped
  <2> DEFINE taken == {Taken(runs, s.bodies, at, i) : i \in DOMAIN s.bodies}
             rest == IF s.else = Absent THEN {Nothing}
                     ELSE Starting(Holds(Absent), runs[s.else][Inner(at, Len(s.bodies) + 1)])
  <2>2. taken \in SUBSET RunSets
    BY <2>1, TakenIn
  <2>3. rest \in RunSets
    <3>1. Len(s.bodies) + 1 \in Nat
      BY <2>1
    <3>2. Inner(at, Len(s.bodies) + 1) \in Places /\ Holds(Absent) \in Events
      BY <3>1, InnerPlace DEF Events, AnyCondition
    <3>3. CASE s.else # Absent
      <4>1. runs[s.else][Inner(at, Len(s.bodies) + 1)] \in RunSets
        BY <2>1, <3>2, <3>3
      <4> QED
        BY <3>2, <3>3, <4>1, StartingIs
    <3> QED
      BY <3>3, NothingIs
  <2>5. RunsOf(runs, s, at) = IfRuns(runs, s, at)
    BY <1>3 DEF RunsOf, Jumps
  <2>4. RunsOf(runs, s, at) = (UNION taken) \cup rest
    BY <2>5 DEF IfRuns
  <2> HIDE DEF taken, rest
  <2> QED
    BY <2>2, <2>3, <2>4, RunUnion
<1>4. CASE s.kind = "switch"
  <2> DEFINE taken == {CaseRuns(runs, s, at, i) : i \in DOMAIN SwitchBodies(s)}
             none == IF s.default = Absent THEN {Nothing} ELSE {}
  <2>1. taken \in SUBSET RunSets
    BY <1>4, CaseRunsIn
  <2>2. none \in RunSets
    BY NothingIs, RunUnion
  <2>6. RunsOf(runs, s, at) = SwitchRuns(runs, s, at)
    BY <1>4 DEF RunsOf, Jumps
  <2>3. RunsOf(runs, s, at) = none \cup OutsideOf(UNION taken)
    BY <2>6 DEF SwitchRuns, OutsideOf
  <2> HIDE DEF taken, none
  <2>4. UNION taken \in RunSets
    BY <2>1, RunUnion
  <2>5. OutsideOf(UNION taken) \in RunSets
    BY <2>4, OutsideIs
  <2> QED
    BY <2>2, <2>3, <2>5, RunUnion
<1>5. CASE s.kind = "while"
  <2>1. RunsOf(runs, s, at) = LoopRuns(runs, s, at)
    BY <1>5 DEF RunsOf, Jumps
  <2>2. s.body \in Bodies
    BY <1>5 DEF Shaped
  <2> QED
    BY <2>1, <2>2, LoopRunsIn
<1>6. CASE s.kind = "foreach"
  <2>1. RunsOf(runs, s, at) = Starting(Does(at), LoopRuns(runs, s, at))
    BY <1>6 DEF RunsOf, Jumps
  <2>3. s.body \in Bodies
    BY <1>6 DEF Shaped
  <2>2. LoopRuns(runs, s, at) \in RunSets
    BY <2>3, LoopRunsIn
  <2> QED
    BY <1>1, <2>1, <2>2, StartingIs
<1>7. CASE s.kind = "try"
  <2>1. RunsOf(runs, s, at) = runs[s.body][Inner(at, 1)]
    BY <1>7 DEF RunsOf, Jumps
  <2>2. s.body \in Bodies /\ Inner(at, 1) \in Places
    BY <1>7, InnerPlace DEF Shaped
  <2> QED
    BY <2>1, <2>2
<1>8. CASE s.kind \in Jumps
  <2>1. RunsOf(runs, s, at) = {Run(<<Does(at)>>, s.kind)}
    BY <1>8 DEF RunsOf, Jumps
  <2> QED
    BY <1>1, <1>2, <1>8, <2>1
<1>9. CASE s.kind \notin Jumps \cup {"if", "switch", "while", "foreach", "try"}
  <2>1. RunsOf(runs, s, at) = {Run(<<Does(at)>>, "falls")}
    BY <1>9 DEF RunsOf, Jumps
  <2> QED
    BY <1>1, <1>2, <2>1
<1> QED
  BY <1>3, <1>4, <1>5, <1>6, <1>7, <1>8, <1>9

(* They do not depend on the runs of other bodies. *)
LEMMA RunsOfLocal ==
    ASSUME NEW f, NEW g, NEW s, NEW n, Shaped(s, n), NEW at,
           \A b \in Bodies : Nesting(b) < n => f[b] = g[b]
    PROVE  RunsOf(f, s, at) = RunsOf(g, s, at)
<1>1. ASSUME NEW bodies \in Seq(Bodies), \A i \in DOMAIN bodies : Nesting(bodies[i]) < n
      PROVE  \A i \in DOMAIN bodies : /\ f[bodies[i]] = g[bodies[i]]
                                      /\ Taken(f, bodies, at, i) = Taken(g, bodies, at, i)
  <2>1. \A i \in DOMAIN bodies : f[bodies[i]] = g[bodies[i]]
    BY <1>1
  <2> QED
    BY <2>1 DEF Taken
<1>2. CASE s.kind = "if"
  <2>1. /\ s.bodies \in Seq(Bodies) /\ \A i \in DOMAIN s.bodies : Nesting(s.bodies[i]) < n
        /\ s.else # Absent => f[s.else] = g[s.else]
    BY <1>2 DEF Shaped
  <2>2. \A i \in DOMAIN s.bodies : Taken(f, s.bodies, at, i) = Taken(g, s.bodies, at, i)
    BY <1>1, <2>1
  <2>3. IfRuns(f, s, at) = IfRuns(g, s, at)
    BY <2>1, <2>2 DEF IfRuns
  <2> QED
    BY <1>2, <2>3 DEF RunsOf, Jumps
<1>3. CASE s.kind = "switch"
  <2> DEFINE bodies == SwitchBodies(s)
  <2>1. bodies \in Seq(Bodies) /\ \A i \in DOMAIN bodies : Nesting(bodies[i]) < n
    BY <1>3, SwitchBodiesAre
  <2>2. \A i \in DOMAIN bodies : f[bodies[i]] = g[bodies[i]]
    BY <1>1, <2>1
  <2>3. RunsOfBodies(f, bodies, at) = RunsOfBodies(g, bodies, at)
    BY <2>2 DEF RunsOfBodies
  <2>4. \A i \in DOMAIN bodies : CaseRuns(f, s, at, i) = CaseRuns(g, s, at, i)
    BY <2>3 DEF CaseRuns
  <2>5. SwitchRuns(f, s, at) = SwitchRuns(g, s, at)
    BY <2>4 DEF SwitchRuns
  <2> QED
    BY <1>3, <2>5 DEF RunsOf, Jumps
<1>4. CASE s.kind \in {"while", "foreach", "try"}
  <2>1. s.body \in Bodies /\ f[s.body] = g[s.body]
    BY <1>4 DEF Shaped
  <2>2. Taken(f, <<s.body>>, at, 1) = Taken(g, <<s.body>>, at, 1)
    BY <2>1 DEF Taken
  <2>3. LoopRuns(f, s, at) = LoopRuns(g, s, at)
    BY <2>2 DEF LoopRuns
  <2>4. CASE s.kind = "while"
    BY <2>3, <2>4 DEF RunsOf, Jumps
  <2>5. CASE s.kind = "foreach"
    BY <2>3, <2>5 DEF RunsOf, Jumps
  <2>6. CASE s.kind = "try"
    BY <2>1, <2>6 DEF RunsOf, Jumps
  <2> QED
    BY <1>4, <2>4, <2>5, <2>6
<1>5. CASE s.kind \in Jumps
  BY <1>5 DEF RunsOf, Jumps
<1>6. CASE s.kind \notin Jumps \cup {"if", "switch", "while", "foreach", "try"}
  BY <1>6 DEF RunsOf, Jumps
<1> QED
  BY <1>2, <1>3, <1>4, <1>5, <1>6

(* The runs of every body, at every place. *)

RunsAgain(runs) ==
    [b \in Bodies |->
        [at \in Places |-> RunsInTurn([i \in DOMAIN b |-> RunsOf(runs, b[i], Inner(at, i))], 1)]]

AllRuns == CHOOSE runs : runs = RunsAgain(runs)

LEMMA SetsOfRuns ==
    ASSUME NEW runs \in [Bodies -> [Places -> RunSets]], NEW b \in Bodies, NEW at \in Places
    PROVE  [i \in DOMAIN b |-> RunsOf(runs, b[i], Inner(at, i))] \in Seq(RunSets)
<1>1. Len(b) \in Nat /\ DOMAIN b = 1 .. Len(b)
  BY BodyShape
<1>2. ASSUME NEW i \in 1 .. Len(b)
      PROVE  RunsOf(runs, b[i], Inner(at, i)) \in RunSets
  <2>1. Inner(at, i) \in Places /\ Shaped(b[i], Nesting(b))
    BY <1>1, InnerPlace, StatementShape
  <2> QED
    BY <2>1, RunsOfIn
<1> QED
  BY <1>1, <1>2

LEMMA RunsAgainIn ==
    ASSUME NEW f \in [Bodies -> [Places -> RunSets]]
    PROVE  RunsAgain(f) \in [Bodies -> [Places -> RunSets]]
<1> SUFFICES ASSUME NEW b \in Bodies, NEW at \in Places
             PROVE  RunsInTurn([i \in DOMAIN b |-> RunsOf(f, b[i], Inner(at, i))], 1) \in RunSets
  BY DEF RunsAgain
<1>1. [i \in DOMAIN b |-> RunsOf(f, b[i], Inner(at, i))] \in Seq(RunSets)
  BY SetsOfRuns
<1>2. 1 \in 1 .. Len([i \in DOMAIN b |-> RunsOf(f, b[i], Inner(at, i))]) + 1
  BY <1>1, BodyShape
<1> QED
  BY <1>1, <1>2, RunTurnDef

LEMMA RunsAgainLocal ==
    ASSUME NEW f, NEW g, NEW b \in Bodies, \A c \in Bodies : Nesting(c) < Nesting(b) => f[c] = g[c]
    PROVE  RunsAgain(f)[b] = RunsAgain(g)[b]
<1>1. ASSUME NEW at \in Places, NEW i \in DOMAIN b
      PROVE  RunsOf(f, b[i], Inner(at, i)) = RunsOf(g, b[i], Inner(at, i))
  <2> DEFINE s == b[i]
             n == Nesting(b)
             p == Inner(at, i)
  <2>1. Shaped(s, n)
    BY StatementShape
  <2>2. \A c \in Bodies : Nesting(c) < n => f[c] = g[c]
    OBVIOUS
  <2> HIDE DEF s, n, p
  <2>3. RunsOf(f, s, p) = RunsOf(g, s, p)
    BY <2>1, <2>2, RunsOfLocal
  <2> QED
    BY <2>3 DEF s, p
<1>2. \A at \in Places :
         [i \in DOMAIN b |-> RunsOf(f, b[i], Inner(at, i))] = [i \in DOMAIN b |-> RunsOf(g, b[i], Inner(at, i))]
  BY <1>1
<1> QED
  BY <1>2 DEF RunsAgain

(* They exist, and are sets of runs. *)
LEMMA RunsExist ==
    AllRuns \in [Bodies -> [Places -> RunSets]] /\ AllRuns = RunsAgain(AllRuns)
<1> DEFINE R == [Places -> RunSets]
           rank == [b \in Bodies |-> Nesting(b)]
           step == [f \in [Bodies -> R] |-> RunsAgain(f)]
<1>1. rank \in [Bodies -> Nat] /\ \A b \in Bodies : rank[b] = Nesting(b)
  BY BodyShape
<1>2. \A f \in [Bodies -> R] : step[f] = RunsAgain(f)
  OBVIOUS
<1>3. \A f \in [Bodies -> R] : RunsAgain(f) \in [Bodies -> R]
  BY RunsAgainIn
<1>4. step \in [[Bodies -> R] -> [Bodies -> R]]
  BY <1>3
<1> HIDE DEF rank, step
<1>5. ASSUME NEW f \in [Bodies -> R], NEW g \in [Bodies -> R], NEW b \in Bodies,
             \A c \in Bodies : rank[c] < rank[b] => f[c] = g[c]
      PROVE  step[f][b] = step[g][b]
  <2>1. \A c \in Bodies : Nesting(c) < Nesting(b) => f[c] = g[c]
    BY <1>1, <1>5
  <2>2. RunsAgain(f)[b] = RunsAgain(g)[b]
    BY <2>1, RunsAgainLocal
  <2> QED
    BY <1>2, <2>2
<1>6. {} \in RunSets
  BY DEF RunSets
<1>7. PICK r : r \in R
  <2>1. [at \in Places |-> {}] \in R
    BY <1>6
  <2> QED
    BY <2>1
<1> HIDE DEF R
<1>8. Descends(step, Bodies, R, rank)
  <2>1. R # {}
    BY <1>7
  <2> QED
    BY <1>1, <1>4, <1>5, <2>1 DEF Descends
<1>9. PICK f \in [Bodies -> R] : step[f] = f
  BY <1>8, RecursionHasSolution
<1>10. f = RunsAgain(f)
  BY <1>2, <1>9
<1> DEFINE a == AllRuns
           T == {b \in Bodies : a[b] \in R}
           h == [b \in Bodies |-> IF a[b] \in R THEN a[b] ELSE r]
<1>11. a = RunsAgain(a)
  BY <1>10 DEF AllRuns
<1> HIDE DEF a
<1>12. h \in [Bodies -> R] /\ \A b \in Bodies : a[b] \in R => h[b] = a[b]
  BY <1>7
<1> HIDE DEF h
<1>13. ASSUME NEW b \in Bodies, \A c \in Bodies : rank[c] < rank[b] => c \in T
       PROVE  b \in T
  <2>1. \A c \in Bodies : Nesting(c) < Nesting(b) => a[c] = h[c]
    BY <1>1, <1>12, <1>13
  <2>2. RunsAgain(a)[b] = RunsAgain(h)[b]
    BY <2>1, RunsAgainLocal
  <2>3. RunsAgain(h)[b] \in R
    BY <1>3, <1>12
  <2> QED
    BY <1>11, <2>2, <2>3
<1>14. T = Bodies
  <2>1. T \in SUBSET Bodies
    OBVIOUS
  <2> HIDE DEF T
  <2> QED
    BY <1>1, <1>13, <2>1, RankInduction
<1>15. a = [b \in Bodies |-> a[b]]
  BY <1>11 DEF RunsAgain
<1>16. a \in [Bodies -> R]
  BY <1>14, <1>15
<1> QED
  BY <1>11, <1>16 DEF a, R

(* What Runs is. *)
LEMMA RunsDef ==
    /\ AllRuns \in [Bodies -> [Places -> RunSets]]
    /\ \A b \in Bodies, at \in Places :
          /\ Runs(b, at) = AllRuns[b][at]
          /\ Runs(b, at) = RunsInTurn([i \in DOMAIN b |-> RunsOf(AllRuns, b[i], Inner(at, i))], 1)
          /\ Runs(b, at) \in RunSets
<1>1. \A b, at : Runs(b, at) = AllRuns[b][at]
  BY DEF Runs, AllRuns, RunsAgain
<1>2. AllRuns \in [Bodies -> [Places -> RunSets]] /\ AllRuns = RunsAgain(AllRuns)
  BY RunsExist
<1>3. ASSUME NEW b \in Bodies, NEW at \in Places
      PROVE  /\ Runs(b, at) = RunsInTurn([i \in DOMAIN b |-> RunsOf(AllRuns, b[i], Inner(at, i))], 1)
             /\ Runs(b, at) \in RunSets
  <2>1. RunsAgain(AllRuns)[b][at] = RunsInTurn([i \in DOMAIN b |-> RunsOf(AllRuns, b[i], Inner(at, i))], 1)
    BY DEF RunsAgain
  <2>2. AllRuns[b][at] \in RunSets
    BY <1>2
  <2> QED
    BY <1>1, <1>2, <2>1, <2>2
<1> QED
  BY <1>1, <1>2, <1>3

-----------------------------------------------------------------------------
(* Where jumps are last: a function of bodies too. *)

LastAgain(last) ==
    [b \in Bodies |->
       [ends \in SUBSET Jumps |->
          \A i \in DOMAIN b :
             /\ b[i].kind \in Jumps => b[i].kind \in AtPlace(b, i, ends)
             /\ \A c \in Nested(b[i]) : last[c][InBody(b[i], AtPlace(b, i, ends))]]]

AllLast == CHOOSE last : last = LastAgain(last)

LEMMA LastAgainLocal ==
    ASSUME NEW f, NEW g, NEW b \in Bodies, \A c \in Bodies : Nesting(c) < Nesting(b) => f[c] = g[c]
    PROVE  LastAgain(f)[b] = LastAgain(g)[b]
<1>1. \A i \in DOMAIN b : \A c \in Nested(b[i]) : f[c] = g[c]
  BY ScriptParameters
<1> QED
  BY <1>1 DEF LastAgain

LEMMA LastAgainIn ==
    ASSUME NEW f
    PROVE  LastAgain(f) \in [Bodies -> [SUBSET Jumps -> BOOLEAN]]
BY DEF LastAgain

LEMMA LastDef ==
    /\ AllLast = LastAgain(AllLast)
    /\ \A b, jumps : JumpsAreLast(b, jumps) = AllLast[b][jumps]
<1> DEFINE R == [SUBSET Jumps -> BOOLEAN]
           rank == [b \in Bodies |-> Nesting(b)]
           step == [f \in [Bodies -> R] |-> LastAgain(f)]
<1>1. rank \in [Bodies -> Nat] /\ \A b \in Bodies : rank[b] = Nesting(b)
  BY BodyShape
<1>2. \A f \in [Bodies -> R] : step[f] = LastAgain(f)
  OBVIOUS
<1>3. step \in [[Bodies -> R] -> [Bodies -> R]]
  BY LastAgainIn
<1> HIDE DEF rank, step
<1>4. ASSUME NEW f \in [Bodies -> R], NEW g \in [Bodies -> R], NEW b \in Bodies,
             \A c \in Bodies : rank[c] < rank[b] => f[c] = g[c]
      PROVE  step[f][b] = step[g][b]
  <2>1. \A c \in Bodies : Nesting(c) < Nesting(b) => f[c] = g[c]
    BY <1>1, <1>4
  <2>2. LastAgain(f)[b] = LastAgain(g)[b]
    BY <2>1, LastAgainLocal
  <2> QED
    BY <1>2, <2>2
<1>5. R # {}
  <2>1. [ends \in SUBSET Jumps |-> TRUE] \in R
    OBVIOUS
  <2> QED
    BY <2>1
<1> HIDE DEF R
<1>6. Descends(step, Bodies, R, rank)
  BY <1>1, <1>3, <1>4, <1>5 DEF Descends
<1>7. PICK f \in [Bodies -> R] : step[f] = f
  BY <1>6, RecursionHasSolution
<1>8. f = LastAgain(f)
  BY <1>2, <1>7
<1>9. AllLast = LastAgain(AllLast)
  BY <1>8 DEF AllLast
<1>10. \A b, jumps : JumpsAreLast(b, jumps) = AllLast[b][jumps]
  BY DEF JumpsAreLast, AllLast, LastAgain
<1> QED
  BY <1>9, <1>10

LEMMA LastOf ==
    ASSUME NEW b \in Bodies, NEW A \in SUBSET Jumps, AllLast[b][A], NEW i \in DOMAIN b
    PROVE  /\ b[i].kind \in Jumps => b[i].kind \in AtPlace(b, i, A)
           /\ \A c \in Nested(b[i]) : c \in Bodies /\ Nesting(c) < Nesting(b) /\ AllLast[c][InBody(b[i], AtPlace(b, i, A))]
<1>1. AllLast[b][A] = \A j \in DOMAIN b :
             /\ b[j].kind \in Jumps => b[j].kind \in AtPlace(b, j, A)
             /\ \A c \in Nested(b[j]) : AllLast[c][InBody(b[j], AtPlace(b, j, A))]
  <2>1. LastAgain(AllLast)[b][A] = \A j \in DOMAIN b :
             /\ b[j].kind \in Jumps => b[j].kind \in AtPlace(b, j, A)
             /\ \A c \in Nested(b[j]) : AllLast[c][InBody(b[j], AtPlace(b, j, A))]
    BY DEF LastAgain
  <2> QED
    BY <2>1, LastDef
<1>2. \A c \in Nested(b[i]) : c \in Bodies /\ Nesting(c) < Nesting(b)
  BY ScriptParameters
<1> QED
  BY <1>1, <1>2

-----------------------------------------------------------------------------
(* Each path of W lies within a run of R that ends by one of the jumps A,  *)
(* if by a jump.                                                           *)
Covers(W, R, A) == \A w \in W : \E r \in R : Within(w, r.events) /\ r.ends \in A \cup {"falls"}

LEMMA CoversUnion ==
    ASSUME NEW V, NEW W, NEW R, NEW A, Covers(V, R, A), Covers(W, R, A)
    PROVE  Covers(V \cup W, R, A)
BY DEF Covers

LEMMA NothingCovers ==
    ASSUME NEW A
    PROVE  Covers({<< >>}, {Nothing}, A)
<1>1. << >> \in Seq(Events)
  OBVIOUS
<1>2. Within(<< >>, << >>)
  BY <1>1, WithinEmpty
<1> QED
  BY <1>2, NothingIs DEF Covers

LEMMA StartingCovers ==
    ASSUME NEW e \in Events, NEW W \in PathSets, NEW R \in RunSets, NEW A, Covers(W, R, A)
    PROVE  Covers({<<e>> \o w : w \in W}, Starting(e, R), A)
<1> SUFFICES ASSUME NEW w \in W
             PROVE  \E x \in Starting(e, R) : Within(<<e>> \o w, x.events) /\ x.ends \in A \cup {"falls"}
  BY DEF Covers
<1>1. PICK r \in R : Within(w, r.events) /\ r.ends \in A \cup {"falls"}
  BY DEF Covers
<1>2. PICK x \in Starting(e, R) : x.events = <<e>> \o r.events /\ x.ends = r.ends
  BY StartingIs
<1>3. w \in Seq(Events) /\ r.events \in Seq(Events) /\ <<e>> \in Seq(Events)
  BY RunHas DEF PathSets
<1>4. Within(<<e>>, <<e>>)
  BY <1>3, WithinSelf
<1>5. Within(<<e>> \o w, <<e>> \o r.events)
  BY <1>1, <1>3, <1>4, WithinConcat
<1> QED
  BY <1>1, <1>2, <1>5

LEMMA OutsideCovers ==
    ASSUME NEW W, NEW R \in RunSets, NEW A, Covers(W, R, A \cup Leaving)
    PROVE  Covers(W, OutsideOf(R), A)
<1> SUFFICES ASSUME NEW w \in W
             PROVE  \E x \in OutsideOf(R) : Within(w, x.events) /\ x.ends \in A \cup {"falls"}
  BY DEF Covers
<1>1. PICK r \in R : Within(w, r.events) /\ r.ends \in A \cup Leaving \cup {"falls"}
  BY DEF Covers
<1>2. PICK x \in OutsideOf(R) : x.events = r.events /\ x.ends = IF r.ends \in Leaving THEN "falls" ELSE r.ends
  BY OutsideIs
<1> QED
  BY <1>1, <1>2

(* One path after another within one run after another: the first falls    *)
(* off, unless it is the last.                                             *)
LEMMA FollowingCovers ==
    ASSUME NEW V \in PathSets, NEW W \in PathSets, NEW R \in RunSets, NEW S \in RunSets, NEW A, NEW B,
           Covers(V, R, B), Covers(W, S, A),
           B = {} \/ (B = A /\ W = {<< >>} /\ S = {Nothing})
    PROVE  Covers(Joined(V, W), Following(R, S), A)
<1> SUFFICES ASSUME NEW z \in Joined(V, W)
             PROVE  \E x \in Following(R, S) : Within(z, x.events) /\ x.ends \in A \cup {"falls"}
  BY DEF Covers
<1>1. PICK v \in V, w \in W : z = v \o w
  BY JoinedHas
<1>2. PICK r \in R : Within(v, r.events) /\ r.ends \in B \cup {"falls"}
  BY DEF Covers
<1>3. PICK s \in S : Within(w, s.events) /\ s.ends \in A \cup {"falls"}
  BY DEF Covers
<1>4. v \in Seq(Events) /\ w \in Seq(Events)
  BY DEF PathSets
<1>5. r \in AnyRun /\ s \in AnyRun /\ r.events \in Seq(Events) /\ s.events \in Seq(Events)
  BY RunHas
<1>6. Then(r, s) \in Following(R, S)
  BY FollowingIn
<1>7. CASE r.ends = "falls"
  <2>1. Then(r, s).events = r.events \o s.events /\ Then(r, s).ends = s.ends
    BY <1>5, <1>7, ThenIs
  <2>2. Within(v \o w, r.events \o s.events)
    BY <1>2, <1>3, <1>4, <1>5, WithinConcat
  <2> QED
    BY <1>1, <1>3, <1>6, <2>1, <2>2
<1>8. CASE r.ends # "falls"
  <2>1. Then(r, s) = r
    BY <1>5, <1>8, ThenIs
  <2>2. B = A /\ w = << >>
    BY <1>2, <1>8
  <2>3. v \o w = v
    BY <1>4, <2>2
  <2> QED
    BY <1>1, <1>2, <1>6, <2>1, <2>2, <2>3
<1> QED
  BY <1>7, <1>8

LEMMA FollowingMore ==
    ASSUME NEW W \in PathSets, NEW R \in RunSets, NEW S \in RunSets, NEW B,
           Covers(W, R, B), Covers({<< >>}, S, B)
    PROVE  Covers(W, Following(R, S), B)
<1> SUFFICES ASSUME NEW w \in W
             PROVE  \E x \in Following(R, S) : Within(w, x.events) /\ x.ends \in B \cup {"falls"}
  BY DEF Covers
<1>1. PICK r \in R : Within(w, r.events) /\ r.ends \in B \cup {"falls"}
  BY DEF Covers
<1>2. PICK s \in S : Within(<< >>, s.events) /\ s.ends \in B \cup {"falls"}
  BY DEF Covers
<1>3. w \in Seq(Events) /\ << >> \in Seq(Events) /\ w \o << >> = w
  BY DEF PathSets
<1>4. r \in AnyRun /\ s \in AnyRun /\ r.events \in Seq(Events) /\ s.events \in Seq(Events)
  BY RunHas
<1>5. Then(r, s) \in Following(R, S)
  BY FollowingIn
<1>6. CASE r.ends = "falls"
  <2>1. Then(r, s).events = r.events \o s.events /\ Then(r, s).ends = s.ends
    BY <1>4, <1>6, ThenIs
  <2>2. Within(w \o << >>, r.events \o s.events)
    BY <1>1, <1>2, <1>3, <1>4, WithinConcat
  <2> QED
    BY <1>2, <1>3, <1>5, <2>1, <2>2
<1>7. CASE r.ends # "falls"
  <2>1. Then(r, s) = r
    BY <1>4, <1>7, ThenIs
  <2> QED
    BY <1>1, <1>5, <2>1
<1> QED
  BY <1>6, <1>7

(* A switch goes on with the next case, which may add to a path only.      *)
LEMMA RunsInTurnCover ==
    ASSUME NEW sets \in Seq(RunSets), NEW B, \A i \in 1 .. Len(sets) : Covers({<< >>}, sets[i], B)
    PROVE  /\ \A j \in 1 .. Len(sets) + 1 : Covers({<< >>}, RunsInTurn(sets, j), B)
           /\ \A j \in 1 .. Len(sets) : \A W \in PathSets :
                 Covers(W, sets[j], B) => Covers(W, RunsInTurn(sets, j), B)
<1> DEFINE n == Len(sets)
           T == {j \in 1 .. n + 1 : Covers({<< >>}, RunsInTurn(sets, j), B)}
<1>1. n \in Nat /\ \A j \in 1 .. n : j \in 1 .. n + 1 /\ j + 1 \in 1 .. n + 1
  OBVIOUS
<1>2. {<< >>} \in PathSets
  BY DEF PathSets
<1>3. \A j \in 1 .. n : /\ sets[j] \in RunSets /\ RunsInTurn(sets, j + 1) \in RunSets
                        /\ RunsInTurn(sets, j) = Following(sets[j], RunsInTurn(sets, j + 1))
  BY <1>1, RunTurnDef
<1>4. n + 1 \in T
  <2>1. RunsInTurn(sets, n + 1) = {Nothing} /\ n + 1 \in 1 .. n + 1
    BY <1>1, RunTurnDef
  <2> QED
    BY <2>1, NothingCovers
<1>5. ASSUME NEW j \in 1 .. n, j + 1 \in T
      PROVE  /\ j \in T
             /\ \A W \in PathSets : Covers(W, sets[j], B) => Covers(W, RunsInTurn(sets, j), B)
  <2>1. Covers({<< >>}, RunsInTurn(sets, j + 1), B)
    BY <1>5
  <2>2. \A W \in PathSets : Covers(W, sets[j], B) => Covers(W, Following(sets[j], RunsInTurn(sets, j + 1)), B)
    BY <1>3, <2>1, FollowingMore
  <2> QED
    BY <1>1, <1>2, <1>3, <2>2
<1>6. T = 1 .. n + 1
  <2>1. T \in SUBSET (1 .. n + 1)
    OBVIOUS
  <2> HIDE DEF T, n
  <2> QED
    BY <1>1, <1>4, <1>5, <2>1, DownInduction
<1> QED
  BY <1>1, <1>5, <1>6

(* The paths of a body lie within its runs, at any place. *)
BodyCovers(c, A) == \A p \in Places : Covers(AllPaths[c][p], AllRuns[c][p], A)

LEMMA BodyTypes ==
    ASSUME NEW c \in Bodies, NEW p \in Places
    PROVE  AllPaths[c][p] \in PathSets /\ AllPaths[c][p] # {} /\ AllRuns[c][p] \in RunSets
BY AllPathsAre, RunsDef

LEMMA BodyRuns ==
    ASSUME NEW c \in Bodies, NEW p \in Places, NEW A, BodyCovers(c, A)
    PROVE  Covers({<< >>}, AllRuns[c][p], A)
<1>1. PICK w \in AllPaths[c][p] : TRUE
  BY BodyTypes
<1>2. PICK r \in AllRuns[c][p] : r.ends \in A \cup {"falls"}
  BY DEF BodyCovers, Covers
<1>3. r.events \in Seq(Events)
  BY BodyTypes, RunHas
<1>4. Within(<< >>, r.events)
  BY <1>3, WithinEmpty
<1> QED
  BY <1>2, <1>4 DEF Covers

(* A body taken when the condition c holds. *)
LEMMA ThroughCovered ==
    ASSUME NEW c \in AnyCondition, NEW b \in Bodies, NEW p \in Places, NEW A, BodyCovers(b, A)
    PROVE  Covers(Through(AllPaths, c, b, p), Starting(Holds(c), AllRuns[b][p]), A)
<1>1. Holds(c) \in Events
  BY DEF Events
<1>2. AllPaths[b][p] \in PathSets /\ AllRuns[b][p] \in RunSets /\ Covers(AllPaths[b][p], AllRuns[b][p], A)
  BY BodyTypes DEF BodyCovers
<1>3. Covers({<<Holds(c)>> \o w : w \in AllPaths[b][p]}, Starting(Holds(c), AllRuns[b][p]), A)
  BY <1>1, <1>2, StartingCovers
<1> QED
  BY <1>3 DEF Through

LEMMA IfCovered ==
    ASSUME NEW s, NEW n, Shaped(s, n), s.kind = "if", NEW at \in Places, NEW A,
           \A c \in Nested(s) : BodyCovers(c, A)
    PROVE  Covers(PathsOf(AllPaths, s, at), RunsOf(AllRuns, s, at), A)
<1>1. /\ s.bodies \in Seq(Bodies)
      /\ s.else # Absent => s.else \in Bodies
      /\ Nested(s) = ToSet(s.bodies) \cup ({s.else} \ {Absent})
  BY DEF Shaped, Nested
<1>2. /\ PathsOf(AllPaths, s, at) = Cases(AllPaths, s.bodies, at) \cup Otherwise(AllPaths, s.else, s.bodies, at)
      /\ RunsOf(AllRuns, s, at) = IfRuns(AllRuns, s, at)
  BY DEF PathsOf, RunsOf, Jumps
<1>3. ASSUME NEW i \in DOMAIN s.bodies
      PROVE  Covers(Through(AllPaths, Inner(at, i), s.bodies[i], Inner(at, i)), IfRuns(AllRuns, s, at), A)
  <2>1. s.bodies[i] \in Bodies /\ i \in Nat /\ BodyCovers(s.bodies[i], A)
    BY <1>1 DEF ToSet
  <2>2. Inner(at, i) \in Places /\ Inner(at, i) \in AnyCondition
    BY <2>1, InnerPlace DEF AnyCondition
  <2>3. Covers(Through(AllPaths, Inner(at, i), s.bodies[i], Inner(at, i)), Taken(AllRuns, s.bodies, at, i), A)
    BY <2>1, <2>2, ThroughCovered DEF Taken
  <2>4. Taken(AllRuns, s.bodies, at, i) \subseteq IfRuns(AllRuns, s, at)
    BY DEF IfRuns
  <2> QED
    BY <2>3, <2>4 DEF Covers
<1>4. Covers(Cases(AllPaths, s.bodies, at), IfRuns(AllRuns, s, at), A)
  BY <1>3 DEF Cases, Covers
<1>5. Covers(Otherwise(AllPaths, s.else, s.bodies, at), IfRuns(AllRuns, s, at), A)
  <2>1. CASE s.else = Absent
    <3>1. Otherwise(AllPaths, s.else, s.bodies, at) = {<< >>} /\ {Nothing} \subseteq IfRuns(AllRuns, s, at)
      BY <2>1 DEF Otherwise, IfRuns
    <3>2. Covers({<< >>}, {Nothing}, A)
      BY NothingCovers
    <3> QED
      BY <3>1, <3>2 DEF Covers
  <2>2. CASE s.else # Absent
    <3> DEFINE p == Inner(at, Len(s.bodies) + 1)
    <3>1. Len(s.bodies) + 1 \in Nat /\ Absent \in AnyCondition
      BY <1>1 DEF AnyCondition
    <3>2. p \in Places
      BY <3>1, InnerPlace
    <3>3. /\ Otherwise(AllPaths, s.else, s.bodies, at) = Through(AllPaths, Absent, s.else, p)
          /\ Starting(Holds(Absent), AllRuns[s.else][p]) \subseteq IfRuns(AllRuns, s, at)
      BY <2>2 DEF Otherwise, IfRuns
    <3> HIDE DEF p
    <3>4. s.else \in Bodies /\ BodyCovers(s.else, A)
      BY <1>1, <2>2
    <3>5. Covers(Through(AllPaths, Absent, s.else, p), Starting(Holds(Absent), AllRuns[s.else][p]), A)
      BY <3>1, <3>2, <3>4, ThroughCovered
    <3> QED
      BY <3>3, <3>5 DEF Covers
  <2> QED
    BY <2>1, <2>2
<1> QED
  BY <1>2, <1>4, <1>5, CoversUnion

LEMMA LoopPaths ==
    ASSUME NEW s, s.body \in Bodies, NEW at \in Places
    PROVE  Loop(AllPaths, s, at) \in PathSets
<1>1. <<s.body>>[1] = s.body /\ DOMAIN <<s.body>> = {1} /\ 1 \in Nat
  OBVIOUS
<1>2. Inner(at, 1) \in Places
  BY InnerPlace
<1>3. AllPaths[s.body][Inner(at, 1)] \in PathSets /\ <<Holds(Inner(at, 1))>> \in Seq(Events)
  BY <1>2, BodyTypes, EventsOne DEF AnyCondition
<1>4. \A p \in AllPaths[s.body][Inner(at, 1)] : <<Holds(Inner(at, 1))>> \o p \in Seq(Events)
  BY <1>3 DEF PathSets
<1>5. Through(AllPaths, Inner(at, 1), s.body, Inner(at, 1)) \in PathSets
  BY <1>4 DEF Through, PathSets
<1>6. Cases(AllPaths, <<s.body>>, at) = Through(AllPaths, Inner(at, 1), s.body, Inner(at, 1))
  BY <1>1 DEF Cases
<1>7. {<< >>} \in PathSets
  BY DEF PathSets
<1> QED
  BY <1>5, <1>6, <1>7 DEF Loop, PathSets

LEMMA LoopCovered ==
    ASSUME NEW s, s.body \in Bodies, NEW at \in Places, NEW A, BodyCovers(s.body, A \cup Leaving)
    PROVE  Covers(Loop(AllPaths, s, at), LoopRuns(AllRuns, s, at), A)
<1> DEFINE one == <<s.body>>
           taken == Taken(AllRuns, one, at, 1)
           p == Inner(at, 1)
           C == Cases(AllPaths, one, at)
<1>1. one[1] = s.body /\ DOMAIN one = {1} /\ 1 \in Nat
  OBVIOUS
<1>2. p \in Places /\ p \in AnyCondition
  BY InnerPlace DEF AnyCondition
<1>3. taken \in RunSets /\ taken = Starting(Holds(p), AllRuns[s.body][p])
  BY <1>1, RunsDef, LoopRunsIn DEF Taken
<1>4. C = Through(AllPaths, p, s.body, p)
  BY <1>1 DEF Cases
<1>5. LoopRuns(AllRuns, s, at) = {Nothing} \cup OutsideOf(taken) /\ Loop(AllPaths, s, at) = {<< >>} \cup C
  BY DEF LoopRuns, Loop, OutsideOf
<1> HIDE DEF one, taken, p, C
<1>6. Covers(C, taken, A \cup Leaving)
  BY <1>2, <1>3, <1>4, ThroughCovered
<1>7. Covers(C, OutsideOf(taken), A)
  BY <1>3, <1>6, OutsideCovers
<1>8. Covers({<< >>}, {Nothing}, A)
  BY NothingCovers
<1> QED
  BY <1>5, <1>7, <1>8 DEF Covers

LEMMA SwitchCovered ==
    ASSUME NEW s, NEW n, Shaped(s, n), s.kind = "switch", NEW at \in Places, NEW A,
           \A c \in Nested(s) : BodyCovers(c, A \cup Leaving)
    PROVE  Covers(PathsOf(AllPaths, s, at), RunsOf(AllRuns, s, at), A)
<1> DEFINE bodies == SwitchBodies(s)
           sets == RunsOfBodies(AllRuns, bodies, at)
           B == A \cup Leaving
           U == UNION {CaseRuns(AllRuns, s, at, i) : i \in DOMAIN bodies}
           X == SwitchRuns(AllRuns, s, at)
<1>1. /\ PathsOf(AllPaths, s, at) = Cases(AllPaths, s.cases, at) \cup Otherwise(AllPaths, s.default, s.cases, at)
      /\ RunsOf(AllRuns, s, at) = X
  BY DEF PathsOf, RunsOf, Jumps
<1>2. X = (IF s.default = Absent THEN {Nothing} ELSE {}) \cup OutsideOf(U)
  BY DEF SwitchRuns, OutsideOf
<1>3. AllRuns \in [Bodies -> [Places -> RunSets]]
  BY RunsDef
<1>4. /\ bodies \in Seq(Bodies)
      /\ \A i \in DOMAIN bodies : i \in Nat /\ bodies[i] \in Bodies /\ bodies[i] \in Nested(s)
      /\ \A i \in DOMAIN s.cases : i \in DOMAIN bodies /\ bodies[i] = s.cases[i]
      /\ s.default # Absent =>
            Len(s.cases) + 1 \in DOMAIN bodies \ DOMAIN s.cases /\ bodies[Len(s.cases) + 1] = s.default
  BY SwitchBodiesAre
<1>5. /\ sets \in Seq(RunSets) /\ Len(sets) = Len(bodies) /\ DOMAIN bodies = 1 .. Len(bodies)
      /\ \A i \in DOMAIN bodies : sets[i] = AllRuns[bodies[i]][Inner(at, i)]
  BY <1>3, <1>4, RunsOfBodiesIn
<1>6. \A i \in DOMAIN bodies : /\ Found(s, at, i) \in Events
                               /\ RunsInTurn(sets, i) \in RunSets
                               /\ CaseRuns(AllRuns, s, at, i) \in RunSets
                               /\ CaseRuns(AllRuns, s, at, i) = Starting(Found(s, at, i), RunsInTurn(sets, i))
  BY <1>3, CaseRunsIn DEF CaseRuns
<1>7. U \in RunSets
  BY <1>6, RunUnion
<1>8. \A i \in DOMAIN bodies : CaseRuns(AllRuns, s, at, i) \subseteq U
  OBVIOUS
<1> HIDE DEF bodies, sets, U, X
<1>9. \A i \in DOMAIN bodies : bodies[i] \in Bodies /\ Inner(at, i) \in Places /\ BodyCovers(bodies[i], B)
  BY <1>4, InnerPlace
<1> HIDE DEF B
<1>10. \A i \in 1 .. Len(sets) : Covers({<< >>}, sets[i], B)
  BY <1>5, <1>9, BodyRuns
<1>11. ASSUME NEW i \in DOMAIN bodies
       PROVE  Covers({<<Found(s, at, i)>> \o w : w \in AllPaths[bodies[i]][Inner(at, i)]}, OutsideOf(U), A)
  <2> DEFINE W == AllPaths[bodies[i]][Inner(at, i)]
             e == Found(s, at, i)
             V == {<<e>> \o w : w \in W}
  <2>1. W \in PathSets /\ Covers(W, sets[i], B) /\ i \in 1 .. Len(sets)
    BY <1>5, <1>9, BodyTypes DEF BodyCovers
  <2>2. e \in Events /\ RunsInTurn(sets, i) \in RunSets
    BY <1>6
  <2>3. CaseRuns(AllRuns, s, at, i) = Starting(e, RunsInTurn(sets, i)) /\ CaseRuns(AllRuns, s, at, i) \subseteq U
    BY <1>6, <1>8
  <2> HIDE DEF W, e
  <2>4. Covers(W, RunsInTurn(sets, i), B)
    BY <1>5, <1>10, <2>1, RunsInTurnCover
  <2>5. Covers(V, Starting(e, RunsInTurn(sets, i)), B)
    BY <2>1, <2>2, <2>4, StartingCovers
  <2>6. Covers(V, U, B)
    BY <2>3, <2>5 DEF Covers
  <2>7. Covers(V, OutsideOf(U), A)
    BY <1>7, <2>6, OutsideCovers DEF B
  <2> QED
    BY <2>7 DEF W, e
<1>12. \A i \in DOMAIN s.cases : Covers(Through(AllPaths, Inner(at, i), s.cases[i], Inner(at, i)), X, A)
  <2> SUFFICES ASSUME NEW i \in DOMAIN s.cases
               PROVE  Covers(Through(AllPaths, Inner(at, i), s.cases[i], Inner(at, i)), X, A)
    OBVIOUS
  <2>1. i \in DOMAIN bodies /\ bodies[i] = s.cases[i] /\ Found(s, at, i) = Holds(Inner(at, i))
    BY <1>4 DEF Found
  <2>2. Covers(Through(AllPaths, Inner(at, i), s.cases[i], Inner(at, i)), OutsideOf(U), A)
    BY <1>11, <2>1 DEF Through
  <2> QED
    BY <1>2, <2>2 DEF Covers
<1>13. Covers(Cases(AllPaths, s.cases, at), X, A)
  BY <1>12 DEF Cases, Covers
<1>14. Covers(Otherwise(AllPaths, s.default, s.cases, at), X, A)
  <2>1. CASE s.default = Absent
    <3>1. Otherwise(AllPaths, s.default, s.cases, at) = {<< >>} /\ {Nothing} \subseteq X
      BY <1>2, <2>1 DEF Otherwise
    <3>2. Covers({<< >>}, {Nothing}, A)
      BY NothingCovers
    <3> QED
      BY <3>1, <3>2 DEF Covers
  <2>2. CASE s.default # Absent
    <3> DEFINE i == Len(s.cases) + 1
    <3>1. i \in DOMAIN bodies /\ bodies[i] = s.default /\ Found(s, at, i) = Holds(Absent)
      BY <1>4, <2>2 DEF Found
    <3>2. Otherwise(AllPaths, s.default, s.cases, at) = Through(AllPaths, Absent, s.default, Inner(at, i))
      BY <2>2 DEF Otherwise
    <3> HIDE DEF i
    <3>3. Covers(Through(AllPaths, Absent, s.default, Inner(at, i)), OutsideOf(U), A)
      BY <1>11, <3>1 DEF Through
    <3> QED
      BY <1>2, <3>2, <3>3 DEF Covers
  <2> QED
    BY <2>1, <2>2
<1> QED
  BY <1>1, <1>13, <1>14, CoversUnion

LEMMA StatementCovered ==
    ASSUME NEW s, NEW n, Shaped(s, n), NEW at \in Places, NEW A,
           s.kind \in Jumps => s.kind \in A,
           \A c \in Nested(s) : BodyCovers(c, InBody(s, A))
    PROVE  Covers(PathsOf(AllPaths, s, at), RunsOf(AllRuns, s, at), A)
<1> DEFINE e == <<Does(at)>>
<1>1. /\ Does(at) \in Events /\ e \in Seq(Events) /\ "falls" \in Endings
      /\ \A j \in Jumps : j \in Endings
  BY DEF Events, Endings
<1>2. Within(e, e)
  BY <1>1, WithinSelf
<1>3. \A x \in Endings : x \in A \cup {"falls"} => Covers({e}, {Run(e, x)}, A)
  BY <1>1, <1>2, RunIs DEF Covers
<1>4. CASE s.kind = "if"
  <2>1. InBody(s, A) = A
    BY <1>4 DEF InBody
  <2> QED
    BY <1>4, <2>1, IfCovered
<1>5. CASE s.kind = "switch"
  <2>1. InBody(s, A) = A \cup Leaving
    BY <1>5 DEF InBody
  <2> QED
    BY <1>5, <2>1, SwitchCovered
<1>6. CASE s.kind \in {"while", "foreach"}
  <2>1. InBody(s, A) = A \cup Leaving /\ Nested(s) = {s.body} /\ s.body \in Bodies
    BY <1>6 DEF InBody, Nested, Shaped
  <2>2. Covers(Loop(AllPaths, s, at), LoopRuns(AllRuns, s, at), A)
    BY <2>1, LoopCovered
  <2>3. CASE s.kind = "while"
    <3>1. PathsOf(AllPaths, s, at) = Loop(AllPaths, s, at) /\ RunsOf(AllRuns, s, at) = LoopRuns(AllRuns, s, at)
      BY <2>3 DEF PathsOf, RunsOf, Jumps
    <3> QED
      BY <2>2, <3>1
  <2>4. CASE s.kind = "foreach"
    <3>1. /\ PathsOf(AllPaths, s, at) = {<<Does(at)>> \o p : p \in Loop(AllPaths, s, at)}
          /\ RunsOf(AllRuns, s, at) = Starting(Does(at), LoopRuns(AllRuns, s, at))
      BY <2>4 DEF PathsOf, RunsOf, Jumps
    <3>2. LoopRuns(AllRuns, s, at) \in RunSets
      BY <2>1, RunsDef, LoopRunsIn
    <3>3. Loop(AllPaths, s, at) \in PathSets
      BY <2>1, LoopPaths
    <3>4. Covers({<<Does(at)>> \o p : p \in Loop(AllPaths, s, at)}, Starting(Does(at), LoopRuns(AllRuns, s, at)), A)
      BY <1>1, <2>2, <3>2, <3>3, StartingCovers
    <3> QED
      BY <3>1, <3>4
  <2> QED
    BY <1>6, <2>3, <2>4
<1>7. CASE s.kind = "try"
  <2>1. InBody(s, A) = A /\ Nested(s) = {s.body} /\ s.body \in Bodies /\ Inner(at, 1) \in Places
    BY <1>7, InnerPlace DEF InBody, Nested, Shaped
  <2>2. /\ PathsOf(AllPaths, s, at) = AllPaths[s.body][Inner(at, 1)]
        /\ RunsOf(AllRuns, s, at) = AllRuns[s.body][Inner(at, 1)]
    BY <1>7 DEF PathsOf, RunsOf, Jumps
  <2> QED
    BY <2>1, <2>2 DEF BodyCovers
<1>8. CASE s.kind \in Jumps
  <2>1. PathsOf(AllPaths, s, at) = {e} /\ RunsOf(AllRuns, s, at) = {Run(e, s.kind)}
    BY <1>8 DEF PathsOf, RunsOf, Jumps
  <2> HIDE DEF e
  <2> QED
    BY <1>1, <1>3, <1>8, <2>1
<1>9. CASE s.kind \notin Jumps \cup {"if", "switch", "while", "foreach", "try"}
  <2>1. PathsOf(AllPaths, s, at) = {e} /\ RunsOf(AllRuns, s, at) = {Run(e, "falls")}
    BY <1>9 DEF PathsOf, RunsOf
  <2> HIDE DEF e
  <2> QED
    BY <1>1, <1>3, <2>1
<1> QED
  BY <1>4, <1>5, <1>6, <1>7, <1>8, <1>9

(* The statements of a body in turn: only the last may end by a jump. *)
LEMMA ListCovered ==
    ASSUME NEW b \in Bodies, NEW A, NEW W \in Seq(PathSets), NEW R \in Seq(RunSets),
           Len(W) = Len(b), Len(R) = Len(b),
           \A i \in 1 .. Len(b) : Covers(W[i], R[i], AtPlace(b, i, A))
    PROVE  Covers(InTurn(W, 1), RunsInTurn(R, 1), A)
<1> DEFINE n == Len(b)
           T == {j \in 1 .. n + 1 : Covers(InTurn(W, j), RunsInTurn(R, j), A)}
<1>1. n \in Nat
  BY BodyShape
<1>2. InTurn(W, n + 1) = {<< >>} /\ RunsInTurn(R, n + 1) = {Nothing}
  BY TurnDef, RunTurnDef
<1>3. n + 1 \in T
  <2>1. n + 1 \in 1 .. n + 1
    BY <1>1
  <2>2. Covers(InTurn(W, n + 1), RunsInTurn(R, n + 1), A)
    BY <1>2, NothingCovers
  <2> QED
    BY <2>1, <2>2
<1>4. ASSUME NEW j \in 1 .. n, j + 1 \in T
      PROVE  j \in T
  <2>1. j + 1 \in 1 .. n + 1 /\ j \in 1 .. n + 1
    BY <1>1
  <2>2. /\ InTurn(W, j) = Joined(W[j], InTurn(W, j + 1)) /\ InTurn(W, j + 1) \in PathSets
        /\ RunsInTurn(R, j) = Following(R[j], RunsInTurn(R, j + 1)) /\ RunsInTurn(R, j + 1) \in RunSets
    BY <2>1, TurnDef, RunTurnDef
  <2>3. W[j] \in PathSets /\ R[j] \in RunSets
    OBVIOUS
  <2>4. Covers(W[j], R[j], AtPlace(b, j, A)) /\ Covers(InTurn(W, j + 1), RunsInTurn(R, j + 1), A)
    BY <1>4
  <2>5. CASE j = n
    <3>1. AtPlace(b, j, A) = A /\ InTurn(W, j + 1) = {<< >>} /\ RunsInTurn(R, j + 1) = {Nothing}
      BY <1>2, <2>5 DEF AtPlace
    <3>2. Covers(W[j], R[j], A)
      BY <2>4, <3>1
    <3>3. Covers(Joined(W[j], InTurn(W, j + 1)), Following(R[j], RunsInTurn(R, j + 1)), A)
      BY <2>2, <2>3, <2>4, <3>1, <3>2, FollowingCovers
    <3> QED
      BY <2>1, <2>2, <3>3
  <2>6. CASE j # n
    <3>1. AtPlace(b, j, A) = {}
      BY <2>6 DEF AtPlace
    <3>2. Covers(W[j], R[j], {})
      BY <2>4, <3>1
    <3>3. Covers(Joined(W[j], InTurn(W, j + 1)), Following(R[j], RunsInTurn(R, j + 1)), A)
      BY <2>2, <2>3, <2>4, <3>2, FollowingCovers
    <3> QED
      BY <2>1, <2>2, <3>3
  <2> QED
    BY <2>5, <2>6
<1>5. T = 1 .. n + 1
  <2>1. T \in SUBSET (1 .. n + 1)
    OBVIOUS
  <2> HIDE DEF T, n
  <2> QED
    BY <1>1, <1>3, <1>4, <2>1, DownInduction
<1>6. 1 \in 1 .. n + 1
  BY <1>1
<1> QED
  BY <1>5, <1>6

LEMMA InBodyIn ==
    ASSUME NEW s, NEW b, NEW i, NEW A \in SUBSET Jumps
    PROVE  AtPlace(b, i, A) \in SUBSET Jumps /\ InBody(s, AtPlace(b, i, A)) \in SUBSET Jumps
BY DEF AtPlace, InBody, Leaving, Jumps

(* Where jumps skip nothing, a path of a body lies within a run.           *)
LEMMA BodyCovered ==
    \A b \in Bodies : \A A \in SUBSET Jumps : AllLast[b][A] => BodyCovers(b, A)
<1> DEFINE rank == [b \in Bodies |-> Nesting(b)]
           T == {b \in Bodies : \A A \in SUBSET Jumps : AllLast[b][A] => BodyCovers(b, A)}
<1>1. rank \in [Bodies -> Nat] /\ \A b \in Bodies : rank[b] = Nesting(b)
  BY BodyShape
<1> HIDE DEF rank
<1>2. ASSUME NEW b \in Bodies, \A c \in Bodies : rank[c] < rank[b] => c \in T
      PROVE  b \in T
  <2> SUFFICES ASSUME NEW A \in SUBSET Jumps, AllLast[b][A], NEW at \in Places
               PROVE  Covers(AllPaths[b][at], AllRuns[b][at], A)
    BY DEF BodyCovers
  <2> DEFINE W == [i \in DOMAIN b |-> PathsOf(AllPaths, b[i], Inner(at, i))]
             R == [i \in DOMAIN b |-> RunsOf(AllRuns, b[i], Inner(at, i))]
  <2>1. Len(b) \in Nat /\ DOMAIN b = 1 .. Len(b)
    BY BodyShape
  <2>2. W \in Seq(PathSets) /\ R \in Seq(RunSets)
    BY SetsOfPaths, PathsDef, SetsOfRuns, RunsDef
  <2>3. Len(W) = Len(b) /\ Len(R) = Len(b)
    BY <2>1, <2>2
  <2>4. AllPaths[b][at] = InTurn(W, 1) /\ AllRuns[b][at] = RunsInTurn(R, 1)
    BY PathsDef, RunsDef
  <2>5. ASSUME NEW i \in 1 .. Len(b)
        PROVE  Covers(W[i], R[i], AtPlace(b, i, A))
    <3> DEFINE s == b[i]
               B == AtPlace(b, i, A)
               p == Inner(at, i)
    <3>1. /\ s.kind \in Jumps => s.kind \in B
          /\ \A c \in Nested(s) : c \in Bodies /\ Nesting(c) < Nesting(b) /\ AllLast[c][InBody(s, B)]
      BY <2>1, LastOf
    <3>2. Shaped(s, Nesting(b)) /\ p \in Places
      BY <2>1, StatementShape, InnerPlace
    <3>3. InBody(s, B) \in SUBSET Jumps
      BY InBodyIn
    <3>4. W[i] = PathsOf(AllPaths, s, p) /\ R[i] = RunsOf(AllRuns, s, p)
      BY <2>1
    <3> HIDE DEF s, B, p, W, R
    <3>5. \A c \in Nested(s) : BodyCovers(c, InBody(s, B))
      BY <1>1, <1>2, <3>1, <3>3
    <3>6. Covers(PathsOf(AllPaths, s, p), RunsOf(AllRuns, s, p), B)
      BY <3>1, <3>2, <3>5, StatementCovered
    <3> QED
      BY <3>4, <3>6 DEF B
  <2> HIDE DEF W, R
  <2>6. Covers(InTurn(W, 1), RunsInTurn(R, 1), A)
    BY <2>2, <2>3, <2>5, ListCovered
  <2> QED
    BY <2>4, <2>6
<1>3. T = Bodies
  <2>1. T \in SUBSET Bodies
    OBVIOUS
  <2> HIDE DEF T
  <2> QED
    BY <1>1, <1>2, <2>1, RankInduction
<1> QED
  BY <1>3

(* ConstructCFG: where the jumps of a body skip nothing, any way through   *)
(* its graph that takes or leaves each of its nodes, with one alternative  *)
(* of a branch that is taken, is within the events of a run, which ends by *)
(* one of those jumps or falls off the body.                               *)
THEOREM GraphMatches ==
    ASSUME NEW b \in Bodies, NEW at \in Places, NEW jumps \in SUBSET Jumps, JumpsAreLast(b, jumps)
    PROVE  \A z \in GraphPaths(ConstructCFG(b, at)) :
              \E r \in Runs(b, at) : Within(z, r.events) /\ r.ends \in jumps \cup {"falls"}
<1>1. AllLast[b][jumps]
  BY LastDef
<1>2. Covers(AllPaths[b][at], AllRuns[b][at], jumps)
  BY <1>1, BodyCovered DEF BodyCovers
<1>3. /\ AllPaths[b][at] = Paths(b, at) /\ Paths(b, at) \in PathSets
      /\ AllRuns[b][at] = Runs(b, at) /\ Runs(b, at) \in RunSets
  BY AllPathsAre, RunsDef
<1>4. ConstructCFG(b, at) \in Seq(NodesAt(at[1])) /\ Matches(GraphPaths(ConstructCFG(b, at)), Paths(b, at))
  BY GraphOnPaths
<1>5. GraphPaths(ConstructCFG(b, at)) \in PathSets
  BY <1>4, GraphPathsDef
<1> SUFFICES ASSUME NEW z \in GraphPaths(ConstructCFG(b, at))
             PROVE  \E r \in Runs(b, at) : Within(z, r.events) /\ r.ends \in jumps \cup {"falls"}
  OBVIOUS
<1>6. PICK w \in Paths(b, at) : Within(z, w)
  BY <1>4 DEF Matches
<1>7. PICK r \in Runs(b, at) : Within(w, r.events) /\ r.ends \in jumps \cup {"falls"}
  BY <1>2, <1>3, <1>6 DEF Covers
<1>8. z \in Seq(Events) /\ w \in Seq(Events) /\ r.events \in Seq(Events)
  BY <1>3, <1>5, <1>6, <1>7, RunHas DEF PathSets
<1>9. Within(z, r.events)
  BY <1>6, <1>7, <1>8, WithinTrans
<1> QED
  BY <1>7, <1>9

(* What is before an event in s is before it in what s lies within. *)
LEMMA WithinBefore ==
    ASSUME NEW h \in Seq(Events), NEW e \in Events, NEW t \in Seq(Events), NEW i \in DOMAIN t, t[i] = e,
           Within(h, SubSeq(t, 1, i - 1)), NEW u \in Seq(Events), Within(t, u)
    PROVE  \E k \in DOMAIN u : u[k] = e /\ Within(h, SubSeq(u, 1, k - 1))
<1>1. i \in 1 .. Len(t) /\ Len(t) \in Nat /\ Len(u) \in Nat
  OBVIOUS
<1>2. PICK place : Spot(t, u, place)
  BY WithinSpot
<1>3. /\ place \in [1 .. Len(t) -> 1 .. Len(u)]
      /\ \A j, k \in 1 .. Len(t) : j < k => place[j] < place[k]
      /\ \A j \in 1 .. Len(t) : t[j] = u[place[j]]
  BY <1>2 DEF Spot
<1> DEFINE k == place[i]
           ti == SubSeq(t, 1, i - 1)
           uk == SubSeq(u, 1, k - 1)
           q == [j \in 1 .. i - 1 |-> place[j]]
<1>4. k \in 1 .. Len(u) /\ u[k] = e
  BY <1>1, <1>3
<1>5. k \in DOMAIN u
  BY <1>1, <1>4
<1> HIDE DEF k
<1>6. ti \in Seq(Events) /\ Len(ti) = i - 1 /\ \A j \in 1 .. i - 1 : ti[j] = t[j]
  BY <1>1
<1>7. uk \in Seq(Events) /\ Len(uk) = k - 1 /\ \A j \in 1 .. k - 1 : uk[j] = u[j]
  BY <1>1, <1>4
<1> HIDE DEF ti, uk
<1>8. \A j \in 1 .. i - 1 : j \in 1 .. Len(t) /\ j < i
  BY <1>1
<1>9. \A j \in 1 .. i - 1 : place[j] \in 1 .. Len(u) /\ place[j] < k /\ t[j] = u[place[j]]
  BY <1>1, <1>3, <1>8 DEF k
<1>10. \A j \in 1 .. i - 1 : place[j] \in 1 .. k - 1
  BY <1>4, <1>9
<1>11. q \in [1 .. i - 1 -> 1 .. k - 1]
  BY <1>10
<1>12. \A j, l \in 1 .. i - 1 : j < l => q[j] < q[l]
  BY <1>3, <1>8
<1>13. \A j \in 1 .. i - 1 : ti[j] = uk[q[j]]
  BY <1>6, <1>7, <1>9, <1>10
<1> HIDE DEF q
<1>14. Spot(ti, uk, q)
  BY <1>6, <1>7, <1>11, <1>12, <1>13 DEF Spot
<1>15. Within(ti, uk)
  BY <1>6, <1>7, <1>14, WithinSpot
<1>16. Within(h, uk)
  BY <1>6, <1>7, <1>15, WithinTrans DEF ti
<1> QED
  BY <1>4, <1>5, <1>16 DEF uk

-----------------------------------------------------------------------------
(* What a call has before it. *)

(* f has a path that finds the constraints true and goes on along any path *)
(* of the nodes.                                                           *)
Fits(f, nodes, constraints) ==
    Matches({Held(constraints) \o q : q \in GraphPaths(nodes)}, Paths(script[f], Whole(f)))

Graph(f, nodes, constraints) ==
    /\ f \in FunctionNames /\ nodes \in Seq(NodesAt(f)) /\ constraints \in Seq(AnyCondition)
    /\ Fits(f, nodes, constraints)

LEMMA ScriptBody ==
    ASSUME script \in Scripts, NEW f \in FunctionNames
    PROVE  script[f] \in Bodies /\ Paths(script[f], Whole(f)) \in PathSets
<1>1. script[f] \in Bodies /\ Whole(f) \in Places
  BY ScriptParameters, WholePlace
<1> QED
  BY <1>1, AllPathsAre

LEMMA HeldEvents ==
    ASSUME NEW constraints \in Seq(AnyCondition)
    PROVE  /\ Held(constraints) \in Seq(Events) /\ Len(Held(constraints)) = Len(constraints)
           /\ \A c \in AnyCondition : Held(Append(constraints, c)) = Held(constraints) \o <<Holds(c)>>
<1>1. Len(constraints) \in Nat /\ DOMAIN constraints = 1 .. Len(constraints)
  BY DEF Held
<1>2. \A c \in AnyCondition : Holds(c) \in Events
  BY DEF Events
<1>3. Held(constraints) = [i \in 1 .. Len(constraints) |-> Holds(constraints[i])]
  BY <1>1 DEF Held
<1> HIDE DEF Held
<1>4. Held(constraints) \in Seq(Events) /\ Len(Held(constraints)) = Len(constraints)
  BY <1>1, <1>2, <1>3
<1>5. ASSUME NEW c \in AnyCondition
      PROVE  Held(Append(constraints, c)) = Held(constraints) \o <<Holds(c)>>
  <2> DEFINE n == Len(constraints)
             l == Append(constraints, c)
             e == Holds(c)
             h == Held(constraints)
  <2>1. DOMAIN l = 1 .. n + 1 /\ l[n + 1] = c /\ \A i \in 1 .. n : l[i] = constraints[i]
    BY <1>1
  <2>2. Held(l) = [i \in 1 .. n + 1 |-> Holds(l[i])]
    BY <2>1 DEF Held
  <2>3. e \in Events /\ h \in Seq(Events) /\ Len(h) = n /\ n \in Nat
    BY <1>1, <1>2, <1>4
  <2>4. \A i \in 1 .. n : h[i] = Holds(constraints[i])
    BY <1>3
  <2> HIDE DEF l, h, e, n
  <2>5. /\ h \o <<e>> \in Seq(Events) /\ Len(h \o <<e>>) = n + 1 /\ (h \o <<e>>)[n + 1] = e
        /\ \A i \in 1 .. n : (h \o <<e>>)[i] = h[i]
    BY <2>3
  <2>6. \A i \in 1 .. n + 1 : Held(l)[i] = (h \o <<e>>)[i]
    <3> SUFFICES ASSUME NEW i \in 1 .. n + 1
                 PROVE  Held(l)[i] = (h \o <<e>>)[i]
      OBVIOUS
    <3>1. CASE i = n + 1
      BY <2>1, <2>2, <2>5, <3>1 DEF e
    <3>2. CASE i # n + 1
      <4>1. i \in 1 .. n
        BY <2>3, <3>2
      <4> QED
        BY <2>1, <2>2, <2>4, <2>5, <4>1
    <3> QED
      BY <3>1, <3>2
  <2>7. h \o <<e>> = [i \in 1 .. n + 1 |-> (h \o <<e>>)[i]]
    BY <2>3, <2>5
  <2>8. Held(l) = h \o <<e>>
    BY <2>2, <2>6, <2>7
  <2> QED
    BY <2>8 DEF l, h, e
<1> QED
  BY <1>4, <1>5

(* Reading Fits. *)
LEMMA FitsPath ==
    ASSUME script \in Scripts, NEW f, NEW nodes, NEW constraints, Graph(f, nodes, constraints),
           NEW q \in GraphPaths(nodes)
    PROVE  /\ q \in Seq(Events)
           /\ \E path \in Paths(script[f], Whole(f)) :
                 path \in Seq(Events) /\ Within(Held(constraints) \o q, path)
<1>1. q \in Seq(Events)
  BY GraphPathsDef DEF Graph, PathSets
<1>2. Paths(script[f], Whole(f)) \in PathSets
  BY ScriptBody DEF Graph
<1>3. \E path \in Paths(script[f], Whole(f)) : Within(Held(constraints) \o q, path)
  BY DEF Graph, Fits, Matches
<1> QED
  BY <1>1, <1>2, <1>3 DEF PathSets

(* Writing it: what fits is within what fits. *)
LEMMA FitsIf ==
    ASSUME script \in Scripts, NEW f, NEW nodes, NEW constraints, Graph(f, nodes, constraints),
           NEW more \in Seq(NodesAt(f)), NEW held \in Seq(AnyCondition),
           \A q \in GraphPaths(more) : \E r \in GraphPaths(nodes) :
              Within(Held(held) \o q, Held(constraints) \o r)
    PROVE  Graph(f, more, held)
<1>1. f \in FunctionNames /\ nodes \in Seq(NodesAt(f)) /\ constraints \in Seq(AnyCondition)
  BY DEF Graph
<1>2. ASSUME NEW q \in GraphPaths(more)
      PROVE  \E path \in Paths(script[f], Whole(f)) : Within(Held(held) \o q, path)
  <2>1. PICK r \in GraphPaths(nodes) : Within(Held(held) \o q, Held(constraints) \o r)
    OBVIOUS
  <2>2. PICK path \in Paths(script[f], Whole(f)) : path \in Seq(Events) /\ Within(Held(constraints) \o r, path)
    BY FitsPath
  <2>3. r \in Seq(Events)
    BY FitsPath
  <2>4. q \in Seq(Events)
    BY GraphPathsDef DEF PathSets
  <2>5. Held(held) \in Seq(Events) /\ Held(constraints) \in Seq(Events)
    BY <1>1, HeldEvents
  <2>6. Held(held) \o q \in Seq(Events) /\ Held(constraints) \o r \in Seq(Events)
    BY <2>3, <2>4, <2>5
  <2>7. Within(Held(held) \o q, path)
    BY <2>1, <2>2, <2>6, WithinTrans
  <2> QED
    BY <2>7
<1>3. Fits(f, more, held)
  BY <1>2 DEF Fits, Matches
<1> QED
  BY <1>1, <1>3 DEF Graph

(* The first of the nodes, then the rest. *)
LEMMA FirstNode ==
    ASSUME NEW f, NEW nodes \in Seq(NodesAt(f)), nodes # << >>
    PROVE  /\ Head(nodes) \in NodesAt(f) /\ Tail(nodes) \in Seq(NodesAt(f))
           /\ \A z \in NodePaths(Head(nodes)) : \A q \in GraphPaths(Tail(nodes)) : z \o q \in GraphPaths(nodes)
           /\ \A z \in NodePaths(Head(nodes)) : z \in Seq(Events) /\ z \in GraphPaths(nodes)
<1>1. Head(nodes) \in NodesAt(f) /\ Tail(nodes) \in Seq(NodesAt(f))
  OBVIOUS
<1>2. GraphPaths(nodes) = Joined(NodePaths(Head(nodes)), GraphPaths(Tail(nodes))) /\ << >> \in GraphPaths(Tail(nodes))
  BY <1>1, GraphPathsDef
<1>3. \A z \in NodePaths(Head(nodes)) : \A q \in GraphPaths(Tail(nodes)) : z \o q \in GraphPaths(nodes)
  BY <1>2, JoinedIn
<1>4. \A z \in NodePaths(Head(nodes)) : z \in Seq(Events)
  BY <1>1, NodePathsIn DEF PathSets
<1>5. \A z \in NodePaths(Head(nodes)) : z \o << >> = z
  BY <1>4
<1>6. \A z \in NodePaths(Head(nodes)) : z \in GraphPaths(nodes)
  BY <1>2, <1>3, <1>5
<1> QED
  BY <1>1, <1>3, <1>4, <1>6

LEMMA GraphAfter ==
    ASSUME script \in Scripts, NEW f, NEW nodes, NEW constraints, Graph(f, nodes, constraints), nodes # << >>
    PROVE  Graph(f, Tail(nodes), constraints)
<1>1. nodes \in Seq(NodesAt(f)) /\ constraints \in Seq(AnyCondition)
  BY DEF Graph
<1>2. << >> \in NodePaths(Head(nodes)) /\ Tail(nodes) \in Seq(NodesAt(f))
  BY <1>1, FirstNode, NodePathsIn
<1>3. ASSUME NEW q \in GraphPaths(Tail(nodes))
      PROVE  \E r \in GraphPaths(nodes) : Within(Held(constraints) \o q, Held(constraints) \o r)
  <2>1. << >> \o q \in GraphPaths(nodes)
    BY <1>1, <1>2, FirstNode
  <2>2. q \in Seq(Events)
    BY <1>2, GraphPathsDef DEF PathSets
  <2>3. << >> \o q = q
    BY <2>2
  <2>4. Held(constraints) \o q \in Seq(Events)
    BY <1>1, <2>2, HeldEvents
  <2>5. Within(Held(constraints) \o q, Held(constraints) \o q)
    BY <2>4, WithinSelf
  <2> QED
    BY <2>1, <2>3, <2>5
<1> QED
  BY <1>1, <1>2, <1>3, FitsIf

(* After a branch, with the condition of an alternative. *)
LEMMA GraphAfterBranch ==
    ASSUME script \in Scripts, NEW f, NEW nodes, NEW constraints, Graph(f, nodes, constraints),
           nodes # << >>, Head(nodes).type = "IfStmt", NEW i \in DOMAIN Head(nodes).conditions
    PROVE  Graph(f, Tail(nodes), Append(constraints, Head(nodes).conditions[i]))
<1> DEFINE n == Head(nodes)
           c == n.conditions[i]
           h == Held(constraints)
<1>1. nodes \in Seq(NodesAt(f)) /\ constraints \in Seq(AnyCondition)
  BY DEF Graph
<1>2. n \in NodesAt(f) /\ Tail(nodes) \in Seq(NodesAt(f))
  BY <1>1, FirstNode
<1>3. c \in AnyCondition /\ <<Holds(c)>> \in BranchPaths(n)
  BY <1>2, BranchPathsIn
<1>4. <<Holds(c)>> \in NodePaths(n)
  BY <1>3 DEF NodePaths
<1>5. /\ Append(constraints, c) \in Seq(AnyCondition)
      /\ Held(Append(constraints, c)) = h \o <<Holds(c)>> /\ h \in Seq(Events)
  <2>1. Append(constraints, c) \in Seq(AnyCondition)
    BY <1>1, <1>3
  <2> QED
    BY <1>1, <1>3, <2>1, HeldEvents
<1>6. ASSUME NEW q \in GraphPaths(Tail(nodes))
      PROVE  \E r \in GraphPaths(nodes) : Within(Held(Append(constraints, c)) \o q, h \o r)
  <2> DEFINE e == <<Holds(c)>>
  <2>1. e \o q \in GraphPaths(nodes)
    BY <1>1, <1>4, FirstNode
  <2>2. q \in Seq(Events) /\ e \in Seq(Events)
    BY <1>2, <1>3, GraphPathsDef, EventsOne DEF PathSets
  <2> HIDE DEF e, h
  <2>3. (h \o e) \o q = h \o (e \o q) /\ h \o (e \o q) \in Seq(Events)
    BY <1>5, <2>2
  <2>4. Within((h \o e) \o q, h \o (e \o q))
    BY <2>3, WithinSelf
  <2>5. Held(Append(constraints, c)) = h \o e
    BY <1>5 DEF e
  <2> QED
    BY <2>1, <2>4, <2>5
<1> HIDE DEF n, c, h
<1>7. Graph(f, Tail(nodes), Append(constraints, c))
  BY <1>1, <1>2, <1>5, <1>6, FitsIf DEF h
<1> QED
  BY <1>7 DEF n, c

(* In a body of a branch, with its condition. *)
LEMMA GraphOfBody ==
    ASSUME script \in Scripts, NEW f, NEW nodes, NEW constraints, Graph(f, nodes, constraints),
           nodes # << >>, Head(nodes).type = "IfStmt", NEW i \in DOMAIN Head(nodes).conditions
    PROVE  Graph(f, ConstructCFG(Head(nodes).bodies[i], Inner(Head(nodes).at, i)),
                 Append(constraints, Head(nodes).conditions[i]))
<1> DEFINE n == Head(nodes)
           c == n.conditions[i]
           h == Held(constraints)
           b == n.bodies[i]
           p == Inner(n.at, i)
           e == <<Holds(c)>>
<1>1. nodes \in Seq(NodesAt(f)) /\ constraints \in Seq(AnyCondition)
  BY DEF Graph
<1>2. n \in NodesAt(f)
  BY <1>1, FirstNode
<1>3. /\ c \in AnyCondition /\ b \in Bodies /\ p \in Places
      /\ \A x \in Paths(b, p) : e \o x \in BranchPaths(n)
  BY <1>2, BranchPathsIn
<1>4. \A x \in Paths(b, p) : e \o x \in NodePaths(n)
  BY <1>3 DEF NodePaths
<1>5. p[1] = f
  <2>1. n.at \in Places /\ n.at[1] = f /\ n.conditions \in Seq(AnyCondition)
    BY <1>2, NodeShape
  <2>2. i \in Nat
    BY <2>1
  <2> QED
    BY <2>1, <2>2, InnerPlace
<1>6. /\ Append(constraints, c) \in Seq(AnyCondition)
      /\ Held(Append(constraints, c)) = h \o e /\ h \in Seq(Events) /\ e \in Seq(Events)
  <2>1. Append(constraints, c) \in Seq(AnyCondition)
    BY <1>1, <1>3
  <2> QED
    BY <1>1, <1>3, <2>1, HeldEvents, EventsOne
<1> HIDE DEF n, c, h, b, p, e
<1>7. ConstructCFG(b, p) \in Seq(NodesAt(f)) /\ Matches(GraphPaths(ConstructCFG(b, p)), Paths(b, p))
  BY <1>3, <1>5, GraphOnPaths
<1>8. ASSUME NEW q \in GraphPaths(ConstructCFG(b, p))
      PROVE  \E r \in GraphPaths(nodes) : Within(Held(Append(constraints, c)) \o q, h \o r)
  <2>1. PICK x \in Paths(b, p) : Within(q, x)
    BY <1>7 DEF Matches
  <2>2. q \in Seq(Events)
    BY <1>7, GraphPathsDef DEF PathSets
  <2>3. x \in Seq(Events)
    BY <1>3, AllPathsAre DEF PathSets
  <2>4. e \o x \in GraphPaths(nodes)
    BY <1>1, <1>4, FirstNode DEF n
  <2>5. (h \o e) \o x = h \o (e \o x) /\ h \o e \in Seq(Events)
    BY <1>6, <2>3
  <2>6. Within(h \o e, h \o e)
    BY <2>5, WithinSelf
  <2>7. Within((h \o e) \o q, (h \o e) \o x)
    BY <2>1, <2>2, <2>3, <2>5, <2>6, WithinConcat
  <2> QED
    BY <1>6, <2>4, <2>5, <2>7
<1>9. Graph(f, ConstructCFG(b, p), Append(constraints, c))
  BY <1>1, <1>6, <1>7, <1>8, FitsIf DEF h
<1> QED
  BY <1>9 DEF n, b, p, c

(* At the beginning of a function. *)
LEMMA GraphOfFunction ==
    ASSUME script \in Scripts, NEW f \in FunctionNames
    PROVE  Graph(f, ConstructCFG(script[f], Whole(f)), << >>)
<1> DEFINE b == script[f]
           p == Whole(f)
           N == ConstructCFG(b, p)
<1>1. b \in Bodies /\ p \in Places /\ p[1] = f
  BY ScriptBody, WholePlace
<1>2. N \in Seq(NodesAt(f)) /\ Matches(GraphPaths(N), Paths(b, p))
  BY <1>1, GraphOnPaths
<1> HIDE DEF N
<1>3. << >> \in Seq(AnyCondition) /\ Held(<< >>) \in Seq(Events) /\ Len(Held(<< >>)) = 0
  <2>1. << >> \in Seq(AnyCondition) /\ Len(<< >>) = 0
    OBVIOUS
  <2> QED
    BY <2>1, HeldEvents
<1>4. Held(<< >>) = << >>
  BY <1>3
<1>5. \A q \in GraphPaths(N) : Held(<< >>) \o q = q
  BY <1>2, <1>4, GraphPathsDef DEF PathSets
<1>6. Fits(f, N, << >>)
  BY <1>2, <1>5 DEF Fits, Matches
<1> QED
  BY <1>2, <1>3, <1>6 DEF Graph, N

(* What Fits is for. *)
LEMMA GraphHeadOnPath ==
    ASSUME script \in Scripts, NEW f, NEW nodes, NEW constraints, Graph(f, nodes, constraints),
           nodes # << >>, Head(nodes).type = "Stmt"
    PROVE  OnPath(constraints, Head(nodes).at)
<1> DEFINE n == Head(nodes)
           h == Held(constraints)
           e == <<Does(n.at)>>
           m == Len(h)
<1>1. nodes \in Seq(NodesAt(f)) /\ constraints \in Seq(AnyCondition)
  BY DEF Graph
<1>2. n \in NodesAt(f) /\ n.at \in Places /\ n.at[1] = f
  BY <1>1, FirstNode, NodeShape
<1>3. e \in NodePaths(n)
  BY DEF NodePaths
<1>4. e \in GraphPaths(nodes) /\ e \in Seq(Events)
  BY <1>1, <1>3, FirstNode
<1>5. PICK path \in Paths(script[f], Whole(f)) : path \in Seq(Events) /\ Within(h \o e, path)
  BY <1>4, FitsPath
<1>6. h \in Seq(Events) /\ m \in Nat
  BY <1>1, HeldEvents
<1>7. /\ h \o e \in Seq(Events) /\ Len(h \o e) = m + 1 /\ (h \o e)[m + 1] = Does(n.at)
      /\ \A i \in 1 .. m : (h \o e)[i] = h[i]
  BY <1>4, <1>6
<1> HIDE DEF h, e, m
<1>8. PICK place : Spot(h \o e, path, place)
  BY <1>5, <1>7, WithinSpot
<1>9. /\ place \in [1 .. m + 1 -> 1 .. Len(path)]
      /\ \A i, j \in 1 .. m + 1 : i < j => place[i] < place[j]
      /\ \A i \in 1 .. m + 1 : (h \o e)[i] = path[place[i]]
  BY <1>7, <1>8 DEF Spot
<1> DEFINE k == place[m + 1]
           before == SubSeq(path, 1, k - 1)
           at0 == [i \in 1 .. m |-> place[i]]
<1>10. m + 1 \in 1 .. m + 1
  BY <1>6
<1>11. k \in 1 .. Len(path) /\ path[k] = Does(n.at) /\ k \in Nat /\ Len(path) \in Nat /\ DOMAIN path = 1 .. Len(path)
  <2>1. Len(path) \in Nat /\ DOMAIN path = 1 .. Len(path)
    BY <1>5
  <2> QED
    BY <1>7, <1>9, <1>10, <2>1
<1> HIDE DEF k
<1>12. before \in Seq(Events) /\ Len(before) = k - 1 /\ \A i \in 1 .. k - 1 : before[i] = path[i]
  BY <1>5, <1>11
<1> HIDE DEF before
<1>13. \A i \in 1 .. m : /\ i \in 1 .. m + 1 /\ i < m + 1
                         /\ place[i] \in 1 .. k - 1 /\ h[i] = path[place[i]]
  <2> SUFFICES ASSUME NEW i \in 1 .. m
               PROVE  /\ i \in 1 .. m + 1 /\ i < m + 1
                      /\ place[i] \in 1 .. k - 1 /\ h[i] = path[place[i]]
    OBVIOUS
  <2>1. i \in 1 .. m + 1 /\ i < m + 1
    BY <1>6
  <2>2. place[i] < k /\ place[i] \in 1 .. Len(path)
    BY <1>9, <1>10, <2>1 DEF k
  <2>3. h[i] = path[place[i]]
    BY <1>7, <1>9, <2>1
  <2> QED
    BY <1>11, <2>1, <2>2, <2>3
<1>14. at0 \in [1 .. m -> 1 .. k - 1] /\ \A i \in 1 .. m : at0[i] = place[i]
  BY <1>13
<1> HIDE DEF at0
<1>15. Spot(h, before, at0)
  <2>1. \A i, j \in 1 .. m : i < j => at0[i] < at0[j]
    BY <1>9, <1>13, <1>14
  <2>2. \A i \in 1 .. m : h[i] = before[at0[i]]
    BY <1>12, <1>13, <1>14
  <2>3. Len(h) = m
    BY DEF m
  <2> QED
    BY <1>12, <1>14, <2>1, <2>2, <2>3 DEF Spot
<1>16. Within(h, before)
  BY <1>6, <1>12, <1>15, WithinSpot
<1>17. \E p \in Paths(script[n.at[1]], Whole(n.at[1])) : \E i \in DOMAIN p :
           p[i] = Does(n.at) /\ Within(h, SubSeq(p, 1, i - 1))
  BY <1>2, <1>5, <1>11, <1>16 DEF before
<1>18. n.at[1] \in FunctionNames
  BY <1>2 DEF Graph
<1> QED
  BY <1>17, <1>18 DEF OnPath, h, Held, n

-----------------------------------------------------------------------------
(* The statements of a body are those of its graph. *)

StatementsAgain(within) ==
    [b \in Bodies |-> [at \in Places |-> UNION {StatementsOf(within, b[i], Inner(at, i)) : i \in DOMAIN b}]]

AllWithin == CHOOSE within : within = StatementsAgain(within)

LEMMA StatementsOfIn ==
    ASSUME NEW within \in [Bodies -> [Places -> SUBSET Places]], NEW s, NEW n, Shaped(s, n), NEW at \in Places
    PROVE  StatementsOf(within, s, at) \subseteq Places
<1>1. \A i \in Nat : Inner(at, i) \in Places
  BY InnerPlace
<1>2. \A b \in Bodies, i \in Nat : within[b][Inner(at, i)] \subseteq Places
  BY <1>1
<1>3. CASE s.kind = "if"
  <2>1. s.bodies \in Seq(Bodies) /\ (s.else # Absent => s.else \in Bodies)
    BY <1>3 DEF Shaped
  <2>2. \A i \in DOMAIN s.bodies : i \in Nat /\ s.bodies[i] \in Bodies
    BY <2>1
  <2>3. Len(s.bodies) + 1 \in Nat
    BY <2>1
  <2>4. \A i \in DOMAIN s.bodies : within[s.bodies[i]][Inner(at, i)] \subseteq Places
    BY <1>2, <2>2
  <2>5. s.else # Absent => within[s.else][Inner(at, Len(s.bodies) + 1)] \subseteq Places
    BY <1>2, <2>1, <2>3
  <2>6. StatementsOf(within, s, at) =
           StatementsIn(within, s.bodies, at) \cup
           (IF s.else = Absent THEN {} ELSE within[s.else][Inner(at, Len(s.bodies) + 1)])
    BY <1>3 DEF StatementsOf
  <2>7. StatementsIn(within, s.bodies, at) \subseteq Places
    BY <2>4 DEF StatementsIn
  <2>8. CASE s.else = Absent
    BY <2>6, <2>7, <2>8
  <2>9. CASE s.else # Absent
    BY <2>5, <2>6, <2>7, <2>9
  <2> QED
    BY <2>8, <2>9
<1>4. CASE s.kind = "switch"
  <2>1. s.cases \in Seq(Bodies)
    BY <1>4 DEF Shaped
  <2>2. \A i \in DOMAIN s.cases : i \in Nat /\ s.cases[i] \in Bodies
    BY <2>1
  <2>3. \A i \in DOMAIN s.cases : within[s.cases[i]][Inner(at, i)] \subseteq Places
    BY <1>2, <2>2
  <2>4. StatementsOf(within, s, at) = StatementsIn(within, s.cases, at)
    BY <1>4 DEF StatementsOf
  <2> QED
    BY <2>3, <2>4 DEF StatementsIn
<1>5. CASE s.kind \in {"while", "foreach"}
  <2>1. s.body \in Bodies /\ 1 \in Nat
    BY <1>5 DEF Shaped
  <2>2. within[s.body][Inner(at, 1)] \subseteq Places
    BY <1>2, <2>1
  <2> QED
    BY <1>5, <2>2 DEF StatementsOf
<1>6. CASE s.kind \notin {"if", "switch", "while", "foreach"}
  BY <1>6 DEF StatementsOf
<1> QED
  BY <1>3, <1>4, <1>5, <1>6

(* f and g agree on the bodies that nest less than n deep. *)
Agree(f, g, n) == \A b \in Bodies : Nesting(b) < n => f[b] = g[b]

LEMMA StatementsOfLocal ==
    ASSUME NEW f, NEW g, NEW s, NEW n, Shaped(s, n), NEW at, Agree(f, g, n)
    PROVE  StatementsOf(f, s, at) = StatementsOf(g, s, at)
<1> USE DEF Agree
<1>1. CASE s.kind = "if"
  <2>1. s.bodies \in Seq(Bodies)
    BY <1>1 DEF Shaped
  <2>2. \A i \in DOMAIN s.bodies : s.bodies[i] \in Bodies
    BY <2>1
  <2>3. \A i \in DOMAIN s.bodies : f[s.bodies[i]][Inner(at, i)] = g[s.bodies[i]][Inner(at, i)]
    BY <1>1, <2>2 DEF Shaped
  <2>4. s.else # Absent => f[s.else] = g[s.else]
    BY <1>1 DEF Shaped
  <2>5. StatementsIn(f, s.bodies, at) =
        StatementsIn(g, s.bodies, at)
    BY <2>3 DEF StatementsIn
  <2> QED
    BY <1>1, <2>4, <2>5 DEF StatementsOf
<1>2. CASE s.kind = "switch"
  <2>1. s.cases \in Seq(Bodies)
    BY <1>2 DEF Shaped
  <2>2. \A i \in DOMAIN s.cases : s.cases[i] \in Bodies
    BY <2>1
  <2>3. \A i \in DOMAIN s.cases : f[s.cases[i]][Inner(at, i)] = g[s.cases[i]][Inner(at, i)]
    BY <1>2, <2>2 DEF Shaped
  <2>4. StatementsIn(f, s.cases, at) =
        StatementsIn(g, s.cases, at)
    BY <2>3 DEF StatementsIn
  <2> QED
    BY <1>2, <2>4 DEF StatementsOf
<1>3. CASE s.kind \in {"while", "foreach"}
  <2>1. f[s.body] = g[s.body]
    BY <1>3 DEF Shaped
  <2> QED
    BY <1>3, <2>1 DEF StatementsOf
<1>4. CASE s.kind \notin {"if", "switch", "while", "foreach"}
  BY <1>4 DEF StatementsOf
<1> QED
  BY <1>1, <1>2, <1>3, <1>4

LEMMA StatementsAgainIn ==
    ASSUME NEW f \in [Bodies -> [Places -> SUBSET Places]]
    PROVE  StatementsAgain(f) \in [Bodies -> [Places -> SUBSET Places]]
<1> SUFFICES ASSUME NEW b \in Bodies, NEW at \in Places, NEW i \in DOMAIN b
             PROVE  StatementsOf(f, b[i], Inner(at, i)) \subseteq Places
  BY DEF StatementsAgain
<1>1. i \in Nat
  BY BodyShape
<1>2. Inner(at, i) \in Places /\ Shaped(b[i], Nesting(b))
  BY <1>1, InnerPlace, StatementShape
<1> QED
  BY <1>2, StatementsOfIn

LEMMA StatementsAgainLocal ==
    ASSUME NEW f, NEW g, NEW b \in Bodies, \A c \in Bodies : Nesting(c) < Nesting(b) => f[c] = g[c]
    PROVE  StatementsAgain(f)[b] = StatementsAgain(g)[b]
<1>1. ASSUME NEW at \in Places, NEW i \in DOMAIN b
      PROVE  StatementsOf(f, b[i], Inner(at, i)) = StatementsOf(g, b[i], Inner(at, i))
  <2> DEFINE s == b[i]
             n == Nesting(b)
             p == Inner(at, i)
  <2>1. Shaped(s, n)
    BY StatementShape
  <2>2. Agree(f, g, n)
    BY DEF Agree
  <2> HIDE DEF s, n, p
  <2>3. StatementsOf(f, s, p) = StatementsOf(g, s, p)
    BY <2>1, <2>2, StatementsOfLocal
  <2> QED
    BY <2>3 DEF s, p
<1>2. \A at \in Places :
         UNION {StatementsOf(f, b[i], Inner(at, i)) : i \in DOMAIN b} =
         UNION {StatementsOf(g, b[i], Inner(at, i)) : i \in DOMAIN b}
  BY <1>1
<1> QED
  BY <1>2 DEF StatementsAgain

LEMMA StatementsExist ==
    AllWithin = StatementsAgain(AllWithin)
<1> DEFINE R == [Places -> SUBSET Places]
           rank == [b \in Bodies |-> Nesting(b)]
           step == [f \in [Bodies -> R] |-> StatementsAgain(f)]
<1>1. rank \in [Bodies -> Nat] /\ \A b \in Bodies : rank[b] = Nesting(b)
  BY BodyShape
<1>2. \A f \in [Bodies -> R] : step[f] = StatementsAgain(f)
  OBVIOUS
<1>3. \A f \in [Bodies -> R] : StatementsAgain(f) \in [Bodies -> R]
  BY StatementsAgainIn
<1>4. step \in [[Bodies -> R] -> [Bodies -> R]]
  BY <1>3
<1> HIDE DEF rank, step
<1>5. ASSUME NEW f \in [Bodies -> R], NEW g \in [Bodies -> R], NEW b \in Bodies,
             \A c \in Bodies : rank[c] < rank[b] => f[c] = g[c]
      PROVE  step[f][b] = step[g][b]
  <2>1. \A c \in Bodies : Nesting(c) < Nesting(b) => f[c] = g[c]
    BY <1>1, <1>5
  <2>2. StatementsAgain(f)[b] = StatementsAgain(g)[b]
    BY <2>1, StatementsAgainLocal
  <2> QED
    BY <1>2, <2>2
<1>7. R # {}
  <2>1. [at \in Places |-> {}] \in R
    OBVIOUS
  <2> QED
    BY <2>1
<1> HIDE DEF R
<1>8. Descends(step, Bodies, R, rank)
  BY <1>1, <1>4, <1>5, <1>7 DEF Descends
<1>9. PICK f \in [Bodies -> R] : step[f] = f
  BY <1>8, RecursionHasSolution
<1>10. f = StatementsAgain(f)
  BY <1>2, <1>9
<1> QED
  BY <1>10 DEF AllWithin

LEMMA StatementsDef ==
    ASSUME NEW b \in Bodies, NEW at \in Places
    PROVE  /\ AllWithin[b][at] = Statements(b, at)
           /\ Statements(b, at) = UNION {StatementsOf(AllWithin, b[i], Inner(at, i)) : i \in DOMAIN b}
<1>1. Statements(b, at) = AllWithin[b][at]
  BY DEF Statements, AllWithin, StatementsAgain
<1>2. StatementsAgain(AllWithin)[b][at] = UNION {StatementsOf(AllWithin, b[i], Inner(at, i)) : i \in DOMAIN b}
  BY DEF StatementsAgain
<1> QED
  BY <1>1, <1>2, StatementsExist

(* The statements of a graph. *)
NodeStatements(n) ==
    IF n.type = "Stmt" THEN {n.at}
    ELSE UNION {Statements(n.bodies[i], Inner(n.at, i)) : i \in DOMAIN n.conditions}

GraphStatements(nodes) == UNION {NodeStatements(nodes[k]) : k \in DOMAIN nodes}

LEMMA GraphStatementsOf ==
    ASSUME NEW E, NEW x \in Seq(E), NEW y \in Seq(E)
    PROVE  /\ GraphStatements(x) \subseteq GraphStatements(x \o y)
           /\ GraphStatements(y) \subseteq GraphStatements(x \o y)
<1> DEFINE l == x \o y
           m == Len(x)
           n == Len(y)
<1>1. /\ m \in Nat /\ n \in Nat /\ DOMAIN x = 1 .. m /\ DOMAIN y = 1 .. n /\ DOMAIN l = 1 .. m + n
      /\ \A k \in 1 .. m : l[k] = x[k]
      /\ \A k \in 1 .. n : l[m + k] = y[k]
  OBVIOUS
<1> HIDE DEF l, m, n
<1>2. ASSUME NEW k \in DOMAIN x
      PROVE  NodeStatements(x[k]) \subseteq GraphStatements(l)
  <2>1. k \in DOMAIN l /\ l[k] = x[k]
    BY <1>1
  <2> QED
    BY <2>1 DEF GraphStatements
<1>3. ASSUME NEW k \in DOMAIN y
      PROVE  NodeStatements(y[k]) \subseteq GraphStatements(l)
  <2>1. m + k \in DOMAIN l /\ l[m + k] = y[k]
    BY <1>1
  <2> QED
    BY <2>1 DEF GraphStatements
<1>4. GraphStatements(x) \subseteq GraphStatements(l) /\ GraphStatements(y) \subseteq GraphStatements(l)
  BY <1>2, <1>3 DEF GraphStatements
<1> QED
  BY <1>4 DEF l

LEMMA GraphStatementsFirst ==
    ASSUME NEW E, NEW nodes \in Seq(E)
    PROVE  /\ nodes # << >> => GraphStatements(nodes) = NodeStatements(Head(nodes)) \cup GraphStatements(Tail(nodes))
           /\ nodes = << >> => GraphStatements(nodes) = {}
<1>1. nodes = << >> => DOMAIN nodes = {}
  OBVIOUS
<1>2. ASSUME nodes # << >>
      PROVE  GraphStatements(nodes) = NodeStatements(Head(nodes)) \cup GraphStatements(Tail(nodes))
  <2> DEFINE n == Len(nodes)
             t == Tail(nodes)
             h == Head(nodes)
  <2>1. /\ n \in Nat /\ n # 0 /\ DOMAIN nodes = 1 .. n /\ h = nodes[1]
        /\ DOMAIN t = 1 .. n - 1 /\ \A k \in 1 .. n - 1 : t[k] = nodes[k + 1]
    BY <1>2
  <2> HIDE DEF n, t, h
  <2>2. \A k \in DOMAIN nodes : nodes[k] = h \/ (k - 1 \in DOMAIN t /\ nodes[k] = t[k - 1])
    <3> SUFFICES ASSUME NEW k \in DOMAIN nodes, k # 1
                 PROVE  k - 1 \in DOMAIN t /\ nodes[k] = t[k - 1]
      BY <2>1
    <3>1. k - 1 \in 1 .. n - 1 /\ (k - 1) + 1 = k
      BY <2>1
    <3>2. t[k - 1] = nodes[(k - 1) + 1]
      BY <2>1, <3>1
    <3> QED
      BY <2>1, <3>1, <3>2
  <2>3. \A k \in DOMAIN t : k + 1 \in DOMAIN nodes /\ t[k] = nodes[k + 1]
    BY <2>1
  <2>4. 1 \in DOMAIN nodes /\ h = nodes[1]
    BY <2>1
  <2>5. GraphStatements(nodes) = NodeStatements(h) \cup GraphStatements(t)
    BY <2>2, <2>3, <2>4 DEF GraphStatements
  <2> QED
    BY <2>5 DEF h, t
<1> QED
  BY <1>1, <1>2 DEF GraphStatements

(* The statements of one statement are in its nodes. *)
LEMMA NodesHaveStatements ==
    ASSUME NEW s, NEW m, Shaped(s, m), NEW at \in Places, NEW nodes, NodesAre(s, at, nodes)
    PROVE  StatementsOf(AllWithin, s, at) \subseteq GraphStatements(nodes)
<1>1. \A n : NodeStatements(n) \subseteq GraphStatements(<<n>>)
  <2> SUFFICES ASSUME NEW n
               PROVE  NodeStatements(n) \subseteq GraphStatements(<<n>>)
    OBVIOUS
  <2>1. 1 \in DOMAIN <<n>> /\ <<n>>[1] = n
    OBVIOUS
  <2> QED
    BY <2>1 DEF GraphStatements
<1>2. \A l, n : /\ NodeStatements(l) \subseteq GraphStatements(<<l, n>>)
                /\ NodeStatements(n) \subseteq GraphStatements(<<l, n>>)
  <2> SUFFICES ASSUME NEW l, NEW n
               PROVE  /\ NodeStatements(l) \subseteq GraphStatements(<<l, n>>)
                      /\ NodeStatements(n) \subseteq GraphStatements(<<l, n>>)
    OBVIOUS
  <2>1. 1 \in DOMAIN <<l, n>> /\ <<l, n>>[1] = l /\ 2 \in DOMAIN <<l, n>> /\ <<l, n>>[2] = n
    OBVIOUS
  <2> QED
    BY <2>1 DEF GraphStatements
<1>3. ASSUME NEW n, NEW cs, NEW bs, IfNode(n, at, cs, bs), NEW i \in DOMAIN cs
      PROVE  AllWithin[bs[i]][Inner(at, i)] \subseteq NodeStatements(n)
  <2>1. n.type = "IfStmt" /\ n.at = at /\ n.conditions = cs /\ n.bodies = bs
        /\ bs[i] \in Bodies /\ Inner(at, i) \in Places
    BY <1>3, IfNodeAt
  <2>2. AllWithin[bs[i]][Inner(at, i)] = Statements(n.bodies[i], Inner(n.at, i)) /\ i \in DOMAIN n.conditions
    BY <2>1, StatementsDef
  <2>3. n.type # "Stmt"
    BY <2>1
  <2> QED
    BY <2>2, <2>3 DEF NodeStatements
<1>4. \A n : n.type = "Stmt" /\ n.at = at => at \in NodeStatements(n)
  BY DEF NodeStatements
<1>5. ASSUME NEW bodies \in Seq(Bodies)
      PROVE  DOMAIN Conditions(bodies, at) = DOMAIN bodies
  BY DEF Conditions
<1>6. CASE s.kind = "if" /\ s.else = Absent
  <2>1. PICK n : nodes = <<n>> /\ IfNode(n, at, Conditions(s.bodies, at), s.bodies)
    BY <1>6 DEF NodesAre
  <2>2. StatementsOf(AllWithin, s, at) = StatementsIn(AllWithin, s.bodies, at)
    BY <1>6 DEF StatementsOf
  <2>3. s.bodies \in Seq(Bodies)
    BY <1>6 DEF Shaped
  <2>4. \A i \in DOMAIN s.bodies : AllWithin[s.bodies[i]][Inner(at, i)] \subseteq NodeStatements(n)
    BY <1>3, <1>5, <2>1, <2>3
  <2>5. NodeStatements(n) \subseteq GraphStatements(nodes)
    BY <1>1, <2>1
  <2> QED
    BY <2>2, <2>4, <2>5 DEF StatementsIn
<1>7. CASE s.kind = "if" /\ s.else # Absent
  <2> DEFINE cs == Append(Conditions(s.bodies, at), Absent)
             bs == Append(s.bodies, s.else)
             k == Len(s.bodies) + 1
  <2>1. PICK n : nodes = <<n>> /\ IfNode(n, at, cs, bs)
    BY <1>7 DEF NodesAre
  <2>2. StatementsOf(AllWithin, s, at) = StatementsIn(AllWithin, s.bodies, at) \cup AllWithin[s.else][Inner(at, k)]
    BY <1>7 DEF StatementsOf
  <2>3. s.bodies \in Seq(Bodies) /\ s.else \in Bodies
    BY <1>7 DEF Shaped
  <2>4. Conditions(s.bodies, at) \in Seq(AnyCondition) /\ Len(Conditions(s.bodies, at)) = Len(s.bodies)
    BY <2>3, ConditionsAre
  <2>5. /\ DOMAIN cs = 1 .. k /\ DOMAIN s.bodies = 1 .. Len(s.bodies) /\ Len(s.bodies) \in Nat
        /\ bs[k] = s.else /\ \A i \in 1 .. Len(s.bodies) : bs[i] = s.bodies[i]
    BY <2>3, <2>4
  <2> HIDE DEF cs, bs
  <2>6. \A i \in 1 .. k : AllWithin[bs[i]][Inner(at, i)] \subseteq NodeStatements(n)
    BY <1>3, <2>1, <2>5
  <2>7. k \in 1 .. k /\ \A i \in DOMAIN s.bodies : i \in 1 .. k
    BY <2>5
  <2>8. \A i \in DOMAIN s.bodies : AllWithin[s.bodies[i]][Inner(at, i)] \subseteq NodeStatements(n)
    BY <2>5, <2>6, <2>7
  <2>9. AllWithin[s.else][Inner(at, k)] \subseteq NodeStatements(n)
    BY <2>5, <2>6, <2>7
  <2>10. NodeStatements(n) \subseteq GraphStatements(nodes)
    BY <1>1, <2>1
  <2>11. StatementsIn(AllWithin, s.bodies, at) \subseteq GraphStatements(nodes)
    BY <2>8, <2>10 DEF StatementsIn
  <2> QED
    BY <2>2, <2>9, <2>10, <2>11
<1>8. CASE s.kind = "switch"
  <2>1. PICK n, bs : /\ nodes = <<n>> /\ IfNode(n, at, Conditions(s.cases, at), bs)
                     /\ \A i \in 1 .. Len(s.cases) : bs[i] = s.cases[i]
    BY <1>8 DEF NodesAre
  <2>2. StatementsOf(AllWithin, s, at) = StatementsIn(AllWithin, s.cases, at)
    BY <1>8 DEF StatementsOf
  <2>3. s.cases \in Seq(Bodies) /\ DOMAIN s.cases = 1 .. Len(s.cases)
    BY <1>8 DEF Shaped
  <2>4. \A i \in DOMAIN s.cases : AllWithin[bs[i]][Inner(at, i)] \subseteq NodeStatements(n)
    BY <1>3, <1>5, <2>1, <2>3
  <2>5. NodeStatements(n) \subseteq GraphStatements(nodes)
    BY <1>1, <2>1
  <2>6. \A i \in DOMAIN s.cases : AllWithin[s.cases[i]][Inner(at, i)] \subseteq NodeStatements(n)
    BY <2>1, <2>3, <2>4
  <2> QED
    BY <2>2, <2>5, <2>6 DEF StatementsIn
<1>9. ASSUME s.kind \in {"while", "foreach"}, NEW n, IfNode(n, at, Conditions(<<s.body>>, at), <<s.body>>)
      PROVE  AllWithin[s.body][Inner(at, 1)] \subseteq NodeStatements(n)
  <2> DEFINE bs == <<s.body>>
  <2>1. bs \in Seq(Bodies) /\ 1 \in DOMAIN bs /\ bs[1] = s.body
    BY <1>9 DEF Shaped
  <2> HIDE DEF bs
  <2>2. IfNode(n, at, Conditions(bs, at), bs)
    BY <1>9 DEF bs
  <2>3. AllWithin[bs[1]][Inner(at, 1)] \subseteq NodeStatements(n)
    BY <1>3, <1>5, <2>1, <2>2
  <2> QED
    BY <2>1, <2>3
<1>10. CASE s.kind = "while"
  <2>1. PICK n : nodes = <<n>> /\ IfNode(n, at, Conditions(<<s.body>>, at), <<s.body>>)
    BY <1>10 DEF NodesAre
  <2>2. StatementsOf(AllWithin, s, at) = AllWithin[s.body][Inner(at, 1)]
    BY <1>10 DEF StatementsOf
  <2>3. AllWithin[s.body][Inner(at, 1)] \subseteq NodeStatements(n)
    BY <1>9, <1>10, <2>1
  <2> QED
    BY <1>1, <2>1, <2>2, <2>3
<1>11. CASE s.kind = "foreach"
  <2>1. PICK l, n : /\ nodes = <<l, n>> /\ IfNode(n, at, Conditions(<<s.body>>, at), <<s.body>>)
                    /\ l.type = "Stmt" /\ l.at = at
    BY <1>11 DEF NodesAre
  <2>2. StatementsOf(AllWithin, s, at) = {at} \cup AllWithin[s.body][Inner(at, 1)]
    BY <1>11 DEF StatementsOf
  <2>3. AllWithin[s.body][Inner(at, 1)] \subseteq NodeStatements(n)
    BY <1>9, <1>11, <2>1
  <2>4. at \in NodeStatements(l)
    BY <1>4, <2>1
  <2> QED
    BY <1>2, <2>1, <2>2, <2>3, <2>4
<1>12. CASE s.kind = "try"
  BY <1>12 DEF StatementsOf
<1>13. CASE s.kind \notin {"if", "switch", "while", "foreach", "try"}
  <2>1. PICK n : nodes = <<n>> /\ n.type = "Stmt" /\ n.at = at
    BY <1>13 DEF NodesAre
  <2>2. StatementsOf(AllWithin, s, at) = {at}
    BY <1>13 DEF StatementsOf
  <2> QED
    BY <1>1, <1>4, <2>1, <2>2
<1> QED
  BY <1>6, <1>7, <1>8, <1>10, <1>11, <1>12, <1>13

(* ConstructCFG loses no statement but those in a try or a default. *)
THEOREM GraphHasStatements ==
    ASSUME NEW b \in Bodies, NEW at \in Places
    PROVE  Statements(b, at) \subseteq GraphStatements(ConstructCFG(b, at))
<1> DEFINE n == Len(b)
           S(i) == StatementsOf(AllWithin, b[i], Inner(at, i))
           T == {j \in 1 .. n + 1 : \A i \in j .. n : S(i) \subseteq GraphStatements(NodesFrom(b, at, j))}
<1>1. n \in Nat /\ DOMAIN b = 1 .. n
  BY BodyShape
<1> HIDE DEF S
<1>2. n + 1 \in T
  <2>1. n + 1 \in 1 .. n + 1 /\ \A i \in n + 1 .. n : FALSE
    BY <1>1
  <2> QED
    BY <2>1
<1>3. ASSUME NEW j \in 1 .. n, j + 1 \in T
      PROVE  j \in T
  <2> DEFINE s == b[j]
             p == Inner(at, j)
             nodes == NodesOf(s, p)
             rest == NodesFrom(b, at, j + 1)
             E == NodesAt(at[1])
  <2>1. j \in 1 .. n + 1 /\ j + 1 \in 1 .. n + 1 /\ j \in Nat
    BY <1>1
  <2>2. p \in Places /\ p[1] = at[1] /\ Shaped(s, Nesting(b)) /\ NodesAre(s, p, nodes)
    BY <1>1, <2>1, InnerPlace, StatementShape, StatementNodes
  <2>3. nodes \in Seq(E) /\ rest \in Seq(E) /\ NodesFrom(b, at, j) = nodes \o rest
    <3>1. nodes \in Seq(NodesAt(p[1]))
      BY <1>1, <2>2, StatementNodesIn
    <3> QED
      BY <2>1, <2>2, <3>1, GraphDef
  <2>4. \A i \in j + 1 .. n : S(i) \subseteq GraphStatements(rest)
    BY <1>3
  <2>5. S(j) = StatementsOf(AllWithin, s, p)
    BY DEF S
  <2> HIDE DEF s, p, nodes, rest, E
  <2>6. S(j) \subseteq GraphStatements(nodes)
    BY <2>2, <2>5, NodesHaveStatements
  <2>7. GraphStatements(nodes) \subseteq GraphStatements(nodes \o rest) /\ GraphStatements(rest) \subseteq GraphStatements(nodes \o rest)
    BY <2>3, GraphStatementsOf
  <2>8. ASSUME NEW i \in j .. n
        PROVE  S(i) \subseteq GraphStatements(NodesFrom(b, at, j))
    <3>1. CASE i = j
      BY <2>3, <2>6, <2>7, <3>1
    <3>2. CASE i # j
      <4>1. i \in j + 1 .. n
        BY <2>1, <3>2
      <4> QED
        BY <2>3, <2>4, <2>7, <4>1
    <3> QED
      BY <3>1, <3>2
  <2> QED
    BY <2>1, <2>8
<1>4. T = 1 .. n + 1
  <2>1. T \in SUBSET (1 .. n + 1)
    OBVIOUS
  <2> HIDE DEF T, n
  <2> QED
    BY <1>1, <1>2, <1>3, <2>1, DownInduction
<1>5. \A i \in 1 .. n : S(i) \subseteq GraphStatements(NodesFrom(b, at, 1))
  <2>1. 1 \in 1 .. n + 1
    BY <1>1
  <2> QED
    BY <1>4, <2>1
<1>6. Statements(b, at) = UNION {S(i) : i \in DOMAIN b}
  BY StatementsDef DEF S
<1> QED
  BY <1>1, <1>5, <1>6 DEF ConstructCFG

-----------------------------------------------------------------------------
(* The walk. *)

Slices == [constraints : Seq(AnyCondition), tainted : BOOLEAN]

Executions ==
    [function : FunctionNames, Constraints : SUBSET Seq(AnyCondition),
     XSSConstraints : Seq(Seq(AnyCondition)), XSSDataConstraints : Seq(Places)]

Calls ==
    [nodes : Seq(StmtNodes \cup IfNodes), slice : Nat, next : Nat \ {0},
     phase : {"enter", "body", "child", "called"}]

IsBranch(c) == c.nodes # << >> /\ Head(c.nodes).type = "IfStmt"

(* The k-th call, whose slice has the constraints. *)
CallOK(c, k, constraints) ==
    /\ c.slice = k
    /\ c.phase = "called" => c.nodes # << >> /\ Head(c.nodes).type = "Stmt"
    /\ c.phase \in {"body", "child"} => IsBranch(c) /\ c.next \in DOMAIN Head(c.nodes).conditions
    /\ c.next > 1 => IsBranch(c)
    /\ \E f \in FunctionNames : Graph(f, c.nodes, constraints)

(* A call that waits for another, which has a slice of its own. *)
Waits(c, constraints, more) ==
    /\ c.phase # "enter"
    /\ c.phase \in {"body", "child"} => more = Append(constraints, Head(c.nodes).conditions[c.next])

StackOK(st, sl) ==
    /\ st \in Seq(Calls) /\ sl \in Seq(Slices)
    /\ Len(sl) \in {Len(st), Len(st) + 1}
    /\ Len(sl) = Len(st) => st # << >> /\ st[Len(st)].phase = "enter"
    /\ \A k \in 1 .. Len(st) : CallOK(st[k], k, sl[k].constraints)
    /\ \A k \in 1 .. Len(st) : k < Len(sl) => Waits(st[k], sl[k].constraints, sl[k + 1].constraints)

Called(st) == {k \in 1 .. Len(st) : st[k].phase = "called"}

(* There is an Execution for the script and one for every call of a function, *)
(* until the lists of the script are written.                              *)
AnalyzersOK(st, an) ==
    \/ st = << >> /\ an = << >>
    \/ Len(an) = Cardinality(Called(st)) + 1

RecordOK(e) ==
    /\ e \in Executions
    /\ Len(e.XSSConstraints) = Len(e.XSSDataConstraints)
    /\ \A i \in 1 .. Len(e.XSSConstraints) : OnPath(e.XSSConstraints[i], e.XSSDataConstraints[i])

RecordsOK(an, du) ==
    /\ an \in Seq(Executions) /\ DOMAIN du \subseteq FunctionNames
    /\ \A k \in 1 .. Len(an) : RecordOK(an[k])
    /\ \A f \in DOMAIN du : RecordOK(du[f])

Tasks(e) ==
    LET CC_cst == IF e.XSSConstraints = << >> THEN << << >> >> ELSE e.XSSConstraints
        DC_cst == IF e.XSSDataConstraints = << >> THEN <<Absent>> ELSE e.XSSDataConstraints
    IN  [idx \in DOMAIN CC_cst |-> [CONTROL_FLOW |-> CC_cst[idx], DATA_FLOW |-> DC_cst[idx]]]

ProgramsOK(an, du, pr) ==
    /\ an # << >> => DOMAIN pr = {}
    /\ DOMAIN pr \subseteq DOMAIN du
    /\ \A f \in DOMAIN pr : pr[f] = Tasks(du[f])

WalkInvariant ==
    /\ script \in Scripts
    /\ StackOK(stack, slices)
    /\ AnalyzersOK(stack, analyzers)
    /\ RecordsOK(analyzers, dumped)
    /\ ProgramsOK(analyzers, dumped, programs)

(* What a call has left to execute itself: the bodies it has not entered,  *)
(* and what follows if it has not got there.                               *)
BodyStatements(n, first) ==
    UNION {Statements(n.bodies[i], Inner(n.at, i)) : i \in {j \in DOMAIN n.conditions : j >= first}}

Left(c) ==
    CASE c.nodes = << >> -> {}
      [] c.nodes # << >> /\ Head(c.nodes).type = "Stmt" ->
           (IF c.phase = "enter" THEN {Head(c.nodes).at} ELSE {}) \cup GraphStatements(Tail(c.nodes))
      [] OTHER ->
           BodyStatements(Head(c.nodes), IF c.phase = "enter" THEN c.next ELSE c.next + 1) \cup
           (IF c.phase = "body" \/ (c.phase = "enter" /\ c.next = 1) THEN GraphStatements(Tail(c.nodes)) ELSE {})

LeftOf(st) == UNION {Left(st[k]) : k \in 1 .. Len(st)}

(* The functions that have been called. *)
Reached(an, du) == DOMAIN du \cup {an[k].function : k \in 1 .. Len(an)}

Covered ==
    \A f \in Reached(analyzers, dumped) :
        Statements(script[f], Whole(f)) \subseteq executed \cup LeftOf(stack)

-----------------------------------------------------------------------------
(* The stack: its last call goes, changes, or calls another. *)

LEMMA FrontIs ==
    ASSUME NEW E, NEW s \in Seq(E), s # << >>
    PROVE  /\ Len(s) \in Nat /\ Len(s) >= 1 /\ DOMAIN s = 1 .. Len(s)
           /\ Front(s) \in Seq(E) /\ Len(Front(s)) = Len(s) - 1
           /\ \A k \in 1 .. Len(s) - 1 : Front(s)[k] = s[k]
           /\ Last(s) = s[Len(s)] /\ Last(s) \in E
<1>1. Len(s) \in Nat /\ Len(s) >= 1 /\ DOMAIN s = 1 .. Len(s)
  OBVIOUS
<1>2. Last(s) = s[Len(s)] /\ Last(s) \in E
  BY <1>1 DEF Last
<1> QED
  BY <1>1, <1>2 DEF Front

LEMMA ReplacedIs ==
    ASSUME NEW E, NEW s \in Seq(E), s # << >>, NEW c \in E
    PROVE  /\ Append(Front(s), c) \in Seq(E) /\ Len(Append(Front(s), c)) = Len(s)
           /\ Append(Front(s), c)[Len(s)] = c
           /\ \A k \in 1 .. Len(s) - 1 : Append(Front(s), c)[k] = s[k]
<1> DEFINE f == Front(s)
           n == Len(s)
<1>1. f \in Seq(E) /\ Len(f) = n - 1 /\ n \in Nat /\ \A k \in 1 .. n - 1 : f[k] = s[k]
  BY FrontIs
<1> HIDE DEF f, n
<1>2. /\ Append(f, c) \in Seq(E) /\ Len(Append(f, c)) = (n - 1) + 1 /\ Append(f, c)[(n - 1) + 1] = c
      /\ \A k \in 1 .. n - 1 : Append(f, c)[k] = f[k]
  BY <1>1
<1>3. (n - 1) + 1 = n
  BY <1>1
<1>4. /\ Append(f, c) \in Seq(E) /\ Len(Append(f, c)) = n /\ Append(f, c)[n] = c
      /\ \A k \in 1 .. n - 1 : Append(f, c)[k] = s[k]
  BY <1>1, <1>2, <1>3
<1> QED
  BY <1>4 DEF f, n

LEMMA TopOf ==
    ASSUME NEW st, NEW sl, StackOK(st, sl), st # << >>
    PROVE  /\ Len(st) \in Nat \ {0} /\ Len(sl) \in Nat /\ Last(st) = st[Len(st)] /\ Last(st) \in Calls
           /\ Last(st).slice = Len(st) /\ sl[Len(st)] \in Slices
           /\ CallOK(Last(st), Len(st), sl[Len(st)].constraints)
           /\ Last(st).phase = "enter" => Len(sl) = Len(st)
           /\ Last(st).phase # "enter" =>
                /\ Len(sl) = Len(st) + 1 /\ sl[Len(st) + 1] \in Slices
                /\ Waits(Last(st), sl[Len(st)].constraints, sl[Len(st) + 1].constraints)
<1> DEFINE n == Len(st)
           c == Last(st)
<1>1. st \in Seq(Calls) /\ sl \in Seq(Slices) /\ Len(sl) \in {n, n + 1}
  BY DEF StackOK
<1>2. n \in Nat /\ n >= 1 /\ c = st[n] /\ c \in Calls
  BY <1>1, FrontIs
<1>3. CallOK(c, n, sl[n].constraints)
  <2>1. n \in 1 .. n
    BY <1>2
  <2> QED
    BY <1>2, <2>1 DEF StackOK
<1>4. Len(sl) = n => c.phase = "enter"
  BY <1>2 DEF StackOK
<1>5. Len(sl) = n + 1 => Waits(c, sl[n].constraints, sl[n + 1].constraints)
  <2>1. n \in 1 .. n /\ n < n + 1
    BY <1>2
  <2> QED
    BY <1>2, <2>1 DEF StackOK
<1>6. sl[n] \in Slices /\ (Len(sl) = n + 1 => sl[n + 1] \in Slices)
  <2>1. n \in 1 .. Len(sl) /\ (Len(sl) = n + 1 => n + 1 \in 1 .. Len(sl))
    BY <1>1, <1>2
  <2> QED
    BY <1>1, <2>1
<1>7. c.slice = n
  BY <1>3 DEF CallOK
<1>8. Len(sl) = n + 1 => c.phase # "enter"
  BY <1>5 DEF Waits
<1> QED
  BY <1>1, <1>2, <1>3, <1>4, <1>5, <1>6, <1>7, <1>8

LEMMA StackPop ==
    ASSUME NEW st, NEW sl, StackOK(st, sl), st # << >>, Last(st).phase = "enter"
    PROVE  StackOK(Front(st), sl)
<1> DEFINE n == Len(st)
           f == Front(st)
<1>1. st \in Seq(Calls) /\ sl \in Seq(Slices) /\ Len(sl) = n
  BY TopOf DEF StackOK
<1>2. n \in Nat /\ n >= 1 /\ f \in Seq(Calls) /\ Len(f) = n - 1 /\ \A k \in 1 .. n - 1 : f[k] = st[k]
  BY <1>1, FrontIs
<1> HIDE DEF f
<1>3. Len(sl) \in {Len(f), Len(f) + 1} /\ Len(sl) # Len(f)
  BY <1>1, <1>2
<1>4. \A k \in 1 .. n - 1 : k \in 1 .. n
  BY <1>2
<1>5. \A k \in 1 .. Len(f) : CallOK(f[k], k, sl[k].constraints)
  BY <1>2, <1>4 DEF StackOK
<1>6. \A k \in 1 .. Len(f) : k < Len(sl) => Waits(f[k], sl[k].constraints, sl[k + 1].constraints)
  BY <1>2, <1>4 DEF StackOK
<1>7. StackOK(f, sl)
  BY <1>1, <1>2, <1>3, <1>5, <1>6 DEF StackOK
<1> QED
  BY <1>7 DEF f

LEMMA StackPush ==
    ASSUME NEW st, NEW sl, StackOK(st, sl), Len(sl) = Len(st) + 1,
           NEW c \in Calls, c.phase = "enter", CallOK(c, Len(sl), sl[Len(sl)].constraints)
    PROVE  StackOK(Append(st, c), sl)
<1> DEFINE n == Len(st)
           a == Append(st, c)
<1>1. st \in Seq(Calls) /\ sl \in Seq(Slices) /\ n \in Nat
  BY DEF StackOK
<1>2. a \in Seq(Calls) /\ Len(a) = n + 1 /\ a[n + 1] = c /\ \A k \in 1 .. n : a[k] = st[k]
  BY <1>1
<1> HIDE DEF a
<1>3. Len(sl) = Len(a) /\ a # << >> /\ a[Len(a)].phase = "enter"
  <2>1. a # << >>
    BY <1>1, <1>2
  <2> QED
    BY <1>2, <2>1
<1>4. \A k \in 1 .. n + 1 : k = n + 1 \/ (k \in 1 .. n /\ k # n + 1)
  BY <1>1
<1>5. \A k \in 1 .. n : CallOK(st[k], k, sl[k].constraints)
  BY DEF StackOK
<1>6. \A k \in 1 .. n : k < Len(sl) => Waits(st[k], sl[k].constraints, sl[k + 1].constraints)
  BY DEF StackOK
<1>7. \A k \in 1 .. Len(a) : CallOK(a[k], k, sl[k].constraints)
  BY <1>2, <1>4, <1>5
<1>8. \A k \in 1 .. Len(a) : k < Len(sl) => Waits(a[k], sl[k].constraints, sl[k + 1].constraints)
  <2>1. \A k \in 1 .. n + 1 : k < n + 1 => k \in 1 .. n
    BY <1>1
  <2> QED
    BY <1>2, <1>6, <2>1
<1>9. StackOK(a, sl)
  BY <1>1, <1>2, <1>3, <1>7, <1>8 DEF StackOK
<1> QED
  BY <1>9 DEF a

(* The last call changes to c, and with it what there is of slices. *)
LEMMA StackReplace ==
    ASSUME NEW st, NEW sl, StackOK(st, sl), st # << >>,
           NEW c \in Calls, NEW more \in Seq(Slices), Len(more) \in {Len(st), Len(st) + 1},
           \A k \in 1 .. Len(st) : more[k].constraints = sl[k].constraints,
           CallOK(c, Len(st), sl[Len(st)].constraints),
           Len(more) = Len(st) => c.phase = "enter",
           Len(more) = Len(st) + 1 => Waits(c, sl[Len(st)].constraints, more[Len(st) + 1].constraints)
    PROVE  StackOK(Append(Front(st), c), more)
<1> DEFINE n == Len(st)
           a == Append(Front(st), c)
<1>1. st \in Seq(Calls) /\ sl \in Seq(Slices) /\ n \in Nat /\ n >= 1
  BY TopOf DEF StackOK
<1>2. a \in Seq(Calls) /\ Len(a) = n /\ a[n] = c /\ \A k \in 1 .. n - 1 : a[k] = st[k]
  BY <1>1, ReplacedIs
<1> HIDE DEF a
<1>3. a # << >>
  BY <1>1, <1>2
<1>4. \A k \in 1 .. n : k = n \/ k \in 1 .. n - 1
  BY <1>1
<1>5. \A k \in 1 .. n : CallOK(st[k], k, sl[k].constraints)
  BY DEF StackOK
<1>6. \A k \in 1 .. n : k < Len(sl) => Waits(st[k], sl[k].constraints, sl[k + 1].constraints)
  BY DEF StackOK
<1>7. n \in 1 .. n /\ \A k \in 1 .. n - 1 : k \in 1 .. n /\ k + 1 \in 1 .. n
  BY <1>1
<1>8. \A k \in 1 .. Len(a) : CallOK(a[k], k, more[k].constraints)
  BY <1>2, <1>4, <1>5, <1>7
<1>9. ASSUME NEW k \in 1 .. Len(a), k < Len(more)
      PROVE  Waits(a[k], more[k].constraints, more[k + 1].constraints)
  <2>1. CASE k = n
    <3>1. Len(more) = n + 1
      BY <1>1, <1>9, <2>1
    <3> QED
      BY <1>2, <1>7, <2>1, <3>1
  <2>2. CASE k # n
    <3>1. k \in 1 .. n - 1
      BY <1>2, <1>4, <2>2
    <3>2. k < Len(sl)
      <4>1. Len(sl) \in {n, n + 1}
        BY DEF StackOK
      <4> QED
        BY <1>1, <3>1, <4>1
    <3>3. Waits(st[k], sl[k].constraints, sl[k + 1].constraints)
      BY <1>6, <1>7, <3>1, <3>2
    <3> QED
      BY <1>2, <1>7, <3>1, <3>3
  <2> QED
    BY <2>1, <2>2
<1>10. StackOK(a, more)
  BY <1>2, <1>3, <1>8, <1>9 DEF StackOK
<1> QED
  BY <1>10 DEF a

-----------------------------------------------------------------------------
(* The calls the steps make, or change their own to. *)

LEMMA CallGraph ==
    ASSUME NEW c, NEW k, NEW constraints, CallOK(c, k, constraints)
    PROVE  \E f \in FunctionNames : Graph(f, c.nodes, constraints) /\ c.nodes \in Seq(NodesAt(f))
BY DEF CallOK, Graph

LEMMA NodeListsAre ==
    ASSUME NEW f, NEW nodes \in Seq(NodesAt(f))
    PROVE  nodes \in Seq(StmtNodes \cup IfNodes)
<1>1. NodesAt(f) \subseteq StmtNodes \cup IfNodes
  BY DEF NodesAt
<1> DEFINE N == StmtNodes \cup IfNodes
           M == NodesAt(f)
<1>2. nodes \in Seq(M) /\ M \subseteq N
  BY <1>1
<1> HIDE DEF N, M
<1>3. nodes \in Seq(N)
  BY <1>2
<1> QED
  BY <1>3 DEF N

LEMMA FreshCall ==
    ASSUME NEW f, NEW nodes, NEW constraints, Graph(f, nodes, constraints), NEW k \in Nat
    PROVE  /\ Call(nodes, k) \in Calls /\ Call(nodes, k).phase = "enter" /\ Call(nodes, k).next = 1
           /\ Call(nodes, k).nodes = nodes
           /\ CallOK(Call(nodes, k), k, constraints)
<1> DEFINE c == Call(nodes, k)
<1>1. f \in FunctionNames /\ nodes \in Seq(StmtNodes \cup IfNodes)
  BY NodeListsAre DEF Graph
<1>2. c.phase = "enter" /\ c.next = 1 /\ c.nodes = nodes /\ c.slice = k
  BY DEF Call
<1>3. c \in Calls
  BY <1>1 DEF Call, Calls
<1> HIDE DEF c
<1>4. CallOK(c, k, constraints)
  BY <1>1, <1>2 DEF CallOK
<1> QED
  BY <1>2, <1>3, <1>4 DEF c

(* On to the child. *)
LEMMA ChildCall ==
    ASSUME script \in Scripts, NEW c \in Calls, NEW k, NEW constraints, CallOK(c, k, constraints),
           c.nodes # << >>, Head(c.nodes).type = "Stmt"
    PROVE  /\ [c EXCEPT !.nodes = Tail(@), !.phase = "enter"] \in Calls
           /\ [c EXCEPT !.nodes = Tail(@), !.phase = "enter"].phase = "enter"
           /\ [c EXCEPT !.nodes = Tail(@), !.phase = "enter"].nodes = Tail(c.nodes)
           /\ [c EXCEPT !.nodes = Tail(@), !.phase = "enter"].next = 1
           /\ CallOK([c EXCEPT !.nodes = Tail(@), !.phase = "enter"], k, constraints)
<1> DEFINE d == [c EXCEPT !.nodes = Tail(@), !.phase = "enter"]
<1>1. c.next = 1 /\ c.slice = k
  <2>1. ~ IsBranch(c)
    BY DEF IsBranch
  <2>2. c.next \in Nat \ {0} /\ ~(c.next > 1)
    BY <2>1 DEF CallOK, Calls
  <2> QED
    BY <2>2 DEF CallOK
<1>2. PICK f \in FunctionNames : Graph(f, c.nodes, constraints)
  BY CallGraph
<1>3. Graph(f, Tail(c.nodes), constraints)
  BY <1>2, GraphAfter
<1>4. Tail(c.nodes) \in Seq(StmtNodes \cup IfNodes)
  BY <1>3, NodeListsAre DEF Graph
<1>5. d.nodes = Tail(c.nodes) /\ d.phase = "enter" /\ d.next = c.next /\ d.slice = c.slice
  BY DEF Calls
<1>6. d \in Calls
  BY <1>4 DEF Calls
<1> HIDE DEF d
<1>7. CallOK(d, k, constraints)
  BY <1>1, <1>3, <1>5 DEF CallOK
<1> QED
  BY <1>1, <1>5, <1>6, <1>7 DEF d

(* Into a phase in which it waits. *)
LEMMA WaitingCall ==
    ASSUME NEW c \in Calls, NEW k, NEW constraints, CallOK(c, k, constraints), c.nodes # << >>,
           NEW p \in {"body", "child", "called"},
           p = "called" => Head(c.nodes).type = "Stmt",
           p # "called" => Head(c.nodes).type = "IfStmt" /\ c.next \in DOMAIN Head(c.nodes).conditions
    PROVE  /\ [c EXCEPT !.phase = p] \in Calls
           /\ [c EXCEPT !.phase = p].phase = p
           /\ [c EXCEPT !.phase = p].nodes = c.nodes
           /\ [c EXCEPT !.phase = p].next = c.next
           /\ CallOK([c EXCEPT !.phase = p], k, constraints)
<1> DEFINE d == [c EXCEPT !.phase = p]
<1>1. d.nodes = c.nodes /\ d.phase = p /\ d.next = c.next /\ d.slice = c.slice /\ d \in Calls
  BY DEF Calls
<1> HIDE DEF d
<1>2. c.slice = k /\ (c.next > 1 => IsBranch(c)) /\ \E f \in FunctionNames : Graph(f, c.nodes, constraints)
  BY DEF CallOK
<1>3. CallOK(d, k, constraints)
  BY <1>1, <1>2 DEF CallOK, IsBranch
<1> QED
  BY <1>1, <1>3 DEF d

(* To the next alternative. *)
LEMMA NextCall ==
    ASSUME NEW c \in Calls, NEW k, NEW constraints, CallOK(c, k, constraints), IsBranch(c)
    PROVE  /\ [c EXCEPT !.phase = "enter", !.next = @ + 1] \in Calls
           /\ [c EXCEPT !.phase = "enter", !.next = @ + 1].phase = "enter"
           /\ [c EXCEPT !.phase = "enter", !.next = @ + 1].nodes = c.nodes
           /\ [c EXCEPT !.phase = "enter", !.next = @ + 1].next = c.next + 1
           /\ CallOK([c EXCEPT !.phase = "enter", !.next = @ + 1], k, constraints)
<1> DEFINE d == [c EXCEPT !.phase = "enter", !.next = @ + 1]
<1>1. d.nodes = c.nodes /\ d.phase = "enter" /\ d.next = c.next + 1 /\ d.slice = c.slice /\ d \in Calls
  <2>1. c.next + 1 \in Nat \ {0}
    BY DEF Calls
  <2> DEFINE m == c.next + 1
  <2>2. d = [c EXCEPT !.phase = "enter", !.next = m]
    OBVIOUS
  <2> HIDE DEF d
  <2>3. m \in Nat \ {0}
    BY <2>1
  <2> HIDE DEF m
  <2>4. d.nodes = c.nodes /\ d.phase = "enter" /\ d.next = m /\ d.slice = c.slice /\ d \in Calls
    BY <2>2, <2>3 DEF Calls
  <2> QED
    BY <2>4 DEF m
<1> HIDE DEF d
<1>2. c.slice = k /\ \E f \in FunctionNames : Graph(f, c.nodes, constraints)
  BY DEF CallOK
<1>3. CallOK(d, k, constraints)
  BY <1>1, <1>2 DEF CallOK, IsBranch
<1> QED
  BY <1>1, <1>3 DEF d

(* The node a step is at. *)
LEMMA AtNodeMeans ==
    ASSUME script \in Scripts, StackOK(stack, slices), NEW type, AtNode(type)
    PROVE  /\ stack # << >> /\ Top = Last(stack) /\ Top.nodes # << >> /\ Head(Top.nodes).type = type
           /\ type = "IfStmt" => IsBranch(Top)
           /\ \E f \in FunctionNames : /\ Graph(f, Top.nodes, slices[Len(stack)].constraints)
                                       /\ Head(Top.nodes) \in NodesAt(f)
<1>1. stack # << >> /\ Top = Last(stack) /\ Top.nodes # << >> /\ Head(Top.nodes).type = type
  BY DEF AtNode, Top
<1>2. CallOK(Top, Len(stack), slices[Len(stack)].constraints)
  BY <1>1, TopOf
<1>3. PICK f \in FunctionNames : Graph(f, Top.nodes, slices[Len(stack)].constraints) /\ Top.nodes \in Seq(NodesAt(f))
  BY <1>2, CallGraph
<1>4. Head(Top.nodes) \in NodesAt(f)
  BY <1>1, <1>3
<1> QED
  BY <1>1, <1>3, <1>4 DEF IsBranch

-----------------------------------------------------------------------------
(* The steps. *)

LEMMA StackSaveConstraints ==
    ASSUME script \in Scripts, StackOK(stack, slices), SaveConstraints
    PROVE  StackOK(stack', slices') /\ Top.phase = "enter"
<1>1. stack # << >> /\ Top.nodes = << >> /\ stack' = Front(stack) /\ slices' = slices /\ Top = Last(stack)
  BY DEF SaveConstraints, Pop, Top
<1>2. CallOK(Top, Len(stack), slices[Len(stack)].constraints) /\ Top \in Calls
  BY <1>1, TopOf
<1>3. Top.phase = "enter"
  BY <1>1, <1>2 DEF CallOK, Calls, IsBranch
<1> QED
  BY <1>1, <1>3, StackPop

LEMMA StackBranchDone ==
    ASSUME script \in Scripts, StackOK(stack, slices), BranchDone
    PROVE  StackOK(stack', slices') /\ Top.phase = "enter"
<1>1. stack # << >> /\ stack' = Front(stack) /\ slices' = slices /\ Top.phase = "enter" /\ Top = Last(stack)
  BY DEF BranchDone, Pop, Top, AtNode
<1> QED
  BY <1>1, StackPop

LEMMA StackExecutionPerExpr ==
    ASSUME script \in Scripts, StackOK(stack, slices), ExecutionPerExpr
    PROVE  StackOK(stack', slices')
<1> DEFINE n == Len(stack)
           c == Last(stack)
           d == [c EXCEPT !.nodes = Tail(@), !.phase = "enter"]
           tainted == CASE Head(Top.nodes).stmt.kind = "taint" -> TRUE
                        [] Head(Top.nodes).stmt.kind = "clean" -> FALSE
                        [] OTHER -> slices[n].tainted
<1>1. AtNode("Stmt") /\ Top = c /\ Top.phase = "enter" /\ stack' = Append(Front(stack), d)
  BY DEF ExecutionPerExpr, ToChild, InTop, Top
<1>2. stack # << >> /\ c.nodes # << >> /\ Head(c.nodes).type = "Stmt"
  BY <1>1, AtNodeMeans
<1>3. /\ n \in Nat \ {0} /\ Len(slices) = n /\ c \in Calls /\ c.slice = n /\ slices[n] \in Slices
      /\ CallOK(c, n, slices[n].constraints) /\ slices \in Seq(Slices)
  BY <1>1, <1>2, TopOf DEF StackOK
<1>4. slices' = [slices EXCEPT ![n].tainted = tainted]
  BY <1>1, <1>3 DEF ExecutionPerExpr
<1>5. tainted \in BOOLEAN
  BY <1>3 DEF Slices
<1> HIDE DEF tainted, c
<1>6. /\ slices' \in Seq(Slices) /\ Len(slices') = n
      /\ \A k \in 1 .. n : slices'[k].constraints = slices[k].constraints
  <2> DEFINE s == [slices[n] EXCEPT !.tainted = tainted]
  <2>1. s \in Slices /\ s.constraints = slices[n].constraints
    BY <1>3, <1>5 DEF Slices
  <2>2. slices' = [slices EXCEPT ![n] = s]
    BY <1>3, <1>4
  <2> HIDE DEF s, n
  <2> QED
    BY <1>3, <2>1, <2>2
<1>7. d \in Calls /\ d.phase = "enter" /\ CallOK(d, n, slices[n].constraints)
  BY <1>2, <1>3, ChildCall
<1>8. Len(slices') \in {n, n + 1} /\ Len(slices') # n + 1
  BY <1>3, <1>6
<1> HIDE DEF d
<1>9. StackOK(Append(Front(stack), d), slices')
  BY <1>2, <1>6, <1>7, <1>8, StackReplace
<1> QED
  BY <1>1, <1>9

-----------------------------------------------------------------------------
(* A call is made, with a new slice or with the last one. *)
LEMMA StackCalls ==
    ASSUME NEW st, NEW sl, StackOK(st, sl), st # << >>, NEW d \in Calls, NEW more \in Seq(Slices),
           Len(more) = Len(st) + 1,
           \A k \in 1 .. Len(st) : more[k].constraints = sl[k].constraints,
           CallOK(d, Len(st), sl[Len(st)].constraints),
           Waits(d, sl[Len(st)].constraints, more[Len(st) + 1].constraints),
           NEW f, NEW nodes, Graph(f, nodes, more[Len(st) + 1].constraints)
    PROVE  StackOK(Append(Append(Front(st), d), Call(nodes, Len(st) + 1)), more)
<1> DEFINE n == Len(st)
           a == Append(Front(st), d)
           c == Call(nodes, n + 1)
<1>1. n \in Nat /\ st \in Seq(Calls)
  BY DEF StackOK
<1>2. Len(more) # n /\ Len(more) \in {n, n + 1}
  BY <1>1
<1>3. StackOK(a, more)
  BY <1>2, StackReplace
<1>4. Len(a) = n
  BY <1>1, ReplacedIs
<1>5. c \in Calls /\ c.phase = "enter" /\ CallOK(c, n + 1, more[n + 1].constraints)
  <2>1. n + 1 \in Nat
    BY <1>1
  <2> QED
    BY <2>1, FreshCall
<1> HIDE DEF a, c
<1>6. Len(more) = Len(a) + 1 /\ Len(more) = n + 1
  BY <1>4
<1>7. CallOK(c, Len(more), more[Len(more)].constraints)
  BY <1>5, <1>6
<1>8. StackOK(Append(a, c), more)
  BY <1>3, <1>5, <1>6, <1>7, StackPush
<1> QED
  BY <1>8 DEF a, c

(* A slice more. *)
LEMMA MoreSlices ==
    ASSUME NEW sl \in Seq(Slices), NEW s \in Slices, NEW n, Len(sl) = n
    PROVE  /\ Append(sl, s) \in Seq(Slices) /\ Len(Append(sl, s)) = n + 1 /\ Append(sl, s)[n + 1] = s
           /\ \A k \in 1 .. n : Append(sl, s)[k].constraints = sl[k].constraints
<1>1. n \in Nat
  OBVIOUS
<1>2. \A k \in 1 .. n : Append(sl, s)[k] = sl[k]
  BY <1>1
<1> QED
  BY <1>1, <1>2

(* A slice less. *)
LEMMA FewerSlices ==
    ASSUME NEW sl \in Seq(Slices), NEW n \in Nat, Len(sl) = n + 1
    PROVE  /\ Front(sl) \in Seq(Slices) /\ Len(Front(sl)) = n
           /\ \A k \in 1 .. n : Front(sl)[k].constraints = sl[k].constraints
<1>1. sl # << >> /\ (n + 1) - 1 = n
  OBVIOUS
<1>2. Front(sl) \in Seq(Slices) /\ Len(Front(sl)) = n /\ \A k \in 1 .. n : Front(sl)[k] = sl[k]
  BY <1>1, FrontIs
<1> QED
  BY <1>2

LEMMA StackCallFunction ==
    ASSUME script \in Scripts, StackOK(stack, slices), CallFunction
    PROVE  /\ StackOK(stack', slices') /\ Head(Top.nodes).stmt.name \in FunctionNames
<1> DEFINE n == Len(stack)
           c == Last(stack)
           d == [c EXCEPT !.phase = "called"]
           g == Head(c.nodes).stmt.name
           s == NewSlice(slices[n].tainted)
           nodes == ConstructCFG(script[g], Whole(g))
<1>1. AtNode("Stmt") /\ Top = c /\ Top.phase = "enter" /\ Head(c.nodes).stmt.kind = "call"
  BY DEF CallFunction, Top
<1>2. /\ stack # << >> /\ c.nodes # << >> /\ Head(c.nodes).type = "Stmt"
      /\ \E f \in FunctionNames : Head(c.nodes) \in NodesAt(f)
  BY <1>1, AtNodeMeans
<1>3. /\ n \in Nat \ {0} /\ Len(slices) = n /\ c \in Calls /\ c.slice = n /\ slices[n] \in Slices
      /\ CallOK(c, n, slices[n].constraints) /\ slices \in Seq(Slices)
  BY <1>1, <1>2, TopOf DEF StackOK
<1>4. g \in FunctionNames
  BY <1>1, <1>2, NodeShape
<1>5. slices' = Append(slices, s) /\ stack' = Append(Append(Front(stack), d), Call(nodes, n + 1))
  BY <1>1, <1>3 DEF CallFunction, InTop
<1>6. s \in Slices /\ s.constraints = << >>
  BY <1>3 DEF NewSlice, Slices
<1>7. d \in Calls /\ d.phase = "called" /\ CallOK(d, n, slices[n].constraints)
  BY <1>1, <1>2, <1>3, WaitingCall
<1>8. Graph(g, nodes, << >>)
  BY <1>4, GraphOfFunction
<1> HIDE DEF c, d, g, s, nodes
<1>9. /\ slices' \in Seq(Slices) /\ Len(slices') = n + 1 /\ slices'[n + 1] = s
      /\ \A k \in 1 .. n : slices'[k].constraints = slices[k].constraints
  BY <1>3, <1>5, <1>6, MoreSlices
<1>10. Waits(d, slices[n].constraints, slices'[n + 1].constraints)
  BY <1>7 DEF Waits
<1>11. Graph(g, nodes, slices'[n + 1].constraints)
  BY <1>6, <1>8, <1>9
<1>12. StackOK(Append(Append(Front(stack), d), Call(nodes, n + 1)), slices')
  BY <1>2, <1>7, <1>9, <1>10, <1>11, StackCalls
<1>13. Head(Top.nodes).stmt.name \in FunctionNames
  BY <1>1, <1>4 DEF g
<1> QED
  BY <1>5, <1>12, <1>13

LEMMA StackFunctionReturns ==
    ASSUME script \in Scripts, StackOK(stack, slices), FunctionReturns
    PROVE  StackOK(stack', slices')
<1> DEFINE n == Len(stack)
           c == Last(stack)
           d == [c EXCEPT !.nodes = Tail(@), !.phase = "enter"]
<1>1. AtNode("Stmt") /\ Top = c /\ Top.phase = "called"
      /\ stack' = Append(Front(stack), d) /\ slices' = Front(slices)
  BY DEF FunctionReturns, ToChild, InTop, Top, Pop
<1>2. stack # << >> /\ c.nodes # << >> /\ Head(c.nodes).type = "Stmt"
  BY <1>1, AtNodeMeans
<1>3. /\ n \in Nat \ {0} /\ Len(slices) = n + 1 /\ c \in Calls
      /\ CallOK(c, n, slices[n].constraints) /\ slices \in Seq(Slices)
  BY <1>1, <1>2, TopOf DEF StackOK
<1>4. /\ slices' \in Seq(Slices) /\ Len(slices') = n
      /\ \A k \in 1 .. n : slices'[k].constraints = slices[k].constraints
  BY <1>1, <1>3, FewerSlices
<1>5. d \in Calls /\ d.phase = "enter" /\ CallOK(d, n, slices[n].constraints)
  BY <1>2, <1>3, ChildCall
<1>6. Len(slices') \in {n, n + 1} /\ Len(slices') # n + 1
  BY <1>3, <1>4
<1> HIDE DEF d
<1>7. StackOK(Append(Front(stack), d), slices')
  BY <1>2, <1>4, <1>5, <1>6, StackReplace
<1> QED
  BY <1>1, <1>7

LEMMA StackEnterBody ==
    ASSUME script \in Scripts, StackOK(stack, slices), EnterBody
    PROVE  StackOK(stack', slices') /\ Top.next \in DOMAIN Head(Top.nodes).conditions
<1> DEFINE n == Len(stack)
           c == Last(stack)
           node == Head(c.nodes)
           d == [c EXCEPT !.phase = "body"]
           s == [slices[n] EXCEPT !.constraints = Append(@, node.conditions[c.next])]
           nodes == ConstructCFG(node.bodies[c.next], Inner(node.at, c.next))
<1>1. AtNode("IfStmt") /\ Top = c /\ Top.phase = "enter" /\ c.next <= Len(node.conditions)
  BY DEF EnterBody, Top
<1>2. stack # << >> /\ c.nodes # << >> /\ node.type = "IfStmt" /\ IsBranch(c)
  BY <1>1, AtNodeMeans
<1>3. /\ n \in Nat \ {0} /\ Len(slices) = n /\ c \in Calls /\ c.slice = n /\ slices[n] \in Slices
      /\ CallOK(c, n, slices[n].constraints) /\ slices \in Seq(Slices)
  BY <1>1, <1>2, TopOf DEF StackOK
<1>4. PICK f \in FunctionNames : Graph(f, c.nodes, slices[n].constraints) /\ node \in NodesAt(f)
  BY <1>1, AtNodeMeans
<1>5. node.conditions \in Seq(AnyCondition) /\ c.next \in DOMAIN node.conditions
  <2>1. node.conditions \in Seq(AnyCondition)
    BY <1>2, <1>4, NodeShape
  <2>2. c.next \in Nat \ {0}
    BY <1>3 DEF Calls
  <2> QED
    BY <1>1, <2>1, <2>2
<1>6. slices' = Append(slices, s) /\ stack' = Append(Append(Front(stack), d), Call(nodes, n + 1))
  BY <1>1, <1>3 DEF EnterBody, InTop
<1>7. s \in Slices /\ s.constraints = Append(slices[n].constraints, node.conditions[c.next])
  <2> DEFINE x == node.conditions[c.next]
             z == slices[n]
  <2>1. x \in AnyCondition
    BY <1>5
  <2>2. z \in Slices /\ z.constraints \in Seq(AnyCondition)
    BY <1>3 DEF Slices
  <2> HIDE DEF x, z
  <2>3. Append(z.constraints, x) \in Seq(AnyCondition)
    BY <2>1, <2>2
  <2> DEFINE l == Append(z.constraints, x)
             r == [z EXCEPT !.constraints = l]
  <2>4. s = r
    BY DEF x, z
  <2>5. l \in Seq(AnyCondition)
    BY <2>3
  <2> HIDE DEF l, s
  <2>6. r \in Slices /\ r.constraints = l
    BY <2>2, <2>5 DEF Slices
  <2> QED
    BY <2>4, <2>6 DEF l, x, z
<1>8. /\ d \in Calls /\ d.phase = "body" /\ d.nodes = c.nodes /\ d.next = c.next
      /\ CallOK(d, n, slices[n].constraints)
  BY <1>2, <1>3, <1>5, WaitingCall
<1>9. Graph(f, nodes, s.constraints)
  <2>1. Graph(f, nodes, Append(slices[n].constraints, node.conditions[c.next]))
    BY <1>2, <1>4, <1>5, GraphOfBody
  <2> HIDE DEF s, nodes
  <2> QED
    BY <1>7, <2>1
<1> HIDE DEF d, s, nodes
<1>10. /\ slices' \in Seq(Slices) /\ Len(slices') = n + 1 /\ slices'[n + 1] = s
       /\ \A k \in 1 .. n : slices'[k].constraints = slices[k].constraints
  BY <1>3, <1>6, <1>7, MoreSlices
<1>11. Waits(d, slices[n].constraints, slices'[n + 1].constraints)
  BY <1>7, <1>8, <1>10 DEF Waits
<1>12. Graph(f, nodes, slices'[n + 1].constraints)
  BY <1>9, <1>10
<1>13. StackOK(Append(Append(Front(stack), d), Call(nodes, n + 1)), slices')
  BY <1>2, <1>8, <1>10, <1>11, <1>12, StackCalls
<1> QED
  BY <1>1, <1>5, <1>6, <1>13

LEMMA StackEnterChild ==
    ASSUME script \in Scripts, StackOK(stack, slices), EnterChild
    PROVE  StackOK(stack', slices')
<1> DEFINE n == Len(stack)
           c == Last(stack)
           node == Head(c.nodes)
           d == [c EXCEPT !.phase = "child"]
           nodes == Tail(c.nodes)
<1>1. AtNode("IfStmt") /\ Top = c /\ Top.phase = "body"
  BY DEF EnterChild, Top
<1>2. stack # << >> /\ c.nodes # << >> /\ node.type = "IfStmt"
  BY <1>1, AtNodeMeans
<1>3. /\ n \in Nat \ {0} /\ Len(slices) = n + 1 /\ c \in Calls
      /\ CallOK(c, n, slices[n].constraints) /\ slices \in Seq(Slices)
      /\ Waits(c, slices[n].constraints, slices[n + 1].constraints)
  BY <1>1, <1>2, TopOf DEF StackOK
<1>4. PICK f \in FunctionNames : Graph(f, c.nodes, slices[n].constraints)
  BY <1>1, AtNodeMeans
<1>5. c.next \in DOMAIN node.conditions
  BY <1>1, <1>3 DEF CallOK
<1>6. slices' = slices /\ stack' = Append(Append(Front(stack), d), Call(nodes, n + 1))
  BY <1>1, <1>3 DEF EnterChild, InTop
<1>7. slices[n + 1].constraints = Append(slices[n].constraints, node.conditions[c.next])
  BY <1>1, <1>3 DEF Waits
<1>8. /\ d \in Calls /\ d.phase = "child" /\ d.nodes = c.nodes /\ d.next = c.next
      /\ CallOK(d, n, slices[n].constraints)
  BY <1>2, <1>3, <1>5, WaitingCall
<1>9. Graph(f, nodes, slices[n + 1].constraints)
  BY <1>2, <1>4, <1>5, <1>7, GraphAfterBranch
<1> HIDE DEF d, nodes
<1>10. Waits(d, slices[n].constraints, slices[n + 1].constraints)
  BY <1>7, <1>8 DEF Waits
<1>11. StackOK(Append(Append(Front(stack), d), Call(nodes, n + 1)), slices)
  BY <1>2, <1>3, <1>8, <1>9, <1>10, StackCalls
<1> QED
  BY <1>6, <1>11

LEMMA StackAlternativeDone ==
    ASSUME script \in Scripts, StackOK(stack, slices), AlternativeDone
    PROVE  StackOK(stack', slices')
<1> DEFINE n == Len(stack)
           c == Last(stack)
           d == [c EXCEPT !.phase = "enter", !.next = @ + 1]
<1>1. AtNode("IfStmt") /\ Top = c /\ Top.phase = "child"
      /\ stack' = Append(Front(stack), d) /\ slices' = Front(slices)
  BY DEF AlternativeDone, InTop, Top, Pop
<1>2. stack # << >> /\ IsBranch(c)
  BY <1>1, AtNodeMeans
<1>3. /\ n \in Nat \ {0} /\ Len(slices) = n + 1 /\ c \in Calls
      /\ CallOK(c, n, slices[n].constraints) /\ slices \in Seq(Slices)
  BY <1>1, <1>2, TopOf DEF StackOK
<1>4. /\ slices' \in Seq(Slices) /\ Len(slices') = n
      /\ \A k \in 1 .. n : slices'[k].constraints = slices[k].constraints
  BY <1>1, <1>3, FewerSlices
<1>5. d \in Calls /\ d.phase = "enter" /\ CallOK(d, n, slices[n].constraints)
  BY <1>2, <1>3, NextCall
<1>6. Len(slices') \in {n, n + 1} /\ Len(slices') # n + 1
  BY <1>3, <1>4
<1> HIDE DEF d
<1>7. StackOK(Append(Front(stack), d), slices')
  BY <1>2, <1>4, <1>5, <1>6, StackReplace
<1> QED
  BY <1>1, <1>7

-----------------------------------------------------------------------------
(* What is said of the script stays true: it does not change. *)

LEMMA GraphAgain ==
    ASSUME script' = script, NEW f, NEW nodes, NEW constraints
    PROVE  Graph(f, nodes, constraints)' <=> Graph(f, nodes, constraints)
BY DEF Graph, Fits

LEMMA CallAgain ==
    ASSUME script' = script, NEW c, NEW k, NEW constraints
    PROVE  CallOK(c, k, constraints)' <=> CallOK(c, k, constraints)
BY GraphAgain DEF CallOK, IsBranch

LEMMA StackAgain ==
    ASSUME script' = script, StackOK(stack', slices')
    PROVE  StackOK(stack, slices)'
BY CallAgain DEF StackOK, Waits

LEMMA RecordAgain ==
    ASSUME script' = script, NEW e
    PROVE  RecordOK(e)' <=> RecordOK(e)
BY DEF RecordOK, OnPath

LEMMA RecordsAgain ==
    ASSUME script' = script, RecordsOK(analyzers', dumped')
    PROVE  RecordsOK(analyzers, dumped)'
BY RecordAgain DEF RecordsOK

-----------------------------------------------------------------------------
(* The stack of the walk. *)

LEMMA StackStep ==
    ASSUME script \in Scripts, StackOK(stack, slices), AnalysisNext
    PROVE  StackOK(stack, slices)' /\ script' = script
<1>1. script' = script
  BY DEF AnalysisNext, SaveConstraints, ExecutionPerExpr, CallFunction, FunctionReturns, EnterBody, EnterChild,
         AlternativeDone, BranchDone, MainDone, Synthesize
<1> SUFFICES StackOK(stack', slices')
  BY <1>1, StackAgain
<1>2. CASE SaveConstraints
  BY <1>2, StackSaveConstraints
<1>3. CASE ExecutionPerExpr
  BY <1>3, StackExecutionPerExpr
<1>4. CASE CallFunction
  BY <1>4, StackCallFunction
<1>5. CASE FunctionReturns
  BY <1>5, StackFunctionReturns
<1>6. CASE EnterBody
  BY <1>6, StackEnterBody
<1>7. CASE EnterChild
  BY <1>7, StackEnterChild
<1>8. CASE AlternativeDone
  BY <1>8, StackAlternativeDone
<1>9. CASE BranchDone
  BY <1>9, StackBranchDone
<1>10. CASE MainDone
  BY <1>10 DEF MainDone
<1>11. ASSUME NEW f \in FunctionNames, Synthesize(f)
       PROVE  StackOK(stack', slices')
  BY <1>11 DEF Synthesize
<1> QED
  BY <1>2, <1>3, <1>4, <1>5, <1>6, <1>7, <1>8, <1>9, <1>10, <1>11 DEF AnalysisNext

-----------------------------------------------------------------------------
(* One Execution more than there are calls of functions. *)

LEMMA CalledFinite ==
    ASSUME NEW st \in Seq(Calls)
    PROVE  IsFiniteSet(Called(st)) /\ Cardinality(Called(st)) \in Nat
<1>1. Len(st) \in Nat /\ 1 \in Int
  OBVIOUS
<1>2. IsFiniteSet(1 .. Len(st))
  BY <1>1, FS_Interval
<1>3. Called(st) \subseteq 1 .. Len(st)
  BY DEF Called
<1>4. IsFiniteSet(Called(st))
  BY <1>2, <1>3, FS_Subset
<1> QED
  BY <1>4, FS_CardinalityType

LEMMA CalledFront ==
    ASSUME NEW st \in Seq(Calls), st # << >>, Last(st).phase # "called"
    PROVE  Called(Front(st)) = Called(st)
<1> DEFINE n == Len(st)
           f == Front(st)
<1>1. n \in Nat /\ n >= 1 /\ Len(f) = n - 1 /\ st[n].phase # "called" /\ \A k \in 1 .. n - 1 : f[k] = st[k]
  BY FrontIs
<1> HIDE DEF f
<1>2. \A k : k \in 1 .. n <=> k \in 1 .. n - 1 \/ k = n
  BY <1>1
<1>3. Called(f) = Called(st)
  BY <1>1, <1>2 DEF Called
<1> QED
  BY <1>3 DEF f

LEMMA CalledAppend ==
    ASSUME NEW st \in Seq(Calls), NEW c \in Calls, c.phase # "called"
    PROVE  Called(Append(st, c)) = Called(st)
<1> DEFINE n == Len(st)
           a == Append(st, c)
<1>1. n \in Nat /\ Len(a) = n + 1 /\ a[n + 1] = c /\ \A k \in 1 .. n : a[k] = st[k]
  OBVIOUS
<1> HIDE DEF a
<1>2. \A k : k \in 1 .. n + 1 <=> k \in 1 .. n \/ k = n + 1
  BY <1>1
<1>3. Called(a) = Called(st)
  BY <1>1, <1>2 DEF Called
<1> QED
  BY <1>3 DEF a

LEMMA CalledReplaced ==
    ASSUME NEW st \in Seq(Calls), st # << >>, NEW c \in Calls
    PROVE  /\ c.phase = "called" => Called(Append(Front(st), c)) = Called(st) \cup {Len(st)}
           /\ c.phase # "called" => Called(Append(Front(st), c)) = Called(st) \ {Len(st)}
           /\ Len(st) \in Called(st) <=> Last(st).phase = "called"
           /\ Append(Front(st), c) \in Seq(Calls)
<1> DEFINE n == Len(st)
           a == Append(Front(st), c)
<1>1. /\ n \in Nat /\ n >= 1 /\ a \in Seq(Calls) /\ Len(a) = n /\ a[n] = c
      /\ \A k \in 1 .. n - 1 : a[k] = st[k]
  BY FrontIs, ReplacedIs
<1>2. st[n] = Last(st)
  BY FrontIs
<1> HIDE DEF a
<1>3. \A k : k \in 1 .. n <=> k \in 1 .. n - 1 \/ k = n
  BY <1>1
<1>4. \A k \in 1 .. n - 1 : k # n
  BY <1>1
<1>5. c.phase = "called" => Called(a) = Called(st) \cup {n}
  BY <1>1, <1>3, <1>4 DEF Called
<1>6. c.phase # "called" => Called(a) = Called(st) \ {n}
  BY <1>1, <1>3, <1>4 DEF Called
<1>7. n \in Called(st) <=> Last(st).phase = "called"
  BY <1>2, <1>3 DEF Called
<1> QED
  BY <1>1, <1>5, <1>6, <1>7 DEF a

(* While there are calls, there is an Execution they write to. *)
LEMMA AnalyzersNow ==
    ASSUME StackOK(stack, slices), AnalyzersOK(stack, analyzers), analyzers \in Seq(Executions), stack # << >>
    PROVE  /\ stack \in Seq(Calls) /\ Top = Last(stack) /\ IsFiniteSet(Called(stack))
           /\ Cardinality(Called(stack)) \in Nat /\ Len(analyzers) = Cardinality(Called(stack)) + 1
           /\ analyzers # << >> /\ Analyzer = Last(analyzers) /\ Analyzer \in Executions
<1>1. stack \in Seq(Calls) /\ Top = Last(stack)
  BY DEF StackOK, Top
<1>2. IsFiniteSet(Called(stack)) /\ Cardinality(Called(stack)) \in Nat
  BY <1>1, CalledFinite
<1>3. Len(analyzers) = Cardinality(Called(stack)) + 1
  BY DEF AnalyzersOK
<1>4. analyzers # << >>
  BY <1>2, <1>3
<1>5. Analyzer = Last(analyzers) /\ Analyzer \in Executions
  BY <1>4, FrontIs DEF Analyzer
<1> QED
  BY <1>1, <1>2, <1>3, <1>4, <1>5

(* A call of a function adds one, and its return takes it away. *)
LEMMA AnalyzersStep ==
    ASSUME script \in Scripts, StackOK(stack, slices), AnalyzersOK(stack, analyzers),
           analyzers \in Seq(Executions), AnalysisNext
    PROVE  AnalyzersOK(stack', analyzers')
<1> DEFINE n == Len(stack)
           s == Called(stack)
<1>1. ASSUME stack # << >>
      PROVE  /\ stack \in Seq(Calls) /\ Top = Last(stack) /\ IsFiniteSet(s) /\ Cardinality(s) \in Nat
             /\ Len(analyzers) = Cardinality(s) + 1 /\ analyzers # << >> /\ Len(analyzers) \in Nat
             /\ Last(stack) \in Calls
             /\ \A e : Len(InAnalyzer(e)) = Len(analyzers)
             /\ Len(Front(analyzers)) = Len(analyzers) - 1
  <2>1. analyzers # << >> /\ stack \in Seq(Calls)
    BY <1>1, AnalyzersNow
  <2>2. Len(Front(analyzers)) = Len(analyzers) - 1 /\ Len(analyzers) \in Nat /\ Front(analyzers) \in Seq(Executions)
    BY <2>1, FrontIs
  <2>3. \A e : Len(InAnalyzer(e)) = Len(Front(analyzers)) + 1
    BY <2>2 DEF InAnalyzer
  <2>4. Last(stack) \in Calls
    BY <1>1, <2>1, FrontIs
  <2> QED
    BY <1>1, <2>2, <2>3, <2>4, AnalyzersNow
<1> HIDE DEF s
<1>2. ASSUME stack # << >>, stack' = Front(stack), Top.phase = "enter", Len(analyzers') = Len(analyzers)
      PROVE  AnalyzersOK(stack', analyzers')
  <2>1. Called(stack') = s
    BY <1>1, <1>2, CalledFront DEF s
  <2> QED
    BY <1>1, <1>2, <2>1 DEF AnalyzersOK
<1>3. ASSUME stack # << >>, NEW c \in Calls, c.phase # "called", stack' = Append(Front(stack), c)
      PROVE  /\ Top.phase # "called" /\ Len(analyzers') = Len(analyzers) => AnalyzersOK(stack', analyzers')
             /\ Top.phase = "called" /\ Len(analyzers') = Len(analyzers) - 1 => AnalyzersOK(stack', analyzers')
  <2>1. Called(stack') = s \ {n} /\ (n \in s <=> Top.phase = "called")
    BY <1>1, <1>3, CalledReplaced DEF s
  <2>2. Cardinality(s \ {n}) = IF n \in s THEN Cardinality(s) - 1 ELSE Cardinality(s)
    BY <1>1, <1>3, FS_RemoveElement
  <2> QED
    BY <1>1, <1>3, <2>1, <2>2 DEF AnalyzersOK
<1>4. ASSUME stack # << >>, NEW c \in Calls, NEW d \in Calls, d.phase # "called", Top.phase # "called",
             stack' = Append(Append(Front(stack), c), d)
      PROVE  /\ c.phase # "called" /\ Len(analyzers') = Len(analyzers) => AnalyzersOK(stack', analyzers')
             /\ c.phase = "called" /\ Len(analyzers') = Len(analyzers) + 1 => AnalyzersOK(stack', analyzers')
  <2> DEFINE a == Append(Front(stack), c)
  <2>1. /\ c.phase = "called" => Called(a) = s \cup {n}
        /\ c.phase # "called" => Called(a) = s \ {n}
        /\ n \notin s /\ a \in Seq(Calls)
    BY <1>1, <1>4, CalledReplaced DEF s
  <2> HIDE DEF a
  <2>2. Called(stack') = Called(a)
    BY <1>4, <2>1, CalledAppend DEF a
  <2>3. Cardinality(s \cup {n}) = Cardinality(s) + 1 /\ s \ {n} = s
    <3>1. s \ {n} = s
      BY <2>1
    <3>2. IsFiniteSet(s)
      BY <1>1, <1>4
    <3> HIDE DEF n
    <3>3. Cardinality(s \cup {n}) = IF n \in s THEN Cardinality(s) ELSE Cardinality(s) + 1
      BY <3>2, FS_AddElement
    <3> QED
      BY <2>1, <3>1, <3>3
  <2> QED
    BY <1>1, <1>4, <2>1, <2>2, <2>3 DEF AnalyzersOK
<1>5. CASE SaveConstraints
  <2>1. stack # << >> /\ stack' = Front(stack) /\ Top.phase = "enter"
    BY <1>5, StackSaveConstraints DEF SaveConstraints, Pop
  <2>2. Len(analyzers') = Len(analyzers)
    BY <1>1, <1>5, <2>1 DEF SaveConstraints
  <2> QED
    BY <1>2, <2>1, <2>2
<1>6. CASE BranchDone
  BY <1>2, <1>6, StackBranchDone DEF BranchDone, AtNode, Pop
<1>7. ASSUME stack # << >>, AtNode("Stmt"), stack' = ToChild(Top)
      PROVE  \E c \in Calls : c.phase # "called" /\ stack' = Append(Front(stack), c)
  <2> DEFINE c == [Top EXCEPT !.nodes = Tail(@), !.phase = "enter"]
  <2>1. Top = Last(stack) /\ Top \in Calls /\ CallOK(Top, n, slices[n].constraints)
    BY <1>7, TopOf DEF Top
  <2>2. Top.nodes # << >> /\ Head(Top.nodes).type = "Stmt"
    BY <1>7 DEF AtNode
  <2>3. c \in Calls /\ c.phase = "enter"
    BY <2>1, <2>2, ChildCall
  <2>4. stack' = Append(Front(stack), c)
    BY <1>7 DEF ToChild, InTop
  <2> QED
    BY <2>3, <2>4
<1>8. CASE ExecutionPerExpr
  <2>1. stack # << >> /\ AtNode("Stmt") /\ stack' = ToChild(Top) /\ Top.phase = "enter"
    BY <1>8 DEF ExecutionPerExpr, AtNode
  <2>2. analyzers' = analyzers \/ \E e : analyzers' = InAnalyzer(e)
    BY <1>8 DEF ExecutionPerExpr
  <2>3. Len(analyzers') = Len(analyzers)
    BY <1>1, <2>1, <2>2
  <2> QED
    BY <1>3, <1>7, <2>1, <2>3
<1>9. CASE FunctionReturns
  <2>1. stack # << >> /\ AtNode("Stmt") /\ stack' = ToChild(Top) /\ Top.phase = "called" /\ analyzers' = Front(analyzers)
    BY <1>9 DEF FunctionReturns, AtNode, Pop
  <2>2. Len(analyzers') = Len(analyzers) - 1
    BY <1>1, <2>1
  <2> QED
    BY <1>3, <1>7, <2>1, <2>2
<1>10. CASE CallFunction
  <2> DEFINE g == Head(Top.nodes).stmt.name
             c == [Top EXCEPT !.phase = "called"]
             nodes == ConstructCFG(script[g], Whole(g))
             d == Call(nodes, Len(slices) + 1)
  <2>1. /\ stack # << >> /\ Top.phase = "enter" /\ g \in FunctionNames /\ Len(slices) \in Nat
        /\ stack' = Append(Append(Front(stack), c), d) /\ analyzers' = Append(analyzers, NewExecution(g))
    BY <1>10, StackCallFunction DEF CallFunction, AtNode, InTop, StackOK
  <2>2. Top \in Calls
    BY <1>1, <2>1
  <2>3. c \in Calls /\ c.phase = "called"
    BY <2>2 DEF Calls
  <2>4. Graph(g, nodes, << >>)
    BY <2>1, GraphOfFunction
  <2>5. d \in Calls /\ d.phase = "enter"
    <3>1. Len(slices) + 1 \in Nat
      BY <2>1
    <3> QED
      BY <2>4, <3>1, FreshCall
  <2>6. Len(analyzers') = Len(analyzers) + 1
    BY <2>1
  <2> HIDE DEF c, d, g
  <2> QED
    BY <1>4, <2>1, <2>3, <2>5, <2>6
<1>11. ASSUME NEW c \in Calls, NEW nodes, NEW k, c.phase # "called", Top.phase # "called",
              stack # << >>, stack' = Append(Append(Front(stack), c), Call(nodes, k)),
              stack' \in Seq(Calls), analyzers' = analyzers
       PROVE  AnalyzersOK(stack', analyzers')
  <2> DEFINE d == Call(nodes, k)
             a == Append(Front(stack), c)
  <2>1. a \in Seq(Calls)
    BY <1>1, <1>11, ReplacedIs
  <2>2. d.phase = "enter"
    BY DEF Call
  <2> HIDE DEF a, d
  <2>3. stack' = Append(a, d)
    BY <1>11 DEF a, d
  <2>4. Len(stack') = Len(a) + 1 /\ stack'[Len(a) + 1] = d /\ Len(a) \in Nat
    BY <2>1, <2>3
  <2>5. d \in Calls
    BY <1>11, <2>4
  <2> QED
    BY <1>4, <1>11, <2>2, <2>3, <2>5 DEF a
<1>12. CASE EnterBody
  <2> DEFINE c == [Top EXCEPT !.phase = "body"]
             node == Head(Top.nodes)
             nodes == ConstructCFG(node.bodies[Top.next], Inner(node.at, Top.next))
  <2>1. /\ stack # << >> /\ Top.phase = "enter" /\ analyzers' = analyzers
        /\ stack' = Append(Append(Front(stack), c), Call(nodes, Len(slices) + 1))
    BY <1>12 DEF EnterBody, AtNode, InTop
  <2>2. stack' \in Seq(Calls)
    BY <1>12, StackEnterBody DEF StackOK
  <2>3. Top \in Calls
    BY <1>1, <2>1
  <2>4. c \in Calls /\ c.phase = "body"
    BY <2>3 DEF Calls
  <2> HIDE DEF c, nodes
  <2> QED
    BY <1>11, <2>1, <2>2, <2>4
<1>13. CASE EnterChild
  <2> DEFINE c == [Top EXCEPT !.phase = "child"]
             nodes == Tail(Top.nodes)
  <2>1. /\ stack # << >> /\ Top.phase = "body" /\ analyzers' = analyzers
        /\ stack' = Append(Append(Front(stack), c), Call(nodes, Len(slices)))
    BY <1>13 DEF EnterChild, AtNode, InTop
  <2>2. stack' \in Seq(Calls)
    BY <1>13, StackEnterChild DEF StackOK
  <2>3. Top \in Calls
    BY <1>1, <2>1
  <2>4. c \in Calls /\ c.phase = "child"
    BY <2>3 DEF Calls
  <2> HIDE DEF c, nodes
  <2> QED
    BY <1>11, <2>1, <2>2, <2>4
<1>14. CASE AlternativeDone
  <2> DEFINE c == [Top EXCEPT !.phase = "enter", !.next = @ + 1]
  <2>1. /\ stack # << >> /\ Top.phase = "child" /\ analyzers' = analyzers
        /\ stack' = Append(Front(stack), c) /\ AtNode("IfStmt")
    BY <1>14 DEF AlternativeDone, AtNode, InTop
  <2>2. Top \in Calls /\ IsBranch(Top) /\ CallOK(Top, n, slices[n].constraints)
    BY <2>1, TopOf, AtNodeMeans
  <2>3. c \in Calls /\ c.phase = "enter"
    BY <2>2, NextCall
  <2> HIDE DEF c
  <2> QED
    BY <1>3, <2>1, <2>3
<1>15. CASE MainDone
  BY <1>15 DEF MainDone, AnalyzersOK
<1>16. ASSUME NEW f \in FunctionNames, Synthesize(f)
       PROVE  AnalyzersOK(stack', analyzers')
  BY <1>16 DEF Synthesize
<1> QED
  BY <1>5, <1>6, <1>8, <1>9, <1>10, <1>12, <1>13, <1>14, <1>15, <1>16 DEF AnalysisNext

-----------------------------------------------------------------------------
(* The lists of sinks. *)

LEMMA RecordConstraints ==
    ASSUME NEW e, RecordOK(e), NEW cs \in Seq(AnyCondition)
    PROVE  RecordOK([e EXCEPT !.Constraints = @ \cup {cs}])
<1> DEFINE d == [e EXCEPT !.Constraints = @ \cup {cs}]
<1>1. e \in Executions
  BY DEF RecordOK
<1>2. e.Constraints \cup {cs} \in SUBSET Seq(AnyCondition)
  BY <1>1 DEF Executions
<1>3. /\ d \in Executions /\ d.XSSConstraints = e.XSSConstraints
      /\ d.XSSDataConstraints = e.XSSDataConstraints
  BY <1>1, <1>2 DEF Executions
<1> HIDE DEF d
<1>4. RecordOK(d)
  BY <1>3 DEF RecordOK
<1> QED
  BY <1>4 DEF d

(* A sink: an entry in either list. *)
LEMMA RecordSink ==
    ASSUME NEW e, RecordOK(e), NEW cs \in Seq(AnyCondition), NEW at \in Places, OnPath(cs, at)
    PROVE  RecordOK(Record(e, cs, at))
<1> DEFINE d == Record(e, cs, at)
           x == e.XSSConstraints
           y == e.XSSDataConstraints
           n == Len(x)
<1>1. e \in Executions /\ Len(y) = n
  BY DEF RecordOK
<1>2. x \in Seq(Seq(AnyCondition)) /\ y \in Seq(Places) /\ n \in Nat
  BY <1>1 DEF Executions
<1>3. /\ Append(x, cs) \in Seq(Seq(AnyCondition)) /\ Len(Append(x, cs)) = n + 1 /\ Append(x, cs)[n + 1] = cs
      /\ \A i \in 1 .. n : Append(x, cs)[i] = x[i]
  <2> DEFINE S == Seq(AnyCondition)
  <2>1. x \in Seq(S) /\ cs \in S
    BY <1>2
  <2> HIDE DEF S, x
  <2>2. Append(x, cs) \in Seq(S)
    BY <2>1
  <2> QED
    BY <1>2, <2>1, <2>2 DEF S
<1>4. /\ Append(y, at) \in Seq(Places) /\ Len(Append(y, at)) = n + 1 /\ Append(y, at)[n + 1] = at
      /\ \A i \in 1 .. n : Append(y, at)[i] = y[i]
  BY <1>1, <1>2
<1>5. d = [e EXCEPT !.XSSConstraints = Append(x, cs), !.XSSDataConstraints = Append(y, at)]
  BY DEF Record
<1>6. \A i \in 1 .. n : OnPath(x[i], y[i])
  BY DEF RecordOK
<1> HIDE DEF d, x, y, n
<1>7. d \in Executions /\ d.XSSConstraints = Append(x, cs) /\ d.XSSDataConstraints = Append(y, at)
  BY <1>1, <1>3, <1>4, <1>5 DEF Executions
<1>8. ASSUME NEW i \in 1 .. n + 1
      PROVE  OnPath(Append(x, cs)[i], Append(y, at)[i])
  <2>1. CASE i = n + 1
    BY <1>3, <1>4, <2>1
  <2>2. CASE i # n + 1
    <3>1. i \in 1 .. n
      BY <1>2, <2>2
    <3> QED
      BY <1>3, <1>4, <1>6, <3>1
  <2> QED
    BY <2>1, <2>2
<1>9. RecordOK(d)
  BY <1>3, <1>4, <1>7, <1>8 DEF RecordOK
<1> QED
  BY <1>9 DEF d

LEMMA RecordNew ==
    ASSUME NEW f \in FunctionNames
    PROVE  RecordOK(NewExecution(f))
<1>1. NewExecution(f) \in Executions
  <2>1. {} \in SUBSET Seq(AnyCondition) /\ << >> \in Seq(Seq(AnyCondition)) /\ << >> \in Seq(Places)
    BY EmptySeq
  <2> QED
    BY <2>1 DEF NewExecution, Executions
<1>2. NewExecution(f).XSSConstraints = << >> /\ NewExecution(f).XSSDataConstraints = << >>
  BY DEF NewExecution
<1>3. Len(<< >>) = 0 /\ \A i \in 1 .. 0 : FALSE
  OBVIOUS
<1> QED
  BY <1>1, <1>2, <1>3 DEF RecordOK

LEMMA RecordsReplace ==
    ASSUME NEW an, NEW du, RecordsOK(an, du), an # << >>, NEW e, RecordOK(e)
    PROVE  RecordsOK(Append(Front(an), e), du)
<1> DEFINE n == Len(an)
           a == Append(Front(an), e)
<1>1. an \in Seq(Executions) /\ e \in Executions
  BY DEF RecordsOK, RecordOK
<1>2. n \in Nat /\ a \in Seq(Executions) /\ Len(a) = n /\ a[n] = e /\ \A k \in 1 .. n - 1 : a[k] = an[k]
  BY <1>1, ReplacedIs
<1> HIDE DEF a
<1>3. \A k \in 1 .. n : k = n \/ k \in 1 .. n - 1
  BY <1>2
<1>4. \A k \in 1 .. n : RecordOK(a[k])
  BY <1>2, <1>3 DEF RecordsOK
<1>5. RecordsOK(a, du)
  BY <1>2, <1>4 DEF RecordsOK
<1> QED
  BY <1>5 DEF a

LEMMA RecordsAppend ==
    ASSUME NEW an, NEW du, RecordsOK(an, du), NEW e, RecordOK(e)
    PROVE  RecordsOK(Append(an, e), du)
<1> DEFINE n == Len(an)
           a == Append(an, e)
<1>1. an \in Seq(Executions) /\ e \in Executions
  BY DEF RecordsOK, RecordOK
<1>2. n \in Nat /\ a \in Seq(Executions) /\ Len(a) = n + 1 /\ a[n + 1] = e /\ \A k \in 1 .. n : a[k] = an[k]
  BY <1>1
<1> HIDE DEF a
<1>3. \A k \in 1 .. n + 1 : k = n + 1 \/ k \in 1 .. n
  BY <1>2
<1>4. \A k \in 1 .. n + 1 : RecordOK(a[k])
  BY <1>2, <1>3 DEF RecordsOK
<1>5. RecordsOK(a, du)
  BY <1>2, <1>4 DEF RecordsOK
<1> QED
  BY <1>5 DEF a

(* The last Execution is written. *)
LEMMA RecordsDump ==
    ASSUME RecordsOK(analyzers, dumped), analyzers # << >>, DumpConstraints, NEW an \in Seq(Executions),
           \A k \in 1 .. Len(an) : \E j \in 1 .. Len(analyzers) : an[k] = analyzers[j]
    PROVE  RecordsOK(an, dumped')
<1>1. RecordOK(Analyzer) /\ Analyzer.function \in FunctionNames
  <2>1. analyzers \in Seq(Executions)
    BY DEF RecordsOK
  <2>2. Len(analyzers) \in 1 .. Len(analyzers) /\ Analyzer = analyzers[Len(analyzers)]
    <3>1. /\ Len(analyzers) \in Nat /\ Len(analyzers) >= 1
          /\ Last(analyzers) = analyzers[Len(analyzers)]
      BY <2>1, FrontIs
    <3> QED
      BY <3>1 DEF Analyzer
  <2>3. RecordOK(Analyzer)
    BY <2>2 DEF RecordsOK
  <2> QED
    BY <2>3 DEF RecordOK, Executions
<1>2. /\ DOMAIN dumped' = DOMAIN dumped \cup {Analyzer.function}
      /\ \A f \in DOMAIN dumped' : dumped'[f] = IF f = Analyzer.function THEN Analyzer ELSE dumped[f]
  BY DEF DumpConstraints
<1>3. DOMAIN dumped' \subseteq FunctionNames
  BY <1>1, <1>2 DEF RecordsOK
<1>4. \A f \in DOMAIN dumped' : RecordOK(dumped'[f])
  BY <1>1, <1>2 DEF RecordsOK
<1>5. \A k \in 1 .. Len(an) : RecordOK(an[k])
  BY DEF RecordsOK
<1> QED
  BY <1>3, <1>4, <1>5 DEF RecordsOK

(* Every entry is of a path to its sink. *)
LEMMA RecordsStep ==
    ASSUME script \in Scripts, StackOK(stack, slices), AnalyzersOK(stack, analyzers),
           RecordsOK(analyzers, dumped), AnalysisNext
    PROVE  RecordsOK(analyzers, dumped)'
<1>1. script' = script
  BY StackStep
<1> SUFFICES RecordsOK(analyzers', dumped')
  BY <1>1, RecordsAgain
<1>2. ASSUME stack # << >>
      PROVE  /\ analyzers \in Seq(Executions) /\ analyzers # << >> /\ RecordOK(Analyzer)
             /\ Top = Last(stack) /\ Top \in Calls /\ Top.slice = Len(stack)
             /\ slices[Top.slice].constraints \in Seq(AnyCondition)
  <2>1. analyzers \in Seq(Executions)
    BY DEF RecordsOK
  <2>2. analyzers # << >> /\ Analyzer = Last(analyzers)
    BY <1>2, <2>1, AnalyzersNow
  <2>3. Len(analyzers) \in 1 .. Len(analyzers) /\ Analyzer = analyzers[Len(analyzers)]
    <3>1. /\ Len(analyzers) \in Nat /\ Len(analyzers) >= 1
          /\ Last(analyzers) = analyzers[Len(analyzers)]
      BY <2>1, <2>2, FrontIs
    <3> QED
      BY <2>2, <3>1
  <2>4. RecordOK(Analyzer)
    BY <2>3 DEF RecordsOK
  <2>5. Top = Last(stack) /\ Top \in Calls /\ Top.slice = Len(stack) /\ slices[Len(stack)] \in Slices
    BY <1>2, TopOf DEF Top
  <2>6. slices[Top.slice].constraints \in Seq(AnyCondition)
    BY <2>5 DEF Slices
  <2> QED
    BY <2>1, <2>2, <2>4, <2>5, <2>6
<1>3. CASE SaveConstraints
  <2>1. stack # << >> /\ dumped' = dumped
        /\ analyzers' = Append(Front(analyzers),
                               [Analyzer EXCEPT !.Constraints = @ \cup {slices[Top.slice].constraints}])
    BY <1>3 DEF SaveConstraints, InAnalyzer
  <2>2. RecordOK([Analyzer EXCEPT !.Constraints = @ \cup {slices[Top.slice].constraints}])
    BY <1>2, <2>1, RecordConstraints
  <2> QED
    BY <1>2, <2>1, <2>2, RecordsReplace
<1>4. CASE ExecutionPerExpr
  <2> DEFINE n == Head(Top.nodes)
             cs == slices[Top.slice].constraints
  <2>1. stack # << >> /\ AtNode("Stmt") /\ dumped' = dumped
        /\ (analyzers' = analyzers \/ analyzers' = Append(Front(analyzers), Record(Analyzer, cs, n.at)))
    BY <1>4 DEF ExecutionPerExpr, InAnalyzer, AtNode
  <2>2. PICK f \in FunctionNames : Graph(f, Top.nodes, cs) /\ n \in NodesAt(f)
    BY <1>2, <2>1, AtNodeMeans
  <2>3. Top.nodes # << >> /\ n.type = "Stmt"
    BY <2>1 DEF AtNode
  <2>4. OnPath(cs, n.at)
    BY <2>2, <2>3, GraphHeadOnPath
  <2>5. n.at \in Places
    BY <2>2, NodeShape
  <2>6. RecordOK(Record(Analyzer, cs, n.at))
    BY <1>2, <2>1, <2>4, <2>5, RecordSink
  <2> QED
    BY <1>2, <2>1, <2>6, RecordsReplace
<1>5. CASE CallFunction
  <2> DEFINE g == Head(Top.nodes).stmt.name
  <2>1. g \in FunctionNames /\ analyzers' = Append(analyzers, NewExecution(g)) /\ dumped' = dumped
    BY <1>5, StackCallFunction DEF CallFunction
  <2> QED
    BY <2>1, RecordNew, RecordsAppend
<1>6. CASE FunctionReturns
  <2>1. stack # << >> /\ DumpConstraints /\ analyzers' = Front(analyzers)
    BY <1>6 DEF FunctionReturns, AtNode, Pop
  <2>2. /\ Front(analyzers) \in Seq(Executions) /\ Len(analyzers) \in Nat
        /\ Len(Front(analyzers)) = Len(analyzers) - 1
        /\ \A k \in 1 .. Len(analyzers) - 1 : Front(analyzers)[k] = analyzers[k]
    BY <1>2, <2>1, FrontIs
  <2>3. \A k \in 1 .. Len(Front(analyzers)) : \E j \in 1 .. Len(analyzers) : Front(analyzers)[k] = analyzers[j]
    <3>1. \A k \in 1 .. Len(analyzers) - 1 : k \in 1 .. Len(analyzers)
      BY <2>2
    <3> QED
      BY <2>2, <3>1
  <2> QED
    BY <1>2, <2>1, <2>2, <2>3, RecordsDump
<1>7. CASE EnterBody
  BY <1>7 DEF EnterBody
<1>8. CASE EnterChild
  BY <1>8 DEF EnterChild
<1>9. CASE AlternativeDone
  BY <1>9 DEF AlternativeDone
<1>10. CASE BranchDone
  BY <1>10 DEF BranchDone
<1>11. CASE MainDone
  <2>1. analyzers # << >> /\ DumpConstraints /\ analyzers' = << >>
    BY <1>11 DEF MainDone
  <2>2. << >> \in Seq(Executions) /\ Len(<< >>) = 0 /\ \A k \in 1 .. 0 : FALSE
    BY EmptySeq
  <2> QED
    BY <2>1, <2>2, RecordsDump
<1>12. ASSUME NEW f \in FunctionNames, Synthesize(f)
       PROVE  RecordsOK(analyzers', dumped')
  BY <1>12 DEF Synthesize
<1> QED
  BY <1>3, <1>4, <1>5, <1>6, <1>7, <1>8, <1>9, <1>10, <1>11, <1>12 DEF AnalysisNext

(* Programs are made of the lists when there is nothing left to execute. *)
LEMMA ProgramsStep ==
    ASSUME StackOK(stack, slices), AnalyzersOK(stack, analyzers),
           RecordsOK(analyzers, dumped), ProgramsOK(analyzers, dumped, programs), AnalysisNext
    PROVE  ProgramsOK(analyzers', dumped', programs')
<1>1. stack # << >> => analyzers # << >>
  BY AnalyzersNow DEF RecordsOK
<1>2. CASE \E f \in FunctionNames : Synthesize(f)
  <2>1. PICK f : Synthesize(f)
    BY <1>2
  <2>2. /\ analyzers' = << >> /\ dumped' = dumped /\ f \in DOMAIN dumped
        /\ programs' = [g \in DOMAIN programs \cup {f} |-> IF g = f THEN Tasks(dumped[f]) ELSE programs[g]]
    BY <2>1 DEF Synthesize, Tasks
  <2> QED
    BY <2>2 DEF ProgramsOK
<1>3. CASE ~ \E f \in FunctionNames : Synthesize(f)
  <2>1. programs' = programs /\ analyzers # << >>
    BY <1>1, <1>3 DEF AnalysisNext, SaveConstraints, ExecutionPerExpr, CallFunction, FunctionReturns, EnterBody,
       EnterChild, AlternativeDone, BranchDone, MainDone, AtNode
  <2>2. DOMAIN programs' = {}
    BY <2>1 DEF ProgramsOK
  <2> QED
    BY <2>2 DEF ProgramsOK
<1> QED
  BY <1>2, <1>3

LEMMA WalkBegins ==
    ASSUME AnalysisInit
    PROVE  WalkInvariant
<1> DEFINE nodes == ConstructCFG(script["main"], Whole("main"))
           c == Call(nodes, 1)
           s == NewSlice(FALSE)
           e == NewExecution("main")
<1>1. /\ script \in Scripts /\ stack = <<c>> /\ slices = <<s>> /\ analyzers = <<e>>
      /\ dumped = << >> /\ programs = << >>
  BY DEF AnalysisInit
<1>2. "main" \in FunctionNames
  BY ScriptParameters
<1>3. Graph("main", nodes, << >>)
  BY <1>1, <1>2, GraphOfFunction
<1>4. s \in Slices /\ s.constraints = << >>
  BY EmptySeq DEF NewSlice, Slices
<1>5. c \in Calls /\ c.phase = "enter" /\ CallOK(c, 1, << >>)
  BY <1>3, FreshCall
<1>6. RecordOK(e) /\ e \in Executions
  BY <1>2, RecordNew DEF RecordOK
<1> HIDE DEF c, s, e
<1>7. /\ stack \in Seq(Calls) /\ Len(stack) = 1 /\ stack[1] = c /\ stack # << >>
      /\ slices \in Seq(Slices) /\ Len(slices) = 1 /\ slices[1] = s
      /\ analyzers \in Seq(Executions) /\ Len(analyzers) = 1 /\ analyzers[1] = e
  BY <1>1, <1>4, <1>5, <1>6
<1>8. \A k \in 1 .. 1 : k = 1
  OBVIOUS
<1>9. StackOK(stack, slices)
  BY <1>4, <1>5, <1>7, <1>8 DEF StackOK
<1>10. AnalyzersOK(stack, analyzers)
  <2>1. Called(stack) = {}
    BY <1>5, <1>7, <1>8 DEF Called
  <2>2. Cardinality({}) = 0
    BY FS_EmptySet
  <2> QED
    BY <1>7, <2>1, <2>2 DEF AnalyzersOK
<1>11. DOMAIN dumped = {} /\ DOMAIN programs = {}
  BY <1>1
<1>12. RecordsOK(analyzers, dumped)
  BY <1>6, <1>7, <1>8, <1>11 DEF RecordsOK
<1>13. ProgramsOK(analyzers, dumped, programs)
  BY <1>11 DEF ProgramsOK
<1> QED
  BY <1>1, <1>9, <1>10, <1>12, <1>13 DEF WalkInvariant

LEMMA WalkGoesOn ==
    ASSUME WalkInvariant, [AnalysisNext]_analysisVars
    PROVE  WalkInvariant'
<1>1. CASE AnalysisNext
  <2>1. /\ script \in Scripts /\ StackOK(stack, slices) /\ AnalyzersOK(stack, analyzers)
        /\ RecordsOK(analyzers, dumped) /\ ProgramsOK(analyzers, dumped, programs)
        /\ analyzers \in Seq(Executions)
    BY DEF WalkInvariant, RecordsOK
  <2>2. script' = script /\ StackOK(stack, slices)'
    BY <1>1, <2>1, StackStep
  <2>3. AnalyzersOK(stack', analyzers')
    BY <1>1, <2>1, AnalyzersStep
  <2>4. RecordsOK(analyzers, dumped)'
    BY <1>1, <2>1, RecordsStep
  <2>5. ProgramsOK(analyzers', dumped', programs')
    BY <1>1, <2>1, ProgramsStep
  <2> QED
    BY <2>1, <2>2, <2>3, <2>4, <2>5 DEF WalkInvariant
<1>2. CASE UNCHANGED analysisVars
  <2>1. /\ script' = script /\ stack' = stack /\ slices' = slices /\ analyzers' = analyzers
        /\ dumped' = dumped /\ programs' = programs
    BY <1>2 DEF analysisVars
  <2>2. StackOK(stack, slices)'
    BY <2>1, StackAgain DEF WalkInvariant
  <2>3. RecordsOK(analyzers, dumped)'
    BY <2>1, RecordsAgain DEF WalkInvariant
  <2> QED
    BY <2>1, <2>2, <2>3 DEF WalkInvariant
<1> QED
  BY <1>1, <1>2

(* The two lists of a file pair up. *)
LEMMA TasksOnPath ==
    ASSUME NEW e, RecordOK(e)
    PROVE  /\ ToSet(e.XSSDataConstraints) \subseteq {Tasks(e)[i].DATA_FLOW : i \in DOMAIN Tasks(e)}
           /\ \A i \in DOMAIN Tasks(e) :
                 \/ Tasks(e)[i] = [CONTROL_FLOW |-> << >>, DATA_FLOW |-> Absent]
                 \/ /\ Tasks(e)[i].CONTROL_FLOW \in Seq(AnyCondition) /\ Tasks(e)[i].DATA_FLOW \in Places
                    /\ OnPath(Tasks(e)[i].CONTROL_FLOW, Tasks(e)[i].DATA_FLOW)
<1> DEFINE x == e.XSSConstraints
           y == e.XSSDataConstraints
           n == Len(x)
           t == Tasks(e)
<1>1. e \in Executions /\ Len(y) = n /\ \A i \in 1 .. n : OnPath(x[i], y[i])
  BY DEF RecordOK
<1>2. x \in Seq(Seq(AnyCondition)) /\ y \in Seq(Places)
  BY <1>1 DEF Executions
<1>3. n \in Nat /\ DOMAIN x = 1 .. n /\ DOMAIN y = 1 .. n
  BY <1>1, <1>2
<1> SUFFICES /\ ToSet(y) \subseteq {t[i].DATA_FLOW : i \in DOMAIN t}
             /\ \A i \in DOMAIN t :
                   \/ t[i] = [CONTROL_FLOW |-> << >>, DATA_FLOW |-> Absent]
                   \/ /\ t[i].CONTROL_FLOW \in Seq(AnyCondition) /\ t[i].DATA_FLOW \in Places
                      /\ OnPath(t[i].CONTROL_FLOW, t[i].DATA_FLOW)
  OBVIOUS
<1>4. CASE x = << >>
  <2>1. y = << >> /\ ToSet(y) = {}
    <3>1. y = << >>
      BY <1>1, <1>2, <1>4
    <3> QED
      BY <3>1 DEF ToSet
  <2>2. DOMAIN t = DOMAIN << << >> >> /\ \A i \in DOMAIN t : t[i] = [CONTROL_FLOW |-> << << >> >>[i], DATA_FLOW |-> <<Absent>>[i]]
    BY <1>4, <2>1 DEF Tasks
  <2>3. \A i \in DOMAIN << << >> >> : i = 1
    OBVIOUS
  <2>4. << << >> >>[1] = << >> /\ <<Absent>>[1] = Absent
    OBVIOUS
  <2> HIDE DEF t
  <2> QED
    BY <2>1, <2>2, <2>3, <2>4
<1>5. CASE x # << >>
  <2>1. y # << >>
    BY <1>1, <1>2, <1>5
  <2>2. t = [i \in 1 .. n |-> [CONTROL_FLOW |-> x[i], DATA_FLOW |-> y[i]]]
    BY <1>3, <1>5, <2>1 DEF Tasks
  <2>5. \A i \in 1 .. n : x[i] \in Seq(AnyCondition) /\ y[i] \in Places
    BY <1>2, <1>3
  <2> HIDE DEF t, x, y, n
  <2>3. ToSet(y) \subseteq {t[i].DATA_FLOW : i \in DOMAIN t}
    BY <1>3, <2>2 DEF ToSet
  <2>4. \A i \in DOMAIN t : /\ t[i].CONTROL_FLOW \in Seq(AnyCondition) /\ t[i].DATA_FLOW \in Places
                            /\ OnPath(t[i].CONTROL_FLOW, t[i].DATA_FLOW)
    BY <1>1, <2>2, <2>5
  <2> QED
    BY <2>3, <2>4
<1> QED
  BY <1>4, <1>5

LEMMA WalkOnPath ==
    ASSUME WalkInvariant, AtNode("Stmt")
    PROVE  /\ slices[Top.slice].constraints \in Seq(AnyCondition) /\ Head(Top.nodes).at \in Places
           /\ OnPath(slices[Top.slice].constraints, Head(Top.nodes).at)
<1>1. stack # << >> /\ Top = Last(stack) /\ Top.slice = Len(stack)
  BY TopOf DEF AtNode, Top, WalkInvariant
<1>2. PICK f \in FunctionNames : Graph(f, Top.nodes, slices[Top.slice].constraints)
  BY <1>1, AtNodeMeans DEF WalkInvariant
<1>3. Top.nodes # << >> /\ Head(Top.nodes).type = "Stmt" /\ script \in Scripts
  BY DEF AtNode, WalkInvariant
<1>4. Top.nodes \in Seq(NodesAt(f)) /\ slices[Top.slice].constraints \in Seq(AnyCondition)
  BY <1>2 DEF Graph
<1>5. Head(Top.nodes) \in NodesAt(f)
  BY <1>3, <1>4, FirstNode
<1>6. Head(Top.nodes).at \in Places
  BY <1>5, NodeShape
<1> QED
  BY <1>2, <1>3, <1>4, <1>6, GraphHeadOnPath

(* Where jumps skip nothing, what is on a path is on a run. *)
LEMMA PathOnRun ==
    ASSUME script \in Scripts, NEW constraints \in Seq(AnyCondition), NEW at \in Places,
           OnPath(constraints, at), JumpsSkipNothing(at[1])
    PROVE  OnRun(constraints, at)
<1> DEFINE f == at[1]
           b == script[f]
           p == Whole(f)
           A == IF f = "main" THEN {"return", "exit"} ELSE {"return"}
           h == Held(constraints)
           e == Does(at)
<1>1. f \in FunctionNames
  BY DEF OnPath
<1>2. PICK path \in Paths(b, p) : \E i \in DOMAIN path : path[i] = e /\ Within(h, SubSeq(path, 1, i - 1))
  BY DEF OnPath, Held
<1>3. PICK i \in DOMAIN path : path[i] = e /\ Within(h, SubSeq(path, 1, i - 1))
  BY <1>2
<1>4. b \in Bodies /\ p \in Places
  BY <1>1, ScriptParameters, WholePlace
<1>5. JumpsAreLast(b, A)
  BY DEF JumpsSkipNothing
<1>6. A \in SUBSET Jumps
  BY DEF Jumps
<1>7. OnRun(constraints, at) = \E r \in Runs(b, p) : \E k \in DOMAIN r.events :
           r.events[k] = e /\ Within(h, SubSeq(r.events, 1, k - 1))
  BY DEF OnRun
<1>8. h \in Seq(Events) /\ e \in Events
  BY HeldEvents DEF Events
<1> HIDE DEF f, b, p, A, h, e
<1>9. AllLast[b][A]
  BY <1>5, LastDef
<1>10. Covers(AllPaths[b][p], AllRuns[b][p], A)
  BY <1>4, <1>6, <1>9, BodyCovered DEF BodyCovers
<1>11. /\ AllPaths[b][p] = Paths(b, p) /\ Paths(b, p) \in PathSets
       /\ AllRuns[b][p] = Runs(b, p) /\ Runs(b, p) \in RunSets
  BY <1>4, AllPathsAre, RunsDef
<1>12. PICK r \in Runs(b, p) : Within(path, r.events)
  BY <1>2, <1>10, <1>11 DEF Covers
<1>13. path \in Seq(Events) /\ r.events \in Seq(Events)
  BY <1>2, <1>11, <1>12, RunHas DEF PathSets
<1>14. \E k \in DOMAIN r.events : r.events[k] = e /\ Within(h, SubSeq(r.events, 1, k - 1))
  BY <1>3, <1>8, <1>12, <1>13, WithinBefore
<1> QED
  BY <1>7, <1>12, <1>14

LEMMA WalkOnRun ==
    ASSUME WalkInvariant
    PROVE  ProgramsOnRun
<1>1. script \in Scripts
  BY DEF WalkInvariant
<1>2. ASSUME NEW f \in DOMAIN programs
      PROVE  programs[f] = Tasks(dumped[f]) /\ RecordOK(dumped[f])
  BY <1>2 DEF WalkInvariant, ProgramsOK, RecordsOK
<1>3. ASSUME NEW f \in DOMAIN programs
      PROVE  ToSet(dumped[f].XSSDataConstraints) \subseteq {programs[f][i].DATA_FLOW : i \in DOMAIN programs[f]}
  BY <1>2, TasksOnPath
<1>4. \A c, at : OnPath(c, at) => at[1] \in FunctionNames
  BY DEF OnPath
<1>5. ASSUME \A f \in FunctionNames : JumpsSkipNothing(f),
             NEW c \in Seq(AnyCondition), NEW at \in Places, OnPath(c, at)
      PROVE  OnRun(c, at)
  BY <1>1, <1>4, <1>5, PathOnRun
<1>6. ASSUME \A f \in FunctionNames : JumpsSkipNothing(f)
      PROVE  ConstraintsOfState
  BY <1>5, <1>6, WalkOnPath DEF ConstraintsOfState
<1>7. ASSUME \A f \in FunctionNames : JumpsSkipNothing(f), NEW f \in DOMAIN programs, NEW i \in DOMAIN programs[f]
      PROVE  \/ programs[f][i] = [CONTROL_FLOW |-> << >>, DATA_FLOW |-> Absent]
             \/ OnRun(programs[f][i].CONTROL_FLOW, programs[f][i].DATA_FLOW)
  <2>1. \/ programs[f][i] = [CONTROL_FLOW |-> << >>, DATA_FLOW |-> Absent]
        \/ /\ programs[f][i].CONTROL_FLOW \in Seq(AnyCondition) /\ programs[f][i].DATA_FLOW \in Places
           /\ OnPath(programs[f][i].CONTROL_FLOW, programs[f][i].DATA_FLOW)
    BY <1>2, TasksOnPath
  <2> QED
    BY <1>5, <1>7, <2>1
<1> QED
  BY <1>3, <1>6, <1>7 DEF ProgramsOnRun

-----------------------------------------------------------------------------
(* The calls on the stack of ExecutionPerNode, the slices they refer to,   *)
(* the Execution objects and what they have written always agree, for any  *)
(* script, calls of functions in functions and recursion included: the     *)
(* constraints of a call are conditions of one path of its function, on    *)
(* which jumps are passed over (ConstructCFG.php:165).                     *)
THEOREM AnalysisInductive ==
    AnalysisSpec => []WalkInvariant
<1>1. AnalysisInit => WalkInvariant
  BY WalkBegins
<1>2. WalkInvariant /\ [AnalysisNext]_analysisVars => WalkInvariant'
  BY WalkGoesOn
<1> QED
  BY <1>1, <1>2, PTL DEF AnalysisSpec

(* In a script whose jumps skip nothing, a statement is executed under     *)
(* constraints that a run of its function finds true on its way to it, and *)
(* so is every sink that a program is made for; in any script, every sink  *)
(* of the last dump has a program (Execution.php, Synth.php).              *)
THEOREM SinksOnRun ==
    AnalysisSpec => []ProgramsOnRun
<1>1. WalkInvariant => ProgramsOnRun
  BY WalkOnRun
<1> QED
  BY <1>1, AnalysisInductive, PTL

-----------------------------------------------------------------------------
(* What is left to execute. *)

LEMMA LeftFront ==
    ASSUME NEW E, NEW st \in Seq(E), st # << >>
    PROVE  LeftOf(st) \subseteq LeftOf(Front(st)) \cup Left(Last(st))
<1> DEFINE n == Len(st)
           f == Front(st)
           c == Last(st)
<1>1. n \in Nat /\ n >= 1 /\ Len(f) = n - 1 /\ st[n] = c /\ \A k \in 1 .. n - 1 : f[k] = st[k]
  BY FrontIs
<1> HIDE DEF n, f, c
<1>2. ASSUME NEW k \in 1 .. n
      PROVE  Left(st[k]) \subseteq LeftOf(f) \cup Left(c)
  <2>1. CASE k = n
    BY <1>1, <2>1
  <2>2. CASE k # n
    <3>1. k \in 1 .. Len(f) /\ f[k] = st[k]
      BY <1>1, <2>2
    <3> QED
      BY <3>1 DEF LeftOf
  <2> QED
    BY <2>1, <2>2
<1>3. LeftOf(st) \subseteq LeftOf(f) \cup Left(c)
  BY <1>2 DEF LeftOf, n
<1> QED
  BY <1>3 DEF f, c

LEMMA LeftAppend ==
    ASSUME NEW E, NEW st \in Seq(E), NEW c
    PROVE  LeftOf(st) \subseteq LeftOf(Append(st, c)) /\ Left(c) \subseteq LeftOf(Append(st, c))
<1> DEFINE n == Len(st)
           a == Append(st, c)
<1>1. n \in Nat /\ Len(a) = n + 1 /\ a[n + 1] = c /\ \A k \in 1 .. n : a[k] = st[k]
  OBVIOUS
<1> HIDE DEF a, n
<1>2. n + 1 \in 1 .. Len(a) /\ \A k \in 1 .. n : k \in 1 .. Len(a)
  BY <1>1
<1>3. LeftOf(st) \subseteq LeftOf(a) /\ Left(c) \subseteq LeftOf(a)
  BY <1>1, <1>2 DEF LeftOf, n
<1> QED
  BY <1>3 DEF a

(* The last call changes, or calls another, and they have at least as much *)
(* left, but for what has been executed.                                   *)
LEMMA LeftReplaced ==
    ASSUME NEW st \in Seq(Calls), st # << >>, NEW d, NEW done, Left(Last(st)) \subseteq Left(d) \cup done
    PROVE  LeftOf(st) \subseteq LeftOf(Append(Front(st), d)) \cup done
<1>1. Front(st) \in Seq(Calls)
  BY FrontIs
<1>2. LeftOf(Front(st)) \subseteq LeftOf(Append(Front(st), d)) /\ Left(d) \subseteq LeftOf(Append(Front(st), d))
  BY <1>1, LeftAppend
<1> QED
  BY <1>2, LeftFront

LEMMA LeftCalls ==
    ASSUME NEW st \in Seq(Calls), st # << >>, NEW d \in Calls, NEW e, NEW done,
           Left(Last(st)) \subseteq Left(d) \cup Left(e) \cup done
    PROVE  LeftOf(st) \subseteq LeftOf(Append(Append(Front(st), d), e)) \cup done
<1> DEFINE a == Append(Front(st), d)
<1>1. a \in Seq(Calls)
  BY ReplacedIs
<1>2. Left(Last(st)) \subseteq Left(d) \cup (Left(e) \cup done)
  OBVIOUS
<1>3. LeftOf(st) \subseteq LeftOf(a) \cup (Left(e) \cup done)
  BY <1>2, LeftReplaced
<1> HIDE DEF a
<1>4. LeftOf(a) \subseteq LeftOf(Append(a, e)) /\ Left(e) \subseteq LeftOf(Append(a, e))
  BY <1>1, LeftAppend
<1>5. LeftOf(st) \subseteq LeftOf(Append(a, e)) \cup done
  BY <1>3, <1>4
<1> QED
  BY <1>5 DEF a

(* A call that has not begun has its whole graph left. *)
LEMMA LeftFresh ==
    ASSUME NEW c, NEW f, c.nodes \in Seq(NodesAt(f)), c.phase = "enter", c.next = 1
    PROVE  GraphStatements(c.nodes) \subseteq Left(c)
<1> DEFINE n == Head(c.nodes)
<1>1. CASE c.nodes = << >>
  BY <1>1, GraphStatementsFirst
<1>2. CASE c.nodes # << >>
  <2>1. GraphStatements(c.nodes) = NodeStatements(n) \cup GraphStatements(Tail(c.nodes)) /\ n \in NodesAt(f)
    BY <1>2, GraphStatementsFirst
  <2>2. CASE n.type = "Stmt"
    <3>1. NodeStatements(n) = {n.at}
      BY <2>2 DEF NodeStatements
    <3>2. Left(c) = {n.at} \cup GraphStatements(Tail(c.nodes))
      BY <1>2, <2>2 DEF Left
    <3> QED
      BY <2>1, <3>1, <3>2
  <2>3. CASE n.type # "Stmt"
    <3>1. n.conditions \in Seq(AnyCondition)
      BY <2>1, <2>3, NodeShape
    <3>2. \A i \in DOMAIN n.conditions : i \in {j \in DOMAIN n.conditions : j >= 1}
      BY <3>1
    <3>3. NodeStatements(n) \subseteq BodyStatements(n, 1)
      BY <2>3, <3>2 DEF NodeStatements, BodyStatements
    <3>4. Left(c) = BodyStatements(n, 1) \cup GraphStatements(Tail(c.nodes))
      BY <1>2, <2>3 DEF Left
    <3> QED
      BY <2>1, <3>3, <3>4
  <2> QED
    BY <2>2, <2>3
<1> QED
  BY <1>1, <1>2

LEMMA LeftAtStmt ==
    ASSUME NEW c, c.nodes # << >>, Head(c.nodes).type = "Stmt"
    PROVE  /\ c.phase = "enter" => Left(c) = {Head(c.nodes).at} \cup GraphStatements(Tail(c.nodes))
           /\ c.phase # "enter" => Left(c) = GraphStatements(Tail(c.nodes))
BY DEF Left

LEMMA LeftAtBranch ==
    ASSUME NEW c, IsBranch(c)
    PROVE  /\ c.phase = "enter" => Left(c) =
                BodyStatements(Head(c.nodes), c.next) \cup (IF c.next = 1 THEN GraphStatements(Tail(c.nodes)) ELSE {})
           /\ c.phase = "body" => Left(c) = BodyStatements(Head(c.nodes), c.next + 1) \cup GraphStatements(Tail(c.nodes))
           /\ c.phase = "child" => Left(c) = BodyStatements(Head(c.nodes), c.next + 1)
<1>1. c.nodes # << >> /\ Head(c.nodes).type # "Stmt"
  BY DEF IsBranch
<1> QED
  BY <1>1 DEF Left

LEMMA NextBody ==
    ASSUME NEW n, n.conditions \in Seq(AnyCondition), NEW k \in Nat
    PROVE  /\ BodyStatements(n, k) \subseteq Statements(n.bodies[k], Inner(n.at, k)) \cup BodyStatements(n, k + 1)
           /\ k > Len(n.conditions) => BodyStatements(n, k) = {}
<1>1. DOMAIN n.conditions = 1 .. Len(n.conditions) /\ Len(n.conditions) \in Nat
  OBVIOUS
<1>2. \A i \in {j \in DOMAIN n.conditions : j >= k} : i = k \/ i \in {j \in DOMAIN n.conditions : j >= k + 1}
  BY <1>1
<1>3. k > Len(n.conditions) => {j \in DOMAIN n.conditions : j >= k} = {}
  BY <1>1
<1> QED
  BY <1>2, <1>3 DEF BodyStatements

(* A step forgets nothing that is left. *)
Kept == executed \cup LeftOf(stack) \subseteq executed' \cup LeftOf(stack')

(* On to the child, from a statement. *)
LEMMA LeftToChild ==
    ASSUME script \in Scripts, StackOK(stack, slices), AtNode("Stmt"), stack' = ToChild(Top)
    PROVE  LeftOf(stack) \subseteq LeftOf(stack') \cup (IF Top.phase = "enter" THEN {Head(Top.nodes).at} ELSE {})
<1> DEFINE c == Last(stack)
           d == [c EXCEPT !.nodes = Tail(@), !.phase = "enter"]
           n == Head(c.nodes)
           done == IF c.phase = "enter" THEN {n.at} ELSE {}
<1>1. stack' = Append(Front(stack), d) /\ Top = c
  BY DEF ToChild, InTop, Top
<1>2. /\ stack # << >> /\ c.nodes # << >> /\ n.type = "Stmt"
      /\ \E f \in FunctionNames : c.nodes \in Seq(NodesAt(f))
  BY <1>1, AtNodeMeans DEF Graph
<1>3. c \in Calls /\ CallOK(c, Len(stack), slices[Len(stack)].constraints) /\ stack \in Seq(Calls)
  BY <1>2, TopOf DEF StackOK
<1>4. d.nodes = Tail(c.nodes) /\ d.phase = "enter" /\ d.next = 1
  BY <1>2, <1>3, ChildCall
<1>5. PICK f : c.nodes \in Seq(NodesAt(f))
  BY <1>2
<1>6. Tail(c.nodes) \in Seq(NodesAt(f))
  BY <1>2, <1>5
<1> HIDE DEF d
<1>7. GraphStatements(Tail(c.nodes)) \subseteq Left(d)
  BY <1>4, <1>6, LeftFresh
<1>8. Left(c) = done \cup GraphStatements(Tail(c.nodes))
  BY <1>2, LeftAtStmt
<1>9. Left(Last(stack)) \subseteq Left(d) \cup done
  BY <1>7, <1>8
<1> HIDE DEF done
<1>10. LeftOf(stack) \subseteq LeftOf(Append(Front(stack), d)) \cup done
  BY <1>2, <1>3, <1>9, LeftReplaced
<1> QED
  BY <1>1, <1>10 DEF done

(* Nothing is left of a branch whose alternatives are done. *)
LEMMA KeptPop ==
    ASSUME NEW st \in Seq(Calls), st # << >>, Left(Last(st)) = {}
    PROVE  LeftOf(st) \subseteq LeftOf(Front(st))
BY LeftFront

LEMMA KeptSaveConstraints ==
    ASSUME StackOK(stack, slices), SaveConstraints
    PROVE  Kept
<1>1. /\ stack # << >> /\ Last(stack).nodes = << >> /\ stack' = Front(stack) /\ executed' = executed
      /\ stack \in Seq(Calls)
  BY DEF SaveConstraints, Pop, Top, StackOK
<1>2. Left(Last(stack)) = {}
  BY <1>1 DEF Left
<1> QED
  BY <1>1, <1>2, KeptPop DEF Kept

(* There is an alternative, and what follows has been left to its child. *)
LEMMA KeptBranchDone ==
    ASSUME SwitchesHaveCases, script \in Scripts, StackOK(stack, slices), BranchDone
    PROVE  Kept
<1> DEFINE c == Last(stack)
           n == Head(c.nodes)
<1>1. /\ AtNode("IfStmt") /\ Top = c /\ c.phase = "enter" /\ c.next > Len(n.conditions)
      /\ stack' = Front(stack) /\ executed' = executed
  BY DEF BranchDone, Pop, Top
<1>2. stack # << >> /\ IsBranch(c) /\ n.type = "IfStmt" /\ \E f \in FunctionNames : n \in NodesAt(f)
  BY <1>1, AtNodeMeans
<1>3. n.conditions \in Seq(AnyCondition) /\ n.conditions # << >>
  BY <1>2, NodeShape
<1>4. c \in Calls /\ stack \in Seq(Calls)
  BY <1>2, TopOf DEF StackOK
<1>5. c.next \in Nat
  BY <1>4 DEF Calls
<1>6. BodyStatements(n, c.next) = {} /\ c.next # 1
  <2>1. Len(n.conditions) \in Nat /\ Len(n.conditions) # 0
    BY <1>3
  <2>2. c.next # 1
    BY <1>1, <1>5, <2>1
  <2> QED
    BY <1>1, <1>3, <1>5, <2>2, NextBody
<1>7. Left(c) = {}
  BY <1>1, <1>2, <1>6, LeftAtBranch
<1> QED
  BY <1>1, <1>2, <1>4, <1>7, KeptPop DEF Kept

(* What is left of the function that is called is the whole of it. *)
LEMMA KeptCallFunction ==
    ASSUME script \in Scripts, StackOK(stack, slices), CallFunction
    PROVE  /\ Kept
           /\ Statements(script[Head(Top.nodes).stmt.name], Whole(Head(Top.nodes).stmt.name)) \subseteq LeftOf(stack')
<1> DEFINE c == Last(stack)
           d == [c EXCEPT !.phase = "called"]
           n == Head(c.nodes)
           g == n.stmt.name
           nodes == ConstructCFG(script[g], Whole(g))
           e == Call(nodes, Len(slices) + 1)
<1>1. /\ AtNode("Stmt") /\ Top = c /\ c.phase = "enter"
      /\ stack' = Append(Append(Front(stack), d), e) /\ executed' = executed \cup {n.at}
  BY DEF CallFunction, InTop, Top
<1>2. stack # << >> /\ c.nodes # << >> /\ n.type = "Stmt"
  BY <1>1, AtNodeMeans
<1>3. c \in Calls /\ stack \in Seq(Calls)
  BY <1>2, TopOf DEF StackOK
<1>4. d \in Calls /\ d.nodes = c.nodes /\ d.phase = "called"
  BY <1>3 DEF Calls
<1>5. Left(c) = {n.at} \cup GraphStatements(Tail(c.nodes)) /\ Left(d) = GraphStatements(Tail(c.nodes))
  <2> HIDE DEF d
  <2>1. d.nodes # << >> /\ Head(d.nodes) = n /\ Head(d.nodes).type = "Stmt" /\ d.phase # "enter"
    BY <1>2, <1>4
  <2> QED
    BY <1>1, <1>2, <1>4, <2>1, LeftAtStmt
<1>6. g \in FunctionNames
  BY <1>1, StackCallFunction
<1>7. e.nodes = nodes /\ e.phase = "enter" /\ e.next = 1
  BY DEF Call
<1>8. script[g] \in Bodies /\ Whole(g) \in Places
  BY <1>6, ScriptBody, WholePlace
<1>9. Statements(script[g], Whole(g)) \subseteq Left(e)
  <2>1. Graph(g, nodes, << >>)
    BY <1>6, GraphOfFunction
  <2>2. nodes \in Seq(NodesAt(g))
    BY <2>1 DEF Graph
  <2>3. Statements(script[g], Whole(g)) \subseteq GraphStatements(nodes)
    BY <1>8, GraphHasStatements
  <2> HIDE DEF e, nodes
  <2>4. GraphStatements(nodes) \subseteq Left(e)
    BY <1>7, <2>2, LeftFresh
  <2> QED
    BY <2>3, <2>4
<1> HIDE DEF d, e
<1>10. Left(Last(stack)) \subseteq Left(d) \cup Left(e) \cup {n.at}
  BY <1>5
<1>11. LeftOf(stack) \subseteq LeftOf(stack') \cup {n.at}
  BY <1>1, <1>2, <1>3, <1>4, <1>10, LeftCalls
<1>12. Kept
  BY <1>1, <1>11 DEF Kept
<1>13. Left(e) \subseteq LeftOf(stack')
  <2>1. Append(Front(stack), d) \in Seq(Calls)
    BY <1>2, <1>3, <1>4, ReplacedIs
  <2> QED
    BY <1>1, <2>1, LeftAppend
<1>14. Statements(script[g], Whole(g)) \subseteq LeftOf(stack')
  BY <1>9, <1>13
<1> QED
  BY <1>1, <1>12, <1>14

(* The body that is entered is left to the new call. *)
LEMMA KeptEnterBody ==
    ASSUME script \in Scripts, StackOK(stack, slices), EnterBody
    PROVE  Kept
<1> DEFINE c == Last(stack)
           d == [c EXCEPT !.phase = "body"]
           n == Head(c.nodes)
           k == c.next
           b == n.bodies[k]
           p == Inner(n.at, k)
           e == Call(ConstructCFG(b, p), Len(slices) + 1)
<1>1. /\ AtNode("IfStmt") /\ Top = c /\ c.phase = "enter" /\ k \in DOMAIN n.conditions
      /\ stack' = Append(Append(Front(stack), d), e) /\ executed' = executed
  BY StackEnterBody DEF EnterBody, InTop, Top
<1>2. stack # << >> /\ IsBranch(c) /\ n.type = "IfStmt"
  BY <1>1, AtNodeMeans
<1>3. c \in Calls /\ stack \in Seq(Calls)
  BY <1>2, TopOf DEF StackOK
<1>4. PICK f \in FunctionNames : n \in NodesAt(f) /\ Graph(f, c.nodes, slices[Len(stack)].constraints)
  BY <1>1, AtNodeMeans
<1>5. /\ n.conditions \in Seq(AnyCondition) /\ n.bodies \in Seq(Bodies)
      /\ Len(n.conditions) <= Len(n.bodies) /\ n.at \in Places
  BY <1>2, <1>4, NodeShape
<1>6. k \in Nat /\ b \in Bodies /\ p \in Places
  <2>1. k \in 1 .. Len(n.bodies)
    BY <1>1, <1>5
  <2>2. k \in Nat /\ b \in Bodies
    BY <1>5, <2>1
  <2> QED
    BY <1>5, <2>2, InnerPlace
<1>7. /\ Left(c) \subseteq BodyStatements(n, k) \cup GraphStatements(Tail(c.nodes))
      /\ BodyStatements(n, k) \subseteq Statements(b, p) \cup BodyStatements(n, k + 1)
  <2>1. Left(c) = BodyStatements(n, k) \cup (IF k = 1 THEN GraphStatements(Tail(c.nodes)) ELSE {})
    BY <1>1, <1>2, LeftAtBranch
  <2> HIDE DEF k, n, b, p
  <2>2. Left(c) \subseteq BodyStatements(n, k) \cup GraphStatements(Tail(c.nodes))
    BY <2>1
  <2>3. BodyStatements(n, k) \subseteq Statements(b, p) \cup BodyStatements(n, k + 1)
    BY <1>5, <1>6, NextBody DEF b, p
  <2> QED
    BY <2>2, <2>3
<1>8. d \in Calls /\ d.nodes = c.nodes /\ d.phase = "body" /\ d.next = k
  BY <1>3 DEF Calls
<1>9. Left(d) = BodyStatements(n, k + 1) \cup GraphStatements(Tail(c.nodes))
  <2> HIDE DEF d
  <2>1. IsBranch(d) /\ Head(d.nodes) = n /\ Tail(d.nodes) = Tail(c.nodes)
    BY <1>2, <1>8 DEF IsBranch
  <2> QED
    BY <1>8, <2>1, LeftAtBranch
<1>10. Statements(b, p) \subseteq Left(e)
  <2> DEFINE nodes == ConstructCFG(b, p)
  <2>1. c.nodes # << >> /\ n.type = "IfStmt"
    BY <1>2 DEF IsBranch
  <2>2. \E cs : Graph(f, nodes, cs)
    BY <1>1, <1>4, <2>1, GraphOfBody
  <2>3. nodes \in Seq(NodesAt(f))
    BY <2>2 DEF Graph
  <2>4. e.nodes = nodes /\ e.phase = "enter" /\ e.next = 1
    BY DEF Call
  <2>5. Statements(b, p) \subseteq GraphStatements(nodes)
    BY <1>6, GraphHasStatements
  <2> HIDE DEF e, nodes
  <2>6. GraphStatements(nodes) \subseteq Left(e)
    BY <2>3, <2>4, LeftFresh
  <2> QED
    BY <2>5, <2>6
<1> HIDE DEF d, e, n, k, b, p
<1>11. Left(Last(stack)) \subseteq Left(d) \cup Left(e) \cup {}
  BY <1>7, <1>9, <1>10
<1>12. LeftOf(stack) \subseteq LeftOf(stack') \cup {}
  BY <1>1, <1>2, <1>3, <1>8, <1>11, LeftCalls
<1> QED
  BY <1>1, <1>12 DEF Kept

(* So is what follows, and it is executed by every alternative. *)
LEMMA KeptEnterChild ==
    ASSUME script \in Scripts, StackOK(stack, slices), EnterChild
    PROVE  Kept
<1> DEFINE c == Last(stack)
           d == [c EXCEPT !.phase = "child"]
           n == Head(c.nodes)
           nodes == Tail(c.nodes)
           e == Call(nodes, Len(slices))
<1>1. /\ AtNode("IfStmt") /\ Top = c /\ c.phase = "body"
      /\ stack' = Append(Append(Front(stack), d), e) /\ executed' = executed
  BY DEF EnterChild, InTop, Top
<1>2. /\ stack # << >> /\ IsBranch(c)
      /\ \E f \in FunctionNames : Graph(f, c.nodes, slices[Len(stack)].constraints)
  BY <1>1, AtNodeMeans
<1>3. c \in Calls /\ stack \in Seq(Calls)
  BY <1>2, TopOf DEF StackOK
<1>4. PICK f \in FunctionNames : c.nodes \in Seq(NodesAt(f))
  BY <1>2 DEF Graph
<1>5. nodes \in Seq(NodesAt(f))
  BY <1>2, <1>4 DEF IsBranch
<1>6. Left(c) = BodyStatements(n, c.next + 1) \cup GraphStatements(nodes)
  BY <1>1, <1>2, LeftAtBranch
<1>7. d \in Calls /\ d.nodes = c.nodes /\ d.phase = "child" /\ d.next = c.next
  BY <1>3 DEF Calls
<1>8. e.nodes = nodes /\ e.phase = "enter" /\ e.next = 1
  BY DEF Call
<1> HIDE DEF d, e, nodes
<1>9. Left(d) = BodyStatements(n, c.next + 1)
  <2>1. IsBranch(d) /\ Head(d.nodes) = n
    BY <1>2, <1>7 DEF IsBranch
  <2> QED
    BY <1>7, <2>1, LeftAtBranch
<1>10. GraphStatements(nodes) \subseteq Left(e)
  BY <1>5, <1>8, LeftFresh
<1>11. Left(Last(stack)) \subseteq Left(d) \cup Left(e) \cup {}
  BY <1>6, <1>9, <1>10
<1>12. LeftOf(stack) \subseteq LeftOf(stack') \cup {}
  BY <1>1, <1>2, <1>3, <1>7, <1>11, LeftCalls
<1> QED
  BY <1>1, <1>12 DEF Kept

LEMMA KeptAlternativeDone ==
    ASSUME script \in Scripts, StackOK(stack, slices), AlternativeDone
    PROVE  Kept
<1> DEFINE c == Last(stack)
           d == [c EXCEPT !.phase = "enter", !.next = @ + 1]
           n == Head(c.nodes)
<1>1. /\ AtNode("IfStmt") /\ Top = c /\ c.phase = "child"
      /\ stack' = Append(Front(stack), d) /\ executed' = executed
  BY DEF AlternativeDone, InTop, Top
<1>2. stack # << >> /\ IsBranch(c)
  BY <1>1, AtNodeMeans
<1>3. c \in Calls /\ stack \in Seq(Calls) /\ CallOK(c, Len(stack), slices[Len(stack)].constraints)
  BY <1>2, TopOf DEF StackOK
<1>4. d.nodes = c.nodes /\ d.phase = "enter" /\ d.next = c.next + 1
  BY <1>2, <1>3, NextCall
<1>5. Left(c) = BodyStatements(n, c.next + 1)
  BY <1>1, <1>2, LeftAtBranch
<1> HIDE DEF d
<1>6. BodyStatements(n, c.next + 1) \subseteq Left(d)
  <2>1. IsBranch(d) /\ Head(d.nodes) = n
    BY <1>2, <1>4 DEF IsBranch
  <2> QED
    BY <1>4, <2>1, LeftAtBranch
<1>7. Left(Last(stack)) \subseteq Left(d) \cup {}
  BY <1>5, <1>6
<1>8. LeftOf(stack) \subseteq LeftOf(stack') \cup {}
  BY <1>1, <1>2, <1>3, <1>7, LeftReplaced
<1> QED
  BY <1>1, <1>8 DEF Kept

-----------------------------------------------------------------------------
(* Every function that has been called is executed or left to execute. *)

Functions(an) == {an[k].function : k \in 1 .. Len(an)}

LEMMA FunctionsReplace ==
    ASSUME NEW an \in Seq(Executions), an # << >>, NEW e \in Executions, e.function = Last(an).function
    PROVE  Functions(Append(Front(an), e)) \subseteq Functions(an)
<1> DEFINE n == Len(an)
           a == Append(Front(an), e)
<1>1. n \in Nat /\ n >= 1 /\ Len(a) = n /\ a[n] = e /\ Last(an) = an[n] /\ \A k \in 1 .. n - 1 : a[k] = an[k]
  BY FrontIs, ReplacedIs
<1> HIDE DEF a, n
<1>2. \A k \in 1 .. n : k = n \/ k \in 1 .. n - 1
  BY <1>1
<1>3. \A k \in 1 .. n : a[k].function = an[k].function
  BY <1>1, <1>2
<1>4. Functions(a) \subseteq Functions(an)
  BY <1>1, <1>3 DEF Functions, n
<1> QED
  BY <1>4 DEF a

LEMMA FunctionsFront ==
    ASSUME NEW an \in Seq(Executions), an # << >>
    PROVE  Functions(Front(an)) \subseteq Functions(an) /\ Last(an).function \in Functions(an)
<1> DEFINE n == Len(an)
           f == Front(an)
<1>1. n \in Nat /\ n >= 1 /\ Len(f) = n - 1 /\ Last(an) = an[n] /\ \A k \in 1 .. n - 1 : f[k] = an[k]
  BY FrontIs
<1> HIDE DEF f, n
<1>2. n \in 1 .. n /\ \A k \in 1 .. n - 1 : k \in 1 .. n
  BY <1>1
<1>3. Functions(f) \subseteq Functions(an) /\ Last(an).function \in Functions(an)
  BY <1>1, <1>2 DEF Functions, n
<1> QED
  BY <1>3 DEF f

LEMMA FunctionsAppend ==
    ASSUME NEW an \in Seq(Executions), NEW e
    PROVE  Functions(Append(an, e)) \subseteq Functions(an) \cup {e.function}
<1> DEFINE n == Len(an)
           a == Append(an, e)
<1>1. n \in Nat /\ Len(a) = n + 1 /\ a[n + 1] = e /\ \A k \in 1 .. n : a[k] = an[k]
  OBVIOUS
<1> HIDE DEF a, n
<1>2. \A k \in 1 .. n + 1 : k = n + 1 \/ k \in 1 .. n
  BY <1>1
<1>3. Functions(a) \subseteq Functions(an) \cup {e.function}
  BY <1>1, <1>2 DEF Functions, n
<1> QED
  BY <1>3 DEF a

LEMMA ReachedIs ==
    ASSUME NEW an, NEW du
    PROVE  Reached(an, du) = DOMAIN du \cup Functions(an)
BY DEF Reached, Functions

(* Functions are reached by calls. *)
LEMMA ReachedStep ==
    ASSUME script \in Scripts, StackOK(stack, slices), AnalyzersOK(stack, analyzers),
           RecordsOK(analyzers, dumped), AnalysisNext, NEW f \in Reached(analyzers', dumped')
    PROVE  f \in Reached(analyzers, dumped) \/ (CallFunction /\ f = Head(Top.nodes).stmt.name)
<1>1. ASSUME stack # << >>
      PROVE  analyzers # << >> /\ Analyzer = Last(analyzers) /\ Analyzer \in Executions
  BY <1>1, AnalyzersNow DEF RecordsOK
<1>2. analyzers \in Seq(Executions)
  BY DEF RecordsOK
<1>3. ASSUME stack # << >>, NEW e \in Executions, e.function = Analyzer.function
      PROVE  Functions(InAnalyzer(e)) \subseteq Functions(analyzers)
  BY <1>1, <1>2, <1>3, FunctionsReplace DEF InAnalyzer
<1>4. ASSUME analyzers # << >>, DumpConstraints
      PROVE  DOMAIN dumped' \subseteq DOMAIN dumped \cup Functions(analyzers)
  BY <1>2, <1>4, FunctionsFront DEF DumpConstraints, Analyzer
<1>5. CASE SaveConstraints
  <2> DEFINE e == [Analyzer EXCEPT !.Constraints = @ \cup {slices[Top.slice].constraints}]
  <2>1. stack # << >> /\ analyzers' = InAnalyzer(e) /\ dumped' = dumped
    BY <1>5 DEF SaveConstraints
  <2>2. Top.slice = Len(stack) /\ slices[Len(stack)] \in Slices
    BY <2>1, TopOf DEF Top
  <2>3. slices[Top.slice].constraints \in Seq(AnyCondition)
    BY <2>2 DEF Slices
  <2>4. Analyzer.Constraints \cup {slices[Top.slice].constraints} \in SUBSET Seq(AnyCondition)
    BY <1>1, <2>1, <2>3 DEF Executions
  <2>5. e \in Executions /\ e.function = Analyzer.function
    BY <1>1, <2>1, <2>4 DEF Executions
  <2> HIDE DEF e
  <2> QED
    BY <1>3, <2>1, <2>5, ReachedIs
<1>6. CASE ExecutionPerExpr
  <2> DEFINE n == Head(Top.nodes)
             cs == slices[Top.slice].constraints
             e == Record(Analyzer, cs, n.at)
  <2>1. stack # << >> /\ AtNode("Stmt") /\ dumped' = dumped /\ (analyzers' = analyzers \/ analyzers' = InAnalyzer(e))
    BY <1>6 DEF ExecutionPerExpr, AtNode
  <2>2. Top.slice = Len(stack) /\ slices[Len(stack)] \in Slices
    BY <2>1, TopOf DEF Top
  <2>3. cs \in Seq(AnyCondition)
    BY <2>2 DEF Slices
  <2>4. n.at \in Places
    BY <2>1, AtNodeMeans, NodeShape
  <2> DEFINE x == Append(Analyzer.XSSConstraints, cs)
             y == Append(Analyzer.XSSDataConstraints, n.at)
  <2>5. x \in Seq(Seq(AnyCondition))
    <3> DEFINE S == Seq(AnyCondition)
    <3>1. Analyzer.XSSConstraints \in Seq(S) /\ cs \in S
      BY <1>1, <2>1, <2>3 DEF Executions
    <3> HIDE DEF S, cs
    <3>2. x \in Seq(S)
      BY <3>1
    <3> QED
      BY <3>2 DEF S
  <2>6. y \in Seq(Places)
    BY <1>1, <2>1, <2>4 DEF Executions
  <2>7. e = [Analyzer EXCEPT !.XSSConstraints = x, !.XSSDataConstraints = y]
    BY DEF Record
  <2> HIDE DEF x, y, e
  <2>8. e \in Executions /\ e.function = Analyzer.function
    BY <1>1, <2>1, <2>5, <2>6, <2>7 DEF Executions
  <2> QED
    BY <1>3, <2>1, <2>8, ReachedIs
<1>7. CASE CallFunction
  <2> DEFINE g == Head(Top.nodes).stmt.name
  <2>1. analyzers' = Append(analyzers, NewExecution(g)) /\ dumped' = dumped
    BY <1>7 DEF CallFunction
  <2>2. NewExecution(g).function = g
    BY DEF NewExecution
  <2>3. Functions(analyzers') \subseteq Functions(analyzers) \cup {g}
    BY <1>2, <2>1, <2>2, FunctionsAppend
  <2> QED
    BY <1>7, <2>1, <2>3, ReachedIs
<1>8. CASE FunctionReturns
  <2>1. stack # << >> /\ DumpConstraints /\ analyzers' = Front(analyzers)
    BY <1>8 DEF FunctionReturns, AtNode, Pop
  <2>2. Functions(analyzers') \subseteq Functions(analyzers)
    BY <1>1, <1>2, <2>1, FunctionsFront
  <2> QED
    BY <1>1, <1>4, <2>1, <2>2, ReachedIs
<1>9. CASE EnterBody
  BY <1>9 DEF EnterBody
<1>10. CASE EnterChild
  BY <1>10 DEF EnterChild
<1>11. CASE AlternativeDone
  BY <1>11 DEF AlternativeDone
<1>12. CASE BranchDone
  BY <1>12 DEF BranchDone
<1>13. CASE MainDone
  <2>1. analyzers # << >> /\ DumpConstraints /\ analyzers' = << >>
    BY <1>13 DEF MainDone
  <2>2. Functions(<< >>) = {}
    BY DEF Functions
  <2> QED
    BY <1>4, <2>1, <2>2, ReachedIs
<1>14. ASSUME NEW g \in FunctionNames, Synthesize(g)
       PROVE  f \in Reached(analyzers, dumped)
  BY <1>14 DEF Synthesize
<1> QED
  BY <1>5, <1>6, <1>7, <1>8, <1>9, <1>10, <1>11, <1>12, <1>13, <1>14 DEF AnalysisNext

(* What is left is executed or left to another call. *)
LEMMA KeptStep ==
    ASSUME SwitchesHaveCases, script \in Scripts, StackOK(stack, slices), AnalysisNext
    PROVE  Kept
<1>1. CASE ExecutionPerExpr
  <2>1. /\ AtNode("Stmt") /\ stack' = ToChild(Top) /\ executed' = executed \cup {Head(Top.nodes).at}
    BY <1>1 DEF ExecutionPerExpr
  <2> QED
    BY <2>1, LeftToChild DEF Kept
<1>2. CASE FunctionReturns
  <2>1. /\ AtNode("Stmt") /\ stack' = ToChild(Top) /\ executed' = executed /\ Top.phase # "enter"
    BY <1>2 DEF FunctionReturns
  <2> QED
    BY <2>1, LeftToChild DEF Kept
<1>3. ASSUME UNCHANGED <<stack, executed>>
      PROVE  Kept
  BY <1>3 DEF Kept
<1>4. CASE MainDone
  BY <1>3, <1>4 DEF MainDone
<1>5. CASE \E f \in FunctionNames : Synthesize(f)
  BY <1>3, <1>5 DEF Synthesize
<1> QED
  BY <1>1, <1>2, <1>4, <1>5, KeptSaveConstraints, KeptBranchDone, KeptCallFunction, KeptEnterBody, KeptEnterChild,
     KeptAlternativeDone DEF AnalysisNext

LEMMA CoveredBegins ==
    ASSUME AnalysisInit
    PROVE  Covered
<1> DEFINE b == script["main"]
           p == Whole("main")
           nodes == ConstructCFG(b, p)
           c == Call(nodes, 1)
<1>1. stack = <<c>> /\ analyzers = <<NewExecution("main")>> /\ dumped = << >> /\ script \in Scripts
  BY DEF AnalysisInit
<1>2. "main" \in FunctionNames
  BY ScriptParameters
<1>3. b \in Bodies /\ p \in Places
  BY <1>1, <1>2, ScriptBody, WholePlace
<1>4. Graph("main", nodes, << >>)
  BY <1>1, <1>2, GraphOfFunction
<1>5. nodes \in Seq(NodesAt("main")) /\ c.nodes = nodes /\ c.phase = "enter" /\ c.next = 1
  BY <1>4 DEF Graph, Call
<1>6. Statements(b, p) \subseteq GraphStatements(nodes)
  BY <1>3, GraphHasStatements
<1> HIDE DEF c, nodes
<1>7. GraphStatements(nodes) \subseteq Left(c)
  BY <1>5, LeftFresh
<1>8. Len(stack) = 1 /\ stack[1] = c /\ 1 \in 1 .. 1
  BY <1>1
<1>9. Left(c) \subseteq LeftOf(stack)
  BY <1>8 DEF LeftOf
<1>10. Reached(analyzers, dumped) = {"main"}
  <2>1. DOMAIN dumped = {} /\ Len(analyzers) = 1 /\ analyzers[1].function = "main" /\ \A k \in 1 .. 1 : k = 1
    BY <1>1 DEF NewExecution
  <2>2. 1 \in 1 .. 1
    OBVIOUS
  <2> QED
    BY <2>1, <2>2 DEF Reached
<1> QED
  BY <1>6, <1>7, <1>9, <1>10 DEF Covered

LEMMA CoveredGoesOn ==
    ASSUME SwitchesHaveCases, WalkInvariant, Covered, [AnalysisNext]_analysisVars
    PROVE  Covered'
<1>1. CASE AnalysisNext
  <2>1. /\ script \in Scripts /\ StackOK(stack, slices) /\ AnalyzersOK(stack, analyzers)
        /\ RecordsOK(analyzers, dumped)
    BY DEF WalkInvariant
  <2>2. script' = script
    BY <1>1, <2>1, StackStep
  <2>3. Kept
    BY <1>1, <2>1, KeptStep
  <2>4. ASSUME NEW f \in Reached(analyzers', dumped')
        PROVE  Statements(script[f], Whole(f)) \subseteq executed' \cup LeftOf(stack')
    <3>1. CASE f \in Reached(analyzers, dumped)
      BY <2>3, <3>1 DEF Covered, Kept
    <3>2. CASE CallFunction /\ f = Head(Top.nodes).stmt.name
      BY <2>1, <3>2, KeptCallFunction
    <3> QED
      BY <1>1, <2>1, <2>4, <3>1, <3>2, ReachedStep
  <2> QED
    BY <2>2, <2>4 DEF Covered
<1>2. CASE UNCHANGED analysisVars
  BY <1>2 DEF analysisVars, Covered
<1> QED
  BY <1>1, <1>2

LEMMA CoveredExplored ==
    ASSUME WalkInvariant, Covered
    PROVE  AllExplored
<1> SUFFICES ASSUME analyzers = << >>, NEW f \in DOMAIN dumped
             PROVE  Statements(script[f], Whole(f)) \subseteq executed
  BY DEF AllExplored
<1>1. stack = << >>
  <2>1. CASE stack # << >>
    <3>1. analyzers # << >>
      BY <2>1, AnalyzersNow DEF WalkInvariant, RecordsOK
    <3> QED
      BY <3>1
  <2> QED
    BY <2>1
<1>2. LeftOf(stack) = {}
  BY <1>1 DEF LeftOf
<1>3. f \in Reached(analyzers, dumped)
  BY DEF Reached
<1> QED
  BY <1>2, <1>3 DEF Covered

-----------------------------------------------------------------------------
(* When the analysis ends, every statement of the script and of the        *)
(* functions it calls has been executed, but those ConstructCFG.php leaves *)
(* out.  ExecutionPerNode goes on behind a branch from its alternatives    *)
(* alone (Execution.php:31): behind a switch without a case it does not.   *)
THEOREM EverythingExplored ==
    ASSUME SwitchesHaveCases
    PROVE  AnalysisSpec => []AllExplored
<1>1. AnalysisInit => Covered
  BY CoveredBegins
<1>2. WalkInvariant /\ Covered /\ [AnalysisNext]_analysisVars => Covered'
  BY CoveredGoesOn
<1>3. WalkInvariant /\ Covered => AllExplored
  BY CoveredExplored
<1> QED
  BY <1>1, <1>2, <1>3, AnalysisInductive, PTL DEF AnalysisSpec

===============================================================================
