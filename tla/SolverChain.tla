---------------------------- MODULE SolverChain -----------------------------
(***************************************************************************)
(* The chain of solvers between KLEE's Executor and an SMT solver:         *)
(*                                                                         *)
(*   IndependentSolver, which keeps the constraints a query depends on,    *)
(*   CachingSolver, a cache of validity results,                           *)
(*   CexCachingSolver, a cache of satisfying assignments, and              *)
(*   the core solver, which may fail: it times out.                        *)
(*                                                                         *)
(* An expression is the set of inputs that make it true, its models,       *)
(* together with the array elements it reads; a read at a symbolic index   *)
(* reads every element.  A call has several outcomes, as the core solver   *)
(* is free in the assignment it returns: an operator of this module is the *)
(* set of the outcomes of a call, each the caches it leaves and an answer. *)
(* A list of constraints is a set here; the code compares lists, so that   *)
(* the same constraints in another order are a miss of the validity cache. *)
(***************************************************************************)
EXTENDS Naturals, FiniteSets, Sequences, SequencesExt

CONSTANTS
    Elements,         \* the elements of the symbolic arrays
    ArrayOf,          \* ArrayOf[x]: the Array that x is an element of
    Bytes,            \* what an element may hold, 0 among it
    NoAssignment,     \* a null Assignment pointer: the query has no solution
    Failed,           \* the call returned false
    Aborted           \* the call ran into an assertion

ASSUME SolverNames ==
    0 \in Bytes /\ DOMAIN ArrayOf = Elements

VARIABLES
    options,  \* how this run was started
    caches    \* [validity, cex, table]: CachingSolver's cache,
              \* CexCachingSolver's cache and its assignmentsTable

(* The command line options of KLEE that matter here. *)
CexCacheTryAll   == "cex-cache-try-all" \in options
CexCacheSuperSet == "cex-cache-superset" \in options

(* Whether the core solver may time out in this run. *)
CoreFails == "max-core-solver-time" \in options

(* The values of all the symbolic bytes together, and an Assignment. *)
Inputs == [Elements -> Bytes]

(* What a call answers is never taken for one of the markers. *)
ASSUME Markers ==
    /\ Failed # Aborted /\ NoAssignment \notin {Failed, Aborted} \cup Inputs
    /\ \A m \in {Failed, Aborted} :
          /\ m \notin Inputs /\ m \notin BOOLEAN
          /\ m \notin {"True", "False", "Unknown"}
    /\ \A a \in Inputs, arrays \in SUBSET {ArrayOf[x] : x \in Elements} :
          [values |-> a, bound |-> arrays] \notin {NoAssignment, Failed, Aborted}

-----------------------------------------------------------------------------
(* Expressions. *)

(* The elements an expression reads determine whether it is true. *)
Expression(e) ==
    /\ e.models \subseteq Inputs /\ e.reads \subseteq Elements
    /\ \A a, b \in Inputs :
          (\A x \in e.reads : a[x] = b[x]) => (a \in e.models <=> b \in e.models)

(* Expr::createIsZero of a condition. *)
Neg(e) == [models |-> Inputs \ e.models, reads |-> e.reads]

(* AndExpr and OrExpr over a set of conditions. *)
And(E) == [models |-> {a \in Inputs : \A e \in E : a \in e.models},
           reads |-> UNION {e.reads : e \in E}]
Or(E) == [models |-> UNION {e.models : e \in E}, reads |-> UNION {e.reads : e \in E}]

Models(K) == And(K).models

Satisfies(a, K) == \A e \in K : a \in e.models

(* What ref<Expr>::compare says of e and its negation is some fixed choice *)
(* between the two.                                                        *)
IsSmaller(e) == [x \in Elements |-> 0] \in e.models

-----------------------------------------------------------------------------
(* Outcomes. *)

Outcome(c, a) == [caches |-> c, answer |-> a]

(* The outcomes of a call that goes on with F, unless it stops here. *)
Then(outcomes, F(_, _)) ==
    UNION {IF o.answer \in {Failed, Aborted} THEN {o} ELSE F(o.caches, o.answer)
           : o \in outcomes}

-----------------------------------------------------------------------------
(* The core solver: a satisfying assignment of the arrays that K reads; an *)
(* array without a binding evaluates to zeros.                             *)
CoreInitialValues(K) ==
    LET arrays == {ArrayOf[x] : x \in UNION {e.reads : e \in K}}
        solutions == {a \in Models(K) :
                        \A x \in Elements : ArrayOf[x] \notin arrays => a[x] = 0}
    IN  (IF solutions = {} THEN {NoAssignment} ELSE solutions)
        \cup (IF CoreFails THEN {Failed} ELSE {})

-----------------------------------------------------------------------------
(* CexCachingSolver. *)

(* Mutant: a superset of K without a solution counts as well. *)
SupersetUnchecked(c, K) ==
    LET super == {k \in DOMAIN c.cex : K \subseteq k}
        sub == {k \in DOMAIN c.cex : k \subseteq K /\ c.cex[k] = NoAssignment}
    IN  IF K \in DOMAIN c.cex THEN {c.cex[K]}
        ELSE IF CexCacheSuperSet /\ super # {} THEN {c.cex[k] : k \in super}
        ELSE {c.cex[k] : k \in sub}

(* What the cache knows of the key K: the solution of a superset, that     *)
(* there is none for a subset, or an assignment that happens to satisfy K. *)
searchForAssignment(c, K) ==
    LET super == {k \in DOMAIN c.cex : K \subseteq k /\ c.cex[k] # NoAssignment}
        sub == {k \in DOMAIN c.cex :
                  /\ k \subseteq K
                  /\ \/ c.cex[k] = NoAssignment
                     \/ ~CexCacheTryAll /\ Satisfies(c.cex[k], K)}
        table == IF CexCacheTryAll THEN {a \in c.table : Satisfies(a, K)} ELSE {}
    IN  IF K \in DOMAIN c.cex THEN {c.cex[K]}
        ELSE IF CexCacheSuperSet /\ super # {} THEN {c.cex[k] : k \in super}
        ELSE IF sub # {} THEN {c.cex[k] : k \in sub}
        ELSE table

(* Mutant: a query that timed out is taken to have no solution. *)
MemoizeTimeout(c, K, a) ==
    [c EXCEPT !.cex = [k \in DOMAIN c.cex \cup {K} |->
                          IF k # K THEN c.cex[k]
                          ELSE IF a = Failed THEN NoAssignment ELSE a],
              !.table = c.table \cup ({a} \ {NoAssignment, Failed})]

(* Mutant: a failure is kept like an assignment. *)
MemoizeFailure(c, K, a) ==
    [c EXCEPT !.cex = [k \in DOMAIN c.cex \cup {K} |-> IF k = K THEN a ELSE c.cex[k]]]

(* The core solver's answer a for K is kept, a failure is not. *)
Memoize(c, K, a) ==
    IF a = Failed THEN c
    ELSE [c EXCEPT !.cex = [k \in DOMAIN c.cex \cup {K} |->
                               IF k = K THEN a ELSE c.cex[k]],
                   !.table = c.table \cup ({a} \ {NoAssignment})]

(* An assignment that satisfies K, from the cache or the core solver. *)
getAssignment(c, K) ==
    IF searchForAssignment(c, K) # {}
    THEN {Outcome(c, a) : a \in searchForAssignment(c, K)}
    ELSE {Outcome(Memoize(c, K, a), a) : a \in CoreInitialValues(K)}

(* The key of a query whether e follows from the constraints C. *)
Key(C, e) == C \cup {Neg(e)}

(* CexCachingSolver::computeTruth. *)
CexTruth(c, C, e) ==
    Then(getAssignment(c, Key(C, e)), LAMBDA d, a : {Outcome(d, a = NoAssignment)})

(* CexCachingSolver::computeValidity: an assignment of the constraints     *)
(* shows one side of e; the other is asked for.                            *)
CexValidity(c, C, e) ==
    Then(getAssignment(c, C), LAMBDA d, a :
        IF a = NoAssignment THEN {Outcome(d, Aborted)}   \* asserted
        ELSE IF a \in e.models
        THEN Then(getAssignment(d, Key(C, e)), LAMBDA f, b :
                {Outcome(f, IF b = NoAssignment THEN "True" ELSE "Unknown")})
        ELSE Then(getAssignment(d, Key(C, Neg(e))), LAMBDA f, b :
                {Outcome(f, IF b = NoAssignment THEN "False" ELSE "Unknown")}))

(* CexCachingSolver::computeValue, of a condition. *)
CexValue(c, C, e) ==
    Then(getAssignment(c, C), LAMBDA d, a :
        IF a = NoAssignment THEN {Outcome(d, Aborted)}   \* asserted
        ELSE {Outcome(d, a \in e.models)})

-----------------------------------------------------------------------------
(* CachingSolver. *)

Negated == [MustBeTrue |-> "MustBeFalse", MustBeFalse |-> "MustBeTrue",
            MayBeTrue |-> "MayBeFalse", MayBeFalse |-> "MayBeTrue",
            TrueOrFalse |-> "TrueOrFalse", None |-> "None"]

Negate(v) == Negated[v]

(* A query and its negation share an entry. *)
Entry(C, e) == [constraints |-> C, query |-> IF IsSmaller(e) THEN e ELSE Neg(e)]

cacheLookup(c, C, e) ==
    IF Entry(C, e) \notin DOMAIN c.validity THEN "None"
    ELSE IF IsSmaller(e) THEN c.validity[Entry(C, e)]
    ELSE Negate(c.validity[Entry(C, e)])

(* Mutant: the result is stored as it came, for a negated query too. *)
InsertUnnegated(c, C, e, v) ==
    IF Entry(C, e) \in DOMAIN c.validity THEN c
    ELSE [c EXCEPT !.validity = [k \in DOMAIN c.validity \cup {Entry(C, e)} |->
             IF k # Entry(C, e) THEN c.validity[k] ELSE v]]

(* An entry that exists stays as it is. *)
cacheInsert(c, C, e, v) ==
    IF Entry(C, e) \in DOMAIN c.validity THEN c
    ELSE [c EXCEPT !.validity = [k \in DOMAIN c.validity \cup {Entry(C, e)} |->
             IF k # Entry(C, e) THEN c.validity[k]
             ELSE IF IsSmaller(e) THEN v ELSE Negate(v)]]

Cached(c, C, e, v, answer) == {Outcome(cacheInsert(c, C, e, v), answer)}

(* CachingSolver::computeValidity: of a result that says only that one     *)
(* side is possible, the other is asked for.                               *)
CachingValidity(c, C, e) ==
    LET v == cacheLookup(c, C, e)
    IN  CASE v = "MustBeTrue" -> {Outcome(c, "True")}
          [] v = "MustBeFalse" -> {Outcome(c, "False")}
          [] v = "TrueOrFalse" -> {Outcome(c, "Unknown")}
          [] v = "MayBeTrue" ->
                Then(CexTruth(c, C, e), LAMBDA d, valid :
                    IF valid THEN Cached(d, C, e, "MustBeTrue", "True")
                    ELSE Cached(d, C, e, "TrueOrFalse", "Unknown"))
          [] v = "MayBeFalse" ->
                Then(CexTruth(c, C, Neg(e)), LAMBDA d, valid :
                    IF valid THEN Cached(d, C, e, "MustBeFalse", "False")
                    ELSE Cached(d, C, e, "TrueOrFalse", "Unknown"))
          [] v = "None" ->
                Then(CexValidity(c, C, e), LAMBDA d, r :
                    Cached(d, C, e, CASE r = "True" -> "MustBeTrue"
                                      [] r = "False" -> "MustBeFalse"
                                      [] OTHER -> "TrueOrFalse", r))

(* CachingSolver::computeTruth. *)
CachingTruth(c, C, e) ==
    LET v == cacheLookup(c, C, e)
    IN  IF v \notin {"None", "MayBeTrue"}
        THEN {Outcome(c, v = "MustBeTrue")}
        ELSE Then(CexTruth(c, C, e), LAMBDA d, valid :
                Cached(d, C, e, IF valid THEN "MustBeTrue"
                                ELSE IF v = "MayBeTrue" THEN "TrueOrFalse"
                                ELSE "MayBeFalse", valid))

-----------------------------------------------------------------------------
(* IndependentSolver. *)

(* Mutant: only what the query itself reads. *)
ElementsOfQuery(K, e) == e.reads

(* The least set of elements that holds those e reads, and those of every  *)
(* condition of K that shares one with it.                                 *)
eltsClosure(K, e) ==
    LET closed == {X \in SUBSET Elements :
                     /\ e.reads \subseteq X
                     /\ \A f \in K : f.reads \cap X = {} \/ f.reads \subseteq X}
    IN  {x \in Elements : \A X \in closed : x \in X}

(* getIndependentConstraints: the constraints the query e depends on. *)
Required(C, e) ==
    LET elements == eltsClosure(C, e)
    IN  {f \in C : f.reads \cap elements # {}}

(* getAllIndependentConstraintsSets: K in parts that share no element. *)
Factors(K) == {Required(K, e) : e \in {f \in K : f.reads # {}}}

(* Solver::evaluate, mustBeTrue and getValue of a condition. *)
evaluate(c, C, e)   == CachingValidity(c, Required(C, e), e)
mustBeTrue(c, C, e) == CachingTruth(c, Required(C, e), e)
getValue(c, C, e)   == CexValue(c, Required(C, e), e)
mayBeTrue(c, C, e)  == Then(mustBeTrue(c, C, Neg(e)), LAMBDA d, b : {Outcome(d, ~b)})

(* Mutant: a later factor copies the array as a whole as well. *)
CombineArrays(point, factor, a) ==
    LET arrays == {ArrayOf[x] : x \in UNION {e.reads : e \in factor}}
    IN  [values |-> [x \in Elements |->
                        IF ArrayOf[x] \in arrays THEN a[x] ELSE point.values[x]],
         bound |-> point.bound \cup arrays]

(* The values of each factor's elements go into one assignment.  An array  *)
(* seen for the first time is copied as a whole.                           *)
Combine(point, factor, a) ==
    LET read == UNION {e.reads : e \in factor}
        arrays == {ArrayOf[x] : x \in read}
    IN  [values |-> [x \in Elements |->
                        IF x \in read \/ ArrayOf[x] \in arrays \ point.bound
                        THEN a[x] ELSE point.values[x]],
         bound |-> point.bound \cup arrays]

(* The outcomes once one more factor is solved; without a solution of one  *)
(* the rest is not tried.                                                  *)
SolveFactor(outcomes, factor) ==
    Then(outcomes, LAMBDA d, point :
        IF point = NoAssignment THEN {Outcome(d, point)}
        ELSE Then(getAssignment(d, factor), LAMBDA f, a :
                {Outcome(f, IF a = NoAssignment THEN a ELSE Combine(point, factor, a))}))

(* The outcomes after the first i factors of a list, at each i. *)
SolveFactors(c, factors) ==
    LET solved[i \in 0 .. Len(factors)] ==
            IF i = 0 THEN {Outcome(c, [values |-> [x \in Elements |-> 0], bound |-> {}])}
            ELSE SolveFactor(solved[i - 1], factors[i])
    IN  solved

(* getInitialValues: the factors are solved one after the other, and the   *)
(* point they make up is asserted to satisfy K.                            *)
getInitialValues(c, K) ==
    LET factors == SetToSeq(Factors(K))
    IN  Then(SolveFactors(c, factors)[Len(factors)], LAMBDA d, point :
            {Outcome(d, IF point = NoAssignment THEN Failed
                        ELSE IF Satisfies(point.values, K) THEN point.values
                        ELSE Aborted)})

-----------------------------------------------------------------------------
(* Properties of the caches. *)

Empty == [validity |-> [k \in {} |-> "None"], cex |-> [k \in {} |-> NoAssignment],
          table |-> {}]

(* An entry of the counterexample cache is a solution of its key, or says  *)
(* rightly that it has none, also when it was inserted for other queries   *)
(* (CexCachingSolver::getAssignment and searchForAssignment).              *)
CexSound ==
    /\ \A K \in DOMAIN caches.cex :
          IF caches.cex[K] = NoAssignment THEN Models(K) = {}
          ELSE caches.cex[K] \in Inputs /\ Satisfies(caches.cex[K], K)
    /\ caches.table \subseteq Inputs

(* What an entry says of its query still holds, however often the query    *)
(* and its negation were asked since (CachingSolver's cacheInsert keeps    *)
(* the first result for ever).                                             *)
ValiditySound ==
    \A k \in DOMAIN caches.validity :
        LET v == caches.validity[k]
            C == Models(k.constraints)
        IN  /\ v = "MustBeTrue" => C \subseteq k.query.models
            /\ v = "MustBeFalse" => C \cap k.query.models = {}
            /\ v \in {"MayBeTrue", "TrueOrFalse"} => C \cap k.query.models # {}
            /\ v \in {"MayBeFalse", "TrueOrFalse"} => ~(C \subseteq k.query.models)

(* Both hold however the calls of the paths interleave and fail. *)
CachesSound == CexSound /\ ValiditySound
=============================================================================
