------------------------ MODULE PathExplorationProofs -------------------------
(***************************************************************************)
(* The paths of a run implement InputRegions, on the answers of the whole  *)
(* solver chain, for any program, arrays, caches and options.              *)
(*                                                                         *)
(* The first part is about the chain: every call answers for all           *)
(* constraints of a path, and leaves the caches sound, whatever the caches *)
(* hold.  What IndependentSolver slices off does not matter as long as the *)
(* constraints have a solution: an assignment of the part that a query     *)
(* depends on goes together with a solution of the rest (Independent).     *)
(*                                                                         *)
(* The loops of the chain are recursive functions on 0 .. n.  That one has *)
(* a value at every index, and what holds of it at every index, follows    *)
(* from SetInduction, for the set of the indices where it holds.           *)
(*                                                                         *)
(* The second part is about the paths.  The solvers answer rightly because *)
(* every path has an input, and every path has an input because the        *)
(* solvers answer rightly: both are parts of one invariant.                *)
(***************************************************************************)
EXTENDS PathExploration, FiniteSetTheorems, TLAPS

(* Induction, for a set of numbers. *)
LEMMA SetInduction ==
    ASSUME NEW S \in SUBSET Nat, 0 \in S, \A n \in S : n + 1 \in S
    PROVE  S = Nat
<1> DEFINE R == OpToRel(<, Nat)
           T == Nat \ S
<1>1. IsWellFoundedOn(R, Nat)
  BY NatLessThanWellFounded
<1>2. \A x, y : <<y, x>> \in R <=> x \in Nat /\ y \in Nat /\ y < x
  BY DEF OpToRel
<1>3. T \subseteq Nat
  OBVIOUS
<1> HIDE DEF R, T
<1>4. CASE T # {}
  <2>1. PICK x \in T : \A y \in T : ~(<<y, x>> \in R)
    BY <1>1, <1>3, <1>4, WFMin
  <2>2. x \in Nat /\ x # 0
    BY DEF T
  <2>3. x - 1 \in Nat /\ <<x - 1, x>> \in R
    BY <2>2, <1>2
  <2>4. x - 1 \in S
    BY <2>1, <2>3 DEF T
  <2>5. (x - 1) + 1 \in S
    BY <2>4
  <2> QED
    BY <2>5, <2>2 DEF T
<1> QED
  BY <1>4 DEF T

(* Induction up to n. *)
LEMMA IndexInduction ==
    ASSUME NEW n \in Nat, NEW S, 0 \in S, \A i \in 0 .. n - 1 : i \in S => i + 1 \in S
    PROVE  0 .. n \subseteq S
<1> DEFINE T == {i \in Nat : i \in S \/ i > n}
<1>1. 0 \in T /\ \A i \in T : i + 1 \in T
  OBVIOUS
<1>2. T = Nat
  BY <1>1, SetInduction
<1> QED
  BY <1>2

-----------------------------------------------------------------------------
(* Expressions. *)

Expressions(K) == \A e \in K : Expression(e)

LEMMA ModelsOf ==
    ASSUME NEW K
    PROVE  \A a : a \in Models(K) <=> a \in Inputs /\ \A e \in K : a \in e.models
BY DEF Models, And

LEMMA NegIs ==
    ASSUME NEW e
    PROVE  /\ \A a \in Inputs : a \in Neg(e).models <=> a \notin e.models
           /\ Neg(e).models \subseteq Inputs
           /\ Neg(e).reads = e.reads
BY DEF Neg

LEMMA NegExpression ==
    ASSUME NEW e, Expression(e)
    PROVE  Expression(Neg(e))
BY NegIs DEF Expression

LEMMA AndExpression ==
    ASSUME NEW K, Expressions(K)
    PROVE  Expression(And(K))
<1> DEFINE R == UNION {e.reads : e \in K}
<1>1. /\ And(K).reads = R
      /\ \A a : a \in And(K).models <=> a \in Inputs /\ \A e \in K : a \in e.models
  BY DEF And
<1>2. R \subseteq Elements
  BY DEF Expressions, Expression
<1>3. \A e \in K : \A x \in e.reads : x \in R
  OBVIOUS
<1>4. ASSUME NEW a \in Inputs, NEW b \in Inputs, \A x \in R : a[x] = b[x], NEW e \in K
      PROVE  a \in e.models <=> b \in e.models
  BY <1>3, <1>4 DEF Expressions, Expression
<1> HIDE DEF R
<1> QED
  BY <1>1, <1>2, <1>4 DEF Expression

LEMMA OrExpression ==
    ASSUME NEW K, Expressions(K)
    PROVE  Expression(Or(K))
<1> DEFINE R == UNION {e.reads : e \in K}
<1>1. /\ Or(K).reads = R
      /\ \A a : a \in Or(K).models <=> \E e \in K : a \in e.models
  BY DEF Or
<1>2. R \subseteq Elements /\ Or(K).models \subseteq Inputs
  BY <1>1 DEF Expressions, Expression
<1>3. \A e \in K : \A x \in e.reads : x \in R
  OBVIOUS
<1>4. ASSUME NEW a \in Inputs, NEW b \in Inputs, \A x \in R : a[x] = b[x], NEW e \in K
      PROVE  a \in e.models <=> b \in e.models
  BY <1>3, <1>4 DEF Expressions, Expression
<1> HIDE DEF R
<1> QED
  BY <1>1, <1>2, <1>4 DEF Expression

-----------------------------------------------------------------------------
(* IndependentSolver's slices. *)

Closed(X, K) == \A f \in K : f.reads \cap X = {} \/ f.reads \subseteq X

(* The closure of a query is closed, and the least set that is. *)
LEMMA ClosureClosed ==
    ASSUME NEW K, Expressions(K), NEW e, Expression(e)
    PROVE  LET X == eltsClosure(K, e)
           IN  /\ e.reads \subseteq X /\ X \subseteq Elements /\ Closed(X, K)
               /\ \A Y \in SUBSET Elements : e.reads \subseteq Y /\ Closed(Y, K) => X \subseteq Y
<1> DEFINE closed == {Y \in SUBSET Elements : e.reads \subseteq Y /\ Closed(Y, K)}
           X == {x \in Elements : \A Y \in closed : x \in Y}
<1>1. X = eltsClosure(K, e)
  BY DEF eltsClosure, Closed
<1>2. e.reads \subseteq X
  BY DEF Expression
<1>3. ASSUME NEW f \in K, NEW y \in f.reads, y \in X
      PROVE  f.reads \subseteq X
  <2>1. \A Y \in closed : f.reads \subseteq Y
    BY <1>3 DEF Closed
  <2> QED
    BY <2>1 DEF Expressions, Expression
<1>4. Closed(X, K)
  BY <1>3 DEF Closed
<1>5. \A Y \in closed : X \subseteq Y
  OBVIOUS
<1> QED
  BY <1>1, <1>2, <1>4, <1>5

(* A solution of the constraints that e depends on and one of all of them  *)
(* make up a third that agrees with the first on e.                        *)
LEMMA Independent ==
    ASSUME NEW K, Expressions(K), NEW e, Expression(e),
           NEW a \in Models(Required(K, e)), NEW b \in Models(K)
    PROVE  \E c \in Models(K) : c \in e.models <=> a \in e.models
<1> DEFINE X == eltsClosure(K, e)
           c == [x \in Elements |-> IF x \in X THEN a[x] ELSE b[x]]
<1>1. e.reads \subseteq X /\ X \subseteq Elements /\ Closed(X, K)
  BY ClosureClosed
<1>2. a \in Inputs /\ b \in Inputs /\ \A f \in Required(K, e) : a \in f.models
  BY ModelsOf
<1>3. c \in Inputs
  BY <1>2 DEF Inputs
<1>4. c \in e.models <=> a \in e.models
  BY <1>1, <1>2, <1>3 DEF Expression
<1>5. ASSUME NEW f \in K
      PROVE  c \in f.models
  <2>1. Expression(f) /\ b \in f.models
    BY ModelsOf DEF Expressions
  <2>2. CASE f.reads \cap X = {}
    <3>1. \A x \in f.reads : c[x] = b[x]
      BY <2>1, <2>2 DEF Expression
    <3> QED
      BY <1>2, <1>3, <2>1, <3>1 DEF Expression
  <2>3. CASE f.reads \cap X # {}
    <3>1. f.reads \subseteq X
      BY <1>1, <2>3 DEF Closed
    <3>2. \A x \in f.reads : c[x] = a[x]
      BY <2>1, <3>1 DEF Expression
    <3>3. a \in f.models
      BY <1>2, <2>3 DEF Required
    <3> QED
      BY <1>2, <1>3, <2>1, <3>2, <3>3 DEF Expression
  <2> QED
    BY <2>2, <2>3
<1>6. c \in Models(K)
  BY <1>3, <1>5, ModelsOf
<1> QED
  BY <1>4, <1>6

LEMMA RequiredWeaker ==
    ASSUME NEW K, NEW e, Expressions(K)
    PROVE  Required(K, e) \subseteq K /\ Expressions(Required(K, e)) /\ Models(K) \subseteq Models(Required(K, e))
<1>1. Required(K, e) \subseteq K
  BY DEF Required
<1> QED
  BY <1>1, ModelsOf DEF Expressions

-----------------------------------------------------------------------------
(* The core solver and the counterexample cache. *)

(* What a solver may say of K. *)
Solves(a, K) == IF a = NoAssignment THEN Models(K) = {} ELSE a \in Models(K)

AnswerTo(a, K) == (a = Failed /\ CoreFails) \/ (a # Failed /\ Solves(a, K))

(* What an entry of the validity cache says of e under C. *)
Says(v, C, e) ==
    /\ v \in DOMAIN Negated
    /\ v = "MustBeTrue" => Models(C) \subseteq e.models
    /\ v = "MustBeFalse" => Models(C) \cap e.models = {}
    /\ v \in {"MayBeTrue", "TrueOrFalse"} => Models(C) \cap e.models # {}
    /\ v \in {"MayBeFalse", "TrueOrFalse"} => ~(Models(C) \subseteq e.models)

(* The caches answer rightly whatever they are asked. *)
Sound(c) ==
    /\ c = [validity |-> c.validity, cex |-> c.cex, table |-> c.table]
    /\ \A K \in DOMAIN c.cex : Solves(c.cex[K], K)
    /\ c.table \subseteq Inputs
    /\ \A k \in DOMAIN c.validity : Says(c.validity[k], k.constraints, k.query)

LEMMA MarkersApart ==
    /\ Failed # Aborted /\ NoAssignment # Failed /\ NoAssignment # Aborted
    /\ \A a \in Inputs : a # NoAssignment /\ a # Failed /\ a # Aborted
    /\ TRUE # Failed /\ TRUE # Aborted /\ FALSE # Failed /\ FALSE # Aborted
    /\ "True" \notin {Failed, Aborted} /\ "False" \notin {Failed, Aborted}
    /\ "Unknown" \notin {Failed, Aborted}
BY Markers

(* If it has no solution with zeros in the arrays that K does not read, K  *)
(* has none.                                                               *)
LEMMA CoreAnswers ==
    ASSUME NEW K, Expressions(K), NEW a \in CoreInitialValues(K)
    PROVE  AnswerTo(a, K)
<1> DEFINE arrays == {ArrayOf[x] : x \in UNION {e.reads : e \in K}}
           solutions == {b \in Models(K) :
                           \A x \in Elements : ArrayOf[x] \notin arrays => b[x] = 0}
<1>1. \/ a \in solutions
      \/ a = NoAssignment /\ solutions = {}
      \/ a = Failed /\ CoreFails
  BY DEF CoreInitialValues
<1>2. ASSUME NEW b \in Models(K)
      PROVE  solutions # {}
  <2> DEFINE z == [x \in Elements |-> IF ArrayOf[x] \in arrays THEN b[x] ELSE 0]
  <2>1. b \in Inputs /\ \A e \in K : b \in e.models
    BY ModelsOf
  <2>2. z \in Inputs
    BY <2>1, SolverNames DEF Inputs
  <2>3. ASSUME NEW e \in K
        PROVE  z \in e.models
    <3>1. \A x \in e.reads : x \in Elements /\ ArrayOf[x] \in arrays
      BY DEF Expressions, Expression
    <3>2. \A x \in e.reads : z[x] = b[x]
      BY <3>1
    <3> QED
      BY <2>1, <2>2, <3>2 DEF Expressions, Expression
  <2>4. z \in Models(K)
    BY <2>2, <2>3, ModelsOf
  <2>5. \A x \in Elements : ArrayOf[x] \notin arrays => z[x] = 0
    OBVIOUS
  <2> HIDE DEF z, arrays
  <2> QED
    BY <2>4, <2>5
<1>3. solutions \subseteq Models(K)
  OBVIOUS
<1> HIDE DEF solutions
<1>4. \A b \in Models(K) : b # NoAssignment /\ b # Failed
  BY ModelsOf, MarkersApart
<1> QED
  BY <1>1, <1>2, <1>3, <1>4, MarkersApart DEF AnswerTo, Solves

LEMMA SubsetModels ==
    ASSUME NEW K, NEW L, K \subseteq L
    PROVE  Models(L) \subseteq Models(K)
BY ModelsOf

(* Whatever is found answers K, also when it was kept for other queries.   *)
LEMMA SearchAnswers ==
    ASSUME NEW c, Sound(c), NEW K, NEW a \in searchForAssignment(c, K)
    PROVE  a # Failed /\ Solves(a, K)
<1>1. CASE K \in DOMAIN c.cex /\ a = c.cex[K]
  <2>1. Solves(a, K)
    BY <1>1 DEF Sound
  <2> QED
    BY <2>1, ModelsOf, MarkersApart DEF Solves
<1>2. CASE \E k \in DOMAIN c.cex : K \subseteq k /\ c.cex[k] # NoAssignment /\ a = c.cex[k]
  <2>1. PICK k \in DOMAIN c.cex : K \subseteq k /\ c.cex[k] # NoAssignment /\ a = c.cex[k]
    BY <1>2
  <2>2. a \in Models(k)
    BY <2>1 DEF Sound, Solves
  <2> QED
    BY <2>1, <2>2, SubsetModels, ModelsOf, MarkersApart DEF Solves
<1>3. CASE \E k \in DOMAIN c.cex : k \subseteq K /\ c.cex[k] = NoAssignment /\ a = c.cex[k]
  <2>1. PICK k \in DOMAIN c.cex : k \subseteq K /\ c.cex[k] = NoAssignment /\ a = c.cex[k]
    BY <1>3
  <2>2. Models(k) = {}
    BY <2>1 DEF Sound, Solves
  <2> QED
    BY <2>1, <2>2, SubsetModels, MarkersApart DEF Solves
<1>4. CASE \E k \in DOMAIN c.cex : c.cex[k] # NoAssignment /\ Satisfies(c.cex[k], K) /\ a = c.cex[k]
  <2>1. PICK k \in DOMAIN c.cex : c.cex[k] # NoAssignment /\ Satisfies(c.cex[k], K) /\ a = c.cex[k]
    BY <1>4
  <2>2. a \in Models(k)
    BY <2>1 DEF Sound, Solves
  <2> QED
    BY <2>1, <2>2, ModelsOf, MarkersApart DEF Solves, Satisfies
<1>5. CASE a \in c.table /\ Satisfies(a, K)
  BY <1>5, ModelsOf, MarkersApart DEF Sound, Solves, Satisfies
<1> QED
  BY <1>1, <1>2, <1>3, <1>4, <1>5 DEF searchForAssignment

LEMMA MemoizeSound ==
    ASSUME NEW c, Sound(c), NEW K, NEW a, AnswerTo(a, K)
    PROVE  Sound(Memoize(c, K, a))
<1>1. CASE a = Failed
  BY <1>1 DEF Memoize
<1>2. CASE a # Failed
  <2> DEFINE d == Memoize(c, K, a)
             x == [k \in DOMAIN c.cex \cup {K} |-> IF k = K THEN a ELSE c.cex[k]]
             t == c.table \cup ({a} \ {NoAssignment})
  <2>1. d = [c EXCEPT !.cex = x, !.table = t]
    BY <1>2 DEF Memoize
  <2>2. c = [validity |-> c.validity, cex |-> c.cex, table |-> c.table]
    BY DEF Sound
  <2>3. d = [validity |-> c.validity, cex |-> x, table |-> t]
    <3> HIDE DEF d, x, t
    <3> QED
      BY <2>1, <2>2
  <2>4. Solves(a, K)
    BY <1>2 DEF AnswerTo
  <2>5. \A k \in DOMAIN x : Solves(x[k], k)
    BY <2>4 DEF Sound
  <2>6. t \subseteq Inputs
    BY <2>4, ModelsOf DEF Sound, Solves
  <2>7. \A k \in DOMAIN c.validity : Says(c.validity[k], k.constraints, k.query)
    BY DEF Sound
  <2> HIDE DEF x, t, d
  <2>8. d.validity = c.validity /\ d.cex = x /\ d.table = t
    BY <2>3
  <2>9. d = [validity |-> d.validity, cex |-> d.cex, table |-> d.table]
    BY <2>3, <2>8
  <2>10. Sound(d)
    BY <2>5, <2>6, <2>7, <2>8, <2>9 DEF Sound
  <2> QED
    BY <2>10 DEF d
<1> QED
  BY <1>1, <1>2

(* Each outcome of a query to CexCachingSolver leaves sound caches and an  *)
(* answer.                                                                 *)
LEMMA AssignmentAnswers ==
    ASSUME NEW c, Sound(c), NEW K, Expressions(K), NEW o \in getAssignment(c, K)
    PROVE  Sound(o.caches) /\ AnswerTo(o.answer, K)
<1>1. CASE searchForAssignment(c, K) # {}
  <2>1. PICK a \in searchForAssignment(c, K) : o = Outcome(c, a)
    BY <1>1 DEF getAssignment
  <2> QED
    BY <2>1, SearchAnswers DEF Outcome, AnswerTo
<1>2. CASE searchForAssignment(c, K) = {}
  <2>1. PICK a \in CoreInitialValues(K) : o = Outcome(Memoize(c, K, a), a)
    BY <1>2 DEF getAssignment
  <2> QED
    BY <2>1, CoreAnswers, MemoizeSound DEF Outcome
<1> QED
  BY <1>1, <1>2

-----------------------------------------------------------------------------
(* CexCachingSolver's queries. *)

Valid(C, e) == Models(C) \subseteq e.models

Possible(C, e) == Models(C) \cap e.models # {}

TruthRight(t, C, e) ==
    \/ t = Failed /\ CoreFails
    \/ t = TRUE /\ Valid(C, e)
    \/ t = FALSE /\ ~Valid(C, e)

ValidityRight(r, C, e) ==
    \/ r = Failed /\ CoreFails
    \/ r = "True" /\ Valid(C, e)
    \/ r = "False" /\ ~Possible(C, e)
    \/ r = "Unknown" /\ Possible(C, e) /\ ~Valid(C, e)

ValueRight(v, C, e) ==
    \/ v = Failed /\ CoreFails
    \/ v = TRUE /\ Possible(C, e)
    \/ v = FALSE /\ ~Valid(C, e)

LEMMA KeyAnswers ==
    ASSUME NEW C, Expressions(C), NEW e, Expression(e)
    PROVE  /\ Expressions(Key(C, e)) /\ Expressions(Key(C, Neg(e)))
           /\ \A a : AnswerTo(a, Key(C, e)) =>
                 /\ (a = Failed /\ CoreFails) \/ (a # Failed /\ a # Aborted)
                 /\ a = NoAssignment => Valid(C, e)
                 /\ a # Failed /\ a # NoAssignment => ~Valid(C, e)
           /\ \A a : AnswerTo(a, Key(C, Neg(e))) =>
                 /\ (a = Failed /\ CoreFails) \/ (a # Failed /\ a # Aborted)
                 /\ a = NoAssignment => ~Possible(C, e)
                 /\ a # Failed /\ a # NoAssignment => Possible(C, e)
<1>1. Expression(Neg(e)) /\ Expression(Neg(Neg(e)))
  BY NegExpression
<1>2. Expressions(Key(C, e)) /\ Expressions(Key(C, Neg(e)))
  BY <1>1 DEF Key, Expressions
<1>3. /\ \A a : a \in Models(Key(C, e)) <=> a \in Models(C) /\ a \notin e.models
      /\ \A a : a \in Models(Key(C, Neg(e))) <=> a \in Models(C) /\ a \in e.models
  BY <1>1, ModelsOf, NegIs DEF Key
<1>4. \A K, a : a \in Models(K) => a # Failed /\ a # Aborted /\ a # NoAssignment
  BY ModelsOf, MarkersApart
<1>5. \A a : AnswerTo(a, Key(C, e)) =>
         /\ (a = Failed /\ CoreFails) \/ (a # Failed /\ a # Aborted)
         /\ a = NoAssignment => Valid(C, e)
         /\ a # Failed /\ a # NoAssignment => ~Valid(C, e)
  BY <1>3, <1>4, MarkersApart DEF AnswerTo, Solves, Valid
<1>6. \A a : AnswerTo(a, Key(C, Neg(e))) =>
         /\ (a = Failed /\ CoreFails) \/ (a # Failed /\ a # Aborted)
         /\ a = NoAssignment => ~Possible(C, e)
         /\ a # Failed /\ a # NoAssignment => Possible(C, e)
  BY <1>3, <1>4, MarkersApart DEF AnswerTo, Solves, Possible
<1> QED
  BY <1>2, <1>5, <1>6

LEMMA AnswerIsSolution ==
    ASSUME NEW K, NEW a, AnswerTo(a, K), Models(K) # {}
    PROVE  (a = Failed /\ CoreFails) \/ (a \in Models(K) /\ a \notin {Failed, Aborted, NoAssignment})
BY ModelsOf, MarkersApart DEF AnswerTo, Solves

LEMMA CexTruthRight ==
    ASSUME NEW c, Sound(c), NEW C, Expressions(C), NEW e, Expression(e),
           NEW o \in CexTruth(c, C, e)
    PROVE  Sound(o.caches) /\ TruthRight(o.answer, C, e)
<1>1. PICK q \in getAssignment(c, Key(C, e)) :
         \/ q.answer \in {Failed, Aborted} /\ o = q
         \/ q.answer \notin {Failed, Aborted} /\ o = Outcome(q.caches, q.answer = NoAssignment)
  BY DEF CexTruth, Then
<1>2. Sound(q.caches) /\ AnswerTo(q.answer, Key(C, e))
  BY AssignmentAnswers, KeyAnswers
<1>3. CASE q.answer \in {Failed, Aborted}
  <2>1. o = q
    BY <1>1, <1>3
  <2>2. o.answer = Failed /\ CoreFails
    BY <1>2, <1>3, <2>1, KeyAnswers
  <2> QED
    BY <1>2, <2>1, <2>2 DEF TruthRight
<1>4. CASE q.answer \notin {Failed, Aborted} /\ q.answer = NoAssignment
  <2>1. o = Outcome(q.caches, TRUE)
    BY <1>1, <1>4
  <2>2. o.caches = q.caches /\ o.answer = TRUE
    BY <2>1 DEF Outcome
  <2>3. Valid(C, e)
    BY <1>2, <1>4, KeyAnswers
  <2> QED
    BY <1>2, <2>2, <2>3 DEF TruthRight
<1>5. CASE q.answer \notin {Failed, Aborted} /\ q.answer # NoAssignment
  <2>1. o = Outcome(q.caches, FALSE)
    BY <1>1, <1>5
  <2>2. o.caches = q.caches /\ o.answer = FALSE
    BY <2>1 DEF Outcome
  <2>3. ~Valid(C, e)
    BY <1>2, <1>5, KeyAnswers
  <2> QED
    BY <1>2, <2>2, <2>3 DEF TruthRight
<1> QED
  BY <1>3, <1>4, <1>5

LEMMA CexValidityRight ==
    ASSUME NEW c, Sound(c), NEW C, Expressions(C), Models(C) # {}, NEW e, Expression(e),
           NEW o \in CexValidity(c, C, e)
    PROVE  Sound(o.caches) /\ ValidityRight(o.answer, C, e)
<1>1. PICK q \in getAssignment(c, C) :
         \/ q.answer \in {Failed, Aborted} /\ o = q
         \/ /\ q.answer \notin {Failed, Aborted}
            /\ q.answer = NoAssignment /\ o = Outcome(q.caches, Aborted)
         \/ /\ q.answer \notin {Failed, Aborted} /\ q.answer # NoAssignment
            /\ q.answer \in e.models
            /\ \E r \in getAssignment(q.caches, Key(C, e)) :
                  \/ r.answer \in {Failed, Aborted} /\ o = r
                  \/ r.answer \notin {Failed, Aborted}
                     /\ o = Outcome(r.caches, IF r.answer = NoAssignment THEN "True" ELSE "Unknown")
         \/ /\ q.answer \notin {Failed, Aborted} /\ q.answer # NoAssignment
            /\ q.answer \notin e.models
            /\ \E r \in getAssignment(q.caches, Key(C, Neg(e))) :
                  \/ r.answer \in {Failed, Aborted} /\ o = r
                  \/ r.answer \notin {Failed, Aborted}
                     /\ o = Outcome(r.caches, IF r.answer = NoAssignment THEN "False" ELSE "Unknown")
  BY DEF CexValidity, Then
<1>2. Sound(q.caches) /\ AnswerTo(q.answer, C)
  BY AssignmentAnswers
<1>3. CASE q.answer = Failed /\ CoreFails
  BY <1>1, <1>2, <1>3 DEF ValidityRight
<1>4. CASE q.answer \in Models(C) /\ q.answer \in e.models
  <2>1. q.answer \notin {Failed, Aborted, NoAssignment}
    BY <1>4, ModelsOf, MarkersApart
  <2>2. PICK r \in getAssignment(q.caches, Key(C, e)) :
           \/ r.answer \in {Failed, Aborted} /\ o = r
           \/ r.answer \notin {Failed, Aborted}
              /\ o = Outcome(r.caches, IF r.answer = NoAssignment THEN "True" ELSE "Unknown")
    BY <1>1, <1>4, <2>1
  <2>3. Sound(r.caches) /\ AnswerTo(r.answer, Key(C, e))
    BY <1>2, AssignmentAnswers, KeyAnswers
  <2>4. Possible(C, e)
    BY <1>4 DEF Possible
  <2>5. \/ r.answer = Failed /\ CoreFails /\ o = r
        \/ r.answer = NoAssignment /\ Valid(C, e) /\ o = Outcome(r.caches, "True")
        \/ ~Valid(C, e) /\ o = Outcome(r.caches, "Unknown")
    BY <2>2, <2>3, KeyAnswers
  <2> QED
    BY <2>3, <2>4, <2>5 DEF Outcome, ValidityRight
<1>5. CASE q.answer \in Models(C) /\ q.answer \notin e.models
  <2>1. q.answer \notin {Failed, Aborted, NoAssignment}
    BY <1>5, ModelsOf, MarkersApart
  <2>2. PICK r \in getAssignment(q.caches, Key(C, Neg(e))) :
           \/ r.answer \in {Failed, Aborted} /\ o = r
           \/ r.answer \notin {Failed, Aborted}
              /\ o = Outcome(r.caches, IF r.answer = NoAssignment THEN "False" ELSE "Unknown")
    BY <1>1, <1>5, <2>1
  <2>3. Sound(r.caches) /\ AnswerTo(r.answer, Key(C, Neg(e)))
    BY <1>2, AssignmentAnswers, KeyAnswers
  <2>4. ~Valid(C, e)
    BY <1>5 DEF Valid
  <2>5. \/ r.answer = Failed /\ CoreFails /\ o = r
        \/ r.answer = NoAssignment /\ ~Possible(C, e) /\ o = Outcome(r.caches, "False")
        \/ Possible(C, e) /\ o = Outcome(r.caches, "Unknown")
    BY <2>2, <2>3, KeyAnswers
  <2> QED
    BY <2>3, <2>4, <2>5 DEF Outcome, ValidityRight
<1> QED
  BY <1>2, <1>3, <1>4, <1>5, AnswerIsSolution

LEMMA CexValueRight ==
    ASSUME NEW c, Sound(c), NEW C, Expressions(C), Models(C) # {}, NEW e, Expression(e),
           NEW o \in CexValue(c, C, e)
    PROVE  Sound(o.caches) /\ ValueRight(o.answer, C, e)
<1>1. PICK q \in getAssignment(c, C) :
         \/ q.answer \in {Failed, Aborted} /\ o = q
         \/ /\ q.answer \notin {Failed, Aborted}
            /\ o = IF q.answer = NoAssignment THEN Outcome(q.caches, Aborted)
                   ELSE Outcome(q.caches, q.answer \in e.models)
  BY DEF CexValue, Then
<1>2. Sound(q.caches) /\ AnswerTo(q.answer, C)
  BY AssignmentAnswers
<1>3. CASE q.answer = Failed /\ CoreFails
  BY <1>1, <1>2, <1>3 DEF ValueRight
<1>4. CASE q.answer \in Models(C) /\ q.answer \notin {Failed, Aborted, NoAssignment}
  <2>1. CASE q.answer \in e.models
    <3>1. o = Outcome(q.caches, TRUE)
      BY <1>1, <1>4, <2>1
    <3> QED
      BY <1>2, <1>4, <2>1, <3>1 DEF Outcome, ValueRight, Possible
  <2>2. CASE q.answer \notin e.models
    <3> DEFINE holds == q.answer \in e.models
    <3>2. holds = FALSE
      BY <2>2
    <3>3. o = Outcome(q.caches, holds)
      BY <1>1, <1>4
    <3>1. o = Outcome(q.caches, FALSE)
      <4> HIDE DEF holds
      <4> QED
        BY <3>2, <3>3
    <3> QED
      BY <1>2, <1>4, <2>2, <3>1 DEF Outcome, ValueRight, Valid
  <2> QED
    BY <2>1, <2>2
<1> QED
  BY <1>2, <1>3, <1>4, AnswerIsSolution

-----------------------------------------------------------------------------
(* CachingSolver. *)

LEMMA NegatedIs ==
    /\ DOMAIN Negated = {"MustBeTrue", "MustBeFalse", "MayBeTrue", "MayBeFalse",
                         "TrueOrFalse", "None"}
    /\ Negate("MustBeTrue") = "MustBeFalse" /\ Negate("MustBeFalse") = "MustBeTrue"
    /\ Negate("MayBeTrue") = "MayBeFalse" /\ Negate("MayBeFalse") = "MayBeTrue"
    /\ Negate("TrueOrFalse") = "TrueOrFalse" /\ Negate("None") = "None"
BY DEF Negated, Negate

(* What a result says of a query, its negation says of the negated query.  *)
LEMMA SaysNegated ==
    ASSUME NEW v, NEW C, NEW e, Says(v, C, e)
    PROVE  Says(Negate(v), C, Neg(e))
<1>1. \A a \in Models(C) : a \in Inputs
  BY ModelsOf
<1>2. /\ Models(C) \subseteq Neg(e).models <=> Models(C) \cap e.models = {}
      /\ Models(C) \cap Neg(e).models = {} <=> Models(C) \subseteq e.models
  BY <1>1, NegIs
<1>3. v \in {"MustBeTrue", "MustBeFalse", "MayBeTrue", "MayBeFalse", "TrueOrFalse", "None"}
  BY NegatedIs DEF Says
<1>4. CASE v = "MustBeTrue"
  BY <1>2, <1>4, NegatedIs DEF Says
<1>5. CASE v = "MustBeFalse"
  BY <1>2, <1>5, NegatedIs DEF Says
<1>6. CASE v = "MayBeTrue"
  BY <1>2, <1>6, NegatedIs DEF Says
<1>7. CASE v = "MayBeFalse"
  BY <1>2, <1>7, NegatedIs DEF Says
<1>8. CASE v = "TrueOrFalse"
  BY <1>2, <1>8, NegatedIs DEF Says
<1>9. CASE v = "None"
  BY <1>2, <1>9, NegatedIs DEF Says
<1> QED
  BY <1>3, <1>4, <1>5, <1>6, <1>7, <1>8, <1>9

LEMMA SaysTwiceNegated ==
    ASSUME NEW v, NEW C, NEW e, Says(v, C, Neg(e))
    PROVE  Says(Negate(v), C, e)
<1>1. Says(Negate(v), C, Neg(Neg(e)))
  BY SaysNegated
<1>2. \A a \in Models(C) : a \in Neg(Neg(e)).models <=> a \in e.models
  BY ModelsOf, NegIs
<1> QED
  BY <1>1, <1>2 DEF Says

LEMMA LookupRight ==
    ASSUME NEW c, Sound(c), NEW C, NEW e
    PROVE  Says(cacheLookup(c, C, e), C, e)
<1> DEFINE k == Entry(C, e)
<1>1. CASE k \notin DOMAIN c.validity
  BY <1>1, NegatedIs DEF cacheLookup, Says
<1>2. CASE k \in DOMAIN c.validity
  <2>1. Says(c.validity[k], k.constraints, k.query)
    BY <1>2 DEF Sound
  <2>2. k.constraints = C /\ k.query = IF IsSmaller(e) THEN e ELSE Neg(e)
    BY DEF Entry
  <2> QED
    BY <1>2, <2>1, <2>2, SaysTwiceNegated DEF cacheLookup
<1> QED
  BY <1>1, <1>2

LEMMA InsertSound ==
    ASSUME NEW c, Sound(c), NEW C, NEW e, NEW v, Says(v, C, e)
    PROVE  Sound(cacheInsert(c, C, e, v))
<1>1. CASE Entry(C, e) \in DOMAIN c.validity
  BY <1>1 DEF cacheInsert
<1>2. CASE Entry(C, e) \notin DOMAIN c.validity
  <2> DEFINE d == cacheInsert(c, C, e, v)
             w == IF IsSmaller(e) THEN v ELSE Negate(v)
             x == [k \in DOMAIN c.validity \cup {Entry(C, e)} |->
                     IF k # Entry(C, e) THEN c.validity[k] ELSE w]
  <2>1. d = [c EXCEPT !.validity = x]
    BY <1>2 DEF cacheInsert
  <2>2. c = [validity |-> c.validity, cex |-> c.cex, table |-> c.table]
    BY DEF Sound
  <2>3. d = [validity |-> x, cex |-> c.cex, table |-> c.table]
    <3> HIDE DEF d, x
    <3> QED
      BY <2>1, <2>2
  <2>4. /\ Entry(C, e).constraints = C
        /\ Entry(C, e).query = IF IsSmaller(e) THEN e ELSE Neg(e)
    BY DEF Entry
  <2>5. Says(w, Entry(C, e).constraints, Entry(C, e).query)
    BY <2>4, SaysNegated
  <2>6. \A k \in DOMAIN c.validity : Says(c.validity[k], k.constraints, k.query)
    BY DEF Sound
  <2>7. \A k \in DOMAIN x : Says(x[k], k.constraints, k.query)
    <3> HIDE DEF w
    <3> QED
      BY <2>5, <2>6
  <2> HIDE DEF x, d
  <2>8. d.validity = x /\ d.cex = c.cex /\ d.table = c.table
    BY <2>3
  <2>9. d = [validity |-> d.validity, cex |-> d.cex, table |-> d.table]
    BY <2>3, <2>8
  <2>10. Sound(d)
    BY <2>7, <2>8, <2>9 DEF Sound
  <2> QED
    BY <2>10 DEF d
<1> QED
  BY <1>1, <1>2

(* A result that follows from what the caches and the query below say.     *)
LEMMA CachedSound ==
    ASSUME NEW c, Sound(c), NEW C, NEW e, NEW v, Says(v, C, e), NEW r,
           NEW o \in Cached(c, C, e, v, r)
    PROVE  Sound(o.caches) /\ o.answer = r
BY InsertSound DEF Cached, Outcome

LEMMA SaysAny ==
    ASSUME NEW C, NEW e
    PROVE  /\ Valid(C, e) => Says("MustBeTrue", C, e)
           /\ ~Possible(C, e) => Says("MustBeFalse", C, e)
           /\ Possible(C, e) => Says("MayBeTrue", C, e)
           /\ ~Valid(C, e) => Says("MayBeFalse", C, e)
           /\ Possible(C, e) /\ ~Valid(C, e) => Says("TrueOrFalse", C, e)
           /\ \A v : Says(v, C, e) =>
                 /\ v \in DOMAIN Negated
                 /\ v = "MustBeTrue" => Valid(C, e)
                 /\ v = "MustBeFalse" => ~Possible(C, e)
                 /\ v = "MayBeTrue" => Possible(C, e)
                 /\ v = "MayBeFalse" => ~Valid(C, e)
                 /\ v = "TrueOrFalse" => Possible(C, e) /\ ~Valid(C, e)
BY NegatedIs DEF Says, Valid, Possible

LEMMA NegQuery ==
    ASSUME NEW C, NEW e
    PROVE  /\ Valid(C, Neg(e)) <=> ~Possible(C, e)
           /\ Possible(C, Neg(e)) <=> ~Valid(C, e)
BY ModelsOf, NegIs DEF Valid, Possible

LEMMA CachingValidityRight ==
    ASSUME NEW c, Sound(c), NEW C, Expressions(C), Models(C) # {}, NEW e, Expression(e),
           NEW o \in CachingValidity(c, C, e)
    PROVE  Sound(o.caches) /\ ValidityRight(o.answer, C, e)
<1> DEFINE v == cacheLookup(c, C, e)
<1>1. Says(v, C, e)
  BY LookupRight
<1>2. v \in {"MustBeTrue", "MustBeFalse", "MayBeTrue", "MayBeFalse", "TrueOrFalse", "None"}
  BY <1>1, SaysAny, NegatedIs
<1> HIDE DEF v
<1>3. CASE v \in {"MustBeTrue", "MustBeFalse", "TrueOrFalse"}
  <2>1. o = Outcome(c, IF v = "MustBeTrue" THEN "True"
                       ELSE IF v = "MustBeFalse" THEN "False" ELSE "Unknown")
    BY <1>3 DEF CachingValidity, v
  <2> QED
    BY <1>1, <1>3, <2>1, SaysAny DEF Outcome, ValidityRight
<1>4. CASE v = "MayBeTrue"
  <2>1. PICK q \in CexTruth(c, C, e) :
           \/ q.answer \in {Failed, Aborted} /\ o = q
           \/ /\ q.answer \notin {Failed, Aborted}
              /\ \/ q.answer /\ o \in Cached(q.caches, C, e, "MustBeTrue", "True")
                 \/ ~q.answer /\ o \in Cached(q.caches, C, e, "TrueOrFalse", "Unknown")
    BY <1>4 DEF CachingValidity, Then, v
  <2>2. Sound(q.caches) /\ TruthRight(q.answer, C, e)
    BY CexTruthRight
  <2>3. CASE q.answer = Failed /\ CoreFails
    BY <2>1, <2>2, <2>3 DEF ValidityRight
  <2>4. CASE q.answer = TRUE /\ Valid(C, e)
    <3>1. o \in Cached(q.caches, C, e, "MustBeTrue", "True")
      BY <2>1, <2>4, MarkersApart
    <3> QED
      BY <2>2, <2>4, <3>1, CachedSound, SaysAny DEF ValidityRight
  <2>5. CASE q.answer = FALSE /\ ~Valid(C, e)
    <3>1. o \in Cached(q.caches, C, e, "TrueOrFalse", "Unknown")
      BY <2>1, <2>5, MarkersApart
    <3> QED
      BY <1>1, <1>4, <2>2, <2>5, <3>1, CachedSound, SaysAny DEF ValidityRight
  <2> QED
    BY <2>2, <2>3, <2>4, <2>5 DEF TruthRight
<1>5. CASE v = "MayBeFalse"
  <2>1. PICK q \in CexTruth(c, C, Neg(e)) :
           \/ q.answer \in {Failed, Aborted} /\ o = q
           \/ /\ q.answer \notin {Failed, Aborted}
              /\ \/ q.answer /\ o \in Cached(q.caches, C, e, "MustBeFalse", "False")
                 \/ ~q.answer /\ o \in Cached(q.caches, C, e, "TrueOrFalse", "Unknown")
    BY <1>5 DEF CachingValidity, Then, v
  <2>2. Sound(q.caches) /\ TruthRight(q.answer, C, Neg(e))
    BY CexTruthRight, NegExpression
  <2>3. CASE q.answer = Failed /\ CoreFails
    BY <2>1, <2>2, <2>3 DEF ValidityRight
  <2>4. CASE q.answer = TRUE /\ ~Possible(C, e)
    <3>1. o \in Cached(q.caches, C, e, "MustBeFalse", "False")
      BY <2>1, <2>4, MarkersApart
    <3> QED
      BY <2>2, <2>4, <3>1, CachedSound, SaysAny DEF ValidityRight
  <2>5. CASE q.answer = FALSE /\ Possible(C, e)
    <3>1. o \in Cached(q.caches, C, e, "TrueOrFalse", "Unknown")
      BY <2>1, <2>5, MarkersApart
    <3> QED
      BY <1>1, <1>5, <2>2, <2>5, <3>1, CachedSound, SaysAny DEF ValidityRight
  <2> QED
    BY <2>2, <2>3, <2>4, <2>5, NegQuery DEF TruthRight
<1>6. CASE v = "None"
  <2>1. PICK q \in CexValidity(c, C, e) :
           \/ q.answer \in {Failed, Aborted} /\ o = q
           \/ /\ q.answer \notin {Failed, Aborted}
              /\ o \in Cached(q.caches, C, e,
                              CASE q.answer = "True" -> "MustBeTrue"
                                [] q.answer = "False" -> "MustBeFalse"
                                [] OTHER -> "TrueOrFalse", q.answer)
    BY <1>6 DEF CachingValidity, Then, v
  <2>2. Sound(q.caches) /\ ValidityRight(q.answer, C, e)
    BY CexValidityRight
  <2>3. CASE q.answer = Failed /\ CoreFails
    BY <2>1, <2>2, <2>3 DEF ValidityRight
  <2>4. CASE q.answer = "True" /\ Valid(C, e)
    <3>1. o \in Cached(q.caches, C, e, "MustBeTrue", "True")
      BY <2>1, <2>4, MarkersApart
    <3> QED
      BY <2>2, <2>4, <3>1, CachedSound, SaysAny DEF ValidityRight
  <2>5. CASE q.answer = "False" /\ ~Possible(C, e)
    <3>1. o \in Cached(q.caches, C, e, "MustBeFalse", "False")
      BY <2>1, <2>5, MarkersApart
    <3> QED
      BY <2>2, <2>5, <3>1, CachedSound, SaysAny DEF ValidityRight
  <2>6. CASE q.answer = "Unknown" /\ Possible(C, e) /\ ~Valid(C, e)
    <3>1. o \in Cached(q.caches, C, e, "TrueOrFalse", "Unknown")
      BY <2>1, <2>6, MarkersApart
    <3> QED
      BY <2>2, <2>6, <3>1, CachedSound, SaysAny DEF ValidityRight
  <2> QED
    BY <2>2, <2>3, <2>4, <2>5, <2>6 DEF ValidityRight
<1> QED
  BY <1>2, <1>3, <1>4, <1>5, <1>6

LEMMA CachingTruthRight ==
    ASSUME NEW c, Sound(c), NEW C, Expressions(C), Models(C) # {}, NEW e, Expression(e),
           NEW o \in CachingTruth(c, C, e)
    PROVE  Sound(o.caches) /\ TruthRight(o.answer, C, e)
<1> DEFINE v == cacheLookup(c, C, e)
<1>1. Says(v, C, e)
  BY LookupRight
<1>2. v \in {"MustBeTrue", "MustBeFalse", "MayBeTrue", "MayBeFalse", "TrueOrFalse", "None"}
  BY <1>1, SaysAny, NegatedIs
<1>3. ~Possible(C, e) => ~Valid(C, e)
  BY DEF Possible, Valid
<1> HIDE DEF v
<1>4. CASE v \notin {"None", "MayBeTrue"}
  <2>1. o = Outcome(c, v = "MustBeTrue")
    BY <1>4 DEF CachingTruth, v
  <2>2. CASE v = "MustBeTrue"
    <3>1. o = Outcome(c, TRUE)
      BY <2>1, <2>2
    <3> QED
      BY <1>1, <2>2, <3>1, SaysAny DEF Outcome, TruthRight
  <2>3. CASE v # "MustBeTrue"
    <3>1. o = Outcome(c, FALSE)
      BY <2>1, <2>3
    <3>2. ~Valid(C, e)
      BY <1>1, <1>2, <1>3, <1>4, <2>3, SaysAny
    <3> QED
      BY <3>1, <3>2 DEF Outcome, TruthRight
  <2> QED
    BY <2>2, <2>3
<1>5. CASE v \in {"None", "MayBeTrue"}
  <2>1. PICK q \in CexTruth(c, C, e) :
           \/ q.answer \in {Failed, Aborted} /\ o = q
           \/ /\ q.answer \notin {Failed, Aborted}
              /\ o \in Cached(q.caches, C, e, IF q.answer THEN "MustBeTrue"
                                              ELSE IF v = "MayBeTrue" THEN "TrueOrFalse"
                                              ELSE "MayBeFalse", q.answer)
    BY <1>5 DEF CachingTruth, Then, v
  <2>2. Sound(q.caches) /\ TruthRight(q.answer, C, e)
    BY CexTruthRight
  <2>3. CASE q.answer = Failed /\ CoreFails
    BY <2>1, <2>2, <2>3 DEF TruthRight
  <2>4. CASE q.answer = TRUE /\ Valid(C, e)
    <3>1. o \in Cached(q.caches, C, e, "MustBeTrue", q.answer)
      BY <2>1, <2>4, MarkersApart
    <3>2. Says("MustBeTrue", C, e)
      BY <2>4, SaysAny
    <3>3. Sound(o.caches) /\ o.answer = q.answer
      BY <2>2, <3>1, <3>2, CachedSound
    <3> QED
      BY <2>4, <3>3 DEF TruthRight
  <2>5. CASE q.answer = FALSE /\ ~Valid(C, e)
    <3>1. o \in Cached(q.caches, C, e, IF v = "MayBeTrue" THEN "TrueOrFalse"
                                       ELSE "MayBeFalse", q.answer)
      BY <2>1, <2>5, MarkersApart
    <3>2. Says(IF v = "MayBeTrue" THEN "TrueOrFalse" ELSE "MayBeFalse", C, e)
      BY <1>1, <1>5, <2>5, SaysAny
    <3>3. Sound(o.caches) /\ o.answer = q.answer
      BY <2>2, <3>1, <3>2, CachedSound
    <3> QED
      BY <2>5, <3>3 DEF TruthRight
  <2> QED
    BY <2>2, <2>3, <2>4, <2>5 DEF TruthRight
<1> QED
  BY <1>4, <1>5

-----------------------------------------------------------------------------
(* The calls of the chain, for all constraints of a path. *)

LEMMA SliceRight ==
    ASSUME NEW K, Expressions(K), Models(K) # {}, NEW e, Expression(e)
    PROVE  /\ Models(Required(K, e)) # {}
           /\ Valid(Required(K, e), e) <=> Valid(K, e)
           /\ Possible(Required(K, e), e) <=> Possible(K, e)
<1>1. Models(K) \subseteq Models(Required(K, e))
  BY RequiredWeaker
<1>2. ASSUME NEW a \in Models(Required(K, e))
      PROVE  \E c \in Models(K) : c \in e.models <=> a \in e.models
  <2>1. PICK b : b \in Models(K)
    OBVIOUS
  <2> QED
    BY <2>1, Independent
<1> QED
  BY <1>1, <1>2 DEF Valid, Possible

PossibilityRight(b, C, e) ==
    \/ b = Failed /\ CoreFails
    \/ b = TRUE /\ Possible(C, e)
    \/ b = FALSE /\ ~Possible(C, e)

LEMMA EvaluateRight ==
    ASSUME NEW c, Sound(c), NEW C, Expressions(C), Models(C) # {}, NEW e, Expression(e),
           NEW o \in evaluate(c, C, e)
    PROVE  Sound(o.caches) /\ ValidityRight(o.answer, C, e)
<1>1. Sound(o.caches) /\ ValidityRight(o.answer, Required(C, e), e)
  BY RequiredWeaker, SliceRight, CachingValidityRight DEF evaluate
<1> QED
  BY <1>1, SliceRight DEF ValidityRight

LEMMA MustBeTrueRight ==
    ASSUME NEW c, Sound(c), NEW C, Expressions(C), Models(C) # {}, NEW e, Expression(e),
           NEW o \in mustBeTrue(c, C, e)
    PROVE  Sound(o.caches) /\ TruthRight(o.answer, C, e)
<1>1. Sound(o.caches) /\ TruthRight(o.answer, Required(C, e), e)
  BY RequiredWeaker, SliceRight, CachingTruthRight DEF mustBeTrue
<1> QED
  BY <1>1, SliceRight DEF TruthRight

LEMMA GetValueRight ==
    ASSUME NEW c, Sound(c), NEW C, Expressions(C), Models(C) # {}, NEW e, Expression(e),
           NEW o \in getValue(c, C, e)
    PROVE  Sound(o.caches) /\ ValueRight(o.answer, C, e)
<1>1. Sound(o.caches) /\ ValueRight(o.answer, Required(C, e), e)
  BY RequiredWeaker, SliceRight, CexValueRight DEF getValue
<1> QED
  BY <1>1, SliceRight DEF ValueRight

LEMMA MayBeTrueRight ==
    ASSUME NEW c, Sound(c), NEW C, Expressions(C), Models(C) # {}, NEW e, Expression(e),
           NEW o \in mayBeTrue(c, C, e)
    PROVE  Sound(o.caches) /\ PossibilityRight(o.answer, C, e)
<1>1. PICK q \in mustBeTrue(c, C, Neg(e)) :
         \/ q.answer \in {Failed, Aborted} /\ o = q
         \/ q.answer \notin {Failed, Aborted} /\ o = Outcome(q.caches, ~q.answer)
  BY DEF mayBeTrue, Then
<1>2. Sound(q.caches) /\ TruthRight(q.answer, C, Neg(e))
  BY MustBeTrueRight, NegExpression
<1>3. CASE q.answer = Failed /\ CoreFails
  BY <1>1, <1>2, <1>3 DEF PossibilityRight
<1>4. CASE q.answer = TRUE /\ ~Possible(C, e)
  <2>1. o = Outcome(q.caches, FALSE)
    BY <1>1, <1>4, MarkersApart
  <2> QED
    BY <1>2, <1>4, <2>1 DEF Outcome, PossibilityRight
<1>5. CASE q.answer = FALSE /\ Possible(C, e)
  <2>1. o = Outcome(q.caches, TRUE)
    BY <1>1, <1>5, MarkersApart
  <2> QED
    BY <1>2, <1>5, <2>1 DEF Outcome, PossibilityRight
<1> QED
  BY <1>2, <1>3, <1>4, <1>5, NegQuery DEF TruthRight

-----------------------------------------------------------------------------
(* The factors of getInitialValues. *)

(* Two closures that meet are the same. *)
LEMMA ClosuresApart ==
    ASSUME NEW K, Expressions(K), NEW e \in K, NEW f \in K,
           eltsClosure(K, e) \cap eltsClosure(K, f) # {}
    PROVE  eltsClosure(K, e) = eltsClosure(K, f)
<1> DEFINE X == eltsClosure(K, e)
           Y == eltsClosure(K, f)
<1>1. /\ e.reads \subseteq X /\ X \subseteq Elements /\ Closed(X, K)
      /\ \A Z \in SUBSET Elements : e.reads \subseteq Z /\ Closed(Z, K) => X \subseteq Z
      /\ f.reads \subseteq Y /\ Y \subseteq Elements /\ Closed(Y, K)
      /\ \A Z \in SUBSET Elements : f.reads \subseteq Z /\ Closed(Z, K) => Y \subseteq Z
  BY ClosureClosed DEF Expressions
<1> HIDE DEF X, Y
<1>2. X \cap Y # {}
  BY DEF X, Y
<1>3. X \subseteq Y
  <2>1. CASE e.reads \subseteq Y
    BY <1>1, <2>1
  <2>2. CASE e.reads \cap Y = {}
    <3>1. e.reads \subseteq X \ Y /\ X \ Y \in SUBSET Elements
      BY <1>1, <2>2
    <3>2. Closed(X \ Y, K)
      BY <1>1 DEF Closed
    <3> QED
      BY <1>1, <1>2, <3>1, <3>2
  <2> QED
    BY <1>1, <2>1, <2>2 DEF Closed
<1>4. Y \subseteq X
  <2>1. CASE f.reads \subseteq X
    BY <1>1, <2>1
  <2>2. CASE f.reads \cap X = {}
    <3>1. f.reads \subseteq Y \ X /\ Y \ X \in SUBSET Elements
      BY <1>1, <2>2
    <3>2. Closed(Y \ X, K)
      BY <1>1 DEF Closed
    <3> QED
      BY <1>1, <1>2, <3>1, <3>2
  <2> QED
    BY <1>1, <2>1, <2>2 DEF Closed
<1> QED
  BY <1>3, <1>4 DEF X, Y

ReadsOf(K) == UNION {e.reads : e \in K}

LEMMA FactorsApart ==
    ASSUME NEW K, Expressions(K), NEW F \in Factors(K), NEW G \in Factors(K), F # G
    PROVE  ReadsOf(F) \cap ReadsOf(G) = {}
<1>1. PICK e \in K : F = Required(K, e)
  BY DEF Factors
<1>2. PICK f \in K : G = Required(K, f)
  BY DEF Factors
<1>3. eltsClosure(K, e) # eltsClosure(K, f)
  BY <1>1, <1>2 DEF Required
<1>4. eltsClosure(K, e) \cap eltsClosure(K, f) = {}
  BY <1>3, ClosuresApart
<1>5. Closed(eltsClosure(K, e), K) /\ Closed(eltsClosure(K, f), K)
  BY ClosureClosed DEF Expressions
<1>6. ReadsOf(F) \subseteq eltsClosure(K, e) /\ ReadsOf(G) \subseteq eltsClosure(K, f)
  BY <1>1, <1>2, <1>5 DEF ReadsOf, Required, Closed
<1> QED
  BY <1>4, <1>6

LEMMA FactorsCover ==
    ASSUME NEW K, Expressions(K)
    PROVE  /\ \A F \in Factors(K) : F \subseteq K
           /\ \A e \in K : e.reads # {} => \E F \in Factors(K) : e \in F
<1>1. ASSUME NEW e \in K, e.reads # {}
      PROVE  e \in Required(K, e)
  <2>1. e.reads \subseteq eltsClosure(K, e)
    BY ClosureClosed DEF Expressions
  <2> QED
    BY <1>1, <2>1 DEF Required
<1>2. \A e \in K : e.reads # {} => Required(K, e) \in Factors(K)
  BY DEF Factors
<1> QED
  BY <1>1, <1>2, RequiredWeaker DEF Factors

LEMMA FactorsFinite ==
    ASSUME NEW K, IsFiniteSet(K)
    PROVE  IsFiniteSet(Factors(K))
<1> DEFINE L == {f \in K : f.reads # {}}
           g == [e \in L |-> Required(K, e)]
<1>1. IsFiniteSet(L)
  BY FS_Subset
<1>2. g \in Surjection(L, Factors(K))
  BY DEF Factors, Surjection
<1> QED
  BY <1>1, <1>2, FS_Surjection

(* SetToSeq lists every element of a finite set. *)
LEMMA SetToSeqLists ==
    ASSUME NEW S, IsFiniteSet(S)
    PROVE  /\ Len(SetToSeq(S)) \in Nat
           /\ \A i \in 1 .. Len(SetToSeq(S)) : SetToSeq(S)[i] \in S
           /\ \A x \in S : \E i \in 1 .. Len(SetToSeq(S)) : SetToSeq(S)[i] = x
           /\ \A i, j \in 1 .. Len(SetToSeq(S)) : SetToSeq(S)[i] = SetToSeq(S)[j] => i = j
<1> DEFINE n == Cardinality(S)
           s == SetToSeq(S)
<1>1. n \in Nat /\ ExistsBijection(1 .. n, S)
  BY FS_CardinalityType
<1>2. \E f \in [1 .. n -> S] : IsInjective(f)
  BY <1>1 DEF ExistsBijection, Bijection, Injection, IsInjective
<1>3. s \in [1 .. n -> S] /\ IsInjective(s)
  BY <1>2 DEF SetToSeq
<1>4. s \in Injection(1 .. n, S)
  BY <1>3 DEF Injection, IsInjective
<1>5. IsFiniteSet(1 .. n) /\ Cardinality(1 .. n) = n
  BY <1>1, FS_Interval
<1>6. s \in Surjection(1 .. n, S)
  BY <1>4, <1>5, FS_Injection
<1>7. Len(s) = n
  BY <1>1, <1>3
<1> HIDE DEF s, n
<1>8. \A x \in S : \E i \in 1 .. n : s[i] = x
  BY <1>6 DEF Surjection
<1>9. \A i, j \in 1 .. n : s[i] = s[j] => i = j
  BY <1>4 DEF Injection, IsInjective
<1> QED
  BY <1>1, <1>3, <1>7, <1>8, <1>9 DEF s

-----------------------------------------------------------------------------
(* getInitialValues. *)

Start(c) == {Outcome(c, [values |-> [x \in Elements |-> 0], bound |-> {}])}

(* The recursion of SolveFactors is well-founded. *)
LEMMA SolveFactorsDef ==
    ASSUME NEW c, NEW factors, Len(factors) \in Nat
    PROVE  SolveFactors(c, factors) =
              [i \in 0 .. Len(factors) |->
                  IF i = 0 THEN Start(c)
                  ELSE SolveFactor(SolveFactors(c, factors)[i - 1], factors[i])]
<1> DEFINE n == Len(factors)
           Is(f, m) == f = [i \in 0 .. m |-> IF i = 0 THEN Start(c)
                                             ELSE SolveFactor(f[i - 1], factors[i])]
           S == {m \in Nat : \E f : Is(f, m)}
<1>1. 0 \in S
  <2>1. Is([i \in 0 .. 0 |-> Start(c)], 0)
    OBVIOUS
  <2> QED
    BY <2>1
<1>2. ASSUME NEW m \in S
      PROVE  m + 1 \in S
  <2>1. PICK f : Is(f, m)
    OBVIOUS
  <2> DEFINE g == [i \in 0 .. m + 1 |-> IF i = m + 1 THEN SolveFactor(f[m], factors[m + 1])
                                        ELSE f[i]]
  <2>2. \A i \in 0 .. m + 1 : g[i] = IF i = 0 THEN Start(c)
                                     ELSE SolveFactor(g[i - 1], factors[i])
    BY <2>1
  <2>3. Is(g, m + 1)
    <3> DEFINE h == [i \in 0 .. m + 1 |-> IF i = 0 THEN Start(c)
                                          ELSE SolveFactor(g[i - 1], factors[i])]
    <3>1. \A i \in 0 .. m + 1 : g[i] = h[i]
      BY <2>2
    <3>2. g = h
      BY <3>1
    <3> QED
      BY <3>2
  <2> HIDE DEF Is, g
  <2> QED
    BY <2>3
<1>3. n \in S
  <2> HIDE DEF S
  <2> QED
    BY <1>1, <1>2, SetInduction DEF S
<1>4. PICK f : Is(f, n)
  BY <1>3
<1>5. SolveFactors(c, factors) = CHOOSE g : Is(g, n)
  BY DEF SolveFactors, Start
<1> HIDE DEF n
<1>6. Is(SolveFactors(c, factors), n)
  BY <1>4, <1>5
<1> QED
  BY <1>6 DEF n

(* A point solves the first i factors, and binds the arrays they read. *)
PointSolves(point, factors, i) ==
    /\ \E a \in Inputs, arrays \in SUBSET {ArrayOf[x] : x \in Elements} :
          point = [values |-> a, bound |-> arrays]
    /\ \A j \in 1 .. i :
          /\ \A e \in factors[j] : point.values \in e.models
          /\ \A x \in ReadsOf(factors[j]) : ArrayOf[x] \in point.bound

SolvedSoFar(o, factors, i) ==
    /\ Sound(o.caches)
    /\ (o.answer = Failed /\ CoreFails) \/ PointSolves(o.answer, factors, i)

LEMMA PointIsNoMarker ==
    ASSUME NEW point, NEW factors, NEW i, PointSolves(point, factors, i)
    PROVE  point \notin {Failed, Aborted, NoAssignment}
BY Markers DEF PointSolves

(* The values of one more factor do not touch what an earlier one reads. *)
LEMMA CombineSolves ==
    ASSUME NEW K, Expressions(K), NEW factors, NEW i \in Nat,
           \A j \in 1 .. i + 1 : factors[j] \in Factors(K),
           \A j, k \in 1 .. i + 1 : factors[j] = factors[k] => j = k,
           NEW point, PointSolves(point, factors, i),
           NEW a \in Models(factors[i + 1])
    PROVE  PointSolves(Combine(point, factors[i + 1], a), factors, i + 1)
<1> DEFINE F == factors[i + 1]
           arrays == {ArrayOf[x] : x \in ReadsOf(F)}
           values == [x \in Elements |->
                        IF x \in ReadsOf(F) \/ ArrayOf[x] \in arrays \ point.bound
                        THEN a[x] ELSE point.values[x]]
           new == Combine(point, F, a)
<1>1. new = [values |-> values, bound |-> point.bound \cup arrays]
  BY DEF Combine, ReadsOf
<1>2. PICK b \in Inputs, B \in SUBSET {ArrayOf[x] : x \in Elements} :
         point = [values |-> b, bound |-> B]
  BY DEF PointSolves
<1>3. point.values = b /\ point.bound = B
  BY <1>2
<1>4. a \in Inputs /\ \A e \in F : a \in e.models
  BY ModelsOf
<1>5. values \in Inputs
  BY <1>2, <1>3, <1>4 DEF Inputs
<1>6. \A j \in 1 .. i + 1 : factors[j] \subseteq K
  BY FactorsCover
<1>7. \A j \in 1 .. i + 1 : ReadsOf(factors[j]) \subseteq Elements
  BY <1>6 DEF ReadsOf, Expressions, Expression
<1>8. F = factors[i + 1] /\ i + 1 \in 1 .. i + 1
  OBVIOUS
<1>9. arrays \in SUBSET {ArrayOf[x] : x \in Elements}
  BY <1>7, <1>8
<1>10. ASSUME NEW j \in 1 .. i
       PROVE  /\ \A e \in factors[j] : values \in e.models
              /\ \A x \in ReadsOf(factors[j]) : ArrayOf[x] \in point.bound
  <2>1. factors[j] # F /\ j \in 1 .. i + 1
    BY <1>8
  <2>2. ReadsOf(factors[j]) \cap ReadsOf(F) = {}
    BY <2>1, <1>8, FactorsApart
  <2>3. \A x \in ReadsOf(factors[j]) : x \in Elements /\ ArrayOf[x] \in point.bound
    BY <1>7, <2>1 DEF PointSolves
  <2>4. \A x \in ReadsOf(factors[j]) : values[x] = b[x]
    BY <1>3, <2>2, <2>3
  <2>5. ASSUME NEW e \in factors[j]
        PROVE  values \in e.models
    <3>1. Expression(e) /\ b \in e.models
      BY <1>3, <1>6, <2>1 DEF PointSolves, Expressions
    <3>2. e.reads \subseteq ReadsOf(factors[j])
      BY DEF ReadsOf
    <3>3. \A x \in e.reads : values[x] = b[x]
      BY <2>4, <3>2
    <3> HIDE DEF values
    <3> QED
      BY <1>2, <1>5, <3>1, <3>3 DEF Expression
  <2> QED
    BY <2>3, <2>5
<1>11. ASSUME NEW e \in F
       PROVE  values \in e.models
  <2>1. Expression(e) /\ a \in e.models
    BY <1>4, <1>6, <1>8 DEF Expressions
  <2>2. \A x \in e.reads : x \in ReadsOf(F) /\ x \in Elements
    BY <2>1 DEF ReadsOf, Expression
  <2>3. \A x \in e.reads : values[x] = a[x]
    BY <2>2
  <2> HIDE DEF values
  <2> QED
    BY <1>4, <1>5, <2>1, <2>3 DEF Expression
<1>12. \A x \in ReadsOf(F) : ArrayOf[x] \in arrays
  OBVIOUS
<1> HIDE DEF new, values, arrays, F
<1>13. new.values = values /\ new.bound = point.bound \cup arrays
  BY <1>1
<1>14. point.bound \cup arrays \in SUBSET {ArrayOf[x] : x \in Elements}
  BY <1>2, <1>3, <1>9
<1>15. ASSUME NEW j \in 1 .. i + 1
       PROVE  /\ \A e \in factors[j] : new.values \in e.models
              /\ \A x \in ReadsOf(factors[j]) : ArrayOf[x] \in new.bound
  <2>1. CASE j = i + 1
    BY <1>8, <1>11, <1>12, <1>13, <2>1
  <2>2. CASE j \in 1 .. i
    BY <1>10, <1>13, <2>2
  <2> QED
    BY <2>1, <2>2
<1>16. PointSolves(new, factors, i + 1)
  BY <1>1, <1>5, <1>14, <1>15 DEF PointSolves
<1> QED
  BY <1>16 DEF new, F

LEMMA SolveFactorKeeps ==
    ASSUME NEW K, Expressions(K), Models(K) # {}, NEW factors, NEW i \in Nat,
           \A j \in 1 .. i + 1 : factors[j] \in Factors(K),
           \A j, k \in 1 .. i + 1 : factors[j] = factors[k] => j = k,
           NEW outcomes, \A o \in outcomes : SolvedSoFar(o, factors, i),
           NEW o \in SolveFactor(outcomes, factors[i + 1])
    PROVE  SolvedSoFar(o, factors, i + 1)
<1>1. PICK q \in outcomes :
         \/ q.answer \in {Failed, Aborted} /\ o = q
         \/ /\ q.answer \notin {Failed, Aborted}
            /\ q.answer = NoAssignment
         \/ /\ q.answer \notin {Failed, Aborted} /\ q.answer # NoAssignment
            /\ \E r \in getAssignment(q.caches, factors[i + 1]) :
                  \/ r.answer \in {Failed, Aborted} /\ o = r
                  \/ /\ r.answer \notin {Failed, Aborted}
                     /\ o = Outcome(r.caches, IF r.answer = NoAssignment THEN r.answer
                                              ELSE Combine(q.answer, factors[i + 1], r.answer))
  BY DEF SolveFactor, Then
<1>2. Sound(q.caches) /\ ((q.answer = Failed /\ CoreFails) \/ PointSolves(q.answer, factors, i))
  BY DEF SolvedSoFar
<1>3. CASE q.answer = Failed /\ CoreFails
  BY <1>1, <1>2, <1>3 DEF SolvedSoFar
<1>4. CASE PointSolves(q.answer, factors, i)
  <2>1. q.answer \notin {Failed, Aborted, NoAssignment}
    BY <1>4, PointIsNoMarker
  <2>2. PICK r \in getAssignment(q.caches, factors[i + 1]) :
           \/ r.answer \in {Failed, Aborted} /\ o = r
           \/ /\ r.answer \notin {Failed, Aborted}
              /\ o = Outcome(r.caches, IF r.answer = NoAssignment THEN r.answer
                                       ELSE Combine(q.answer, factors[i + 1], r.answer))
    BY <1>1, <2>1
  <2>3. factors[i + 1] \subseteq K
    BY FactorsCover
  <2>4. Expressions(factors[i + 1]) /\ Models(factors[i + 1]) # {}
    BY <2>3, SubsetModels DEF Expressions
  <2>5. Sound(r.caches) /\ AnswerTo(r.answer, factors[i + 1])
    BY <1>2, <2>4, AssignmentAnswers
  <2>6. CASE r.answer = Failed /\ CoreFails
    BY <2>2, <2>5, <2>6 DEF SolvedSoFar
  <2>7. CASE r.answer \in Models(factors[i + 1]) /\ r.answer \notin {Failed, Aborted, NoAssignment}
    <3>1. o = Outcome(r.caches, Combine(q.answer, factors[i + 1], r.answer))
      BY <2>2, <2>7
    <3>2. PointSolves(Combine(q.answer, factors[i + 1], r.answer), factors, i + 1)
      BY <1>4, <2>7, CombineSolves
    <3> QED
      BY <2>5, <3>1, <3>2 DEF Outcome, SolvedSoFar
  <2> QED
    BY <2>4, <2>5, <2>6, <2>7, AnswerIsSolution
<1> QED
  BY <1>2, <1>3, <1>4

(* An expression that reads nothing and is true of one input is of all. *)
LEMMA PointSatisfies ==
    ASSUME NEW K, Expressions(K), Models(K) # {}, NEW a \in Inputs,
           \A F \in Factors(K) : \A e \in F : a \in e.models
    PROVE  a \in Models(K) /\ Satisfies(a, K)
<1>1. ASSUME NEW e \in K
      PROVE  a \in e.models
  <2>1. CASE e.reads # {}
    BY <2>1, FactorsCover
  <2>2. CASE e.reads = {}
    <3>1. PICK b : b \in Models(K)
      OBVIOUS
    <3>2. b \in Inputs /\ b \in e.models
      BY <3>1, ModelsOf
    <3> QED
      BY <2>2, <3>2 DEF Expressions, Expression
  <2> QED
    BY <2>1, <2>2
<1> QED
  BY <1>1, ModelsOf DEF Satisfies

(* The solver chain finds a solution of any K that has one, unless the     *)
(* core solver fails.                                                      *)
LEMMA InitialValuesRight ==
    ASSUME NEW c, Sound(c), NEW K, Expressions(K), IsFiniteSet(K), Models(K) # {},
           NEW o \in getInitialValues(c, K)
    PROVE  /\ Sound(o.caches)
           /\ (o.answer = Failed /\ CoreFails) \/ o.answer \in Models(K)
<1> DEFINE factors == SetToSeq(Factors(K))
           n == Len(factors)
           solved == SolveFactors(c, factors)
           T == {i \in 0 .. n : \A q \in solved[i] : SolvedSoFar(q, factors, i)}
<1>1. /\ n \in Nat
      /\ \A i \in 1 .. n : factors[i] \in Factors(K)
      /\ \A F \in Factors(K) : \E i \in 1 .. n : factors[i] = F
      /\ \A i, j \in 1 .. n : factors[i] = factors[j] => i = j
  BY FactorsFinite, SetToSeqLists
<1>2. \E q \in solved[n] :
         \/ q.answer \in {Failed, Aborted} /\ o = q
         \/ /\ q.answer \notin {Failed, Aborted}
            /\ o = Outcome(q.caches,
                           IF q.answer = NoAssignment THEN Failed
                           ELSE IF Satisfies(q.answer.values, K) THEN q.answer.values
                           ELSE Aborted)
  BY DEF getInitialValues, Then
<1> HIDE DEF factors
<1>3. solved = [i \in 0 .. n |-> IF i = 0 THEN Start(c)
                                 ELSE SolveFactor(solved[i - 1], factors[i])]
  BY <1>1, SolveFactorsDef
<1> HIDE DEF solved, n
<1>4. 0 \in T
  <2>1. solved[0] = Start(c)
    BY <1>1, <1>3
  <2> DEFINE z == [x \in Elements |-> 0]
             p == [values |-> z, bound |-> {}]
  <2>2. z \in Inputs
    BY SolverNames DEF Inputs
  <2>3. PointSolves(p, factors, 0)
    <3> HIDE DEF z
    <3> QED
      BY <2>2 DEF PointSolves
  <2>4. \A q \in solved[0] : q.caches = c /\ q.answer = p
    <3> HIDE DEF p
    <3>1. solved[0] = {Outcome(c, p)}
      BY <2>1 DEF Start, p
    <3> QED
      BY <3>1 DEF Outcome
  <2> HIDE DEF p
  <2> QED
    BY <1>1, <2>3, <2>4 DEF SolvedSoFar
<1>5. ASSUME NEW i \in 0 .. n - 1, i \in T
      PROVE  i + 1 \in T
  <2>1. solved[i + 1] = SolveFactor(solved[i], factors[i + 1])
    BY <1>1, <1>3
  <2>2. i \in Nat /\ 1 .. i + 1 \subseteq 1 .. n
    BY <1>1
  <2>3. \A q \in solved[i] : SolvedSoFar(q, factors, i)
    BY <1>5
  <2>4. /\ \A j \in 1 .. i + 1 : factors[j] \in Factors(K)
        /\ \A j, k \in 1 .. i + 1 : factors[j] = factors[k] => j = k
    BY <1>1, <2>2
  <2> HIDE DEF T
  <2>5. ASSUME NEW q \in SolveFactor(solved[i], factors[i + 1])
        PROVE  SolvedSoFar(q, factors, i + 1)
    BY <2>2, <2>3, <2>4, SolveFactorKeeps
  <2>6. \A q \in solved[i + 1] : SolvedSoFar(q, factors, i + 1)
    BY <2>1, <2>5
  <2> QED
    BY <1>1, <2>6 DEF T
<1>6. n \in T
  <2> HIDE DEF T
  <2>1. 0 .. n \subseteq T
    BY <1>1, <1>4, <1>5, IndexInduction
  <2> QED
    BY <1>1, <2>1
<1>7. PICK q \in solved[n] :
         \/ q.answer \in {Failed, Aborted} /\ o = q
         \/ /\ q.answer \notin {Failed, Aborted}
            /\ o = Outcome(q.caches,
                           IF q.answer = NoAssignment THEN Failed
                           ELSE IF Satisfies(q.answer.values, K) THEN q.answer.values
                           ELSE Aborted)
  BY <1>2
<1>8. Sound(q.caches) /\ ((q.answer = Failed /\ CoreFails) \/ PointSolves(q.answer, factors, n))
  BY <1>6 DEF SolvedSoFar
<1>9. CASE q.answer = Failed /\ CoreFails
  BY <1>7, <1>8, <1>9
<1>10. CASE PointSolves(q.answer, factors, n)
  <2>1. q.answer \notin {Failed, Aborted, NoAssignment}
    BY <1>10, PointIsNoMarker
  <2>2. q.answer.values \in Inputs
    BY <1>10 DEF PointSolves
  <2>3. \A F \in Factors(K) : \A e \in F : q.answer.values \in e.models
    BY <1>1, <1>10 DEF PointSolves
  <2>4. q.answer.values \in Models(K) /\ Satisfies(q.answer.values, K)
    BY <2>2, <2>3, PointSatisfies
  <2>5. o = Outcome(q.caches, q.answer.values)
    BY <1>7, <2>1, <2>4
  <2> QED
    BY <1>8, <2>4, <2>5 DEF Outcome
<1> QED
  BY <1>8, <1>9, <1>10

-----------------------------------------------------------------------------
(* Paths *)

(* A list of constraints that some input satisfies. *)
Takeable(p) == Expressions(p) /\ IsFiniteSet(p) /\ Models(p) # {}

PathsApart(P) == \A p, q \in P : p # q => Models(p) \cap Models(q) = {}

PathsRight(P) == (\A p \in P : Takeable(p)) /\ PathsApart(P)

IInv ==
    /\ options \in Options /\ status \in {"running", "solver failure"}
    /\ givenUp \subseteq Inputs /\ calls \in 0 .. MaxCalls
    /\ PathsRight(paths)
    /\ Sound(caches)
    /\ AnswersRight
    /\ answer.result # Aborted
    /\ ~CoreFails => answer.op = "none" \/ answer.result # Failed

-----------------------------------------------------------------------------
(* TimingSolver's calls. *)

LEMMA KnownRight ==
    ASSUME NEW p, NEW e, IsKnown(p, e)
    PROVE  /\ e \in p => Valid(p, e)
           /\ e \notin p => ~Possible(p, e)
<1>1. e \in p => Valid(p, e)
  BY ModelsOf DEF Valid
<1>2. Neg(e) \in p => ~Possible(p, e)
  BY ModelsOf, NegIs DEF Possible
<1> QED
  BY <1>1, <1>2 DEF IsKnown

LEMMA EvaluationsRight ==
    ASSUME NEW c, Sound(c), NEW p, Takeable(p), NEW e, Expression(e),
           NEW o \in Evaluations(c, p, e)
    PROVE  Sound(o.caches) /\ ValidityRight(o.answer, p, e)
<1>1. CASE IsKnown(p, e)
  <2>1. o = Outcome(c, IF e \in p THEN "True" ELSE "False")
    BY <1>1 DEF Evaluations
  <2> QED
    BY <1>1, <2>1, KnownRight DEF Outcome, ValidityRight
<1>2. CASE ~IsKnown(p, e)
  BY <1>2, EvaluateRight DEF Evaluations, Takeable
<1> QED
  BY <1>1, <1>2

LEMMA TruthsRight ==
    ASSUME NEW c, Sound(c), NEW p, Takeable(p), NEW e, Expression(e),
           NEW o \in Truths(c, p, e)
    PROVE  Sound(o.caches) /\ TruthRight(o.answer, p, e)
<1>1. CASE IsKnown(p, e)
  <2> DEFINE known == e \in p
  <2>1. o = Outcome(c, known)
    BY <1>1 DEF Truths
  <2>2. (known = TRUE /\ Valid(p, e)) \/ (known = FALSE /\ ~Possible(p, e))
    BY <1>1, KnownRight
  <2>3. ~Possible(p, e) => ~Valid(p, e)
    BY DEF Takeable, Possible, Valid
  <2> HIDE DEF known
  <2> QED
    BY <2>1, <2>2, <2>3 DEF Outcome, TruthRight
<1>2. CASE ~IsKnown(p, e)
  BY <1>2, MustBeTrueRight DEF Truths, Takeable
<1> QED
  BY <1>1, <1>2

LEMMA PossibilitiesRight ==
    ASSUME NEW c, Sound(c), NEW p, Takeable(p), NEW e, Expression(e),
           NEW o \in Possibilities(c, p, e)
    PROVE  Sound(o.caches) /\ PossibilityRight(o.answer, p, e)
<1>1. CASE IsKnown(p, e)
  <2> DEFINE known == e \in p
  <2>1. o = Outcome(c, known)
    BY <1>1 DEF Possibilities
  <2>2. (known = TRUE /\ Valid(p, e)) \/ (known = FALSE /\ ~Possible(p, e))
    BY <1>1, KnownRight
  <2>3. Valid(p, e) => Possible(p, e)
    BY DEF Takeable, Possible, Valid
  <2> HIDE DEF known
  <2> QED
    BY <2>1, <2>2, <2>3 DEF Outcome, PossibilityRight
<1>2. CASE ~IsKnown(p, e)
  BY <1>2, MayBeTrueRight DEF Possibilities, Takeable
<1> QED
  BY <1>1, <1>2

LEMMA ValuesRight ==
    ASSUME NEW c, Sound(c), NEW p, Takeable(p), NEW e, Expression(e),
           NEW o \in Values(c, p, e)
    PROVE  Sound(o.caches) /\ ValueRight(o.answer, p, e)
<1>1. CASE IsKnown(p, e)
  <2> DEFINE known == e \in p
  <2>1. o = Outcome(c, known)
    BY <1>1 DEF Values
  <2>2. (known = TRUE /\ Valid(p, e)) \/ (known = FALSE /\ ~Possible(p, e))
    BY <1>1, KnownRight
  <2>3. /\ Valid(p, e) => Possible(p, e)
        /\ ~Possible(p, e) => ~Valid(p, e)
    BY DEF Takeable, Possible, Valid
  <2> HIDE DEF known
  <2> QED
    BY <2>1, <2>2, <2>3 DEF Outcome, ValueRight
<1>2. CASE ~IsKnown(p, e)
  BY <1>2, GetValueRight DEF Values, Takeable
<1> QED
  BY <1>1, <1>2

-----------------------------------------------------------------------------
(* The cases of a switch. *)

NothingFound(c) == {Outcome(c, {})}

AskedCases(c, p, matches) ==
    CHOOSE f : f = [i \in 0 .. Len(matches) |->
                       IF i = 0 THEN NothingFound(c) ELSE AskCase(f[i - 1], p, matches[i])]

(* The recursion of PossibleCases is well-founded. *)
LEMMA AskedCasesDef ==
    ASSUME NEW c, NEW p, NEW matches, Len(matches) \in Nat
    PROVE  /\ AskedCases(c, p, matches) =
                 [i \in 0 .. Len(matches) |->
                    IF i = 0 THEN NothingFound(c)
                    ELSE AskCase(AskedCases(c, p, matches)[i - 1], p, matches[i])]
           /\ PossibleCases(c, p, matches) = AskedCases(c, p, matches)[Len(matches)]
<1> DEFINE n == Len(matches)
           Is(f, m) == f = [i \in 0 .. m |-> IF i = 0 THEN NothingFound(c)
                                             ELSE AskCase(f[i - 1], p, matches[i])]
           S == {m \in Nat : \E f : Is(f, m)}
<1>1. 0 \in S
  <2>1. Is([i \in 0 .. 0 |-> NothingFound(c)], 0)
    OBVIOUS
  <2> QED
    BY <2>1
<1>2. ASSUME NEW m \in S
      PROVE  m + 1 \in S
  <2>1. PICK f : Is(f, m)
    OBVIOUS
  <2> DEFINE g == [i \in 0 .. m + 1 |-> IF i = m + 1 THEN AskCase(f[m], p, matches[m + 1])
                                        ELSE f[i]]
  <2>2. \A i \in 0 .. m + 1 : g[i] = IF i = 0 THEN NothingFound(c)
                                     ELSE AskCase(g[i - 1], p, matches[i])
    BY <2>1
  <2>3. Is(g, m + 1)
    <3> DEFINE h == [i \in 0 .. m + 1 |-> IF i = 0 THEN NothingFound(c)
                                          ELSE AskCase(g[i - 1], p, matches[i])]
    <3>1. \A i \in 0 .. m + 1 : g[i] = h[i]
      BY <2>2
    <3>2. g = h
      BY <3>1
    <3> QED
      BY <3>2
  <2> HIDE DEF Is, g
  <2> QED
    BY <2>3
<1>3. n \in S
  <2> HIDE DEF S
  <2> QED
    BY <1>1, <1>2, SetInduction DEF S
<1>4. PICK f : Is(f, n)
  BY <1>3
<1>5. AskedCases(c, p, matches) = CHOOSE g : Is(g, n)
  BY DEF AskedCases
<1>6. PossibleCases(c, p, matches) = AskedCases(c, p, matches)[Len(matches)]
  BY DEF PossibleCases, AskedCases, NothingFound
<1> HIDE DEF n
<1>7. Is(AskedCases(c, p, matches), n)
  BY <1>4, <1>5
<1> QED
  BY <1>6, <1>7 DEF n

(* The answer so far is the set of the cases that are possible. *)
CasesFound(o, p, matches, i) ==
    /\ Sound(o.caches)
    /\ \/ o.answer = Failed /\ CoreFails
       \/ o.answer = {matches[j] : j \in {k \in 1 .. i : Possible(p, matches[k])}}

LEMMA AskCaseKeeps ==
    ASSUME NEW p, Takeable(p), NEW matches, NEW i \in Nat,
           \A j \in 1 .. i + 1 : Expression(matches[j]),
           \A S \in SUBSET {matches[j] : j \in 1 .. i + 1} : S \notin {Failed, Aborted},
           NEW outcomes, \A o \in outcomes : CasesFound(o, p, matches, i),
           NEW o \in AskCase(outcomes, p, matches[i + 1])
    PROVE  CasesFound(o, p, matches, i + 1)
<1> DEFINE e == matches[i + 1]
           Found(k) == {matches[j] : j \in {m \in 1 .. k : Possible(p, matches[m])}}
<1>1. PICK q \in outcomes :
         \/ q.answer \in {Failed, Aborted} /\ o = q
         \/ /\ q.answer \notin {Failed, Aborted}
            /\ \E r \in Possibilities(q.caches, p, e) :
                  \/ r.answer \in {Failed, Aborted} /\ o = r
                  \/ /\ r.answer \notin {Failed, Aborted}
                     /\ o = Outcome(r.caches, IF r.answer THEN q.answer \cup {e} ELSE q.answer)
  BY DEF AskCase, Then
<1>2. Sound(q.caches) /\ ((q.answer = Failed /\ CoreFails) \/ q.answer = Found(i))
  BY DEF CasesFound
<1>3. CASE q.answer = Failed /\ CoreFails
  BY <1>1, <1>2, <1>3 DEF CasesFound
<1>4. CASE q.answer = Found(i)
  <2>1. Found(i) \in SUBSET {matches[j] : j \in 1 .. i + 1}
    OBVIOUS
  <2>2. q.answer \notin {Failed, Aborted}
    BY <1>4, <2>1
  <2>3. PICK r \in Possibilities(q.caches, p, e) :
           \/ r.answer \in {Failed, Aborted} /\ o = r
           \/ /\ r.answer \notin {Failed, Aborted}
              /\ o = Outcome(r.caches, IF r.answer THEN q.answer \cup {e} ELSE q.answer)
    BY <1>1, <2>2
  <2>4. Sound(r.caches) /\ PossibilityRight(r.answer, p, e)
    BY <1>2, PossibilitiesRight
  <2>5. CASE r.answer = Failed /\ CoreFails
    BY <2>3, <2>4, <2>5 DEF CasesFound
  <2>6. CASE r.answer = TRUE /\ Possible(p, e)
    <3>1. Found(i + 1) = Found(i) \cup {e}
      BY <2>6
    <3>2. o = Outcome(r.caches, Found(i) \cup {e})
      BY <1>4, <2>3, <2>6, MarkersApart
    <3> QED
      BY <2>4, <3>1, <3>2 DEF Outcome, CasesFound
  <2>7. CASE r.answer = FALSE /\ ~Possible(p, e)
    <3>1. Found(i + 1) = Found(i)
      BY <2>7
    <3>2. o = Outcome(r.caches, Found(i))
      BY <1>4, <2>3, <2>7, MarkersApart
    <3> QED
      BY <2>4, <3>1, <3>2 DEF Outcome, CasesFound
  <2> QED
    BY <2>4, <2>5, <2>6, <2>7 DEF PossibilityRight
<1> QED
  BY <1>2, <1>3, <1>4

LEMMA PossibleCasesRight ==
    ASSUME NEW c, Sound(c), NEW p, Takeable(p), NEW matches, Len(matches) \in Nat,
           \A j \in 1 .. Len(matches) : Expression(matches[j]),
           \A S \in SUBSET {matches[j] : j \in 1 .. Len(matches)} : S \notin {Failed, Aborted},
           NEW o \in PossibleCases(c, p, matches)
    PROVE  CasesFound(o, p, matches, Len(matches))
<1> DEFINE n == Len(matches)
           asked == AskedCases(c, p, matches)
           T == {i \in 0 .. n : \A q \in asked[i] : CasesFound(q, p, matches, i)}
<1>1. asked = [i \in 0 .. n |-> IF i = 0 THEN NothingFound(c)
                                ELSE AskCase(asked[i - 1], p, matches[i])]
  BY AskedCasesDef
<1>2. o \in asked[n]
  BY AskedCasesDef
<1>3. n \in Nat
  OBVIOUS
<1> HIDE DEF asked
<1>4. 0 \in T
  <2>1. asked[0] = {Outcome(c, {})}
    BY <1>1, <1>3 DEF NothingFound
  <2> QED
    BY <1>3, <2>1 DEF Outcome, CasesFound
<1>5. ASSUME NEW i \in 0 .. n - 1, i \in T
      PROVE  i + 1 \in T
  <2>1. asked[i + 1] = AskCase(asked[i], p, matches[i + 1])
    BY <1>1, <1>3
  <2>2. i \in Nat /\ 1 .. i + 1 \subseteq 1 .. n
    BY <1>3
  <2>3. \A q \in asked[i] : CasesFound(q, p, matches, i)
    BY <1>5
  <2>4. /\ \A j \in 1 .. i + 1 : Expression(matches[j])
        /\ \A S \in SUBSET {matches[j] : j \in 1 .. i + 1} : S \notin {Failed, Aborted}
    BY <2>2
  <2> HIDE DEF T
  <2>5. ASSUME NEW q \in AskCase(asked[i], p, matches[i + 1])
        PROVE  CasesFound(q, p, matches, i + 1)
    BY <2>2, <2>3, <2>4, AskCaseKeeps
  <2> QED
    BY <1>3, <2>1, <2>5 DEF T
<1>6. n \in T
  <2> HIDE DEF T
  <2> QED
    BY <1>3, <1>4, <1>5, IndexInduction
<1> QED
  BY <1>2, <1>6

-----------------------------------------------------------------------------
(* The branches of a switch. *)

MatchesOf(sw) == {sw.cases[i].match : i \in DOMAIN sw.cases}

LEMMA SwitchIs ==
    ASSUME NEW sw \in Switches
    PROVE  /\ Len(sw.cases) \in Nat /\ DOMAIN sw.cases = 1 .. Len(sw.cases)
           /\ \A i \in DOMAIN sw.cases : Expression(sw.cases[i].match)
           /\ \A i, j \in DOMAIN sw.cases : \A a : i # j =>
                 ~(a \in sw.cases[i].match.models /\ a \in sw.cases[j].match.models)
           /\ Expressions(NoMatch(sw)) /\ Expression(And(NoMatch(sw)))
           /\ \A S \in SUBSET (MatchesOf(sw) \cup {And(NoMatch(sw))}) : S \notin {Failed, Aborted}
<1> DEFINE matches == MatchesOf(sw)
<1>1. /\ sw.cases \in Seq(ToSet(sw.cases))
      /\ \A e \in matches : Expression(e)
      /\ \A i, j \in DOMAIN sw.cases : i # j =>
            sw.cases[i].match.models \cap sw.cases[j].match.models = {}
      /\ \A found \in SUBSET (matches \cup {And({Neg(e) : e \in matches})}) :
            found \notin {Failed, Aborted}
  BY ProgramSwitches DEF MatchesOf
<1>2. {Neg(e) : e \in matches} = NoMatch(sw)
  BY DEF NoMatch, MatchesOf
<1>3. \A i \in DOMAIN sw.cases : Expression(sw.cases[i].match)
  BY <1>1 DEF MatchesOf
<1>4. Expressions(NoMatch(sw))
  BY <1>3, NegExpression DEF NoMatch, Expressions
<1>5. Expression(And(NoMatch(sw)))
  BY <1>4, AndExpression
<1>6. Len(sw.cases) \in Nat /\ DOMAIN sw.cases = 1 .. Len(sw.cases)
  BY <1>1
<1> QED
  BY <1>1, <1>2, <1>3, <1>4, <1>5, <1>6

(* An input matches no case. *)
LEMMA NoMatchIs ==
    ASSUME NEW sw, NEW a \in Inputs
    PROVE  /\ a \in And(NoMatch(sw)).models <=>
                 \A i \in DOMAIN sw.cases : a \notin sw.cases[i].match.models
           /\ (\A e \in NoMatch(sw) : a \in e.models) <=>
                 \A i \in DOMAIN sw.cases : a \notin sw.cases[i].match.models
<1>1. (\A e \in NoMatch(sw) : a \in e.models) <=>
         \A i \in DOMAIN sw.cases : a \in Neg(sw.cases[i].match).models
  BY DEF NoMatch
<1> QED
  BY <1>1, NegIs DEF And

(* The cases that go to t, of those found possible. *)
CasesTo(sw, possible, t) ==
    {sw.cases[i].match : i \in {j \in DOMAIN sw.cases :
        sw.cases[j].match \in possible /\ sw.cases[j].target = t}}

LEMMA BranchesAre ==
    ASSUME NEW sw, NEW possible
    PROVE  LET targets == {sw.cases[i].target :
                              i \in {j \in DOMAIN sw.cases : sw.cases[j].match \in possible}}
           IN  \A cs : cs \in Branches(sw, possible) <=>
                  \/ \E t \in targets : cs = {Or(CasesTo(sw, possible, t))}
                  \/ /\ And(NoMatch(sw)) \in possible /\ sw.default \notin targets
                     /\ cs = NoMatch(sw)
<1> DEFINE taken == {i \in DOMAIN sw.cases : sw.cases[i].match \in possible}
           targets == {sw.cases[i].target : i \in taken}
           To(t) == {sw.cases[i].match : i \in {j \in taken : sw.cases[j].target = t}}
<1>1. \A t : CasesTo(sw, possible, t) = To(t)
  BY DEF CasesTo
<1>2. Branches(sw, possible) =
         {{Or(To(t))} : t \in targets}
         \cup (IF And(NoMatch(sw)) \in possible /\ sw.default \notin targets
               THEN {NoMatch(sw)} ELSE {})
  BY DEF Branches
<1> HIDE DEF To
<1>3. Branches(sw, possible) =
         {{Or(CasesTo(sw, possible, t))} : t \in targets}
         \cup (IF And(NoMatch(sw)) \in possible /\ sw.default \notin targets
               THEN {NoMatch(sw)} ELSE {})
  BY <1>1, <1>2
<1> HIDE DEF targets
<1>4. \A cs : cs \in Branches(sw, possible) <=>
                  \/ \E t \in targets : cs = {Or(CasesTo(sw, possible, t))}
                  \/ /\ And(NoMatch(sw)) \in possible /\ sw.default \notin targets
                     /\ cs = NoMatch(sw)
  BY <1>3
<1> QED
  BY <1>4 DEF targets

(* What is possible on p of a switch. *)
PossibleOn(p, sw) ==
    {e \in MatchesOf(sw) \cup {And(NoMatch(sw))} : Possible(p, e)}

LEMMA OrIs ==
    ASSUME NEW sw, NEW possible, NEW t, NEW a
    PROVE  a \in Or(CasesTo(sw, possible, t)).models <=>
              \E i \in DOMAIN sw.cases :
                 /\ sw.cases[i].match \in possible /\ sw.cases[i].target = t
                 /\ a \in sw.cases[i].match.models
BY DEF Or, CasesTo

LEMMA NoMatchFinite ==
    ASSUME NEW sw \in Switches
    PROVE  IsFiniteSet(NoMatch(sw))
<1> DEFINE n == Len(sw.cases)
           g == [i \in 1 .. n |-> Neg(sw.cases[i].match)]
<1>1. n \in Nat /\ DOMAIN sw.cases = 1 .. n
  BY SwitchIs
<1>2. IsFiniteSet(1 .. n)
  BY <1>1, FS_Interval
<1>3. g \in Surjection(1 .. n, NoMatch(sw))
  BY <1>1 DEF NoMatch, Surjection
<1> HIDE DEF g
<1> QED
  BY <1>2, <1>3, FS_Surjection

(* A path with further constraints that one of its inputs satisfies. *)
LEMMA LongerPath ==
    ASSUME NEW p, Takeable(p), NEW cs, Expressions(cs), IsFiniteSet(cs),
           NEW a \in Models(p), \A e \in cs : a \in e.models
    PROVE  Takeable(p \cup cs) /\ Models(p \cup cs) \subseteq Models(p)
<1>1. IsFiniteSet(p \cup cs)
  BY FS_Union DEF Takeable
<1>2. Expressions(p \cup cs)
  BY DEF Takeable, Expressions
<1>3. a \in Models(p \cup cs)
  BY ModelsOf
<1> QED
  BY <1>1, <1>2, <1>3, SubsetModels DEF Takeable

LEMMA LongerModels ==
    ASSUME NEW p, NEW cs
    PROVE  \A a : a \in Models(p \cup cs) <=> a \in Models(p) /\ \A e \in cs : a \in e.models
BY ModelsOf

(* Each branch of a switch is a path some input takes, no two share one,   *)
(* and there is a branch: assert(N) holds.                                 *)
LEMMA BranchesApart ==
    ASSUME NEW p, Takeable(p), NEW sw \in Switches
    PROVE  LET Q == {p \cup cs : cs \in Branches(sw, PossibleOn(p, sw))}
           IN  /\ \A q \in Q : Takeable(q) /\ Models(q) \subseteq Models(p)
               /\ PathsApart(Q)
               /\ Branches(sw, PossibleOn(p, sw)) # {}
<1> DEFINE possible == PossibleOn(p, sw)
           targets == {sw.cases[i].target :
                          i \in {j \in DOMAIN sw.cases : sw.cases[j].match \in possible}}
           B == Branches(sw, possible)
<1>1. \A cs : cs \in B <=>
         \/ \E t \in targets : cs = {Or(CasesTo(sw, possible, t))}
         \/ /\ And(NoMatch(sw)) \in possible /\ sw.default \notin targets
            /\ cs = NoMatch(sw)
  BY BranchesAre
<1>2. \A i \in DOMAIN sw.cases : sw.cases[i].match \in possible <=> Possible(p, sw.cases[i].match)
  BY DEF PossibleOn, MatchesOf
<1>3. And(NoMatch(sw)) \in possible <=> Possible(p, And(NoMatch(sw)))
  BY DEF PossibleOn
<1>4. \A t : t \in targets <=> \E i \in DOMAIN sw.cases :
                 sw.cases[i].match \in possible /\ sw.cases[i].target = t
  OBVIOUS
<1>5. \A a \in Models(p) : a \in Inputs
  BY ModelsOf
<1> HIDE DEF possible, targets, B
<1>6. ASSUME NEW cs \in B
      PROVE  /\ Expressions(cs) /\ IsFiniteSet(cs)
             /\ \E a \in Models(p) : \A e \in cs : a \in e.models
  <2>1. ASSUME NEW t \in targets, cs = {Or(CasesTo(sw, possible, t))}
        PROVE  /\ Expressions(cs) /\ IsFiniteSet(cs)
               /\ \E a \in Models(p) : \A e \in cs : a \in e.models
    <3>1. PICK i \in DOMAIN sw.cases :
             sw.cases[i].match \in possible /\ sw.cases[i].target = t
      BY <1>4
    <3>2. PICK a \in Models(p) : a \in sw.cases[i].match.models
      BY <1>2, <3>1 DEF Possible
    <3>3. a \in Or(CasesTo(sw, possible, t)).models
      BY <3>1, <3>2, OrIs
    <3>4. Expressions(CasesTo(sw, possible, t))
      BY SwitchIs DEF CasesTo, Expressions
    <3>5. Expression(Or(CasesTo(sw, possible, t)))
      BY <3>4, OrExpression
    <3>6. IsFiniteSet(cs)
      BY <2>1, FS_Singleton
    <3> QED
      BY <2>1, <3>3, <3>5, <3>6 DEF Expressions
  <2>2. ASSUME And(NoMatch(sw)) \in possible, cs = NoMatch(sw)
        PROVE  /\ Expressions(cs) /\ IsFiniteSet(cs)
               /\ \E a \in Models(p) : \A e \in cs : a \in e.models
    <3>1. PICK a \in Models(p) : a \in And(NoMatch(sw)).models
      BY <1>3, <2>2 DEF Possible
    <3>2. \A e \in NoMatch(sw) : a \in e.models
      BY <1>5, <3>1, NoMatchIs
    <3> QED
      BY <2>2, <3>2, SwitchIs, NoMatchFinite
  <2> QED
    BY <1>1, <2>1, <2>2
<1>7. ASSUME NEW cs \in B
      PROVE  Takeable(p \cup cs) /\ Models(p \cup cs) \subseteq Models(p)
  BY <1>6, LongerPath
<1>8. ASSUME NEW cs \in B, NEW ds \in B, NEW a \in Models(p),
             \A e \in cs : a \in e.models, \A e \in ds : a \in e.models
      PROVE  cs = ds
  <2>1. a \in Inputs
    BY <1>5
  <2>2. ASSUME NEW t \in targets, cs = {Or(CasesTo(sw, possible, t))},
               NEW u \in targets, ds = {Or(CasesTo(sw, possible, u))}
        PROVE  cs = ds
    <3>1. PICK i \in DOMAIN sw.cases : sw.cases[i].target = t /\ a \in sw.cases[i].match.models
      BY <1>8, <2>2, OrIs
    <3>2. PICK j \in DOMAIN sw.cases : sw.cases[j].target = u /\ a \in sw.cases[j].match.models
      BY <1>8, <2>2, OrIs
    <3>3. i = j
      BY <3>1, <3>2, SwitchIs
    <3> QED
      BY <2>2, <3>1, <3>2, <3>3
  <2>6. (\A e \in NoMatch(sw) : a \in e.models) =>
           \A i \in DOMAIN sw.cases : a \notin sw.cases[i].match.models
    BY <2>1, NoMatchIs
  <2>3. \A t : a \in Or(CasesTo(sw, possible, t)).models =>
                  ~(\A e \in NoMatch(sw) : a \in e.models)
    BY <2>6, OrIs
  <2>4. ASSUME NEW t, cs = {Or(CasesTo(sw, possible, t))}
        PROVE  ds # NoMatch(sw)
    BY <1>8, <2>3, <2>4
  <2>5. ASSUME NEW t, ds = {Or(CasesTo(sw, possible, t))}
        PROVE  cs # NoMatch(sw)
    BY <1>8, <2>3, <2>5
  <2> QED
    BY <1>1, <2>2, <2>4, <2>5
<1>9. ASSUME NEW cs \in B, NEW ds \in B, p \cup cs # p \cup ds
      PROVE  Models(p \cup cs) \cap Models(p \cup ds) = {}
  <2> SUFFICES ASSUME NEW a \in Models(p \cup cs), a \in Models(p \cup ds) PROVE FALSE
    OBVIOUS
  <2>1. /\ a \in Models(p) /\ \A e \in cs : a \in e.models
        /\ \A e \in ds : a \in e.models
    BY LongerModels
  <2> QED
    BY <1>8, <1>9, <2>1
<1>10. B # {}
  <2>1. PICK a : a \in Models(p)
    BY DEF Takeable
  <2>2. CASE \E i \in DOMAIN sw.cases : a \in sw.cases[i].match.models
    <3>1. PICK i \in DOMAIN sw.cases : a \in sw.cases[i].match.models
      BY <2>2
    <3>2. sw.cases[i].match \in possible
      BY <1>2, <2>1, <3>1 DEF Possible
    <3>3. sw.cases[i].target \in targets
      BY <1>4, <3>2
    <3> QED
      BY <1>1, <3>3
  <2>3. CASE \A i \in DOMAIN sw.cases : a \notin sw.cases[i].match.models
    <3>1. a \in And(NoMatch(sw)).models
      BY <1>5, <2>1, <2>3, NoMatchIs
    <3>2. And(NoMatch(sw)) \in possible
      BY <1>3, <2>1, <3>1 DEF Possible
    <3> QED
      BY <1>1, <3>2
  <2> QED
    BY <2>2, <2>3
<1> DEFINE Q == {p \cup cs : cs \in B}
<1>11. \A q \in Q : Takeable(q) /\ Models(q) \subseteq Models(p)
  BY <1>7
<1>12. PathsApart(Q)
  BY <1>9 DEF PathsApart
<1> HIDE DEF Q
<1> QED
  BY <1>10, <1>11, <1>12 DEF Q, B, possible

(* When no case goes where the default goes, the branches lose no input.   *)
LEMMA BranchesCover ==
    ASSUME NEW p, NEW sw \in Switches,
           \A i \in DOMAIN sw.cases : sw.cases[i].target # sw.default
    PROVE  Models(p) \subseteq UNION {Models(q) : q \in {p \cup cs : cs \in Branches(sw, PossibleOn(p, sw))}}
<1> DEFINE possible == PossibleOn(p, sw)
           targets == {sw.cases[i].target :
                          i \in {j \in DOMAIN sw.cases : sw.cases[j].match \in possible}}
           B == Branches(sw, possible)
<1>1. \A cs : cs \in B <=>
         \/ \E t \in targets : cs = {Or(CasesTo(sw, possible, t))}
         \/ /\ And(NoMatch(sw)) \in possible /\ sw.default \notin targets
            /\ cs = NoMatch(sw)
  BY BranchesAre
<1>2. \A i \in DOMAIN sw.cases : sw.cases[i].match \in possible <=> Possible(p, sw.cases[i].match)
  BY DEF PossibleOn, MatchesOf
<1>3. And(NoMatch(sw)) \in possible <=> Possible(p, And(NoMatch(sw)))
  BY DEF PossibleOn
<1>4. \A t : t \in targets <=> \E i \in DOMAIN sw.cases :
                 sw.cases[i].match \in possible /\ sw.cases[i].target = t
  OBVIOUS
<1>5. sw.default \notin targets
  OBVIOUS
<1> HIDE DEF possible, targets, B
<1>6. ASSUME NEW a \in Models(p)
      PROVE  \E cs \in B : a \in Models(p \cup cs)
  <2>1. a \in Inputs
    BY ModelsOf
  <2>2. CASE \E i \in DOMAIN sw.cases : a \in sw.cases[i].match.models
    <3>1. PICK i \in DOMAIN sw.cases : a \in sw.cases[i].match.models
      BY <2>2
    <3>2. sw.cases[i].match \in possible
      BY <1>2, <3>1 DEF Possible
    <3> DEFINE t == sw.cases[i].target
               cs == {Or(CasesTo(sw, possible, t))}
    <3>3. cs \in B
      BY <1>1, <1>4, <3>2
    <3>4. a \in Or(CasesTo(sw, possible, t)).models
      BY <3>1, <3>2, OrIs
    <3>5. a \in Models(p \cup cs)
      BY <3>4, LongerModels
    <3> HIDE DEF cs
    <3> QED
      BY <3>3, <3>5
  <2>3. CASE \A i \in DOMAIN sw.cases : a \notin sw.cases[i].match.models
    <3>1. a \in And(NoMatch(sw)).models /\ \A e \in NoMatch(sw) : a \in e.models
      BY <2>1, <2>3, NoMatchIs
    <3>2. NoMatch(sw) \in B
      BY <1>1, <1>3, <1>5, <3>1 DEF Possible
    <3>3. a \in Models(p \cup NoMatch(sw))
      BY <3>1, LongerModels
    <3> QED
      BY <3>2, <3>3
  <2> QED
    BY <2>2, <2>3
<1> QED
  BY <1>6 DEF B, possible

-----------------------------------------------------------------------------
(* The preferences of a test case. *)

NothingAsked(c, p) == {Outcome(c, [stop |-> FALSE, tmp |-> p])}

AskedPreferences(c, p) ==
    CHOOSE f : f = [i \in 0 .. Len(Preferences) |->
                       IF i = 0 THEN NothingAsked(c, p)
                       ELSE AskPreference(f[i - 1], Preferences[i])]

(* The recursion of Preferred is well-founded. *)
LEMMA AskedPreferencesDef ==
    ASSUME NEW c, NEW p
    PROVE  /\ AskedPreferences(c, p) =
                 [i \in 0 .. Len(Preferences) |->
                    IF i = 0 THEN NothingAsked(c, p)
                    ELSE AskPreference(AskedPreferences(c, p)[i - 1], Preferences[i])]
           /\ Preferred(c, p) = AskedPreferences(c, p)[Len(Preferences)]
<1> DEFINE n == Len(Preferences)
           Is(f, m) == f = [i \in 0 .. m |-> IF i = 0 THEN NothingAsked(c, p)
                                             ELSE AskPreference(f[i - 1], Preferences[i])]
           S == {m \in Nat : \E f : Is(f, m)}
<1>1. 0 \in S
  <2>1. Is([i \in 0 .. 0 |-> NothingAsked(c, p)], 0)
    OBVIOUS
  <2> QED
    BY <2>1
<1>2. ASSUME NEW m \in S
      PROVE  m + 1 \in S
  <2>1. PICK f : Is(f, m)
    OBVIOUS
  <2> DEFINE g == [i \in 0 .. m + 1 |-> IF i = m + 1
                                        THEN AskPreference(f[m], Preferences[m + 1])
                                        ELSE f[i]]
  <2>2. \A i \in 0 .. m + 1 : g[i] = IF i = 0 THEN NothingAsked(c, p)
                                     ELSE AskPreference(g[i - 1], Preferences[i])
    BY <2>1
  <2>3. Is(g, m + 1)
    <3> DEFINE h == [i \in 0 .. m + 1 |-> IF i = 0 THEN NothingAsked(c, p)
                                          ELSE AskPreference(g[i - 1], Preferences[i])]
    <3>1. \A i \in 0 .. m + 1 : g[i] = h[i]
      BY <2>2
    <3>2. g = h
      BY <3>1
    <3> QED
      BY <3>2
  <2> HIDE DEF Is, g
  <2> QED
    BY <2>3
<1>3. n \in S
  <2>1. n \in Nat
    BY ProgramConditions
  <2> HIDE DEF S, n
  <2> QED
    BY <1>1, <1>2, <2>1, SetInduction DEF S
<1>4. PICK f : Is(f, n)
  BY <1>3
<1>5. AskedPreferences(c, p) = CHOOSE g : Is(g, n)
  BY DEF AskedPreferences
<1>6. Preferred(c, p) = AskedPreferences(c, p)[Len(Preferences)]
  BY DEF Preferred, AskedPreferences, NothingAsked
<1> HIDE DEF n
<1>7. Is(AskedPreferences(c, p), n)
  BY <1>4, <1>5
<1> QED
  BY <1>6, <1>7 DEF n

(* What has been added to p leaves it an input. *)
PreferredSoFar(o, p) ==
    Sound(o.caches) /\ p \subseteq o.answer.tmp /\ Takeable(o.answer.tmp)

LEMMA AskPreferenceKeeps ==
    ASSUME NEW p, NEW e, Expression(e), NEW asked, \A o \in asked : PreferredSoFar(o, p),
           NEW o \in AskPreference(asked, e)
    PROVE  PreferredSoFar(o, p)
<1>1. PICK q \in asked :
         \/ o = q
         \/ \E t \in Truths(q.caches, q.answer.tmp, Neg(e)) :
               o = Outcome(t.caches,
                           [stop |-> t.answer = Failed,
                            tmp |-> IF t.answer = FALSE THEN q.answer.tmp \cup {e}
                                    ELSE q.answer.tmp])
  BY DEF AskPreference
<1>2. Sound(q.caches) /\ p \subseteq q.answer.tmp /\ Takeable(q.answer.tmp)
  BY DEF PreferredSoFar
<1>3. CASE o = q
  BY <1>3
<1>4. ASSUME NEW t \in Truths(q.caches, q.answer.tmp, Neg(e)),
             o = Outcome(t.caches,
                         [stop |-> t.answer = Failed,
                          tmp |-> IF t.answer = FALSE THEN q.answer.tmp \cup {e}
                                  ELSE q.answer.tmp])
      PROVE  PreferredSoFar(o, p)
  <2>1. Sound(t.caches) /\ TruthRight(t.answer, q.answer.tmp, Neg(e))
    BY <1>2, NegExpression, TruthsRight
  <2> DEFINE stopped == t.answer = Failed
  <2>2. o = Outcome(t.caches, [stop |-> stopped,
                               tmp |-> IF t.answer = FALSE THEN q.answer.tmp \cup {e}
                                       ELSE q.answer.tmp])
    BY <1>4
  <2> HIDE DEF stopped
  <2>3. /\ o.caches = t.caches
        /\ o.answer.tmp = IF t.answer = FALSE THEN q.answer.tmp \cup {e} ELSE q.answer.tmp
    BY <2>2 DEF Outcome
  <2>4. CASE t.answer = FALSE /\ ~Valid(q.answer.tmp, Neg(e))
    <3>1. PICK a \in Models(q.answer.tmp) : a \in e.models
      BY <2>4, NegQuery DEF Possible
    <3>2. Expressions({e}) /\ IsFiniteSet({e})
      BY FS_Singleton DEF Expressions
    <3>3. Takeable(q.answer.tmp \cup {e})
      BY <1>2, <3>1, <3>2, LongerPath
    <3> QED
      BY <1>2, <2>1, <2>3, <2>4, <3>3 DEF PreferredSoFar
  <2>5. CASE t.answer # FALSE
    BY <1>2, <2>1, <2>3, <2>5 DEF PreferredSoFar
  <2>6. t.answer = FALSE => ~Valid(q.answer.tmp, Neg(e))
    BY <2>1, MarkersApart DEF TruthRight
  <2> QED
    BY <2>4, <2>5, <2>6
<1> QED
  BY <1>1, <1>2, <1>3, <1>4 DEF PreferredSoFar

LEMMA PreferredRight ==
    ASSUME NEW c, Sound(c), NEW p, Takeable(p), NEW o \in Preferred(c, p)
    PROVE  PreferredSoFar(o, p)
<1> DEFINE n == Len(Preferences)
           asked == AskedPreferences(c, p)
           T == {i \in 0 .. n : \A q \in asked[i] : PreferredSoFar(q, p)}
<1>1. asked = [i \in 0 .. n |-> IF i = 0 THEN NothingAsked(c, p)
                                ELSE AskPreference(asked[i - 1], Preferences[i])]
  BY AskedPreferencesDef
<1>2. o \in asked[n]
  BY AskedPreferencesDef
<1>3. n \in Nat /\ \A i \in 1 .. n : Expression(Preferences[i])
  <2>1. Preferences \in Seq(ToSet(Preferences)) /\ \A e \in ToSet(Preferences) : Expression(e)
    BY ProgramConditions
  <2>2. n \in Nat /\ DOMAIN Preferences = 1 .. n
    BY <2>1
  <2>3. \A i \in 1 .. n : Preferences[i] \in ToSet(Preferences)
    BY <2>2 DEF ToSet
  <2> QED
    BY <2>1, <2>2, <2>3
<1> HIDE DEF asked, n
<1>4. 0 \in T
  <2> DEFINE start == [stop |-> FALSE, tmp |-> p]
  <2>1. asked[0] = {Outcome(c, start)}
    BY <1>1, <1>3 DEF NothingAsked
  <2>2. start.tmp = p
    OBVIOUS
  <2> HIDE DEF start
  <2> QED
    BY <1>3, <2>1, <2>2 DEF Outcome, PreferredSoFar
<1>5. ASSUME NEW i \in 0 .. n - 1, i \in T
      PROVE  i + 1 \in T
  <2>1. asked[i + 1] = AskPreference(asked[i], Preferences[i + 1])
    BY <1>1, <1>3
  <2>2. i \in Nat /\ i + 1 \in 1 .. n
    BY <1>3
  <2>3. \A q \in asked[i] : PreferredSoFar(q, p)
    BY <1>5
  <2>4. Expression(Preferences[i + 1])
    BY <1>3, <2>2
  <2> HIDE DEF T
  <2>5. ASSUME NEW q \in AskPreference(asked[i], Preferences[i + 1])
        PROVE  PreferredSoFar(q, p)
    BY <2>3, <2>4, AskPreferenceKeeps
  <2> QED
    BY <1>3, <2>1, <2>5 DEF T
<1>6. n \in T
  <2> HIDE DEF T
  <2> QED
    BY <1>3, <1>4, <1>5, IndexInduction
<1> QED
  BY <1>2, <1>6

(* A test case of p is an input of p. *)
LEMMA SolutionRight ==
    ASSUME NEW c, Sound(c), NEW p, Takeable(p), NEW t \in Preferred(c, p),
           NEW o \in getInitialValues(t.caches, t.answer.tmp)
    PROVE  /\ Sound(o.caches)
           /\ (o.answer = Failed /\ CoreFails) \/ o.answer \in Models(p)
<1>1. Sound(t.caches) /\ p \subseteq t.answer.tmp /\ Takeable(t.answer.tmp)
  BY PreferredRight DEF PreferredSoFar
<1>2. /\ Sound(o.caches)
      /\ (o.answer = Failed /\ CoreFails) \/ o.answer \in Models(t.answer.tmp)
  BY <1>1, InitialValuesRight DEF Takeable
<1> QED
  BY <1>1, <1>2, SubsetModels

-----------------------------------------------------------------------------
(* What a step does to the paths. *)

(* No case of a switch goes where its default goes.  Where one does, the   *)
(* inputs of the default are lost: the paths do not implement InputRegions.*)
DefaultsApart ==
    \A sw \in Switches : \A i \in DOMAIN sw.cases : sw.cases[i].target # sw.default

(* Q are paths with inputs of p. *)
SharedOut(p, Q) ==
    /\ \A q \in Q : Takeable(q) /\ Models(q) \subseteq Models(p)
    /\ PathsApart(Q)

Split(p, Q) ==
    /\ SharedOut(p, Q)
    /\ DefaultsApart => Models(p) \subseteq UNION {Models(q) : q \in Q}
    /\ paths' = (paths \ {p}) \cup Q /\ givenUp' = givenUp

(* p goes on with some inputs, or not at all. *)
Narrow(p, Q) ==
    /\ SharedOut(p, Q) /\ (Q = {} \/ \E q : Q = {q})
    /\ paths' = (paths \ {p}) \cup Q
    /\ \E lost : /\ lost \subseteq Models(p)
                 /\ DefaultsApart => lost = Models(p) \ UNION {Models(q) : q \in Q}
                 /\ givenUp' = givenUp \cup lost

Joined(p, q) == (p \cap q) \cup {Or({And(p \ q), And(q \ p)})}

Join(p, q) ==
    /\ p # q /\ paths' = (paths \ {p, q}) \cup {Joined(p, q)} /\ givenUp' = givenUp

PathStep ==
    \/ paths' = paths /\ givenUp' = givenUp
    \/ \E p \in paths : \E Q : Split(p, Q) \/ Narrow(p, Q)
    \/ \E p, q \in paths : Join(p, q)

(* One path is replaced by paths that share its inputs out. *)
LEMMA ReplacedRight ==
    ASSUME NEW P, PathsRight(P), NEW p \in P, NEW Q, SharedOut(p, Q)
    PROVE  PathsRight((P \ {p}) \cup Q)
<1>1. \A q \in (P \ {p}) \cup Q : Takeable(q)
  BY DEF PathsRight, SharedOut
<1>2. ASSUME NEW q \in P \ {p}, NEW r \in Q
      PROVE  Models(q) \cap Models(r) = {}
  BY DEF PathsRight, PathsApart, SharedOut
<1>3. ASSUME NEW q \in (P \ {p}) \cup Q, NEW r \in (P \ {p}) \cup Q, q # r
      PROVE  Models(q) \cap Models(r) = {}
  <2>1. CASE q \in P \ {p} /\ r \in P \ {p}
    BY <1>3, <2>1 DEF PathsRight, PathsApart
  <2>2. CASE q \in Q /\ r \in Q
    BY <1>3, <2>2 DEF SharedOut, PathsApart
  <2> QED
    BY <1>2, <1>3, <2>1, <2>2
<1> QED
  BY <1>1, <1>3 DEF PathsRight, PathsApart

LEMMA ReplacedRegions ==
    ASSUME NEW P, PathsRight(P), NEW p \in P, NEW Q, SharedOut(p, Q)
    PROVE  LET old == {Models(r) : r \in P} \ {Models(p)}
               new == {Models(q) : q \in Q}
           IN  /\ {Models(r) : r \in (P \ {p}) \cup Q} = old \cup new
               /\ old \cap new = {} /\ {} \notin new
               /\ \A R, S \in new : R # S => R \cap S = {}
               /\ UNION new \subseteq Models(p)
<1> DEFINE old == {Models(r) : r \in P} \ {Models(p)}
           new == {Models(q) : q \in Q}
<1>1. old = {Models(r) : r \in P \ {p}}
  <2>1. \A r \in P \ {p} : Models(r) # Models(p)
    BY DEF PathsRight, PathsApart, Takeable
  <2> QED
    BY <2>1
<1>2. {Models(r) : r \in (P \ {p}) \cup Q} = old \cup new
  BY <1>1
<1>3. \A q \in Q : Models(q) # {} /\ Models(q) \subseteq Models(p)
  BY DEF SharedOut, Takeable
<1>4. \A r \in P \ {p} : Models(r) \cap Models(p) = {}
  BY DEF PathsRight, PathsApart
<1>5. old \cap new = {}
  BY <1>1, <1>3, <1>4
<1>6. \A R, S \in new : R # S => R \cap S = {}
  BY DEF SharedOut, PathsApart
<1> QED
  BY <1>2, <1>3, <1>5, <1>6

(* Two paths that meet: the inputs of both, and no others. *)
LEMMA JoinedModels ==
    ASSUME NEW p, Takeable(p), NEW q, Takeable(q)
    PROVE  Models(Joined(p, q)) = Models(p) \cup Models(q) /\ Takeable(Joined(p, q))
<1> DEFINE rest == Or({And(p \ q), And(q \ p)})
<1>1. \A a : a \in rest.models <=> a \in And(p \ q).models \/ a \in And(q \ p).models
  BY DEF Or
<1>2. \A K, a : a \in And(K).models <=> a \in Inputs /\ \A e \in K : a \in e.models
  BY DEF And
<1>10. Joined(p, q) = (p \cap q) \cup {rest}
  BY DEF Joined
<1> HIDE DEF rest
<1>3. \A a : a \in Models(Joined(p, q)) <=>
               /\ a \in Inputs /\ \A e \in p \cap q : a \in e.models
               /\ a \in rest.models
  BY <1>10, ModelsOf
<1>4. \A a : a \in Models(Joined(p, q)) <=> a \in Models(p) \/ a \in Models(q)
  <2> TAKE a
  <2>1. a \in Models(p) <=> /\ a \in Inputs /\ \A e \in p \cap q : a \in e.models
                            /\ \A e \in p \ q : a \in e.models
    BY ModelsOf
  <2>2. a \in Models(q) <=> /\ a \in Inputs /\ \A e \in p \cap q : a \in e.models
                            /\ \A e \in q \ p : a \in e.models
    BY ModelsOf
  <2> QED
    BY <1>1, <1>2, <1>3, <2>1, <2>2
<1>5. Expressions(p \ q) /\ Expressions(q \ p) /\ Expressions(p \cap q)
  BY DEF Takeable, Expressions
<1>6. Expressions({And(p \ q), And(q \ p)})
  BY <1>5, AndExpression DEF Expressions
<1>7. Expression(rest)
  BY <1>6, OrExpression DEF rest
<1>8. Expressions(Joined(p, q))
  BY <1>5, <1>7 DEF Joined, Expressions, rest
<1>9. IsFiniteSet(Joined(p, q))
  <2>1. IsFiniteSet(p \cap q)
    BY FS_Intersection DEF Takeable
  <2> QED
    BY <2>1, FS_AddElement DEF Joined
<1> QED
  BY <1>4, <1>8, <1>9 DEF Takeable

LEMMA JoinedRight ==
    ASSUME NEW P, PathsRight(P), NEW p \in P, NEW q \in P, p # q
    PROVE  /\ PathsRight((P \ {p, q}) \cup {Joined(p, q)})
           /\ {Models(r) : r \in (P \ {p, q}) \cup {Joined(p, q)}} =
                 ({Models(r) : r \in P} \ {Models(p), Models(q)})
                 \cup {Models(p) \cup Models(q)}
           /\ Models(p) # Models(q)
<1> DEFINE m == Joined(p, q)
<1>1. Models(m) = Models(p) \cup Models(q) /\ Takeable(m)
  BY JoinedModels DEF PathsRight
<1> HIDE DEF m
<1>2. /\ \A r \in P : Takeable(r) /\ Models(r) # {}
      /\ \A r, s \in P : r # s => Models(r) \cap Models(s) = {}
  BY DEF PathsRight, PathsApart, Takeable
<1>3. \A r \in P \ {p, q} : Models(r) \cap Models(m) = {}
  BY <1>1, <1>2
<1>4. PathsRight((P \ {p, q}) \cup {m})
  BY <1>1, <1>2, <1>3 DEF PathsRight, PathsApart
<1>5. \A r \in P \ {p, q} : Models(r) # Models(p) /\ Models(r) # Models(q)
  BY <1>2
<1>6. {Models(r) : r \in P \ {p, q}} = {Models(r) : r \in P} \ {Models(p), Models(q)}
  BY <1>5
<1>7. {Models(r) : r \in (P \ {p, q}) \cup {m}} = {Models(r) : r \in P \ {p, q}} \cup {Models(m)}
  OBVIOUS
<1>8. Models(p) # Models(q)
  BY <1>2
<1> QED
  BY <1>1, <1>4, <1>6, <1>7, <1>8 DEF m

LEMMA PathStepRight ==
    ASSUME PathsRight(paths), givenUp \subseteq Inputs, PathStep
    PROVE  PathsRight(paths') /\ givenUp' \subseteq Inputs
<1>1. ASSUME NEW p \in paths, NEW Q, Split(p, Q)
      PROVE  PathsRight(paths') /\ givenUp' \subseteq Inputs
  BY <1>1, ReplacedRight DEF Split
<1>2. ASSUME NEW p \in paths, NEW Q, Narrow(p, Q)
      PROVE  PathsRight(paths') /\ givenUp' \subseteq Inputs
  <2>1. PathsRight(paths')
    BY <1>2, ReplacedRight DEF Narrow
  <2>2. givenUp' \subseteq Inputs
    BY <1>2, ModelsOf DEF Narrow
  <2> QED
    BY <2>1, <2>2
<1>3. ASSUME NEW p \in paths, NEW q \in paths, Join(p, q)
      PROVE  PathsRight(paths') /\ givenUp' \subseteq Inputs
  BY <1>3, JoinedRight DEF Join
<1> QED
  BY <1>1, <1>2, <1>3 DEF PathStep

-----------------------------------------------------------------------------
(* What an answer says. *)

AnswerRight(op, p, e, result) ==
    LET M == Models(p)
        yes == M \cap e.models
        no == M \ e.models
    IN  result \notin {Failed, Aborted} =>
        CASE op = "evaluate" ->
                /\ result = "True" => no = {}
                /\ result = "False" => yes = {}
                /\ result = "Unknown" => yes # {} /\ no # {}
          [] op = "mustBeTrue" -> result <=> no = {}
          [] op = "getValue" -> IF result THEN yes # {} ELSE no # {}
          [] op = "getInitialValues" -> result \in M
          [] OTHER -> \A f \in result : f.models \cap M # {}

(* A call fails when the core solver does. *)
FailsRight(result) == result # Aborted /\ (result = Failed => CoreFails)

AnswerKept ==
    /\ AnswersRight' /\ answer.result' # Aborted
    /\ (~CoreFails => answer.op = "none" \/ answer.result # Failed)'

LEMMA AnswerTaken ==
    ASSUME NEW op, NEW p, NEW e, NEW result, options' = options,
           answer' = Answers(op, p, e, result),
           AnswerRight(op, p, e, result), FailsRight(result)
    PROVE  AnswerKept
<1>1. /\ answer'.op = op /\ answer'.path = p /\ answer'.expr = e
      /\ answer'.result = result
  BY DEF Answers
<1>2. AnswersRight' <=> AnswerRight(answer'.op, answer'.path, answer'.expr, answer'.result)
  BY DEF AnswersRight, AnswerRight
<1>3. AnswersRight'
  BY <1>1, <1>2
<1>4. CoreFails' <=> CoreFails
  BY DEF CoreFails
<1> QED
  BY <1>1, <1>3, <1>4 DEF FailsRight, AnswerKept

LEMMA AnswerSame ==
    ASSUME IInv, options' = options, answer' = answer
    PROVE  AnswerKept
BY DEF IInv, AnswerKept, AnswersRight, CoreFails

LEMMA ValidityAnswer ==
    ASSUME NEW p, NEW e, NEW r, ValidityRight(r, p, e)
    PROVE  AnswerRight("evaluate", p, e, r) /\ FailsRight(r)
<1>1. CASE r = Failed /\ CoreFails
  BY <1>1, MarkersApart DEF AnswerRight, FailsRight
<1>2. CASE r = "True" /\ Valid(p, e)
  BY <1>2, MarkersApart DEF AnswerRight, FailsRight, Valid
<1>3. CASE r = "False" /\ ~Possible(p, e)
  BY <1>3, MarkersApart DEF AnswerRight, FailsRight, Possible
<1>4. CASE r = "Unknown" /\ Possible(p, e) /\ ~Valid(p, e)
  BY <1>4, MarkersApart DEF AnswerRight, FailsRight, Possible, Valid
<1> QED
  BY <1>1, <1>2, <1>3, <1>4 DEF ValidityRight

LEMMA TruthAnswer ==
    ASSUME NEW p, NEW e, NEW r, TruthRight(r, p, e)
    PROVE  AnswerRight("mustBeTrue", p, e, r) /\ FailsRight(r)
<1>1. CASE r = Failed /\ CoreFails
  BY <1>1, MarkersApart DEF AnswerRight, FailsRight
<1>2. CASE r = TRUE /\ Valid(p, e)
  <2>1. Models(p) \ e.models = {}
    BY <1>2 DEF Valid
  <2>2. r <=> Models(p) \ e.models = {}
    BY <1>2, <2>1
  <2>3. FailsRight(r)
    BY <1>2, MarkersApart DEF FailsRight
  <2> QED
    BY <2>2, <2>3 DEF AnswerRight
<1>3. CASE r = FALSE /\ ~Valid(p, e)
  <2>1. Models(p) \ e.models # {}
    BY <1>3 DEF Valid
  <2>2. r <=> Models(p) \ e.models = {}
    BY <1>3, <2>1
  <2>3. FailsRight(r)
    BY <1>3, MarkersApart DEF FailsRight
  <2> QED
    BY <2>2, <2>3 DEF AnswerRight
<1> QED
  BY <1>1, <1>2, <1>3 DEF TruthRight

LEMMA ValueAnswer ==
    ASSUME NEW p, NEW e, NEW r, ValueRight(r, p, e)
    PROVE  AnswerRight("getValue", p, e, r) /\ FailsRight(r)
<1> DEFINE yes == Models(p) \cap e.models
           no == Models(p) \ e.models
<1>1. CASE r = Failed /\ CoreFails
  BY <1>1, MarkersApart DEF AnswerRight, FailsRight
<1>2. CASE r = TRUE /\ Possible(p, e)
  <2>1. IF r THEN yes # {} ELSE no # {}
    BY <1>2 DEF Possible
  <2>2. FailsRight(r)
    BY <1>2, MarkersApart DEF FailsRight
  <2> QED
    BY <2>1, <2>2 DEF AnswerRight
<1>3. CASE r = FALSE /\ ~Valid(p, e)
  <2>1. no # {}
    BY <1>3 DEF Valid
  <2>3. IF r THEN yes # {} ELSE no # {}
    BY <1>3, <2>1
  <2>2. FailsRight(r)
    BY <1>3, MarkersApart DEF FailsRight
  <2> QED
    BY <2>3, <2>2 DEF AnswerRight
<1> QED
  BY <1>1, <1>2, <1>3 DEF ValueRight

LEMMA CasesAnswer ==
    ASSUME NEW p, NEW sw \in Switches, NEW r,
           (r = Failed /\ CoreFails) \/ r = PossibleOn(p, sw)
    PROVE  AnswerRight("switch", p, And(NoMatch(sw)), r) /\ FailsRight(r)
<1>1. CASE r = Failed /\ CoreFails
  BY <1>1, MarkersApart DEF AnswerRight, FailsRight
<1>2. CASE r = PossibleOn(p, sw)
  <2>1. r \notin {Failed, Aborted}
    BY <1>2, SwitchIs DEF PossibleOn
  <2>2. \A f \in r : f.models \cap Models(p) # {}
    BY <1>2 DEF PossibleOn, Possible
  <2> QED
    BY <2>1, <2>2 DEF AnswerRight, FailsRight
<1> QED
  BY <1>1, <1>2

LEMMA SolutionAnswer ==
    ASSUME NEW p, NEW e, NEW r, (r = Failed /\ CoreFails) \/ r \in Models(p)
    PROVE  AnswerRight("getInitialValues", p, e, r) /\ FailsRight(r)
<1>1. r \in Models(p) => r # Failed /\ r # Aborted
  BY ModelsOf, MarkersApart
<1> QED
  BY <1>1, MarkersApart DEF AnswerRight, FailsRight

-----------------------------------------------------------------------------
(* The actions. *)

(* All a step does but for the paths. *)
Framed ==
    /\ options' = options /\ status' \in {"running", "solver failure"}
    /\ calls' \in 0 .. MaxCalls /\ Sound(caches') /\ AnswerKept

LEMMA CallCounts ==
    ASSUME calls \in 0 .. MaxCalls, calls < MaxCalls, calls' = calls + 1
    PROVE  calls' \in 0 .. MaxCalls
BY ProgramConditions

LEMMA CallFrames ==
    ASSUME IInv, NEW op, NEW p, NEW e, NEW o, Call(op, p, e, o), Sound(o.caches),
           AnswerRight(op, p, e, o.answer), FailsRight(o.answer),
           status' \in {"running", "solver failure"}
    PROVE  Framed
<1>1. options' = options /\ caches' = o.caches /\ answer' = Answers(op, p, e, o.answer)
  BY DEF Call
<1>2. calls' \in 0 .. MaxCalls
  BY CallCounts DEF Call, MayCall, IInv
<1>3. AnswerKept
  BY <1>1, AnswerTaken
<1> QED
  BY <1>1, <1>2, <1>3 DEF Framed

(* One side of a condition, which some input of p takes. *)
LEMMA SideRight ==
    ASSUME NEW p, Takeable(p), NEW e, Expression(e), NEW side \in {e, Neg(e)},
           \E a \in Models(p) : a \in side.models
    PROVE  /\ Takeable(p \cup {side})
           /\ Models(p \cup {side}) \subseteq Models(p)
           /\ Models(p \cup {Neg(side)}) = Models(p) \ Models(p \cup {side})
<1>1. Expression(side)
  BY NegExpression
<1>2. Expressions({side}) /\ IsFiniteSet({side})
  BY <1>1, FS_Singleton DEF Expressions
<1>3. Takeable(p \cup {side})
  BY <1>2, LongerPath
<1>4. Models(p \cup {side}) = {a \in Models(p) : a \in side.models}
  BY LongerModels
<1>5. \A a \in Models(p) : a \in Neg(side).models <=> a \notin side.models
  BY NegIs, ModelsOf
<1>6. Models(p \cup {Neg(side)}) = Models(p) \ Models(p \cup {side})
  <2>1. \A a : a \in Models(p \cup {Neg(side)}) <=> a \in Models(p) /\ a \in Neg(side).models
    BY LongerModels
  <2> QED
    BY <1>4, <1>5, <2>1
<1> QED
  BY <1>2, <1>3, <1>6, LongerPath

(* A path goes on with one side. *)
LEMMA SideNarrows ==
    ASSUME NEW p, Takeable(p), NEW e, Expression(e), NEW side \in {e, Neg(e)},
           \E a \in Models(p) : a \in side.models,
           Replace(p, {p \cup {side}}), givenUp' = givenUp \cup Models(p \cup {Neg(side)})
    PROVE  Narrow(p, {p \cup {side}})
<1> DEFINE q == p \cup {side}
           lost == Models(p \cup {Neg(side)})
<1>1. Takeable(q) /\ Models(q) \subseteq Models(p) /\ lost = Models(p) \ Models(q)
  <2>1. CASE side = e
    BY <2>1, SideRight
  <2>2. CASE side = Neg(e)
    <3>1. \E a \in Models(p) : a \in Neg(e).models
      BY <2>2
    <3>2. /\ Takeable(p \cup {Neg(e)}) /\ Models(p \cup {Neg(e)}) \subseteq Models(p)
          /\ Models(p \cup {Neg(Neg(e))}) = Models(p) \ Models(p \cup {Neg(e)})
      BY <3>1, SideRight
    <3> QED
      BY <2>2, <3>2
  <2> QED
    BY <2>1, <2>2
<1>2. paths' = (paths \ {p}) \cup {q} /\ givenUp' = givenUp \cup lost
  BY DEF Replace
<1> HIDE DEF q, lost
<1>3. SharedOut(p, {q})
  BY <1>1 DEF SharedOut, PathsApart
<1>4. UNION {Models(r) : r \in {q}} = Models(q)
  OBVIOUS
<1>5. Narrow(p, {q})
  BY <1>1, <1>2, <1>3, <1>4 DEF Narrow
<1> QED
  BY <1>5 DEF q

(* Both sides go on. *)
LEMMA ForkSplits ==
    ASSUME NEW p, Takeable(p), NEW e, Expression(e), Possible(p, e), ~Valid(p, e),
           Replace(p, Forked(p, e)), givenUp' = givenUp
    PROVE  Split(p, Forked(p, e))
<1> DEFINE q == p \cup {e}
           r == p \cup {Neg(e)}
<1>1. /\ \E a \in Models(p) : a \in e.models
      /\ \E a \in Models(p) : a \in Neg(e).models
  BY NegIs, ModelsOf DEF Possible, Valid
<1>2. Takeable(q) /\ Models(q) \subseteq Models(p) /\ Models(r) = Models(p) \ Models(q)
  BY <1>1, SideRight
<1>3. Takeable(r)
  BY <1>1, SideRight
<1>4. Forked(p, e) = {q, r}
  BY DEF Forked
<1> HIDE DEF q, r
<1>5. SharedOut(p, {q, r})
  BY <1>2, <1>3 DEF SharedOut, PathsApart
<1>6. Models(p) \subseteq UNION {Models(s) : s \in {q, r}}
  BY <1>2
<1> QED
  BY <1>4, <1>5, <1>6 DEF Split, Replace

(* A path ends. *)
LEMMA EndNarrows ==
    ASSUME NEW p, Replace(p, {}), givenUp' = givenUp \cup Models(p)
    PROVE  Narrow(p, {})
<1>1. SharedOut(p, {})
  BY DEF SharedOut, PathsApart
<1>2. UNION {Models(q) : q \in {}} = {}
  OBVIOUS
<1> QED
  BY <1>1, <1>2 DEF Narrow, Replace

LEMMA forkSteps ==
    ASSUME IInv, NEW p \in paths, NEW e \in Conditions, fork(p, e)
    PROVE  Framed /\ PathStep
<1>1. Takeable(p) /\ Expression(e) /\ Sound(caches)
  BY ProgramConditions DEF IInv, PathsRight
<1>2. PICK o \in Evaluations(caches, p, e) :
        /\ Call("evaluate", p, e, o)
        /\ \/ o.answer = Aborted /\ Stops("assertion")
           \/ /\ o.answer = Failed
              /\ Replace(p, {}) /\ givenUp' = givenUp \cup Models(p)
           \/ /\ o.answer \in {"True", "False"}
              /\ UNCHANGED <<paths, status, givenUp>>
           \/ /\ o.answer = "Unknown"
              /\ Replace(p, Forked(p, e)) /\ UNCHANGED givenUp
           \/ /\ o.answer = "Unknown"
              /\ \E side \in {e, Neg(e)} :
                    /\ Replace(p, {p \cup {side}})
                    /\ givenUp' = givenUp \cup Models(p \cup {Neg(side)})
  BY DEF fork
<1>3. Sound(o.caches) /\ ValidityRight(o.answer, p, e)
  BY <1>1, EvaluationsRight
<1>4. AnswerRight("evaluate", p, e, o.answer) /\ FailsRight(o.answer)
  BY <1>3, ValidityAnswer
<1>5. o.answer # Aborted
  BY <1>4 DEF FailsRight
<1>6. status' \in {"running", "solver failure"}
  BY <1>2, <1>5 DEF Replace, IInv
<1>7. Framed
  BY <1>2, <1>3, <1>4, <1>6, CallFrames
<1>8. CASE Replace(p, {}) /\ givenUp' = givenUp \cup Models(p)
  BY <1>7, <1>8, EndNarrows DEF PathStep
<1>9. CASE UNCHANGED <<paths, status, givenUp>>
  BY <1>7, <1>9 DEF PathStep
<1>10. o.answer = "Unknown" => Possible(p, e) /\ ~Valid(p, e)
  BY <1>3, MarkersApart DEF ValidityRight
<1>11. CASE o.answer = "Unknown" /\ Replace(p, Forked(p, e)) /\ UNCHANGED givenUp
  BY <1>1, <1>7, <1>10, <1>11, ForkSplits DEF PathStep
<1>12. ASSUME o.answer = "Unknown", NEW side \in {e, Neg(e)},
              Replace(p, {p \cup {side}}),
              givenUp' = givenUp \cup Models(p \cup {Neg(side)})
       PROVE  PathStep
  <2>1. \E a \in Models(p) : a \in side.models
    BY <1>10, <1>12, NegIs, ModelsOf DEF Possible, Valid
  <2> QED
    BY <1>1, <1>12, <2>1, SideNarrows DEF PathStep
<1> QED
  BY <1>2, <1>5, <1>7, <1>8, <1>9, <1>11, <1>12

LEMMA toConstantSteps ==
    ASSUME IInv, NEW p \in paths, NEW e \in Conditions, toConstant(p, e)
    PROVE  Framed /\ PathStep
<1>1. Takeable(p) /\ Expression(e) /\ Sound(caches)
  BY ProgramConditions DEF IInv, PathsRight
<1>2. PICK o \in Values(caches, p, e) :
        /\ Call("getValue", p, e, o)
        /\ \/ o.answer = Aborted /\ Stops("assertion")
           \/ o.answer = Failed /\ Stops("solver failure")
           \/ /\ o.answer \in BOOLEAN
              /\ LET side == IF o.answer THEN e ELSE Neg(e)
                 IN  /\ Replace(p, {p \cup {side}})
                     /\ givenUp' = givenUp \cup Models(p \cup {Neg(side)})
  BY DEF toConstant
<1>3. Sound(o.caches) /\ ValueRight(o.answer, p, e)
  BY <1>1, ValuesRight
<1>4. AnswerRight("getValue", p, e, o.answer) /\ FailsRight(o.answer)
  BY <1>3, ValueAnswer
<1>5. o.answer # Aborted
  BY <1>4 DEF FailsRight
<1>6. status' \in {"running", "solver failure"}
  BY <1>2, <1>5 DEF Replace, Stops, IInv
<1>7. Framed
  BY <1>2, <1>3, <1>4, <1>6, CallFrames
<1>8. CASE Stops("solver failure")
  BY <1>7, <1>8 DEF Stops, PathStep
<1> DEFINE side == IF o.answer THEN e ELSE Neg(e)
<1>9. CASE /\ o.answer \in BOOLEAN /\ Replace(p, {p \cup {side}})
           /\ givenUp' = givenUp \cup Models(p \cup {Neg(side)})
  <2>1. CASE o.answer = TRUE /\ Possible(p, e)
    <3>1. side = e
      BY <2>1
    <3>2. \E a \in Models(p) : a \in e.models
      BY <2>1 DEF Possible
    <3> QED
      BY <1>1, <1>7, <1>9, <3>1, <3>2, SideNarrows DEF PathStep
  <2>2. CASE o.answer = FALSE /\ ~Valid(p, e)
    <3>1. side = Neg(e)
      BY <2>2
    <3>2. \E a \in Models(p) : a \in Neg(e).models
      BY <2>2, NegIs, ModelsOf DEF Valid
    <3> QED
      BY <1>1, <1>7, <1>9, <3>1, <3>2, SideNarrows DEF PathStep
  <2>3. o.answer # Failed
    BY <1>9, MarkersApart
  <2> QED
    BY <1>3, <2>1, <2>2, <2>3 DEF ValueRight
<1> QED
  BY <1>2, <1>5, <1>7, <1>8, <1>9

LEMMA CheckBoundsSteps ==
    ASSUME IInv, NEW p \in paths, NEW e \in Conditions, CheckBounds(p, e)
    PROVE  Framed /\ PathStep
<1>1. Takeable(p) /\ Expression(e) /\ Sound(caches)
  BY ProgramConditions DEF IInv, PathsRight
<1>2. PICK o \in Truths(caches, p, e) :
        /\ Call("mustBeTrue", p, e, o)
        /\ \/ o.answer = Failed /\ Replace(p, {}) /\ givenUp' = givenUp \cup Models(p)
           \/ o.answer \in BOOLEAN /\ UNCHANGED <<paths, status, givenUp>>
  BY DEF CheckBounds
<1>3. Sound(o.caches) /\ TruthRight(o.answer, p, e)
  BY <1>1, TruthsRight
<1>4. AnswerRight("mustBeTrue", p, e, o.answer) /\ FailsRight(o.answer)
  BY <1>3, TruthAnswer
<1>5. status' \in {"running", "solver failure"}
  BY <1>2 DEF Replace, IInv
<1>6. Framed
  BY <1>2, <1>3, <1>4, <1>5, CallFrames
<1>7. CASE Replace(p, {}) /\ givenUp' = givenUp \cup Models(p)
  <2>1. Narrow(p, {})
    BY <1>7, EndNarrows
  <2> QED
    BY <1>6, <2>1 DEF PathStep
<1>8. CASE UNCHANGED <<paths, status, givenUp>>
  BY <1>6, <1>8 DEF PathStep
<1> QED
  BY <1>2, <1>7, <1>8

LEMMA toUniqueSteps ==
    ASSUME IInv, NEW p \in paths, NEW e \in Conditions, toUnique(p, e)
    PROVE  Framed /\ PathStep
<1>1. Takeable(p) /\ Expression(e) /\ Expression(Neg(e)) /\ Sound(caches)
  BY ProgramConditions, NegExpression DEF IInv, PathsRight
<1> DEFINE Stays == UNCHANGED <<paths, status, givenUp>>
<1>2. PICK v \in Values(caches, p, e) :
        \/ v.answer = Aborted
        \/ Call("getValue", p, e, v) /\ Stays
        \/ \E cond \in {e, Neg(e)} : \E o \in Truths(v.caches, p, cond) :
              Call("mustBeTrue", p, cond, o) /\ Stays
  BY DEF toUnique
<1>3. Sound(v.caches) /\ ValueRight(v.answer, p, e)
  BY <1>1, ValuesRight
<1>4. AnswerRight("getValue", p, e, v.answer) /\ FailsRight(v.answer)
  BY <1>3, ValueAnswer
<1>5. v.answer # Aborted
  BY <1>4 DEF FailsRight
<1>6. Stays
  BY <1>2, <1>5
<1>7. status' \in {"running", "solver failure"}
  BY <1>6 DEF IInv
<1> HIDE DEF Stays
<1>8. ASSUME Call("getValue", p, e, v)
      PROVE  Framed
  BY <1>3, <1>4, <1>7, <1>8, CallFrames
<1>9. ASSUME NEW cond \in {e, Neg(e)}, NEW o \in Truths(v.caches, p, cond), Call("mustBeTrue", p, cond, o)
      PROVE  Framed
  <2>1. Expression(cond)
    BY <1>1, <1>9
  <2>2. Sound(o.caches) /\ TruthRight(o.answer, p, cond)
    BY <1>1, <1>3, <2>1, TruthsRight
  <2>3. AnswerRight("mustBeTrue", p, cond, o.answer) /\ FailsRight(o.answer)
    BY <2>2, TruthAnswer
  <2> QED
    BY <1>7, <1>9, <2>2, <2>3, CallFrames
<1>10. Framed
  BY <1>2, <1>5, <1>8, <1>9
<1> QED
  BY <1>6, <1>10 DEF PathStep, Stays

LEMMA getSymbolicSolutionSteps ==
    ASSUME IInv, NEW p \in paths, getSymbolicSolution(p)
    PROVE  Framed /\ PathStep
<1>1. Takeable(p) /\ Sound(caches)
  BY DEF IInv, PathsRight
<1>2. PICK t \in Preferred(caches, p) : \E o \in getInitialValues(t.caches, t.answer.tmp) :
        /\ Call("getInitialValues", p, Neg(Or({})), o)
        /\ IF o.answer = Aborted THEN Stops("assertion")
           ELSE UNCHANGED <<paths, status, givenUp>>
  BY DEF getSymbolicSolution
<1>3. PICK o \in getInitialValues(t.caches, t.answer.tmp) :
        /\ Call("getInitialValues", p, Neg(Or({})), o)
        /\ IF o.answer = Aborted THEN Stops("assertion")
           ELSE UNCHANGED <<paths, status, givenUp>>
  BY <1>2
<1>4. Sound(o.caches) /\ ((o.answer = Failed /\ CoreFails) \/ o.answer \in Models(p))
  BY <1>1, SolutionRight
<1>5. AnswerRight("getInitialValues", p, Neg(Or({})), o.answer) /\ FailsRight(o.answer)
  BY <1>4, SolutionAnswer
<1>6. UNCHANGED <<paths, status, givenUp>>
  BY <1>3, <1>5 DEF FailsRight
<1>7. status' \in {"running", "solver failure"}
  BY <1>6 DEF IInv
<1>8. Framed
  BY <1>3, <1>4, <1>5, <1>7, CallFrames
<1> QED
  BY <1>6, <1>8 DEF PathStep

(* What a switch learns: every case that is possible and no other. *)
LEMMA SwitchCases ==
    ASSUME NEW c, Sound(c), NEW p, Takeable(p), NEW sw \in Switches,
           NEW o \in PossibleCases(c, p, Append([i \in DOMAIN sw.cases |-> sw.cases[i].match],
                                                And(NoMatch(sw))))
    PROVE  /\ Sound(o.caches)
           /\ (o.answer = Failed /\ CoreFails) \/ o.answer = PossibleOn(p, sw)
<1> DEFINE n == Len(sw.cases)
           matches == [i \in DOMAIN sw.cases |-> sw.cases[i].match]
           last == And(NoMatch(sw))
           all == Append(matches, last)
<1>1. /\ n \in Nat /\ DOMAIN sw.cases = 1 .. n
      /\ \A i \in DOMAIN sw.cases : Expression(sw.cases[i].match)
      /\ Expression(last)
      /\ \A S \in SUBSET (MatchesOf(sw) \cup {last}) : S \notin {Failed, Aborted}
  BY SwitchIs
<1>2. MatchesOf(sw) = {sw.cases[i].match : i \in 1 .. n}
  BY <1>1 DEF MatchesOf
<1>3. /\ Len(all) = n + 1 /\ all[n + 1] = last
      /\ \A i \in 1 .. n : all[i] = sw.cases[i].match
  <2>1. matches \in Seq(MatchesOf(sw)) /\ Len(matches) = n
    BY <1>1 DEF MatchesOf
  <2>2. \A i \in 1 .. n : matches[i] = sw.cases[i].match
    BY <1>1
  <2> DEFINE S == MatchesOf(sw) \cup {last}
  <2>3. matches \in Seq(S) /\ last \in S
    <3>1. \A i \in 1 .. n : matches[i] \in S
      BY <1>1 DEF MatchesOf
    <3> QED
      BY <1>1, <3>1
  <2> HIDE DEF matches, last, S
  <2>4. /\ Len(Append(matches, last)) = Len(matches) + 1
        /\ \A i \in 1 .. Len(matches) : Append(matches, last)[i] = matches[i]
        /\ Append(matches, last)[Len(matches) + 1] = last
    BY <2>3
  <2> QED
    BY <2>1, <2>2, <2>4
<1>4. o \in PossibleCases(c, p, all)
  OBVIOUS
<1> HIDE DEF all, last, n
<1>5. {all[j] : j \in 1 .. n + 1} = MatchesOf(sw) \cup {last}
  BY <1>1, <1>2, <1>3
<1>6. /\ Len(all) \in Nat
      /\ \A j \in 1 .. Len(all) : Expression(all[j])
      /\ \A S \in SUBSET {all[j] : j \in 1 .. Len(all)} : S \notin {Failed, Aborted}
  <2>1. \A j \in 1 .. n + 1 : Expression(all[j])
    BY <1>1, <1>3
  <2>2. {all[j] : j \in 1 .. Len(all)} = MatchesOf(sw) \cup {last}
    BY <1>3, <1>5
  <2>3. \A S \in SUBSET {all[j] : j \in 1 .. Len(all)} : S \notin {Failed, Aborted}
    BY <1>1, <2>2
  <2>4. Len(all) \in Nat /\ \A j \in 1 .. Len(all) : Expression(all[j])
    BY <1>1, <1>3, <2>1
  <2> QED
    BY <2>3, <2>4
<1>7. CasesFound(o, p, all, n + 1)
  BY <1>3, <1>4, <1>6, PossibleCasesRight
<1>8. {all[j] : j \in {k \in 1 .. n + 1 : Possible(p, all[k])}} =
         {e \in {all[j] : j \in 1 .. n + 1} : Possible(p, e)}
  OBVIOUS
<1>9. PossibleOn(p, sw) = {e \in MatchesOf(sw) \cup {last} : Possible(p, e)}
  BY DEF PossibleOn, last
<1> QED
  BY <1>5, <1>7, <1>8, <1>9 DEF CasesFound

LEMMA SwitchSteps ==
    ASSUME IInv, NEW p \in paths, NEW sw \in Switches, Switch(p, sw)
    PROVE  Framed /\ PathStep
<1>1. Takeable(p) /\ Sound(caches)
  BY DEF IInv, PathsRight
<1>2. PICK o \in PossibleCases(caches, p,
                               Append([i \in DOMAIN sw.cases |-> sw.cases[i].match],
                                      And(NoMatch(sw)))) :
        /\ Call("switch", p, And(NoMatch(sw)), o)
        /\ \/ /\ o.answer = Failed /\ Stops("solver failure")
           \/ /\ o.answer # Failed /\ Branches(sw, o.answer) = {}
              /\ Stops("assertion")
           \/ /\ o.answer # Failed
              /\ LET branches == {p \cup cs : cs \in Branches(sw, o.answer)}
                 IN  \/ Replace(p, branches) /\ UNCHANGED givenUp
                     \/ \E q \in branches :
                              /\ Replace(p, {q})
                              /\ givenUp' = givenUp \cup UNION {Models(r) : r \in branches \ {q}}
  BY DEF Switch
<1>3. Sound(o.caches) /\ ((o.answer = Failed /\ CoreFails) \/ o.answer = PossibleOn(p, sw))
  BY <1>1, <1>2, SwitchCases
<1>4. AnswerRight("switch", p, And(NoMatch(sw)), o.answer) /\ FailsRight(o.answer)
  BY <1>3, CasesAnswer
<1> DEFINE B == Branches(sw, PossibleOn(p, sw))
           Q == {p \cup cs : cs \in B}
<1>5. B # {} /\ SharedOut(p, Q)
  BY <1>1, BranchesApart DEF SharedOut
<1>6. DefaultsApart => Models(p) \subseteq UNION {Models(q) : q \in Q}
  BY BranchesCover DEF DefaultsApart
<1> HIDE DEF B
<1>7. CASE o.answer = Failed /\ Stops("solver failure")
  <2>1. Framed
    BY <1>2, <1>3, <1>4, <1>7, CallFrames DEF Stops
  <2> QED
    BY <1>7, <2>1 DEF Stops, PathStep
<1>8. CASE o.answer # Failed
  <2>1. Branches(sw, o.answer) = B
    BY <1>3, <1>8 DEF B
  <2>2. \/ Replace(p, Q) /\ UNCHANGED givenUp
        \/ \E q \in Q : /\ Replace(p, {q})
                        /\ givenUp' = givenUp \cup UNION {Models(r) : r \in Q \ {q}}
    BY <1>2, <1>5, <1>8, <2>1
  <2> HIDE DEF Q
  <2>3. status' \in {"running", "solver failure"}
    BY <2>2 DEF Replace, IInv
  <2>4. Framed
    BY <1>2, <1>3, <1>4, <2>3, CallFrames
  <2>5. CASE Replace(p, Q) /\ UNCHANGED givenUp
    <3>1. Split(p, Q)
      BY <1>5, <1>6, <2>5 DEF Split, Replace
    <3> QED
      BY <2>4, <3>1 DEF PathStep
  <2>6. ASSUME NEW q \in Q, Replace(p, {q}),
               givenUp' = givenUp \cup UNION {Models(r) : r \in Q \ {q}}
        PROVE  PathStep
    <3> DEFINE lost == UNION {Models(r) : r \in Q \ {q}}
    <3>1. lost \subseteq Models(p)
      BY <1>5 DEF SharedOut
    <3>2. lost \cap Models(q) = {}
      BY <1>5 DEF SharedOut, PathsApart
    <3>3. DefaultsApart => lost = Models(p) \ Models(q)
      BY <1>6, <3>1, <3>2
    <3>4. SharedOut(p, {q})
      BY <1>5 DEF SharedOut, PathsApart
    <3>5. UNION {Models(r) : r \in {q}} = Models(q)
      OBVIOUS
    <3>6. givenUp' = givenUp \cup lost
      BY <2>6
    <3> HIDE DEF lost
    <3>7. Narrow(p, {q})
      BY <2>6, <3>1, <3>3, <3>4, <3>5, <3>6 DEF Narrow, Replace
    <3> QED
      BY <3>7 DEF PathStep
  <2> QED
    BY <2>2, <2>4, <2>5, <2>6
<1> QED
  BY <1>2, <1>7, <1>8

LEMMA OtherSteps ==
    ASSUME IInv, NEW p \in paths,
           terminate(p) \/ \E q \in paths : Merge(p, q)
    PROVE  Framed /\ PathStep
<1>1. calls < MaxCalls /\ calls' = calls + 1 /\ options' = options
  BY DEF terminate, Merge, MayCall
<1>2. caches' = caches /\ answer' = answer /\ status' = status
  BY DEF terminate, Merge, Replace
<1>3. calls' \in 0 .. MaxCalls
  BY <1>1, CallCounts DEF IInv
<1>4. AnswerKept
  BY <1>1, <1>2, AnswerSame
<1>5. Framed
  BY <1>1, <1>2, <1>3, <1>4 DEF Framed, IInv
<1>6. CASE terminate(p)
  BY <1>5, <1>6, EndNarrows DEF terminate, PathStep
<1>7. ASSUME NEW q \in paths, Merge(p, q)
      PROVE  PathStep
  BY <1>7 DEF Merge, PathStep, Join, Joined
<1> QED
  BY <1>5, <1>6, <1>7

LEMMA NextSteps ==
    ASSUME IInv, Next
    PROVE  Framed /\ PathStep
<1> PICK p \in paths :
        \/ \E e \in Conditions : fork(p, e) \/ toConstant(p, e) \/ toUnique(p, e) \/ CheckBounds(p, e)
        \/ \E sw \in Switches : Switch(p, sw)
        \/ getSymbolicSolution(p)
        \/ \E q \in paths : Merge(p, q)
        \/ terminate(p)
  BY DEF Next
<1> QED
  BY forkSteps, toConstantSteps, toUniqueSteps, CheckBoundsSteps, SwitchSteps, getSymbolicSolutionSteps,
     OtherSteps

LEMMA StepKeeps ==
    ASSUME IInv, Framed, PathStep
    PROVE  IInv'
<1>1. PathsRight(paths') /\ givenUp' \subseteq Inputs
  BY PathStepRight DEF IInv
<1> QED
  BY <1>1 DEF IInv, Framed, AnswerKept

LEMMA InitRight == Init => IInv
<1> SUFFICES ASSUME Init PROVE IInv
  OBVIOUS
<1>1. Takeable({})
  <2>1. [x \in Elements |-> 0] \in Models({})
    BY SolverNames, ModelsOf DEF Inputs
  <2> QED
    BY <2>1, FS_EmptySet DEF Takeable, Expressions
<1>2. PathsRight(paths)
  BY <1>1 DEF Init, PathsRight, PathsApart
<1>3. Sound(caches)
  BY DEF Init, Empty, Sound
<1>4. answer.op = "none" /\ answer.result = Failed
  BY DEF Init, Answers
<1>5. AnswersRight /\ answer.result # Aborted
  BY <1>4, MarkersApart DEF AnswersRight
<1>6. 0 \in 0 .. MaxCalls
  BY ProgramConditions
<1> QED
  BY <1>2, <1>3, <1>4, <1>5, <1>6 DEF Init, IInv

LEMMA Stutters ==
    ASSUME IInv, UNCHANGED vars
    PROVE  IInv'
<1>1. AnswerKept
  BY AnswerSame DEF vars
<1>2. Framed /\ PathStep
  BY <1>1 DEF vars, IInv, Framed, PathStep
<1> QED
  BY <1>2, StepKeeps

(* The invariant that ties the paths to the answers. *)
THEOREM PathsInvariant == Spec => []IInv
<1>1. Init => IInv
  BY InitRight
<1>2. IInv /\ [Next]_vars => IInv'
  BY NextSteps, StepKeeps, Stutters
<1> QED
  BY <1>1, <1>2, PTL DEF Spec

(* The state stays what TypeOK says, the caches' entries included.         *)
THEOREM TypesRight == Spec => []TypeOK
<1>1. IInv => TypeOK
  <2> SUFFICES ASSUME IInv PROVE TypeOK
    OBVIOUS
  <2>1. \A p \in paths : \A e \in p : e.models \subseteq Inputs /\ e.reads \subseteq Elements
    BY DEF IInv, PathsRight, Takeable, Expressions, Expression
  <2>2. \A k \in DOMAIN caches.validity : caches.validity[k] \in DOMAIN Negated
    BY DEF IInv, Sound, Says, Negated
  <2>3. \A K \in DOMAIN caches.cex : caches.cex[K] \in Inputs \cup {NoAssignment}
    BY ModelsOf DEF IInv, Sound, Solves
  <2> QED
    BY <2>1, <2>2, <2>3 DEF IInv, TypeOK
<1> QED
  BY <1>1, PathsInvariant, PTL

(* No entry of the counterexample cache or of the validity cache is ever   *)
(* wrong, in whatever order paths ask, however often the core solver fails.*)
THEOREM CachesStaySound == Spec => []CachesSound
<1>1. IInv => CachesSound
  <2> SUFFICES ASSUME IInv PROVE CachesSound
    OBVIOUS
  <2>1. CexSound
    BY ModelsOf DEF IInv, Sound, Solves, CexSound, Satisfies
  <2>2. ValiditySound
    BY DEF IInv, Sound, Says, ValiditySound
  <2> QED
    BY <2>1, <2>2 DEF CachesSound
<1> QED
  BY <1>1, PathsInvariant, PTL

(* Each call that returns gives the answer of an ideal solver for all the  *)
(* constraints of the path.                                                *)
THEOREM AnswersStayRight == Spec => []AnswersRight
<1>1. IInv => AnswersRight
  BY DEF IInv
<1> QED
  BY <1>1, PathsInvariant, PTL

(* No assertion of the solver chain or of branch fails, and no call fails  *)
(* unless the core solver does.                                            *)
THEOREM CallsSucceed == Spec => []NoCallFails
<1>1. IInv => NoCallFails
  BY DEF IInv, NoCallFails
<1> QED
  BY <1>1, PathsInvariant, PTL

-----------------------------------------------------------------------------
(* The refinement. *)

LEMMA SplitImplements ==
    ASSUME PathsRight(paths), DefaultsApart, NEW p \in paths, NEW Q, Split(p, Q)
    PROVE  Regions!Split(Models(p))
<1> DEFINE old == {Models(r) : r \in paths} \ {Models(p)}
           new == {Models(q) : q \in Q}
<1>1. /\ {Models(r) : r \in (paths \ {p}) \cup Q} = old \cup new
      /\ old \cap new = {} /\ {} \notin new
      /\ \A R, S \in new : R # S => R \cap S = {}
      /\ UNION new \subseteq Models(p)
  BY ReplacedRegions DEF Split
<1>2. UNION new = Models(p)
  BY <1>1 DEF Split
<1>3. {Models(r) : r \in paths'} = old \cup new /\ givenUp' = givenUp
  BY <1>1 DEF Split
<1>4. {Models(r) : r \in paths}' = {Models(r) : r \in paths'}
  OBVIOUS
<1> HIDE DEF new
<1>5. {Models(r) : r \in paths'} \ old = new
  BY <1>1, <1>3
<1> QED
  BY <1>1, <1>2, <1>3, <1>4, <1>5 DEF Regions!Split, Regions!Apart

LEMMA NarrowImplements ==
    ASSUME PathsRight(paths), DefaultsApart, NEW p \in paths, NEW Q, Narrow(p, Q)
    PROVE  Regions!GiveUp(Models(p))
<1> DEFINE old == {Models(r) : r \in paths} \ {Models(p)}
           new == {Models(q) : q \in Q}
<1>1. SharedOut(p, Q) /\ (Q = {} \/ \E q : Q = {q}) /\ paths' = (paths \ {p}) \cup Q
  BY DEF Narrow
<1>2. /\ {Models(r) : r \in (paths \ {p}) \cup Q} = old \cup new
      /\ old \cap new = {} /\ {} \notin new
      /\ UNION new \subseteq Models(p)
  BY <1>1, ReplacedRegions
<1>3. givenUp' = givenUp \cup (Models(p) \ UNION new)
  BY DEF Narrow
<1>4. {Models(r) : r \in paths}' = old \cup new
  BY <1>1, <1>2
<1>5. new = {} \/ \E S : new = {S}
  BY <1>1
<1> HIDE DEF new
<1>6. new = {UNION new} \ {{}}
  <2>1. CASE new = {}
    BY <2>1
  <2>2. ASSUME NEW S, new = {S}
        PROVE  new = {UNION new} \ {{}}
    <3>1. UNION new = S /\ S # {}
      BY <1>2, <2>2
    <3> QED
      BY <2>2, <3>1
  <2> QED
    BY <1>5, <2>1, <2>2
<1>7. UNION new \in {{}} \cup {Models(r) : r \in paths}'
  BY <1>4, <1>5
<1> QED
  BY <1>2, <1>3, <1>4, <1>6, <1>7 DEF Regions!GiveUp

LEMMA JoinImplements ==
    ASSUME PathsRight(paths), NEW p \in paths, NEW q \in paths, Join(p, q)
    PROVE  Regions!Merge(Models(p), Models(q))
<1>1. /\ {Models(r) : r \in (paths \ {p, q}) \cup {Joined(p, q)}} =
            ({Models(r) : r \in paths} \ {Models(p), Models(q)})
            \cup {Models(p) \cup Models(q)}
      /\ Models(p) # Models(q)
  BY JoinedRight DEF Join
<1>2. paths' = (paths \ {p, q}) \cup {Joined(p, q)} /\ givenUp' = givenUp
  BY DEF Join
<1> QED
  BY <1>1, <1>2 DEF Regions!Merge

LEMMA StepsImplement ==
    ASSUME PathsRight(paths), DefaultsApart, PathStep
    PROVE  [Regions!Next]_(Regions!vars)
<1>1. ASSUME paths' = paths, givenUp' = givenUp
      PROVE  UNCHANGED Regions!vars
  BY <1>1 DEF Regions!vars
<1>2. ASSUME NEW p \in paths
      PROVE  Models(p) \in {Models(r) : r \in paths}
  OBVIOUS
<1>3. ASSUME NEW p \in paths, NEW Q, Split(p, Q)
      PROVE  Regions!Next
  BY <1>2, <1>3, SplitImplements DEF Regions!Next
<1>4. ASSUME NEW p \in paths, NEW Q, Narrow(p, Q)
      PROVE  Regions!Next
  BY <1>2, <1>4, NarrowImplements DEF Regions!Next
<1>5. ASSUME NEW p \in paths, NEW q \in paths, Join(p, q)
      PROVE  Regions!Next
  BY <1>2, <1>5, JoinImplements DEF Regions!Next
<1> QED
  BY <1>1, <1>3, <1>4, <1>5 DEF PathStep

(* The paths of every run, on the answers of the solvers and caches, share *)
(* out the inputs as InputRegions says: none is lost or taken by two       *)
(* states.                                                                 *)
THEOREM PathsImplementRegions ==
    ASSUME DefaultsApart
    PROVE  Spec => RegionsSpec
<1>1. Init => Regions!Init
  <2>1. Models({}) = Inputs
    BY ModelsOf
  <2>2. paths = {{}} => {Models(p) : p \in paths} = {Models({})}
    OBVIOUS
  <2> QED
    BY <2>1, <2>2 DEF Init, Regions!Init
<1>2. IInv /\ [Next]_vars => [Regions!Next]_(Regions!vars)
  <2>1. ASSUME IInv, Next
        PROVE  [Regions!Next]_(Regions!vars)
    BY <2>1, NextSteps, StepsImplement DEF IInv
  <2>2. ASSUME UNCHANGED vars
        PROVE  UNCHANGED Regions!vars
    BY <2>2 DEF vars, Regions!vars
  <2> QED
    BY <2>1, <2>2
<1> QED
  BY <1>1, <1>2, PathsInvariant, PTL DEF Spec, RegionsSpec, Regions!Spec

-----------------------------------------------------------------------------
(* Regions that are split, narrowed and merged as InputRegions says stay a *)
(* partition of the inputs.                                                *)

Partitions(R, inputs) == {} \notin R /\ Regions!Apart(R) /\ UNION R = inputs

(* Replacing one region by others that share it out. *)
LEMMA SharingOut ==
    ASSUME NEW before, NEW after, NEW R \in before, NEW inputs,
           Partitions(before, inputs), Partitions(after \ (before \ {R}), R),
           before \ {R} \subseteq after
    PROVE  Partitions(after, inputs)
<1> DEFINE others == before \ {R}
           sides == after \ others
<1>1. after = others \cup sides /\ UNION sides = R /\ {} \notin sides
  BY DEF Partitions
<1>2. \A S \in sides : S \subseteq R
  BY <1>1
<1>3. Regions!Apart(after)
  <2> SUFFICES ASSUME NEW S \in after, NEW T \in after, S # T PROVE S \cap T = {}
    BY DEF Regions!Apart
  <2>1. CASE S \in others /\ T \in others
    BY <2>1 DEF Partitions, Regions!Apart
  <2>2. CASE S \in sides /\ T \in sides
    BY <2>2 DEF Partitions, Regions!Apart
  <2>3. CASE S \in others /\ T \in sides
    BY <1>2, <2>3 DEF Partitions, Regions!Apart
  <2>4. CASE S \in sides /\ T \in others
    BY <1>2, <2>4 DEF Partitions, Regions!Apart
  <2> QED
    BY <1>1, <2>1, <2>2, <2>3, <2>4
<1>4. UNION after = UNION before
  BY <1>1
<1>5. {} \notin after
  BY <1>1 DEF Partitions
<1> QED
  BY <1>3, <1>4, <1>5 DEF Partitions

(* Narrowing a region, or giving it up. *)
LEMMA Narrowing ==
    ASSUME NEW before, NEW R \in before, NEW S \in SUBSET R, NEW inputs,
           Partitions(before, inputs)
    PROVE  Partitions((before \ {R}) \cup ({S} \ {{}}), inputs \ (R \ S))
<1> DEFINE after == (before \ {R}) \cup ({S} \ {{}})
<1>1. {} \notin after /\ Regions!Apart(after)
  BY DEF Partitions, Regions!Apart
<1>2. UNION after = (UNION (before \ {R})) \cup S
  OBVIOUS
<1>3. (UNION (before \ {R})) \cap R = {}
  BY DEF Partitions, Regions!Apart
<1>4. UNION before = (UNION (before \ {R})) \cup R
  OBVIOUS
<1> HIDE DEF after
<1>5. UNION after = inputs \ (R \ S)
  BY <1>2, <1>3, <1>4 DEF Partitions
<1> QED
  BY <1>1, <1>5 DEF Partitions, after

(* Two regions that become one. *)
LEMMA Joining ==
    ASSUME NEW before, NEW R \in before, NEW S \in before, R # S, NEW inputs,
           Partitions(before, inputs)
    PROVE  Partitions((before \ {R, S}) \cup {R \cup S}, inputs)
<1> DEFINE after == (before \ {R, S}) \cup {R \cup S}
<1>1. {} \notin after
  BY DEF Partitions
<1>2. \A V \in before \ {R, S} : V \cap R = {} /\ V \cap S = {}
  BY DEF Partitions, Regions!Apart
<1>3. Regions!Apart(after)
  <2> SUFFICES ASSUME NEW T \in after, NEW U \in after, T # U PROVE T \cap U = {}
    BY DEF Regions!Apart
  <2> QED
    BY <1>2 DEF Partitions, Regions!Apart
<1>4. UNION after = UNION before
  OBVIOUS
<1> QED
  BY <1>1, <1>3, <1>4 DEF Partitions

(* What InputRegions promises: no two paths share an input, none is empty, *)
(* and together they miss nothing but what was given up.                   *)
LEMMA RegionsPartition == Inputs # {} => (RegionsSpec => []Regions!Partition)
<1> SUFFICES ASSUME Inputs # {} PROVE RegionsSpec => []Regions!Partition
  OBVIOUS
<1> DEFINE regions == {Models(p) : p \in paths}
<1>1. Regions!Partition <=> Partitions(regions, Inputs \ givenUp) /\ givenUp \subseteq Inputs
  BY DEF Regions!Partition, Partitions
<1>2. Regions!Init => Regions!Partition
  BY DEF Regions!Init, Regions!Partition, Regions!Apart
<1>3. Regions!Partition /\ [Regions!Next]_(Regions!vars) => Regions!Partition'
  <2> SUFFICES ASSUME Regions!Partition, [Regions!Next]_(Regions!vars)
               PROVE  Regions!Partition'
    OBVIOUS
  <2>1. Partitions(regions, Inputs \ givenUp) /\ givenUp \subseteq Inputs
    BY <1>1
  <2>2. Regions!Partition' <=> Partitions(regions', Inputs \ givenUp') /\ givenUp' \subseteq Inputs
    BY DEF Regions!Partition, Partitions
  <2>3. ASSUME NEW R \in regions, Regions!Split(R)
        PROVE  Regions!Partition'
    <3>1. /\ regions \ {R} \subseteq regions' /\ givenUp' = givenUp
          /\ Partitions(regions' \ (regions \ {R}), R)
      BY <2>3 DEF Regions!Split, Partitions
    <3> HIDE DEF regions
    <3> QED
      BY <2>1, <2>2, <2>3, <3>1, SharingOut
  <2>4. ASSUME NEW R \in regions, Regions!GiveUp(R)
        PROVE  Regions!Partition'
    <3>1. PICK S : /\ S \subseteq R
                   /\ regions' = (regions \ {R}) \cup ({S} \ {{}})
                   /\ givenUp' = givenUp \cup (R \ S)
      BY <2>4 DEF Regions!GiveUp
    <3> HIDE DEF regions
    <3>2. Partitions(regions', (Inputs \ givenUp) \ (R \ S))
      BY <2>1, <2>4, <3>1, Narrowing
    <3>3. R \subseteq Inputs /\ (Inputs \ givenUp) \ (R \ S) = Inputs \ givenUp'
      BY <2>1, <2>4, <3>1 DEF Partitions
    <3> QED
      BY <2>1, <2>2, <3>1, <3>2, <3>3
  <2>5. ASSUME NEW R \in regions, NEW S \in regions, Regions!Merge(R, S)
        PROVE  Regions!Partition'
    <3>1. /\ regions' = (regions \ {R, S}) \cup {R \cup S}
          /\ R # S /\ givenUp' = givenUp
      BY <2>5 DEF Regions!Merge
    <3> HIDE DEF regions
    <3> QED
      BY <2>1, <2>2, <2>5, <3>1, Joining
  <2>6. ASSUME UNCHANGED Regions!vars
        PROVE  Regions!Partition'
    BY <2>6 DEF Regions!vars, Regions!Partition, Regions!Apart
  <2> QED
    BY <2>3, <2>4, <2>5, <2>6 DEF Regions!Next
<1> QED
  BY <1>2, <1>3, PTL DEF RegionsSpec, Regions!Spec

(* The paths of every run partition the inputs that were not given up,     *)
(* which is what makes a set of test cases complete.                       *)
THEOREM PathsPartitionInputs ==
    ASSUME DefaultsApart, Inputs # {}
    PROVE  Spec => []Regions!Partition
<1>1. Spec => RegionsSpec
  BY PathsImplementRegions
<1>2. RegionsSpec => []Regions!Partition
  BY RegionsPartition
<1> QED
  BY <1>1, <1>2, PTL
=============================================================================
