--------------------------- MODULE PathExploration --------------------------
(***************************************************************************)
(* How KLEE's Executor splits the inputs of a program among its states.    *)
(*                                                                         *)
(* The constraints of a state are the conditions its path took.  At a      *)
(* branch the Executor asks the solver chain which sides are possible, and *)
(* forks; at a switch it asks for every case.  All later answers depend on *)
(* the constraints being satisfiable: a wrong or stale answer loses inputs *)
(* or makes a path no input can take.  The implementation of InputRegions  *)
(* by this module, solvers and caches included, is what is checked.        *)
(*                                                                         *)
(* The program is nondeterministic: a state may come to any condition, and *)
(* the run makes at most MaxCalls calls.                                   *)
(***************************************************************************)
EXTENDS SolverChain

CONSTANTS
    Conditions,   \* the conditions the program branches on
    Switches,     \* its switches: [cases: a sequence of [match, target], default]
    Preferences,  \* cexPreferences of the symbolic objects, in their order
    Options,      \* the option sets to start a run with
    MaxCalls      \* bound on the calls of the run

ASSUME ProgramConditions ==
    /\ MaxCalls \in Nat /\ Preferences \in Seq(ToSet(Preferences))
    /\ \A e \in Conditions \cup ToSet(Preferences) : Expression(e)

(* The cases of a switch have different values. *)
ASSUME ProgramSwitches ==
    \A sw \in Switches :
        LET matches == {sw.cases[i].match : i \in DOMAIN sw.cases}
        IN  /\ sw.cases \in Seq(ToSet(sw.cases))
            /\ \A e \in matches : Expression(e)
            /\ \A i, j \in DOMAIN sw.cases : i # j =>
                  sw.cases[i].match.models \cap sw.cases[j].match.models = {}
            /\ \A found \in SUBSET (matches \cup {And({Neg(e) : e \in matches})}) :
                  found \notin {Failed, Aborted}

VARIABLES
    paths,        \* the constraints of each state
    answer,       \* the last answer of the solver chain, and what it was of
    status,       \* "running", or why the program stopped
    calls,        \* the number of calls so far
    givenUp       \* history: inputs of paths that ended or were narrowed

vars == <<options, caches, paths, answer, status, calls, givenUp>>

Answers(op, p, e, result) == [op |-> op, path |-> p, expr |-> e, result |-> result]

(* Whether a fork may be skipped. *)
MayInhibit == "max-forks" \in options

(* ConstraintManager::simplifyExpr finds a condition among the constraints. *)
IsKnown(p, e) == e \in p \/ Neg(e) \in p

(* TimingSolver's calls: what the simplified expression says already, or   *)
(* an outcome of the solver chain.                                         *)
Evaluations(c, p, e) ==
    IF IsKnown(p, e) THEN {Outcome(c, IF e \in p THEN "True" ELSE "False")}
    ELSE evaluate(c, p, e)

Truths(c, p, e) ==
    IF IsKnown(p, e) THEN {Outcome(c, e \in p)} ELSE mustBeTrue(c, p, e)

Possibilities(c, p, e) ==
    IF IsKnown(p, e) THEN {Outcome(c, e \in p)} ELSE mayBeTrue(c, p, e)

Values(c, p, e) ==
    IF IsKnown(p, e) THEN {Outcome(c, e \in p)} ELSE getValue(c, p, e)

(* The program has not stopped, and the bound is not reached. *)
MayCall == status = "running" /\ calls < MaxCalls

(* Outcome o of the call op of path p. *)
Call(op, p, e, o) ==
    /\ MayCall
    /\ calls' = calls + 1 /\ UNCHANGED options
    /\ caches' = o.caches
    /\ answer' = Answers(op, p, e, o.answer)

Stops(why) == status' = why /\ UNCHANGED <<paths, givenUp>>

(* Path p is replaced by the paths Q; what these leave out is given up.    *)
Replace(p, Q) ==
    /\ paths' = (paths \ {p}) \cup Q
    /\ UNCHANGED status

-----------------------------------------------------------------------------
(* The constraints of the two states of a fork. *)
Forked(p, e) == {p \cup {e}, p \cup {Neg(e)}}

(* fork: no state is made for a side that is not possible; one that cannot *)
(* be decided in time ends the path.                                       *)
fork(p, e) ==
    \E o \in Evaluations(caches, p, e) :
        /\ Call("evaluate", p, e, o)
        /\ \/ /\ o.answer = Aborted /\ Stops("assertion")
           \/ /\ o.answer = Failed
              /\ Replace(p, {}) /\ givenUp' = givenUp \cup Models(p)
           \/ /\ o.answer \in {"True", "False"}
              /\ UNCHANGED <<paths, status, givenUp>>
           \/ /\ o.answer = "Unknown"
              /\ Replace(p, Forked(p, e)) /\ UNCHANGED givenUp
           \/ /\ o.answer = "Unknown" /\ MayInhibit
              /\ \E side \in {e, Neg(e)} :
                    /\ Replace(p, {p \cup {side}})
                    /\ givenUp' = givenUp \cup Models(p \cup {Neg(side)})

(* The outcomes once one more case is asked for. *)
AskCase(outcomes, p, e) ==
    Then(outcomes, LAMBDA d, found :
        Then(Possibilities(d, p, e), LAMBDA f, possible :
            {Outcome(f, IF possible THEN found \cup {e} ELSE found)}))

(* Asks of every case in turn whether it is possible; the answer is the    *)
(* set of those that are.                                                  *)
PossibleCases(c, p, matches) ==
    LET asked[i \in 0 .. Len(matches)] ==
            IF i = 0 THEN {Outcome(c, {})} ELSE AskCase(asked[i - 1], p, matches[i])
    IN  asked[Len(matches)]

(* The default is taken when no case matches: one constraint for each. *)
NoMatch(sw) == {Neg(sw.cases[i].match) : i \in DOMAIN sw.cases}

(* Mutant: the default is possible next to the possible cases. *)
BranchesOverlap(sw, possible) ==
    LET taken == {i \in DOMAIN sw.cases : sw.cases[i].match \in possible}
        targets == {sw.cases[i].target : i \in taken}
    IN  {{Or({sw.cases[i].match : i \in {j \in taken : sw.cases[j].target = t}})}
            : t \in targets}
        \cup (IF And(NoMatch(sw)) \in possible /\ sw.default \notin targets
              THEN {{}} ELSE {})

(* The constraints of the branches of a switch, possible being those of    *)
(* its cases and the default that may be taken.  The cases of one target   *)
(* make up one branch; the default is one unless a case has its target.    *)
Branches(sw, possible) ==
    LET taken == {i \in DOMAIN sw.cases : sw.cases[i].match \in possible}
        targets == {sw.cases[i].target : i \in taken}
    IN  {{Or({sw.cases[i].match : i \in {j \in taken : sw.cases[j].target = t}})}
            : t \in targets}
        \cup (IF And(NoMatch(sw)) \in possible /\ sw.default \notin targets
              THEN {NoMatch(sw)} ELSE {})

(* The Switch instruction, and branch: one state for every target, or one  *)
(* at random when no more forks are allowed.  A failure stops the program. *)
Switch(p, sw) ==
    LET matches == [i \in DOMAIN sw.cases |-> sw.cases[i].match]
    IN  \E o \in PossibleCases(caches, p, Append(matches, And(NoMatch(sw)))) :
        /\ Call("switch", p, And(NoMatch(sw)), o)
        /\ \/ /\ o.answer = Failed /\ Stops("solver failure")
           \/ /\ o.answer # Failed /\ Branches(sw, o.answer) = {}
              /\ Stops("assertion")                      \* assert(N)
           \/ /\ o.answer # Failed /\ Branches(sw, o.answer) # {}
              /\ LET branches == {p \cup cs : cs \in Branches(sw, o.answer)}
                 IN  \/ Replace(p, branches) /\ UNCHANGED givenUp
                     \/ /\ MayInhibit
                        /\ \E q \in branches :
                              /\ Replace(p, {q})
                              /\ givenUp' = givenUp \cup UNION {Models(r) : r \in branches \ {q}}

(* toConstant: the path goes on with one value of e. *)
toConstant(p, e) ==
    \E o \in Values(caches, p, e) :
        /\ Call("getValue", p, e, o)
        /\ \/ /\ o.answer = Aborted /\ Stops("assertion")
           \/ /\ o.answer = Failed /\ Stops("solver failure")
           \/ /\ o.answer \in BOOLEAN
              /\ LET side == IF o.answer THEN e ELSE Neg(e)
                 IN  /\ Replace(p, {p \cup {side}})
                     /\ givenUp' = givenUp \cup Models(p \cup {Neg(side)})

(* A bounds check of executeMemoryOperation: one that cannot be decided in *)
(* time ends the path.                                                     *)
CheckBounds(p, e) ==
    \E o \in Truths(caches, p, e) :
        /\ Call("mustBeTrue", p, e, o)
        /\ \/ /\ o.answer = Failed
              /\ Replace(p, {}) /\ givenUp' = givenUp \cup Models(p)
           \/ /\ o.answer \in BOOLEAN
              /\ UNCHANGED <<paths, status, givenUp>>

(* toUnique: whether a value of e is its only one; it is taken not to be   *)
(* if a call fails.                                                        *)
toUnique(p, e) ==
    \E v \in Values(caches, p, e) :
        \/ /\ v.answer = Aborted
           /\ Call("getValue", p, e, v) /\ Stops("assertion")
        \/ /\ v.answer = Failed
           /\ Call("getValue", p, e, v) /\ UNCHANGED <<paths, status, givenUp>>
        \/ /\ v.answer \in BOOLEAN
           /\ LET cond == IF v.answer THEN e ELSE Neg(e)
              IN  \E o \in Truths(v.caches, p, cond) :
                    Call("mustBeTrue", p, cond, o) /\ UNCHANGED <<paths, status, givenUp>>

(* The outcomes once one more preference is asked for; a failure ends the  *)
(* loop with what was added.                                               *)
AskPreference(asked, e) ==
    UNION {IF o.answer.stop THEN {o} ELSE
           {Outcome(t.caches,
                    [stop |-> t.answer = Failed,
                     tmp |-> IF t.answer = FALSE THEN o.answer.tmp \cup {e}
                             ELSE o.answer.tmp])
            : t \in Truths(o.caches, o.answer.tmp, Neg(e))}
           : o \in asked}

(* The preferences that can be added one by one: the answer is the list of *)
(* constraints then.                                                       *)
Preferred(c, p) ==
    LET asked[i \in 0 .. Len(Preferences)] ==
            IF i = 0 THEN {Outcome(c, [stop |-> FALSE, tmp |-> p])}
            ELSE AskPreference(asked[i - 1], Preferences[i])
    IN  asked[Len(Preferences)]

(* getSymbolicSolution: the input of a test case. *)
getSymbolicSolution(p) ==
    \E t \in Preferred(caches, p) : \E o \in getInitialValues(t.caches, t.answer.tmp) :
        /\ Call("getInitialValues", p, Neg(Or({})), o)
        /\ IF o.answer = Aborted THEN Stops("assertion")
           ELSE UNCHANGED <<paths, status, givenUp>>

(* ExecutionState::merge: the constraints the two paths share, and that    *)
(* the rest of one of them holds.                                          *)
Merge(p, q) ==
    /\ p # q /\ MayCall
    /\ calls' = calls + 1 /\ UNCHANGED options
    /\ paths' = (paths \ {p, q}) \cup {(p \cap q) \cup {Or({And(p \ q), And(q \ p)})}}
    /\ UNCHANGED <<caches, answer, status, givenUp>>

terminate(p) ==
    /\ MayCall
    /\ calls' = calls + 1 /\ UNCHANGED options
    /\ Replace(p, {}) /\ givenUp' = givenUp \cup Models(p)
    /\ UNCHANGED <<caches, answer>>

Init ==
    /\ options \in Options
    /\ caches = Empty
    /\ paths = {{}} /\ givenUp = {}
    /\ answer = Answers("none", {}, Or({}), Failed)
    /\ status = "running" /\ calls = 0

(* MayCall comes first, so that TLC enumerates no outcomes for nothing. *)
Next ==
    MayCall /\ \E p \in paths :
        \/ \E e \in Conditions : fork(p, e) \/ toConstant(p, e) \/ toUnique(p, e) \/ CheckBounds(p, e)
        \/ \E sw \in Switches : Switch(p, sw)
        \/ getSymbolicSolution(p)
        \/ \E q \in paths : Merge(p, q)
        \/ terminate(p)

Spec == Init /\ [][Next]_vars

-----------------------------------------------------------------------------
TypeOK ==
    /\ options \in Options
    /\ status \in {"running", "solver failure", "assertion"}
    /\ givenUp \subseteq Inputs /\ calls \in 0 .. MaxCalls
    /\ \A p \in paths : \A e \in p : e.models \subseteq Inputs /\ e.reads \subseteq Elements
    /\ \A k \in DOMAIN caches.validity : caches.validity[k] \in DOMAIN Negated
    /\ \A K \in DOMAIN caches.cex : caches.cex[K] \in Inputs \cup {NoAssignment}

(* Each answer is the one an ideal solver would give for all constraints   *)
(* of the path, whatever was sliced off, cached, negated or reused on the  *)
(* way (Solver.h: what evaluate, mustBeTrue, getValue and getInitialValues *)
(* return).                                                                *)
AnswersRight ==
    LET M == Models(answer.path)
        yes == M \cap answer.expr.models
        no == M \ answer.expr.models
        result == answer.result
    IN  result \notin {Failed, Aborted} =>
        CASE answer.op = "evaluate" ->
                /\ result = "True" => no = {}
                /\ result = "False" => yes = {}
                /\ result = "Unknown" => yes # {} /\ no # {}
          [] answer.op = "mustBeTrue" -> result <=> no = {}
          [] answer.op = "getValue" -> IF result THEN yes # {} ELSE no # {}
          [] answer.op = "getInitialValues" -> result \in M
          [] OTHER -> \A e \in result : e.models \cap M # {}

(* No assertion of the solver chain fails: the constraints of every query  *)
(* have an assignment (CexCachingSolver: "computeValidity() must have      *)
(* assignment"), and the point put together from the independent factors   *)
(* satisfies the query (IndependentSolver: "should satisfy the equation"). *)
(* Without the core solver failing no call fails either: every path has a  *)
(* test case (getSymbolicSolution: "unable to compute initial values       *)
(* (invalid constraints?)!").                                              *)
NoCallFails ==
    /\ status # "assertion" /\ answer.result # Aborted
    /\ ~CoreFails => answer.op = "none" \/ answer.result # Failed

(* The paths implement regions of inputs that are never shared or lost:    *)
(* every input the run did not give up on purpose is on exactly one path,  *)
(* and every path has one (fork, branch, Switch and merge, which relies on *)
(* it: "they must contradict each other and so inA => !inB").              *)
Regions == INSTANCE InputRegions WITH regions <- {Models(p) : p \in paths}

RegionsSpec == Regions!Spec
=============================================================================
