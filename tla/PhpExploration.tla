-------------------------- MODULE PhpExploration ---------------------------
(***************************************************************************)
(* php-se: the control-flow graphs of a script (ConstructCFG.php) and the  *)
(* walk over their paths that collects constraints (Execution.php).  The   *)
(* walk is recursive; its call stack is a variable, and a step is what     *)
(* ExecutionPerNode does between two calls of itself.                      *)
(*                                                                         *)
(* A script is a list of statements and its functions.  A statement is    *)
(* known by its function and its place in it, a condition by that of its   *)
(* branch and its number.  There is one variable, $x, of which a slice     *)
(* knows whether it is tainted; a function has $x for its parameter.  A    *)
(* call, a sink or a jump stands alone, not in a condition.                *)
(***************************************************************************)
EXTENDS Integers, Sequences, SequencesExt

CONSTANTS
    Bodies,         \* lists of statements
    Nesting(_),     \* how deep statements nest in a list
    FunctionNames,  \* "main", and the functions that are called
    Scripts,        \* functions from those names to lists of statements
    Absent          \* the condition of an else; a body that is not there

(* The bodies of a statement. *)
Nested(s) ==
    CASE s.kind = "if" -> ToSet(s.bodies) \cup ({s.else} \ {Absent})
      [] s.kind = "switch" -> ToSet(s.cases) \cup ({s.default} \ {Absent})
      [] s.kind \in {"while", "foreach", "try"} -> {s.body}
      [] OTHER -> {}

IsList(l) == l \in Seq({l[i] : i \in DOMAIN l})

ASSUME ScriptParameters ==
    /\ \A b \in Bodies :
        /\ IsList(b) /\ Nesting(b) \in Nat
        /\ \A i \in DOMAIN b :
            /\ \A c \in Nested(b[i]) : c \in Bodies /\ Nesting(c) < Nesting(b)
            /\ b[i].kind = "if" => IsList(b[i].bodies) /\ b[i].bodies # << >>
            /\ b[i].kind = "switch" => IsList(b[i].cases)
            /\ b[i].kind = "call" => b[i].name \in FunctionNames
    /\ "main" \in FunctionNames /\ FunctionNames \subseteq STRING
    /\ Scripts \subseteq [FunctionNames -> Bodies]

VARIABLES
    script,       \* the script that is analysed
    stack,        \* the calls of ExecutionPerNode
    slices,       \* the Slice objects the calls refer to
    analyzers,    \* the Execution objects, one per function call in progress
    dumped,       \* dumped[f]: what DumpConstraints last wrote for f
    programs,     \* programs[f]: what Synth.php makes of the files of f
    executed      \* history: positions of the statements that were executed

analysisVars == <<script, stack, slices, analyzers, dumped, programs, executed>>

-----------------------------------------------------------------------------
(* Places: <<f, << >>>> is the body of f, and the i-th part of what is at  *)
(* a place is a statement of a body, or a body of a statement.             *)

Places == STRING \X Seq(Nat)

Whole(f) == <<f, << >>>>

Inner(at, i) == <<at[1], Append(at[2], i)>>

-----------------------------------------------------------------------------
(* Control-flow graphs: a node's Child is the next one.  The Start and End *)
(* nodes, which do nothing, are left out.  The graph of a body depends on  *)
(* nothing but the body, and is constructed where the walk enters it.      *)

Conditions(bodies, at) == [i \in DOMAIN bodies |-> Inner(at, i)]

CFGIfNode(conditions, bodies, at) ==
    [type |-> "IfStmt", at |-> at, conditions |-> conditions, bodies |-> bodies]

GeneralNode(stmt, at) == [type |-> "Stmt", at |-> at, stmt |-> stmt]

(* Mutant: an else has no condition, as the default of a switch has none. *)
ProcessIfStmtWithoutElse(s, at) ==
    CFGIfNode(Conditions(s.bodies, at), s.bodies \o (IF s.else = Absent THEN << >> ELSE <<s.else>>), at)

ProcessIfStmt(s, at) ==
    IF s.else = Absent
    THEN CFGIfNode(Conditions(s.bodies, at), s.bodies, at)
    ELSE CFGIfNode(Append(Conditions(s.bodies, at), Absent), Append(s.bodies, s.else), at)

(* A loop is a branch without else; foreach first assigns the whole array  *)
(* to its variable, which is not tainted then.                             *)
ProcessLoopStmtAsIfStmt(s, at) ==
    (IF s.kind = "foreach" THEN <<GeneralNode([kind |-> "clean"], at)>> ELSE << >>)
    \o <<CFGIfNode(Conditions(<<s.body>>, at), <<s.body>>, at)>>

(* The default gets a body, but no condition. *)
ProcessSwitchStmt(s, at) ==
    CFGIfNode(Conditions(s.cases, at),
              s.cases \o (IF s.default = Absent THEN << >> ELSE <<s.default>>), at)

(* A try is skipped.  A return, exit, break or continue is a node like any *)
(* other, which has a next one.                                            *)
NodesOf(s, at) ==
    CASE s.kind = "if" -> <<ProcessIfStmt(s, at)>>
      [] s.kind \in {"while", "foreach"} -> ProcessLoopStmtAsIfStmt(s, at)
      [] s.kind = "switch" -> <<ProcessSwitchStmt(s, at)>>
      [] s.kind = "try" -> << >>
      [] OTHER -> <<GeneralNode(s, at)>>

(* The nodes of a list, from the n-th statement on. *)
NodesFrom(stmts, at, n) ==
    LET from[j \in 1 .. Len(stmts) + 1] ==
          IF j > Len(stmts) THEN << >> ELSE NodesOf(stmts[j], Inner(at, j)) \o from[j + 1]
    IN  from[n]

ConstructCFG(stmts, at) == NodesFrom(stmts, at, 1)

-----------------------------------------------------------------------------
(* The walk *)

NewSlice(tainted) == [constraints |-> << >>, tainted |-> tainted]

NewExecution(f) == [function |-> f, Constraints |-> {}, XSSConstraints |-> << >>, XSSDataConstraints |-> << >>]

Call(nodes, slice) == [nodes |-> nodes, slice |-> slice, next |-> 1, phase |-> "enter"]

Top == Last(stack)

Analyzer == Last(analyzers)

Pop(s) == Front(s)

InTop(frame) == Append(Front(stack), frame)

InAnalyzer(e) == Append(Front(analyzers), e)

(* The rest of the call on a node that is not a branch: the call on its    *)
(* child, and the return.                                                  *)
ToChild(frame) == InTop([frame EXCEPT !.nodes = Tail(@), !.phase = "enter"])

(* A tainted value reaches a sink. *)
Record(e, constraints, at) ==
    [e EXCEPT !.XSSConstraints = Append(@, constraints),
              !.XSSDataConstraints = Append(@, at)]

(* The walk has run out of nodes, at the end of a body or of the function. *)
SaveConstraints ==
    /\ stack # << >>
    /\ Top.nodes = << >>
    /\ analyzers' = InAnalyzer([Analyzer EXCEPT !.Constraints = @ \cup {slices[Top.slice].constraints}])
    /\ stack' = Pop(stack)
    /\ UNCHANGED <<script, slices, dumped, programs, executed>>

AtNode(type) == stack # << >> /\ Top.nodes # << >> /\ Head(Top.nodes).type = type

(* $x = $_GET[...], $x = 0, echo $x *)
ExecutionPerExpr ==
    /\ AtNode("Stmt")
    /\ Top.phase = "enter"
    /\ LET n == Head(Top.nodes)
           slice == slices[Top.slice]
       IN  /\ n.stmt.kind # "call"
           /\ slices' = [slices EXCEPT ![Top.slice].tainted =
                           CASE n.stmt.kind = "taint" -> TRUE
                             [] n.stmt.kind = "clean" -> FALSE
                             [] OTHER -> @]
           /\ analyzers' = IF n.stmt.kind = "echo" /\ slice.tainted
                           THEN InAnalyzer(Record(Analyzer, slice.constraints, n.at))
                           ELSE analyzers
           /\ executed' = executed \cup {n.at}
           /\ stack' = ToChild(Top)
    /\ UNCHANGED <<script, programs, dumped>>

(* f($x): the function is analysed by an Execution of its own.  Line 262   *)
(* would hand on the constraints, but its copy of them is lost.            *)
CallFunction ==
    /\ AtNode("Stmt")
    /\ Top.phase = "enter"
    /\ LET n == Head(Top.nodes)
       IN  /\ n.stmt.kind = "call"
           /\ slices' = Append(slices, NewSlice(slices[Top.slice].tainted))
           /\ analyzers' = Append(analyzers, NewExecution(n.stmt.name))
           /\ stack' = Append(InTop([Top EXCEPT !.phase = "called"]),
                              Call(ConstructCFG(script[n.stmt.name], Whole(n.stmt.name)), Len(slices) + 1))
           /\ executed' = executed \cup {n.at}
    /\ UNCHANGED <<script, programs, dumped>>

DumpConstraints ==
    dumped' = [f \in DOMAIN dumped \cup {Analyzer.function} |->
                 IF f = Analyzer.function THEN Analyzer ELSE dumped[f]]

FunctionReturns ==
    /\ AtNode("Stmt")
    /\ Top.phase = "called"
    /\ DumpConstraints
    /\ analyzers' = Pop(analyzers)
    /\ slices' = Pop(slices)
    /\ stack' = ToChild(Top)
    /\ UNCHANGED <<script, programs, executed>>

(* The body of the next alternative, with a copy of the slice (CloneObject). *)
EnterBody ==
    /\ AtNode("IfStmt")
    /\ Top.phase = "enter"
    /\ LET n == Head(Top.nodes)
           copy == slices[Top.slice]
       IN  /\ Top.next <= Len(n.conditions)
           /\ slices' = Append(slices, [copy EXCEPT !.constraints = Append(@, n.conditions[Top.next])])
           /\ stack' = Append(InTop([Top EXCEPT !.phase = "body"]), Call(ConstructCFG(n.bodies[Top.next], Inner(n.at, Top.next)), Len(slices) + 1))
    /\ UNCHANGED <<script, programs, analyzers, dumped, executed>>

(* What follows the branch, with the slice the body has left. *)
EnterChild ==
    /\ AtNode("IfStmt")
    /\ Top.phase = "body"
    /\ stack' = Append(InTop([Top EXCEPT !.phase = "child"]), Call(Tail(Top.nodes), Len(slices)))
    /\ UNCHANGED <<script, programs, slices, analyzers, dumped, executed>>

(* Mutant: without the copy, the next alternative starts from what this    *)
(* one has left.                                                           *)
AlternativeDoneSharing ==
    /\ AtNode("IfStmt")
    /\ Top.phase = "child"
    /\ slices' = Append(SubSeq(slices, 1, Len(slices) - 2), Last(slices))
    /\ stack' = InTop([Top EXCEPT !.phase = "enter", !.next = @ + 1])
    /\ UNCHANGED <<script, programs, analyzers, dumped, executed>>

AlternativeDone ==
    /\ AtNode("IfStmt")
    /\ Top.phase = "child"
    /\ slices' = Pop(slices)
    /\ stack' = InTop([Top EXCEPT !.phase = "enter", !.next = @ + 1])
    /\ UNCHANGED <<script, programs, analyzers, dumped, executed>>

BranchDone ==
    /\ AtNode("IfStmt")
    /\ Top.phase = "enter"
    /\ Top.next > Len(Head(Top.nodes).conditions)
    /\ stack' = Pop(stack)
    /\ UNCHANGED <<script, programs, slices, analyzers, dumped, executed>>

(* MainAnalysisStart writes the lists of the script itself. *)
MainDone ==
    /\ stack = << >>
    /\ analyzers # << >>
    /\ DumpConstraints
    /\ analyzers' = << >>
    /\ UNCHANGED <<script, programs, stack, slices, executed>>

(* Synth.php takes the i-th lists of the two files for one task: a program *)
(* that reaches the sink under the constraints.  A file without a list is  *)
(* read as one empty list (explode).                                       *)
Synthesize(f) ==
    /\ analyzers = << >>
    /\ f \in DOMAIN dumped \ DOMAIN programs
    /\ LET CC_cst == IF dumped[f].XSSConstraints = << >> THEN << << >> >> ELSE dumped[f].XSSConstraints
           DC_cst == IF dumped[f].XSSDataConstraints = << >> THEN <<Absent>> ELSE dumped[f].XSSDataConstraints
           of_f == [idx \in DOMAIN CC_cst |-> [CONTROL_FLOW |-> CC_cst[idx], DATA_FLOW |-> DC_cst[idx]]]
       IN  programs' = [g \in DOMAIN programs \cup {f} |-> IF g = f THEN of_f ELSE programs[g]]
    /\ UNCHANGED <<script, stack, slices, analyzers, dumped, executed>>

AnalysisInit ==
    /\ script \in Scripts
    /\ stack = <<Call(ConstructCFG(script["main"], Whole("main")), 1)>>
    /\ slices = <<NewSlice(FALSE)>>
    /\ analyzers = <<NewExecution("main")>>
    /\ dumped = << >>
    /\ programs = << >>
    /\ executed = {}

AnalysisNext ==
    \/ SaveConstraints \/ ExecutionPerExpr \/ CallFunction \/ FunctionReturns
    \/ EnterBody \/ EnterChild \/ AlternativeDone \/ BranchDone \/ MainDone
    \/ \E f \in FunctionNames : Synthesize(f)

AnalysisSpec == AnalysisInit /\ [][AnalysisNext]_analysisVars

-----------------------------------------------------------------------------
(* What PHP does: a run of a list of statements has events, the conditions *)
(* it finds true (Absent for an else or a default) and the statements it   *)
(* executes, and ends by falling off the list or by a jump.  A loop goes   *)
(* round once or not at all, nothing is thrown in a try.  Of all that may  *)
(* be, only the order of events matters: any condition may hold.           *)

Jumps == {"return", "exit", "break", "continue"}

(* The jumps that end at the end of the loop or the switch they are in. *)
Leaving == {"break", "continue"}

Holds(condition) == [condition |-> condition]

Does(at) == [at |-> at]

Run(events, ends) == [events |-> events, ends |-> ends]

Nothing == Run(<< >>, "falls")

(* What follows is not reached when the first run ends by a jump. *)
Then(r, s) == IF r.ends = "falls" THEN Run(r.events \o s.events, s.ends) ELSE r

Outside(r) == IF r.ends \in Leaving THEN Run(r.events, "falls") ELSE r

(* One run of each set in turn, from the n-th on. *)
RunsInTurn(sets, n) ==
    LET from[j \in 1 .. Len(sets) + 1] ==
          IF j > Len(sets) THEN {Nothing} ELSE {Then(r, s) : r \in sets[j], s \in from[j + 1]}
    IN  from[n]

RunsOfBodies(runs, bodies, at) == [i \in DOMAIN bodies |-> runs[bodies[i]][Inner(at, i)]]

(* The runs that begin with an event. *)
Starting(event, runs) == {Then(Run(<<event>>, "falls"), r) : r \in runs}

(* The body of the i-th condition, which is the first to hold. *)
Taken(runs, bodies, at, i) == Starting(Holds(Inner(at, i)), runs[bodies[i]][Inner(at, i)])

IfRuns(runs, s, at) ==
    (UNION {Taken(runs, s.bodies, at, i) : i \in DOMAIN s.bodies})
    \cup IF s.else = Absent THEN {Nothing}
         ELSE Starting(Holds(Absent), runs[s.else][Inner(at, Len(s.bodies) + 1)])

LoopRuns(runs, s, at) == {Nothing} \cup {Outside(r) : r \in Taken(runs, <<s.body>>, at, 1)}

SwitchBodies(s) == s.cases \o (IF s.default = Absent THEN << >> ELSE <<s.default>>)

Found(s, at, i) == Holds(IF i \in DOMAIN s.cases THEN Inner(at, i) ELSE Absent)

(* From the case that matches on, PHP runs body after body. *)
CaseRuns(runs, s, at, i) ==
    Starting(Found(s, at, i), RunsInTurn(RunsOfBodies(runs, SwitchBodies(s), at), i))

SwitchRuns(runs, s, at) ==
    (IF s.default = Absent THEN {Nothing} ELSE {})
    \cup {Outside(r) : r \in UNION {CaseRuns(runs, s, at, i) : i \in DOMAIN SwitchBodies(s)}}

RunsOf(runs, s, at) ==
    CASE s.kind = "if" -> IfRuns(runs, s, at)
      [] s.kind = "switch" -> SwitchRuns(runs, s, at)
      [] s.kind = "while" -> LoopRuns(runs, s, at)
      [] s.kind = "foreach" -> Starting(Does(at), LoopRuns(runs, s, at))
      [] s.kind = "try" -> runs[s.body][Inner(at, 1)]
      [] s.kind \in Jumps -> {Run(<<Does(at)>>, s.kind)}
      [] OTHER -> {Run(<<Does(at)>>, "falls")}

Runs(stmts, place) ==
    LET runs[b \in Bodies] ==
          [at \in Places |-> RunsInTurn([i \in DOMAIN b |-> RunsOf(runs, b[i], Inner(at, i))], 1)]
    IN  runs[stmts][place]

(* The walk passes over jumps, so it takes a path that PHP may not take.   *)
(* It does not where a jump skips nothing: it is the last statement of its *)
(* body, and so are the statements around it, out to the loop or switch it *)
(* leaves, or to the function it returns from.                             *)

(* The jumps that may end a body of s, given those that may end s.         *)
InBody(s, jumps) == IF s.kind \in {"switch", "while", "foreach"} THEN jumps \cup Leaving ELSE jumps

(* The jumps that may stand at the i-th place of a body, given its end. *)
AtPlace(b, i, jumps) == IF i = Len(b) THEN jumps ELSE {}

JumpsAreLast(stmts, jumps) ==
    LET last[b \in Bodies] ==
          [ends \in SUBSET Jumps |->
             \A i \in DOMAIN b :
                /\ b[i].kind \in Jumps => b[i].kind \in AtPlace(b, i, ends)
                /\ \A c \in Nested(b[i]) : last[c][InBody(b[i], AtPlace(b, i, ends))]]
    IN  last[stmts][jumps]

(* Only the script itself may end by exit: a function returns to its call. *)
JumpsSkipNothing(f) == JumpsAreLast(script[f], IF f = "main" THEN {"return", "exit"} ELSE {"return"})

(* s is a subsequence of t. *)
Within(s, t) ==
    \E place \in [DOMAIN s -> DOMAIN t] :
        /\ \A i, j \in DOMAIN s : i < j => place[i] < place[j]
        /\ \A i \in DOMAIN s : s[i] = t[place[i]]

Held(constraints) == [i \in DOMAIN constraints |-> Holds(constraints[i])]

(* PHP may execute the statement at, having found these conditions true. *)
OnRun(constraints, at) ==
    \E r \in Runs(script[at[1]], Whole(at[1])) : \E i \in DOMAIN r.events :
        r.events[i] = Does(at) /\ Within(Held(constraints), SubSeq(r.events, 1, i - 1))

-----------------------------------------------------------------------------
(* The constraints of a slice are conditions that one run of the function  *)
(* finds true, in its order, on its way to the statement that is about to  *)
(* be executed ("Constraint to current state", Slice.php:46): what another *)
(* alternative added is gone (the clone of Execution.php:34).              *)
ConstraintsOfState ==
    AtNode("Stmt") => OnRun(slices[Top.slice].constraints, Head(Top.nodes).at)

(* So it is in a script whose jumps skip nothing, and every program of it  *)
(* checks a sink under constraints of a run to that very sink: the two     *)
(* files Synth.php reads pair their lists by their place alone.  In any    *)
(* script, every sink of a function's last dump, which overwrites those    *)
(* before it, gets a program.                                              *)
ProgramsOnRun ==
    /\ (\A f \in FunctionNames : JumpsSkipNothing(f)) =>
        /\ ConstraintsOfState
        /\ \A f \in DOMAIN programs : \A i \in DOMAIN programs[f] :
              \/ programs[f][i] = [CONTROL_FLOW |-> << >>, DATA_FLOW |-> Absent]
              \/ OnRun(programs[f][i].CONTROL_FLOW, programs[f][i].DATA_FLOW)
    /\ \A f \in DOMAIN programs :
        ToSet(dumped[f].XSSDataConstraints) \subseteq {programs[f][i].DATA_FLOW : i \in DOMAIN programs[f]}

StatementsIn(within, bodies, at) == UNION {within[bodies[i]][Inner(at, i)] : i \in DOMAIN bodies}

StatementsOf(within, s, at) ==
    CASE s.kind = "if" ->
           StatementsIn(within, s.bodies, at) \cup
           (IF s.else = Absent THEN {} ELSE within[s.else][Inner(at, Len(s.bodies) + 1)])
      [] s.kind = "switch" -> StatementsIn(within, s.cases, at)
      [] s.kind = "while" -> within[s.body][Inner(at, 1)]
      [] s.kind = "foreach" -> {at} \cup within[s.body][Inner(at, 1)]
      [] s.kind = "try" -> {}
      [] OTHER -> {at}

(* The statements of a list, but those in a try or in a switch's default. *)
Statements(stmts, place) ==
    LET within[b \in Bodies] ==
          [at \in Places |-> UNION {StatementsOf(within, b[i], Inner(at, i)) : i \in DOMAIN b}]
    IN  within[stmts][place]

(* When the analysis ends, every statement of the script and of the        *)
(* functions it calls has been executed on some path, but those in a try   *)
(* or in the default of a switch, which ConstructCFG.php leaves out.       *)
AllExplored ==
    analyzers = << >> =>
        \A f \in DOMAIN dumped : Statements(script[f], Whole(f)) \subseteq executed

=============================================================================
