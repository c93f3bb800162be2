-------------------------- MODULE MCPhpExploration --------------------------
(***************************************************************************)
(* Small scripts for PhpExploration.                                       *)
(***************************************************************************)
EXTENDS PhpExploration

Plain(kind) == [kind |-> kind]

CallF == [kind |-> "call", name |-> "f"]

If(bodies, rest) == [kind |-> "if", bodies |-> bodies, else |-> rest]

Switch(cases, rest) == [kind |-> "switch", cases |-> cases, default |-> rest]

Echo == <<Plain("echo")>>

Taint == <<Plain("taint")>>

Leaves(jump) == <<Plain(jump)>>

EchoAnd(jump) == <<Plain("echo"), Plain(jump)>>

-----------------------------------------------------------------------------
(* Every kind of branch with bodies that taint, print, or branch again     *)
(* before they print, after a statement and before another.                *)
Branching == <<If(<< <<Plain("clean")>> >>, Absent), Plain("echo")>>

Blocks == {Echo, Taint, Branching}

OneBody == {If(<<b>>, Absent) : b \in Blocks}

Branches ==
    {If(<<b>>, e) : b \in Blocks, e \in Blocks \cup {Absent}}
    \cup {If(<<b, Taint>>, Absent) : b \in Blocks}
    \cup [kind : {"while", "foreach", "try"}, body : Blocks]
    \cup {Switch(<<b>>, e) : b \in Blocks, e \in {Echo, Absent}}

BranchScripts ==
    LET First == {Plain("taint")} \cup OneBody
        Last3 == {Plain(k) : k \in {"taint", "clean", "echo"}} \cup Branches
    IN  {[main |-> <<a, b, c>>, f |-> Echo] : a \in First, b \in Branches, c \in Last3}
        \cup {[main |-> <<a, b, CallF>>, f |-> f] :
                a \in First, b \in Branches, f \in {<<If(<<Echo>>, Echo)>>, Echo \o Branching}}

-----------------------------------------------------------------------------
(* Jumps where they skip nothing, and where they skip what follows: in a   *)
(* branch, in a case before the next one, in a loop, in a function, at the *)
(* end and before it.                                                      *)
JumpBranches ==
    {If(<<Leaves(j)>>, e) : j \in {"return", "exit"}, e \in {Absent, Echo}}
    \cup {[kind |-> k, body |-> b] : k \in {"while", "foreach"},
              b \in {EchoAnd("break"), <<If(<<Leaves("continue")>>, Echo)>>,
                     <<If(<<Leaves("break")>>, Absent), Plain("echo")>>}}
    \cup {Switch(<<b, c>>, e) : b \in {Taint, EchoAnd("break")}, c \in {Echo, EchoAnd("continue"), Leaves("return")},
                                e \in {Absent, Echo}}

JumpFunctions == {EchoAnd("return"), <<If(<<Leaves("return")>>, Echo)>>, <<If(<<Leaves("return")>>, Absent), Plain("echo")>>}

JumpScripts ==
    {[main |-> <<Plain("taint"), b>>, f |-> Echo] : b \in JumpBranches}
    \cup {[main |-> <<Plain("taint"), b, Plain("echo")>>, f |-> Echo] : b \in JumpBranches}
    \cup {[main |-> <<Plain("taint"), CallF>> \o EchoAnd(j), f |-> f] : j \in {"return", "exit"}, f \in JumpFunctions}

SmallScripts == BranchScripts \cup JumpScripts

(* A branch returns from the script before it prints. *)
EarlyReturns == {s \in JumpScripts : s.main[2] = If(<<Leaves("return")>>, Absent) /\ Len(s.main) = 3}

-----------------------------------------------------------------------------
(* Bodies nest two deep below those of the functions.  Constants, which    *)
(* TLC evaluates once.                                                     *)
BodiesIn(bodies) == UNION {UNION {Nested(b[i]) : i \in DOMAIN b} : b \in bodies}

Outermost == {s.main : s \in SmallScripts} \cup {s.f : s \in SmallScripts}

NestedOnce == BodiesIn(Outermost)

NestedTwice == BodiesIn(NestedOnce)

Lists == Outermost \cup NestedOnce \cup NestedTwice

AllBodies == Lists

(* A body may be at several depths; nothing nests in those of NestedTwice. *)
NestingDepth(b) ==
    IF BodiesIn({b}) = {} THEN 0 ELSE IF BodiesIn(BodiesIn({b})) = {} THEN 1 ELSE 2

MainAndF == {"main", "f"}
=============================================================================
