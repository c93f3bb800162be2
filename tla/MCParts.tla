------------------------------ MODULE MCParts ------------------------------
(***************************************************************************)
(* Five parts that share no state, each on a small instance, in one run:   *)
(* a behaviour chooses a part and is a behaviour of that part, while the   *)
(* others rest in an initial state.                                        *)
(*                                                                         *)
(*   bytes   an object of two bytes                                        *)
(*   tree    two maps of four keys, and an iterator                        *)
(*   sets    sets of three elements                                        *)
(*   php     scripts of two to four statements and a function              *)
(*   files   three descriptors, one symbolic file, one more of the system   *)
(***************************************************************************)
EXTENDS MCObjectBytes, ImmutableTree, MapOfSets, MCPhpExploration, FileDescriptors

VARIABLE part

-----------------------------------------------------------------------------
(* Four keys are enough for every rotation. *)
FourKeys == {<<k, 1>> : k \in 1 .. 4}

RECURSIVE Visit(_, _)
Visit(seen, n) ==
    IF isTerminator(n) \/ Contains(seen, n) THEN seen
    ELSE Visit(Visit(Append(seen, n), heap[n].left), heap[n].right)

(* No operation looks at an address.  So states that differ in nothing     *)
(* else are one: nodes are numbered in the order in which the trees and    *)
(* the iterator reach them; any that nothing reaches come last.            *)
NumberedTrees ==
    LET fromTrees == FoldLeft(LAMBDA seen, m : IF node[m] = NoTree THEN seen ELSE Visit(seen, node[m]),
                              << >>, SetToSeq(Maps))
        reached == IF it = NoIterator THEN fromTrees ELSE Visit(fromTrees, it.root)
        order == reached \o SetToSeq(DOMAIN heap \ (ToSet(reached) \cup {Terminator}))
        number == [n \in DOMAIN heap \cup {NoTree} |->
                     IF n \in {Terminator, NoTree} THEN n ELSE CHOOSE a \in DOMAIN order : order[a] = n]
    IN  <<heap[Terminator],
          [a \in DOMAIN order |-> [heap[order[a]] EXCEPT !.left = number[@], !.right = number[@]]],
          [m \in Maps |-> number[node[m]]],
          IF it = NoIterator THEN it
          ELSE [root |-> number[it.root], stack |-> [d \in DOMAIN it.stack |-> number[it.stack[d]]]]>>

-----------------------------------------------------------------------------
(* It begins with a branch. *)
RestingScript == CHOOSE s \in BranchScripts : s.main[1].kind = "if"

PartsInit ==
    /\ part \in {"bytes", "tree", "sets", "php", "files"}
    /\ Init /\ (part # "bytes" => content = ArrayBytes)
    /\ TreeInit
    /\ TrieInit
    /\ AnalysisInit /\ (part # "php" => script = RestingScript)
    /\ FilesInit /\ (part # "files" => \A d \in Fds : fds[d].dfile = NoFile)

PartsNext ==
    /\ UNCHANGED part
    /\ \/ part = "bytes" /\ Next /\ UNCHANGED <<treeVars, trieVars, analysisVars, descriptorVars>>
       \/ part = "tree" /\ TreeNext /\ UNCHANGED <<vars, trieVars, analysisVars, descriptorVars>>
       \/ part = "sets" /\ TrieNext /\ UNCHANGED <<vars, treeVars, analysisVars, descriptorVars>>
       \/ part = "php" /\ AnalysisNext /\ UNCHANGED <<vars, treeVars, trieVars, descriptorVars>>
       \/ part = "files" /\ FilesNext /\ UNCHANGED <<vars, treeVars, trieVars, analysisVars>>

PartsSpec == PartsInit /\ [][PartsNext]_<<vars, part, treeVars, trieVars, analysisVars, descriptorVars>>

(* What TLC tells states apart by. *)
PartsView == <<vars, part, IF part = "tree" THEN NumberedTrees ELSE treeVars, trieVars, analysisVars, descriptorVars>>
=============================================================================
