----------------------------- MODULE ProcessTree ----------------------------
(***************************************************************************)
(* PTree: the binary tree of the forks so far, with the states at its      *)
(* leaves.  The RandomPathSearcher walks it from the root.                 *)
(*                                                                         *)
(* A node is the path from the root to it, a tree a function from its      *)
(* nodes to their states, NoState where a node has none.                   *)
(***************************************************************************)
EXTENDS Sequences, SequencesExt, Functions

CONSTANT NoState   \* a null ExecutionState pointer

Left(n)  == Append(n, "left")
Right(n) == Append(n, "right")

Children(tree, n) == {Left(n), Right(n)} \cap DOMAIN tree

(* The constructor of PTree. *)
PTree(s) == [n \in {<< >>} |-> s]

(* The states of a fork go below its node, which loses its own. *)
attach(tree, n, left, right) ==
    [m \in DOMAIN tree \cup {Left(n), Right(n)} |->
        IF m = n THEN NoState
        ELSE IF m = Left(n) THEN left
        ELSE IF m = Right(n) THEN right ELSE tree[m]]

(* Mutant: only the leaf goes. *)
removeLeaf(tree, n) == Restrict(tree, DOMAIN tree \ ({n} \ {<< >>}))

(* The leaf n goes, and every node above it that is left without children; *)
(* the root stays.                                                         *)
remove(tree, n) ==
    LET emptied == {m \in DOMAIN tree \ {<< >>} :
                      /\ IsPrefix(m, n)
                      /\ \A k \in DOMAIN tree : IsPrefix(m, k) => IsPrefix(k, n)}
    IN  Restrict(tree, DOMAIN tree \ emptied)

(* The nodes where the walk of RandomPathSearcher::selectState can end:    *)
(* it goes on to either child until a node has a state.                    *)
WalkEnds(tree) ==
    {n \in DOMAIN tree :
        /\ tree[n] # NoState
        /\ \A m \in DOMAIN tree : IsStrictPrefix(m, n) => tree[m] = NoState}
=============================================================================
