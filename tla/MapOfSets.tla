----------------------------- MODULE MapOfSets -----------------------------
(***************************************************************************)
(* klee::MapOfSets (include/klee/Internal/ADT/MapOfSets.h), the trie in    *)
(* which CexCachingSolver keeps assignments by sets of expressions.  The   *)
(* elements on the way to a node increase, so that their set tells which   *)
(* node it is: a node is that set, and its children have one more element, *)
(* a greater one.  SolverChain takes the trie for the map it implements.   *)
(***************************************************************************)
EXTENDS Integers, FiniteSets

CONSTANTS
    Elements,     \* numbers: expressions in their order
    Assignments,  \* the values that are stored
    MaxSets,      \* bound: how many sets are stored
    NoValue       \* the null pointer

ASSUME TrieParameters ==
    /\ Elements \subseteq Int /\ IsFiniteSet(Elements)
    /\ \A T \in SUBSET Elements : NoValue # T

VARIABLES
    nodes,        \* the nodes of the trie
    value         \* value[n] for the nodes n at which a set ends (isEndOfSet)

trieVars == <<nodes, value>>

root == {}

Least(S) == CHOOSE e \in S : \A k \in S : e <= k

(* The keys of the children of n. *)
Children(n) == {k \in Elements : (\A e \in n : e < k) /\ n \cup {k} \in nodes}

EndsWith(n, P) == n \in DOMAIN value /\ value[n] \in P

-----------------------------------------------------------------------------
(* Searches for a node whose value is in P, the predicate *)

lookupSet(S) == IF S \in DOMAIN value THEN S ELSE NoValue

(* Mutant: does not go on when nothing is found below a child. *)
mergeSubsetOnce(P) ==
    LET merge[rest \in SUBSET Elements] ==
          [n \in nodes |->
             IF rest = {} \/ \A k \in Children(n) : k < Least(rest) THEN NoValue
             ELSE LET k == Least(rest)
                      left == rest \ {k}
                      child == n \cup {k}
                  IN  IF k \notin Children(n) THEN merge[left][n]
                      ELSE IF EndsWith(child, P) THEN child ELSE merge[left][child]]
    IN  merge

(* Below n, which is not accepted itself, among the elements in rest.  An  *)
(* element that is no child and a child that is not in rest are passed     *)
(* over; the search ends where one of the two runs out.                    *)
mergeSubset(P) ==
    LET merge[rest \in SUBSET Elements] ==
          [n \in nodes |->
             IF rest = {} \/ \A k \in Children(n) : k < Least(rest) THEN NoValue
             ELSE LET k == Least(rest)
                      left == rest \ {k}
                      child == n \cup {k}
                      found == IF k \notin Children(n) THEN NoValue
                               ELSE IF EndsWith(child, P) THEN child ELSE merge[left][child]
                  IN  IF found # NoValue THEN found ELSE merge[left][n]]
    IN  merge

findSubset(S, P) == IF EndsWith(root, P) THEN root ELSE mergeSubset(P)[S][root]

(* From n on, all elements in rest below it.  First every child is         *)
(* searched for all of them, then that of the least for the others.        *)
supersetFrom(P) ==
    LET from[n \in nodes] ==
          [rest \in SUBSET Elements |->
             IF rest = {} /\ EndsWith(n, P) THEN n
             ELSE LET below == {k \in Children(n) : from[n \cup {k}][rest] # NoValue}
                  IN  IF below # {} THEN from[n \cup {Least(below)}][rest]
                      ELSE IF rest # {} /\ Least(rest) \in Children(n)
                      THEN from[n \cup {Least(rest)}][rest \ {Least(rest)}]
                      ELSE NoValue]
    IN  from

findSuperset(S, P) == supersetFrom(P)[root][S]

-----------------------------------------------------------------------------
(* The nodes on the way to S. *)
WayTo(S) == {root} \cup {{e \in S : e <= k} : k \in S}

insertSet(S, v) ==
    /\ S \in DOMAIN value \/ Cardinality(DOMAIN value) < MaxSets
    /\ nodes' = nodes \cup WayTo(S)
    /\ value' = [n \in DOMAIN value \cup {S} |-> IF n = S THEN v ELSE value[n]]

clear ==
    /\ nodes' = {root}
    /\ value' = << >>

TrieInit ==
    /\ nodes = {root}
    /\ value = << >>

TrieNext ==
    \/ \E S \in SUBSET Elements, v \in Assignments : insertSet(S, v)
    \/ clear

TrieSpec == TrieInit /\ [][TrieNext]_trieVars

-----------------------------------------------------------------------------
(* Properties *)

(* Whatever sets share their nodes, a search finds a value under a set     *)
(* exactly if one is stored under it, and a subset or a superset of the    *)
(* set, with a value the predicate accepts, exactly if there is one:       *)
(* CexCachingSolver takes an unsatisfiable subset, and the solution of a   *)
(* superset, for an answer.                                                *)
SearchesRight ==
    \A P \in SUBSET Assignments :
        LET accepted == {n \in DOMAIN value : value[n] \in P}
            right(found, those) == IF those = {} THEN found = NoValue ELSE found \in those
        IN  \A S \in SUBSET Elements :
                /\ right(lookupSet(S), {S} \cap DOMAIN value)
                /\ right(findSubset(S, P), {n \in accepted : n \subseteq S})
                /\ right(findSuperset(S, P), {n \in accepted : S \subseteq n})
=============================================================================
