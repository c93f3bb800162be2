--------------------------- MODULE ImmutableTree ---------------------------
(***************************************************************************)
(* klee::ImmutableTree (include/klee/Internal/ADT/ImmutableTree.h), the    *)
(* persistent balanced tree under every address space.  An operation       *)
(* builds the nodes on one path anew and shares the others; nodes count    *)
(* the pointers to them and are freed with the last.  The operations are   *)
(* functions from a heap to a heap and a node, as the member functions of  *)
(* Node are; the variables are trees, and one iterator as copyInConcretes  *)
(* holds it while it replaces entries of the very map it walks.            *)
(***************************************************************************)
EXTENDS Integers, Sequences, SequencesExt, FiniteSets, FiniteSetsExt

CONSTANTS
    Maps,         \* the variables that may hold a tree
    Entries,      \* the pairs of a key and a value a program stores
    MaxHolders,   \* bound: how many trees and iterators it has at a time
    NoTree,       \* a tree that is not constructed, or was destroyed
    NoIterator

ASSUME TreeParameters ==
    /\ IsFiniteSet(Maps)
    /\ \A e \in Entries : e[1] \in Int
    /\ NoTree \notin Nat /\ \A c \in SUBSET Entries : NoTree # c /\ NoIterator # c
    /\ NoIterator \notin [root : Nat, stack : Seq(Nat)]

VARIABLES
    heap,         \* heap[a]: the node at address a; nothing is elsewhere
    node,         \* node[m]: ImmutableTree::node of m, or NoTree
    it            \* an iterator's root and stack, or NoIterator

treeVars == <<heap, node, it>>

Terminator == 0

isTerminator(n) == n = Terminator

Key(h, n) == h[n].value[1]

-----------------------------------------------------------------------------
(* References *)

incref(h, n) == [h EXCEPT ![n].references = @ + 1]

(* A node whose last reference is dropped drops its references to the two  *)
(* below it.  The terminator, which holds one of its own, is never freed.  *)
decref(h, n) ==
    LET drop[m \in DOMAIN h] ==
          [count \in [DOMAIN h -> Int] |->
             LET less == [count EXCEPT ![m] = @ - 1]
             IN  IF less[m] > 0 \/ isTerminator(m)
                 THEN less
                 ELSE drop[h[m].right][drop[h[m].left][less]]]
        count == drop[n][[a \in DOMAIN h |-> h[a].references]]
    IN  [a \in {b \in DOMAIN h : count[b] > 0} |-> [h[a] EXCEPT !.references = count[a]]]

Larger(a, b) == IF a > b THEN a ELSE b

(* Where new finds room. *)
Unused(h) == CHOOSE a \in 1 .. Cardinality(DOMAIN h) : a \notin DOMAIN h

(* new Node(left, right, value) *)
NewNode(h, left, right, value) ==
    [heap |-> [a \in DOMAIN h \cup {Unused(h)} |->
                 IF a = Unused(h)
                 THEN [left |-> left, right |-> right, value |-> value, references |-> 1,
                       height |-> Larger(h[left].height, h[right].height) + 1]
                 ELSE h[a]],
     node |-> Unused(h)]

(* Mutant: a rotation keeps its reference to the node it took apart. *)
DropNothing(r, n) == r

Drop(r, n) == [r EXCEPT !.heap = decref(@, n)]

-----------------------------------------------------------------------------
(* Rotations.  The caller's references to left and right go into the       *)
(* result.                                                                 *)

(* Mutant: a single rotation also where the inner subtree is the higher. *)
balanceSingle(h, left, value, right) ==
    IF h[left].height > h[right].height + 2 THEN
        LET nlr == NewNode(incref(h, h[left].right), h[left].right, right, value)
            res == NewNode(incref(nlr.heap, h[left].left), h[left].left, nlr.node, h[left].value)
        IN  Drop(res, left)
    ELSE NewNode(h, left, right, value)

balance(h, left, value, right) ==
    IF h[left].height > h[right].height + 2 THEN
        LET ll == h[left].left
            lr == h[left].right
        IN  IF h[ll].height >= h[lr].height THEN
                LET nlr == NewNode(incref(h, lr), lr, right, value)
                    res == NewNode(incref(nlr.heap, ll), ll, nlr.node, h[left].value)
                IN  Drop(res, left)
            ELSE
                LET nll == NewNode(incref(incref(h, ll), h[lr].left), ll, h[lr].left, h[left].value)
                    nlr == NewNode(incref(nll.heap, h[lr].right), h[lr].right, right, value)
                    res == NewNode(nlr.heap, nll.node, nlr.node, h[lr].value)
                IN  Drop(res, left)
    ELSE IF h[right].height > h[left].height + 2 THEN
        LET rl == h[right].left
            rr == h[right].right
        IN  IF h[rr].height >= h[rl].height THEN
                LET nrl == NewNode(incref(h, rl), left, rl, value)
                    res == NewNode(incref(nrl.heap, rr), nrl.node, rr, h[right].value)
                IN  Drop(res, right)
            ELSE
                LET nrl == NewNode(incref(h, h[rl].left), left, h[rl].left, value)
                    nrr == NewNode(incref(incref(nrl.heap, h[rl].right), rr), h[rl].right, rr, h[right].value)
                    res == NewNode(nrr.heap, nrl.node, nrr.node, h[rl].value)
                IN  Drop(res, right)
    ELSE NewNode(h, left, right, value)

(* A node like n, with a new left or right subtree. *)
WithLeft(r, n) == balance(incref(r.heap, r.heap[n].right), r.node, r.heap[n].value, r.heap[n].right)

WithRight(r, n) == balance(incref(r.heap, r.heap[n].left), r.heap[n].left, r.heap[n].value, r.node)

Shared(h, n) == [heap |-> incref(h, n), node |-> n]

Leaf(h, e) == NewNode(incref(incref(h, Terminator), Terminator), Terminator, Terminator, e)

-----------------------------------------------------------------------------
(* Members of Node *)

(* insert and replace, which differ where they find the key. *)
Put(h, root, e, replacing) ==
    LET put[n \in DOMAIN h] ==
          IF isTerminator(n) THEN Leaf(h, e)
          ELSE IF e[1] < Key(h, n) THEN WithLeft(put[h[n].left], n)
          ELSE IF Key(h, n) < e[1] THEN WithRight(put[h[n].right], n)
          ELSE IF replacing
          THEN NewNode(incref(incref(h, h[n].left), h[n].right), h[n].left, h[n].right, e)
          ELSE Shared(h, n)
    IN  put[root]

insertAt(h, n, e) == Put(h, n, e, FALSE)

replaceAt(h, n, e) == Put(h, n, e, TRUE)

(* Mutant: what is right of the least node is lost with it. *)
popMinLosing(h, root) ==
    LET pop[n \in DOMAIN h \ {Terminator}] ==
          IF isTerminator(h[n].left) THEN Shared(h, Terminator) ELSE WithLeft(pop[h[n].left], n)
    IN  pop[root]

popMinAt(h, root) ==
    LET pop[n \in DOMAIN h \ {Terminator}] ==
          IF isTerminator(h[n].left) THEN Shared(h, h[n].right) ELSE WithLeft(pop[h[n].left], n)
    IN  pop[root]

(* From n down on one side. *)
Spine(h, root, side) ==
    LET spine[n \in DOMAIN h] == IF isTerminator(n) THEN << >> ELSE <<n>> \o spine[h[n][side]]
    IN  spine[root]

(* min; popMin yields the entry of the same node. *)
Leftmost(h, n) == Last(Spine(h, n, "left"))

(* Mutant: the least node of the right subtree stays there as well. *)
UniteWithoutPop(h, n) ==
    balance(incref(incref(h, h[n].left), h[n].right), h[n].left,
            h[Leftmost(h, h[n].right)].value, h[n].right)

(* The node takes the entry of the least node of its right subtree. *)
Unite(h, n) ==
    LET r == popMinAt(h, h[n].right)
    IN  balance(incref(r.heap, h[n].left), h[n].left, h[Leftmost(h, h[n].right)].value, r.node)

removeAt(h, root, k) ==
    LET remove[n \in DOMAIN h] ==
          IF isTerminator(n) THEN Shared(h, n)
          ELSE IF k < Key(h, n) THEN WithLeft(remove[h[n].left], n)
          ELSE IF Key(h, n) < k THEN WithRight(remove[h[n].right], n)
          ELSE IF isTerminator(h[n].left) THEN Shared(h, h[n].right)
          ELSE IF isTerminator(h[n].right) THEN Shared(h, h[n].left)
          ELSE Unite(h, n)
    IN  remove[root]

-----------------------------------------------------------------------------
(* Lookups from a root: all walk from it towards the key, and stop there.  *)
(* The result of the first two is a node, or Terminator for the null       *)
(* pointer.                                                                *)

PathTo(h, root, k) ==
    LET path[n \in DOMAIN h] ==
          IF isTerminator(n) THEN << >>
          ELSE IF k < Key(h, n) THEN <<n>> \o path[h[n].left]
          ELSE IF Key(h, n) < k THEN <<n>> \o path[h[n].right]
          ELSE <<n>>
    IN  path[root]

lookup(h, n, k) ==
    LET path == PathTo(h, n, k)
    IN  IF path # << >> /\ Key(h, Last(path)) = k THEN Last(path) ELSE Terminator

(* The last node at which the walk did not turn left. *)
lookup_previous(h, n, k) ==
    LET path == PathTo(h, n, k)
        before == {d \in DOMAIN path : Key(h, path[d]) <= k}
    IN  IF before = {} THEN Terminator ELSE path[Max(before)]

-----------------------------------------------------------------------------
(* Positions of iterators: the stack of the nodes from the root to the     *)
(* current one; empty at the end.                                          *)

(* Pops the stack until it leaves a subtree on the given side. *)
Climb(h, stack, side) ==
    SubSeq(stack, 1, Max({0} \cup {d \in 1 .. Len(stack) - 1 : h[stack[d]][side] = stack[d + 1]}))

(* operator++ *)
Successor(h, stack) ==
    LET right == h[Last(stack)].right
    IN  IF isTerminator(right) THEN Climb(h, stack, "left") ELSE stack \o Spine(h, right, "left")

(* operator-- *)
Predecessor(h, root, stack) ==
    IF stack = << >> THEN Spine(h, root, "right")
    ELSE LET left == h[Last(stack)].left
         IN  IF isTerminator(left) THEN Climb(h, stack, "right") ELSE stack \o Spine(h, left, "right")

(* Mutant: the last node on the path, which may be before k. *)
lower_boundBefore(h, n, k) == PathTo(h, n, k)

lower_bound(h, n, k) ==
    LET path == PathTo(h, n, k)
    IN  IF path # << >> /\ Key(h, Last(path)) < k THEN Successor(h, path) ELSE path

upper_bound(h, n, k) ==
    LET from == lower_bound(h, n, k)
    IN  IF from # << >> /\ Key(h, Last(from)) <= k THEN Successor(h, from) ELSE from

find(h, n, k) ==
    LET from == lower_bound(h, n, k)
    IN  IF from = << >> \/ k < Key(h, Last(from)) THEN << >> ELSE from

-----------------------------------------------------------------------------
(* Trees and the iterator *)

(* m = m.insert(...): operator= takes its reference before it drops the    *)
(* old one, and the temporary is destroyed.                                *)
Assign(m, r) ==
    /\ heap' = decref(decref(incref(r.heap, r.node), node[m]), r.node)
    /\ node' = [node EXCEPT ![m] = r.node]
    /\ UNCHANGED it

Holders == Cardinality({m \in Maps : node[m] # NoTree}) + (IF it = NoIterator THEN 0 ELSE 1)

construct(m) ==
    /\ node[m] = NoTree
    /\ Holders < MaxHolders
    /\ heap' = incref(heap, Terminator)
    /\ node' = [node EXCEPT ![m] = Terminator]
    /\ UNCHANGED it

copy(m, n) ==
    /\ node[m] = NoTree
    /\ node[n] # NoTree
    /\ Holders < MaxHolders
    /\ heap' = incref(heap, node[n])
    /\ node' = [node EXCEPT ![m] = node[n]]
    /\ UNCHANGED it

destroy(m) ==
    /\ node[m] # NoTree
    /\ heap' = decref(heap, node[m])
    /\ node' = [node EXCEPT ![m] = NoTree]
    /\ UNCHANGED it

insert(m, e) == node[m] # NoTree /\ Assign(m, insertAt(heap, node[m], e))

replace(m, e) == node[m] # NoTree /\ Assign(m, replaceAt(heap, node[m], e))

remove(m, k) == node[m] # NoTree /\ Assign(m, removeAt(heap, node[m], k))

begin(m) ==
    /\ node[m] # NoTree
    /\ it = NoIterator
    /\ Holders < MaxHolders
    /\ heap' = incref(heap, node[m])
    /\ it' = [root |-> node[m], stack |-> Spine(heap, node[m], "left")]
    /\ UNCHANGED node

advance ==
    /\ it # NoIterator
    /\ it.stack # << >>
    /\ it' = [it EXCEPT !.stack = Successor(heap, @)]
    /\ UNCHANGED <<heap, node>>

finish ==
    /\ it # NoIterator
    /\ heap' = decref(heap, it.root)
    /\ it' = NoIterator
    /\ UNCHANGED node

(* The terminator points to itself and is never freed. *)
TreeInit ==
    /\ heap = [a \in {Terminator} |->
                 [left |-> Terminator, right |-> Terminator, value |-> << >>,
                  references |-> 3, height |-> 0]]
    /\ node = [m \in Maps |-> NoTree]
    /\ it = NoIterator

SomeKeys == {e[1] : e \in Entries}

TreeNext ==
    \/ \E m \in Maps :
        \/ construct(m) \/ destroy(m) \/ begin(m)
        \/ \E n \in Maps : copy(m, n)
        \/ \E e \in Entries : insert(m, e) \/ replace(m, e)
        \/ \E k \in SomeKeys : remove(m, k)
    \/ advance
    \/ finish

TreeSpec == TreeInit /\ [][TreeNext]_treeVars

-----------------------------------------------------------------------------
(* Properties *)

Roots == {node[m] : m \in Maps} \ {NoTree}

Subtree(h, root) ==
    LET below[n \in DOMAIN h] ==
          IF isTerminator(n) THEN {} ELSE {n} \cup below[h[n].left] \cup below[h[n].right]
    IN  below[root]

(* The entries of a tree. *)
Content(h, n) == {h[a].value : a \in Subtree(h, n)}

(* Every node counts exactly the pointers to it, from nodes, trees and the *)
(* iterator, and is allocated as long as there is one: nothing leaks, and  *)
(* nothing that is shared with another tree or walked by an iterator is    *)
(* freed (decref, balance, operator=).                                     *)
RefsExact ==
    \A n \in DOMAIN heap :
        /\ heap[n].references > 0
        /\ heap[n].references =
              Cardinality({a \in DOMAIN heap : heap[a].left = n})
              + Cardinality({a \in DOMAIN heap : heap[a].right = n})
              + Cardinality({m \in Maps : node[m] = n})
              + (IF it # NoIterator /\ it.root = n THEN 1 ELSE 0)
              + (IF isTerminator(n) THEN 1 ELSE 0)

(* Whatever sequence of operations built it and whatever it shares, every  *)
(* tree is sorted, its heights are right, and no two subtrees of a node    *)
(* differ in height by more than the two that balance allows.              *)
Balanced ==
    \A n \in DOMAIN heap \ {Terminator} :
        LET l == heap[n].left
            r == heap[n].right
        IN  /\ \A a \in Subtree(heap, l) : Key(heap, a) < Key(heap, n)
            /\ \A a \in Subtree(heap, r) : Key(heap, n) < Key(heap, a)
            /\ heap[n].height = Larger(heap[l].height, heap[r].height) + 1
            /\ heap[l].height - heap[r].height \in -2 .. 2

(* Both, for trees that share nodes with any other trees and iterators. *)
WellFormed == RefsExact /\ Balanced

(* Every lookup finds the entry its comment promises: the one with the     *)
(* key, the last not after it, the first not before it or after it; from   *)
(* every position of an iterator the neighbours are the next entries; and  *)
(* no stack outgrows the height of its root, the size it is allocated      *)
(* with.                                                                   *)
LookupsRight ==
    \A n \in Roots, k \in SomeKeys :
        LET keys == {Key(heap, a) : a \in Subtree(heap, n)}
            at(stack) == IF stack = << >> THEN {} ELSE {Key(heap, Last(stack))}
            found(a) == IF isTerminator(a) THEN {} ELSE {Key(heap, a)}
            first(S) == {l \in S : \A j \in S : l <= j}
            last(S) == {l \in S : \A j \in S : j <= l}
            fits(stack) == Len(stack) <= heap[n].height
        IN  /\ found(lookup(heap, n, k)) = keys \cap {k}
            /\ found(lookup_previous(heap, n, k)) = last({l \in keys : l <= k})
            /\ at(lower_bound(heap, n, k)) = first({l \in keys : k <= l})
            /\ at(upper_bound(heap, n, k)) = first({l \in keys : k < l})
            /\ at(find(heap, n, k)) = keys \cap {k}
            /\ at(Predecessor(heap, n, lower_bound(heap, n, k))) = last({l \in keys : l < k})
            /\ keys # {} => found(Leftmost(heap, n)) = first(keys)
            /\ \A stack \in {lower_bound(heap, n, k), upper_bound(heap, n, k),
                               Predecessor(heap, n, lower_bound(heap, n, k))} : fits(stack)

(* Every operation on a tree that can be built, shared or not, returns a   *)
(* tree with exactly the entries it should have.                           *)
UpdatesRight ==
    \A n \in Roots, e \in Entries :
        LET entries(r) == Content(r.heap, r.node)
            others == {x \in Content(heap, n) : x[1] # e[1]}
        IN  /\ entries(insertAt(heap, n, e)) =
                 IF Content(heap, n) = others THEN others \cup {e} ELSE Content(heap, n)
            /\ entries(replaceAt(heap, n, e)) = others \cup {e}
            /\ entries(removeAt(heap, n, e[1])) = others

(* What a map reads and writes is its entries, as ImmutableMap.h promises. *)
OperationsRight == LookupsRight /\ UpdatesRight

(* The entries from the iterator's position on. *)
Rest ==
    IF it.stack = << >> THEN {}
    ELSE {x \in Content(heap, it.root) : Key(heap, Last(it.stack)) <= x[1]}

AsMaps == INSTANCE ImmutableMaps WITH
    NoMap <- NoTree,
    content <- [m \in Maps |-> IF node[m] = NoTree THEN NoTree ELSE Content(heap, node[m])],
    rest <- IF it = NoIterator THEN NoIterator ELSE Rest

(* The trees, their sharing and their iterators implement maps that are    *)
(* values: an operation changes the one map it is assigned to, and no      *)
(* other, and an iterator goes on over the entries it began with.  This is *)
(* AsMaps!Spec; TLC is spared the maps where the trees stay as they are.   *)
MapsSpec == AsMaps!Init /\ [][UNCHANGED treeVars \/ AsMaps!Next]_(AsMaps!vars)
=============================================================================
